---------------------------- MODULE GraphEditor ----------------------------
(***************************************************************************)
(* The graphs of a project in one browser: the user's edits, the save that *)
(* follows 600 ms after the last of them, its answer, and the reload that  *)
(* the user or an event of another user asks for.                          *)
(*                                                                         *)
(* There is one timer for all modules, and nothing keeps a second save     *)
(* from being sent while the first is under way.  The answer of a save     *)
(* replaces the graph, and a refusal sets it back to the one of the last   *)
(* load of the project, which the answers of saves do not renew.           *)
(*                                                                         *)
(* A graph is abstracted to one row version and the edits that are in it;  *)
(* the server saves it at once (ModuleSync shows what lies behind that).   *)
(***************************************************************************)
EXTENDS Naturals, FiniteSets

CONSTANTS Modules,
          First,      \* the module that is listed first
          Edits,      \* bound on the edits of the user
          Saves,      \* bound on the saves under way at a time
          None,       \* no module
          MaxFaults   \* bound on failures and on the saves of other users

ASSUME FirstAssumption == First \in Modules /\ None \notin Modules
ASSUME FaultsAssumption == MaxFaults \in Nat

VARIABLES server,     \* [Modules -> Graph]: what the database has
          graph,      \* [Modules -> Graph]: modules, what the browser shows
          confirmed,  \* [Modules -> Graph]: confirmedGraphs
          open,       \* the project is open: modules is not empty
          active,     \* activeId
          made,       \* the edits that the user has made
          timer,      \* the module that saveTimeout will save, or None
          status,     \* saveStatus
          save,       \* [Saves -> Save]
          fetch,      \* the request of selectProject, the only one that is not aborted
          forgotten,  \* the modules whose pending save was dropped
          upset,      \* the modules whose graph something may have made old in the browser
          faults

vars == <<server, graph, confirmed, open, active, made, timer, status, save, fetch, forgotten, upset, faults>>
project == <<graph, confirmed, open, active>>
ghosts == <<forgotten, upset>>

-----------------------------------------------------------------------------
Graph == [version : Nat, edits : SUBSET Edits]
Unsaved == [version |-> 0, edits |-> {}]
Start == [m \in Modules |-> [version |-> 1, edits |-> {}]]

Save == [at : {"none", "sent", "saved", "conflict", "failed"}, module : Modules, graph : Graph]
NoSave == [at |-> "none", module |-> First, graph |-> Unsaved]

Fetch == [at : {"none", "read"}, got : [Modules -> Graph]]
NoFetch == [at |-> "none", got |-> Start]

Free == {s \in Saves : save[s] = NoSave}
UnderWay(m) == {s \in Saves : save[s].at # "none" /\ save[s].module = m}
UpsetIf(m, cause) == upset' = IF cause THEN upset \cup {m} ELSE upset
Fault == faults < MaxFaults /\ faults' = faults + 1

\* The project has been loaded, and the first module perhaps saved once since then.
Init ==
    /\ server \in {Start, [Start EXCEPT ![First].version = 2]}
    /\ graph = server /\ confirmed = Start
    /\ open = TRUE /\ active = First
    /\ made = {} /\ timer = None /\ status = "idle"
    /\ save = [s \in Saves |-> NoSave]
    /\ fetch = NoFetch
    /\ forgotten = {}
    /\ upset = {}
    /\ faults = 0

-----------------------------------------------------------------------------
(* The user.                                                               *)

\* updateNode and its like, then debouncedSave: the timer is set anew, for the module
\* in view, whichever it was set for before.  The edits differ by nothing.
Edit ==
    /\ open /\ made # Edits
    /\ LET e == CHOOSE x \in Edits \ made : TRUE
       IN  /\ made' = made \cup {e}
           /\ graph' = [graph EXCEPT ![active].edits = @ \cup {e}]
    /\ status' = "saving"
    /\ timer' = active
    /\ forgotten' = forgotten \cup ({timer} \ {None, active})
    /\ UNCHANGED <<server, confirmed, open, active, save, fetch, upset, faults>>

\* selectModule; graphRequest, which it aborts, is never set.
SelectModule(m) ==
    /\ open /\ m # active
    /\ active' = m
    /\ UNCHANGED <<server, graph, confirmed, open, made, timer, status, save, fetch, ghosts, faults>>

\* selectProject(null): the timer goes on, and will find no module.
CloseProject ==
    /\ open
    /\ open' = FALSE
    /\ graph' = [m \in Modules |-> Unsaved]
    /\ fetch' = NoFetch
    /\ UNCHANGED <<server, confirmed, active, made, timer, status, save, ghosts, faults>>

-----------------------------------------------------------------------------
(* A save: persistActiveModule.                                            *)

\* Whatever is on the screen by now is sent.
Persist(m) ==
    IF open
    THEN /\ Free # {}
         /\ LET s == CHOOSE s \in Free : TRUE
            IN  save' = [save EXCEPT ![s] = [at |-> "sent", module |-> m, graph |-> graph[m]]]
         /\ status' = "saving"
         /\ forgotten' = forgotten \ {m}
         /\ UpsetIf(m, UnderWay(m) # {})
    ELSE UNCHANGED <<save, status, ghosts>>

\* Mutation: the module in view is saved, not the one that was edited.
FireForActive ==
    /\ timer # None
    /\ timer' = None
    /\ Persist(active)
    /\ UNCHANGED <<server, project, made, fetch, faults>>

\* The 600 ms are over.
Fire ==
    /\ timer # None
    /\ timer' = None
    /\ Persist(timer)
    /\ UNCHANGED <<server, project, made, fetch, faults>>

\* retryActiveModuleSave, which the user is offered after a conflict.
Retry ==
    /\ open /\ status = "conflict"
    /\ Persist(active)
    /\ UNCHANGED <<server, project, made, timer, fetch, faults>>

\* What the server makes of an accepted graph: nothing, if it has no change.
Saved(m, g) == IF g.edits = server[m].edits THEN server[m]
               ELSE [version |-> server[m].version + 1, edits |-> g.edits]

\* PUT /modules/:id: a graph of another version is refused.  It fails when another save
\* of the module has the lock, or without a cause of the editor's; and an error may
\* also be the answer of a save that is stored.
Serve(s) ==
    LET m == save[s].module
        g == save[s].graph
    IN  /\ save[s].at = "sent"
        /\ \/ /\ g.version = server[m].version
              /\ server' = [server EXCEPT ![m] = Saved(m, g)]
              /\ \/ /\ save' = [save EXCEPT ![s].at = "saved", ![s].graph = Saved(m, g)]
                    /\ UNCHANGED faults
                 \/ save' = [save EXCEPT ![s].at = "failed"] /\ Fault
           \/ /\ g.version # server[m].version
              /\ save' = [save EXCEPT ![s].at = "conflict"]
              /\ UNCHANGED <<server, faults>>
           \/ /\ save' = [save EXCEPT ![s].at = "failed"]
              /\ \/ \E u \in UnderWay(m) \ {s} : save[u].at = "sent" /\ UNCHANGED faults
                 \/ Fault
              /\ UNCHANGED server
        /\ UNCHANGED <<project, made, timer, status, fetch, ghosts>>

\* The graph of m in the browser is replaced, with the edits that are in it.
Replace(m, g) == graph' = [graph EXCEPT ![m] = IF open THEN g ELSE @]

\* Mutation: the answer is taken as a confirmation and nothing else.
AnswerSavedKeeping(s) ==
    /\ save[s].at = "saved"
    /\ status' = "saved"
    /\ save' = [save EXCEPT ![s] = NoSave]
    /\ UNCHANGED <<server, project, made, timer, fetch, ghosts, faults>>

\* The graph is the one of the answer, without the edits since the request was sent.
AnswerSaved(s) ==
    /\ save[s].at = "saved"
    /\ Replace(save[s].module, save[s].graph)
    /\ status' = "saved"
    /\ save' = [save EXCEPT ![s] = NoSave]
    /\ UNCHANGED <<server, confirmed, open, active, made, timer, fetch, ghosts, faults>>

\* The graph is the one of the last load, which may be older than what is saved.
AnswerRefused(s) ==
    LET m == save[s].module IN
    /\ save[s].at \in {"conflict", "failed"}
    /\ Replace(m, confirmed[m])
    /\ UpsetIf(m, confirmed[m] # server[m])
    /\ status' = save[s].at
    /\ save' = [save EXCEPT ![s] = NoSave]
    /\ UNCHANGED <<server, confirmed, open, active, made, timer, fetch, forgotten, faults>>

-----------------------------------------------------------------------------
(* A load: selectProject, also by reloadActiveProject.                     *)

\* GET /projects/:id, which does not use the cache; a request that was under way has
\* been aborted.
ReadProject ==
    /\ fetch' = [at |-> "read", got |-> server]
    /\ UNCHANGED <<server, project, made, timer, status, save, ghosts, faults>>

\* All graphs are replaced and confirmed, and the first module is in view.  The timer
\* goes on.
Load ==
    /\ fetch.at = "read"
    /\ graph' = fetch.got /\ confirmed' = fetch.got
    /\ open' = TRUE /\ active' = First
    /\ fetch' = NoFetch
    /\ forgotten' = {}
    /\ upset' = {m \in Modules : \/ fetch.got[m] # server[m]
                                 \/ m \in upset /\ UnderWay(m) # {}}
    /\ UNCHANGED <<server, made, timer, status, save, faults>>

\* The load fails, or is aborted by another.
LoadFails ==
    /\ fetch # NoFetch
    /\ fetch' = NoFetch
    /\ UNCHANGED <<server, project, made, timer, status, save, ghosts, faults>>

\* Another user saves the module.
OthersSave(m) ==
    /\ Fault
    /\ server' = [server EXCEPT ![m].version = @ + 1]
    /\ UpsetIf(m, TRUE)
    /\ UNCHANGED <<project, made, timer, status, save, fetch, forgotten>>

-----------------------------------------------------------------------------
Answer(s) == AnswerSaved(s) \/ AnswerRefused(s)

Next ==
    \/ \E m \in Modules : SelectModule(m) \/ OthersSave(m)
    \/ \E s \in Saves : Serve(s) \/ Answer(s)
    \/ Edit \/ CloseProject \/ Fire \/ Retry \/ ReadProject \/ Load \/ LoadFails

\* The timer runs out (strongly fair: only the bound on the saves can disable it), and a
\* save that was sent ends.  Nothing is assumed of the user and of loads.
Fairness ==
    /\ SF_vars(Fire)
    /\ \A s \in Saves : WF_vars(Serve(s)) /\ WF_vars(Answer(s))

Spec == Init /\ [][Next]_vars /\ Fairness

-----------------------------------------------------------------------------
(* Properties.                                                             *)

TypeOK ==
    /\ {server, graph, confirmed} \subseteq [Modules -> Graph]
    /\ open \in BOOLEAN /\ active \in Modules
    /\ made \subseteq Edits
    /\ timer \in Modules \cup {None}
    /\ status \in {"idle", "saving", "saved", "conflict", "failed"}
    /\ save \in [Saves -> Save]
    /\ fetch \in Fetch
    /\ forgotten \subseteq Modules
    /\ upset \subseteq Modules
    /\ faults \in 0 .. MaxFaults

\* An edit that is on the screen does not stay there unsaved, however edits, saves,
\* answers and loads overlap, unless the user went on to edit another module before
\* the 600 ms were over.
EditsSettle ==
    \A m \in Modules, e \in Edits :
        e \in graph[m].edits \ server[m].edits
        ~> e \in server[m].edits \/ e \notin graph[m].edits \/ m \in forgotten

\* The user is told of a conflict only if there was one since the graph was last loaded:
\* somebody else saved the module, the editor sent a save before the last was answered,
\* or an older graph was put in its place, by a refusal or by a load that a save overtook.
ConflictHasACause ==
    \A s \in Saves : save[s].at = "conflict" => save[s].module \in upset

\* No edit is stuck: one that is on the screen and not in the database waits for the
\* timer or is in a save that is under way, unless its module lost the timer to another.
UnsavedIsPending ==
    \A m \in Modules : \A e \in graph[m].edits \ server[m].edits :
        timer = m \/ m \in forgotten \/ \E s \in UnderWay(m) : e \in save[s].graph.edits

\* No save takes back an edit that an earlier one has stored, whatever was loaded or
\* answered between the two, and although saves of a module may overlap.
SavedStaysSaved == [][\A m \in Modules : server[m].edits \subseteq server'[m].edits]_vars

\* docs/agent-tasks/06-node-detail-surface.md:31: the state of saving that is shown is the
\* real one; when it is "saved", what is on the screen is saved.
SavedMeansSaved ==
    status = "saved" => \A m \in Modules : graph[m].edits \subseteq server[m].edits

=============================================================================
