---------------------------- MODULE BrowserProofs ----------------------------
(***************************************************************************)
(* Proofs about the three components that live in the browser, for any     *)
(* number of modules, edits, pages, changes, tabs and tokens: the graph    *)
(* editor (GraphEditor), the pages that hear of changes (ProjectEvents)    *)
(* and the sessions of the tabs (Sessions).  Each is a system of its own,  *)
(* and no theorem speaks of two of them.                                   *)
(*                                                                         *)
(* The editor.  What the browser holds under a version has everything that *)
(* the row has in that version (Known); what the server sent has nothing   *)
(* else (Clean).  Hence a save that is accepted takes nothing from a row,  *)
(* and an answer never brings an edit that is not saved.  Of a module that *)
(* nothing has made old, one save at most is under way, and of the present *)
(* version (Settled): the server cannot refuse it for a conflict.          *)
(*                                                                         *)
(* The pages.  What a handler announces it has committed (AtHand), and so  *)
(* has what is in the broker's queue and in the channels.                  *)
(*                                                                         *)
(* The sessions.  No two of them have the same hash (OneSessionPerHash),   *)
(* and the refresh token that a tab has traded for a new one is nobody's   *)
(* hash any more (Spent): the update that replaces a hash finds it for one *)
(* request only.  An access token that has not expired is of a session     *)
(* that was inserted (HandedOut), so that nothing makes a session live     *)
(* again that a logout has revoked.  A token that nothing has happened     *)
(* beside has the cookie of its session at hand (Alone), so that its       *)
(* logout finds the session (LeftBehind).                                  *)
(***************************************************************************)
EXTENDS GraphEditor, ProjectEvents, Sessions, TLAPS

-----------------------------------------------------------------------------
(***************************************************************************)
(* The graph editor                                                        *)
(***************************************************************************)

\* What a browser holds under a version has what the row has in that version, ...
Known(row, g) ==
  /\ g.version <= row.version
  /\ g.version = row.version => row.edits \subseteq g.edits

\* ... and nothing else, if the server sent it.
Clean(row, g) == Known(row, g) /\ g.edits \subseteq row.edits

GraphsKnown ==
  \A m \in Modules :
    /\ server[m].version > 0
    /\ Clean(server[m], Start[m])
    /\ Known(server[m], graph[m])
    /\ ~open => graph[m].edits = {}
    /\ Clean(server[m], confirmed[m])
    /\ Clean(server[m], fetch.got[m])
    /\ \A s \in UnderWay(m) :
         /\ Known(server[m], save[s].graph)
         /\ save[s].at = "saved" => Clean(server[m], save[s].graph)

\* Where nothing has made the graph old, one save at most is under way, which the
\* server takes; and what is on the screen with none is of the present version.
SettledAt(m) ==
  /\ \A s, u \in UnderWay(m) : s = u
  /\ \A s \in UnderWay(m) :
       /\ save[s].at = "sent" => save[s].graph.version = server[m].version
       /\ save[s].at = "saved" => save[s].graph = server[m]
       /\ save[s].at # "conflict"
  /\ open /\ UnderWay(m) = {} => graph[m].version = server[m].version

Settled == \A m \in Modules \ upset : SettledAt(m)

EditorInv == TypeOK /\ GraphsKnown /\ Settled /\ UnsavedIsPending

\* A row is as it was, or later with more in it.
Later(old, new) == new = old \/ (old.version < new.version /\ old.edits \subseteq new.edits)

LEMMA LaterKnows ==
  ASSUME NEW old \in Graph, NEW new \in Graph, NEW g \in Graph, Later(old, new), Known(old, g)
  PROVE  Known(new, g)
BY DEF Later, Known, Graph

LEMMA LaterCleans ==
  ASSUME NEW old \in Graph, NEW new \in Graph, NEW g \in Graph, Later(old, new), Clean(old, g)
  PROVE  Clean(new, g)
BY LaterKnows DEF Later, Clean

LEMMA EditorTypes ==
  ASSUME TypeOK
  PROVE  /\ server \in [Modules -> Graph] /\ graph \in [Modules -> Graph] /\ confirmed \in [Modules -> Graph]
         /\ save \in [Saves -> Save] /\ fetch \in Fetch /\ fetch.got \in [Modules -> Graph]
         /\ Unsaved \in Graph /\ Start \in [Modules -> Graph] /\ NoSave \in Save /\ NoFetch \in Fetch
<1>1. Unsaved \in Graph /\ Start \in [Modules -> Graph]
  BY DEF Unsaved, Start, Graph
<1>2. NoSave \in Save /\ NoFetch \in Fetch
  BY <1>1, FirstAssumption DEF NoSave, Save, NoFetch, Fetch
<1> QED
  BY <1>1, <1>2 DEF TypeOK, Fetch

\* What Persist does while the project is open.
LEMMA PersistSends ==
  ASSUME TypeOK, NEW m \in Modules, Persist(m), open
  PROVE  \E s \in Saves :
           /\ save[s] = NoSave
           /\ save' = [save EXCEPT ![s] = [at |-> "sent", module |-> m, graph |-> graph[m]]]
           /\ status' = "saving"
           /\ forgotten' = forgotten \ {m}
           /\ upset' = IF UnderWay(m) # {} THEN upset \cup {m} ELSE upset
<1> DEFINE s == CHOOSE s \in Free : TRUE
<1>1. s \in Free /\ save' = [save EXCEPT ![s] = [at |-> "sent", module |-> m, graph |-> graph[m]]]
  BY DEF Persist
<1>2. s \in Saves /\ save[s] = NoSave
  BY <1>1 DEF Free
<1> QED
  BY <1>1, <1>2 DEF Persist, UpsetIf

\* What the server makes of a save that it accepts.
LEMMA SavedIsLater ==
  ASSUME TypeOK, NEW m \in Modules, NEW g \in Graph, g.version = server[m].version, Known(server[m], g)
  PROVE  /\ Saved(m, g) \in Graph
         /\ Saved(m, g).edits = g.edits
         /\ Later(server[m], Saved(m, g))
         /\ Clean(Saved(m, g), Saved(m, g))
<1>1. server[m] \in Graph
  BY EditorTypes
<1> QED
  BY <1>1 DEF Saved, Graph, Known, Clean, Later

-----------------------------------------------------------------------------
LEMMA EditorInit == Init => EditorInv
<1> SUFFICES ASSUME Init
             PROVE  EditorInv
  OBVIOUS
<1>1. Start \in [Modules -> Graph] /\ NoSave \in Save /\ NoFetch \in Fetch
  BY FirstAssumption DEF Start, Graph, NoSave, Save, Unsaved, NoFetch, Fetch
<1>2. \A m \in Modules : /\ server[m] \in Graph /\ server[m].edits = {}
                        /\ server[m].version > 0 /\ server[m].version \in Nat
  BY <1>1 DEF Init, Start, Graph
<1>3. server \in [Modules -> Graph]
  <2>1. CASE server = Start
    BY <1>1, <2>1
  <2>2. CASE server = [Start EXCEPT ![First].version = 2]
    BY <1>1, <2>2 DEF Graph
  <2> QED
    BY <2>1, <2>2 DEF Init
<1>4. TypeOK
  BY <1>1, <1>3, FirstAssumption, FaultsAssumption DEF Init, TypeOK
<1>5. \A m \in Modules : UnderWay(m) = {}
  BY DEF Init, UnderWay, NoSave
<1>6. \A m \in Modules : Start[m].version = 1 /\ Start[m].edits = {}
  BY DEF Start
<1>7. GraphsKnown
  <2>1. \A m \in Modules : server[m].version >= 1
    BY <1>2
  <2> QED
    BY <1>2, <1>5, <1>6, <2>1 DEF Init, GraphsKnown, Known, Clean, NoFetch
<1>8. Settled /\ UnsavedIsPending
  BY <1>2, <1>5 DEF Init, Settled, SettledAt, UnsavedIsPending
<1> QED
  BY <1>4, <1>7, <1>8 DEF EditorInv

LEMMA EditorStepTypes == TypeOK /\ [Next]_vars => TypeOK'
<1> SUFFICES ASSUME TypeOK, [Next]_vars
             PROVE  TypeOK'
  OBVIOUS
<1>1. /\ server \in [Modules -> Graph] /\ graph \in [Modules -> Graph] /\ confirmed \in [Modules -> Graph]
      /\ save \in [Saves -> Save] /\ fetch \in Fetch /\ fetch.got \in [Modules -> Graph]
      /\ Unsaved \in Graph /\ Start \in [Modules -> Graph] /\ NoSave \in Save /\ NoFetch \in Fetch
  BY EditorTypes
<1>2. /\ open \in BOOLEAN /\ active \in Modules /\ made \subseteq Edits /\ timer \in Modules \cup {None}
      /\ status \in {"idle", "saving", "saved", "conflict", "failed"}
      /\ forgotten \subseteq Modules /\ upset \subseteq Modules /\ faults \in 0 .. MaxFaults
      /\ First \in Modules
  BY FirstAssumption DEF TypeOK
<1>3. ASSUME /\ server' \in [Modules -> Graph] /\ graph' \in [Modules -> Graph] /\ confirmed' \in [Modules -> Graph]
             /\ save' \in [Saves -> Save] /\ fetch' \in Fetch
             /\ open' \in BOOLEAN /\ active' \in Modules /\ made' \subseteq Edits /\ timer' \in Modules \cup {None}
             /\ status' \in {"idle", "saving", "saved", "conflict", "failed"}
             /\ forgotten' \subseteq Modules /\ upset' \subseteq Modules /\ faults' \in 0 .. MaxFaults
      PROVE  TypeOK'
  BY <1>3 DEF TypeOK
<1>4. Fault => faults' \in 0 .. MaxFaults
  BY <1>2, FaultsAssumption DEF Fault
<1>5. ASSUME NEW s \in Saves
      PROVE  save[s].module \in Modules /\ save[s].graph \in Graph /\ save[s] \in Save
  BY <1>1, <1>5 DEF Save
<1>6. ASSUME NEW m \in Modules, Persist(m)
      PROVE  /\ save' \in [Saves -> Save] /\ forgotten' \subseteq Modules /\ upset' \subseteq Modules
             /\ status' \in {"idle", "saving", "saved", "conflict", "failed"}
  <2>1. CASE open
    <3>1. PICK s \in Saves :
            /\ save' = [save EXCEPT ![s] = [at |-> "sent", module |-> m, graph |-> graph[m]]]
            /\ status' = "saving"
            /\ forgotten' = forgotten \ {m}
            /\ upset' = IF UnderWay(m) # {} THEN upset \cup {m} ELSE upset
      BY <1>6, <2>1, PersistSends
    <3>2. [at |-> "sent", module |-> m, graph |-> graph[m]] \in Save
      BY <1>1 DEF Save
    <3> QED
      BY <1>1, <1>2, <3>1, <3>2
  <2>2. CASE ~open
    BY <1>1, <1>2, <1>6, <2>2 DEF Persist, ghosts
  <2> QED
    BY <2>1, <2>2
<1>7. CASE Edit
  <2>1. PICK e \in Edits : graph' = [graph EXCEPT ![active].edits = @ \cup {e}] /\ made' = made \cup {e}
    <3>1. \E x : x \in Edits \ made
      BY <1>2, <1>7 DEF Edit
    <3> QED
      BY <1>7, <3>1 DEF Edit
  <2>2. graph' \in [Modules -> Graph]
    BY <1>1, <1>2, <2>1 DEF Graph
  <2>3. made' \subseteq Edits
    BY <1>2, <2>1
  <2> QED
    BY <1>1, <1>2, <1>3, <1>7, <2>2, <2>3 DEF Edit
<1>8. ASSUME NEW m \in Modules, SelectModule(m)
      PROVE  TypeOK'
  BY <1>1, <1>2, <1>3, <1>8 DEF SelectModule, ghosts
<1>9. CASE CloseProject
  BY <1>1, <1>2, <1>3, <1>9 DEF CloseProject, ghosts
<1>10. CASE Fire
  BY <1>1, <1>2, <1>3, <1>6, <1>10 DEF Fire, project
<1>11. CASE Retry
  BY <1>1, <1>2, <1>3, <1>6, <1>11 DEF Retry, project
<1>12. ASSUME NEW s \in Saves, Serve(s)
       PROVE  TypeOK'
  <2>1. server' \in [Modules -> Graph] /\ save' \in [Saves -> Save] /\ faults' \in 0 .. MaxFaults
    <3> DEFINE m == save[s].module
               g == save[s].graph
    <3>1. m \in Modules /\ g \in Graph /\ server[m] \in Graph
      BY <1>1, <1>5, <1>12
    <3>2. Saved(m, g) \in Graph
      BY <3>1 DEF Saved, Graph
    <3>3. \/ server' = server
          \/ server' = [server EXCEPT ![m] = Saved(m, g)]
      BY <1>12 DEF Serve
    <3>4. \/ save' = [save EXCEPT ![s].at = "saved", ![s].graph = Saved(m, g)]
          \/ save' = [save EXCEPT ![s].at = "failed"]
          \/ save' = [save EXCEPT ![s].at = "conflict"]
      BY <1>12 DEF Serve
    <3>5. faults' \in 0 .. MaxFaults
      BY <1>2, <1>4, <1>12 DEF Serve
    <3> HIDE DEF m, g
    <3>6. save' \in [Saves -> Save]
      BY <1>1, <1>5, <1>12, <3>1, <3>2, <3>4 DEF Save
    <3> QED
      BY <1>1, <3>1, <3>2, <3>3, <3>5, <3>6
  <2> QED
    BY <1>1, <1>2, <1>3, <1>12, <2>1 DEF Serve, project, ghosts
<1>13. ASSUME NEW s \in Saves, AnswerSaved(s)
       PROVE  TypeOK'
  <2>1. graph' \in [Modules -> Graph] /\ save' \in [Saves -> Save]
    BY <1>1, <1>5, <1>13 DEF AnswerSaved, Replace
  <2> QED
    BY <1>1, <1>2, <1>3, <1>13, <2>1 DEF AnswerSaved, ghosts
<1>14. ASSUME NEW s \in Saves, AnswerRefused(s)
       PROVE  TypeOK'
  <2>1. graph' \in [Modules -> Graph] /\ save' \in [Saves -> Save]
    BY <1>1, <1>5, <1>14 DEF AnswerRefused, Replace
  <2>2. upset' \subseteq Modules /\ status' \in {"conflict", "failed"}
    BY <1>2, <1>5, <1>14 DEF AnswerRefused, UpsetIf
  <2> QED
    BY <1>1, <1>2, <1>3, <1>14, <2>1, <2>2 DEF AnswerRefused
<1>15. CASE ReadProject
  <2>1. fetch' \in Fetch
    BY <1>1, <1>15 DEF ReadProject, Fetch
  <2> QED
    BY <1>1, <1>2, <1>3, <1>15, <2>1 DEF ReadProject, project, ghosts
<1>16. CASE Load
  BY <1>1, <1>2, <1>3, <1>16 DEF Load
<1>17. CASE LoadFails
  BY <1>1, <1>2, <1>3, <1>17 DEF LoadFails, project, ghosts
<1>18. ASSUME NEW m \in Modules, OthersSave(m)
       PROVE  TypeOK'
  <2>1. server' \in [Modules -> Graph]
    BY <1>1, <1>18 DEF OthersSave, Graph
  <2>2. upset' \subseteq Modules
    BY <1>2, <1>18 DEF OthersSave, UpsetIf
  <2> QED
    BY <1>1, <1>2, <1>3, <1>4, <1>18, <2>1, <2>2 DEF OthersSave, project
<1>19. CASE UNCHANGED vars
  BY <1>1, <1>2, <1>3, <1>19 DEF vars
<1> QED
  BY <1>7, <1>8, <1>9, <1>10, <1>11, <1>12, <1>13, <1>14, <1>15, <1>16, <1>17, <1>18, <1>19
  DEF Next, Answer

\* Saves of the editor and of other users add to the rows.
LEMMA RowsGrow ==
  ASSUME TypeOK, GraphsKnown, [Next]_vars, NEW m \in Modules
  PROVE  Later(server[m], server'[m])
<1>1. server \in [Modules -> Graph] /\ save \in [Saves -> Save]
  BY EditorTypes
<1>2. ASSUME NEW n \in Modules, OthersSave(n)
      PROVE  Later(server[m], server'[m])
  BY <1>1, <1>2 DEF OthersSave, Later, Graph
<1>3. ASSUME NEW s \in Saves, Serve(s)
      PROVE  Later(server[m], server'[m])
  <2> DEFINE n == save[s].module
             g == save[s].graph
  <2>1. n \in Modules /\ g \in Graph /\ s \in UnderWay(n)
    BY <1>1, <1>3 DEF Save, Serve, UnderWay
  <2>2. Known(server[n], g)
    BY <2>1 DEF GraphsKnown
  <2>3. CASE g.version = server[n].version /\ server' = [server EXCEPT ![n] = Saved(n, g)]
    BY <1>1, <2>1, <2>2, <2>3, SavedIsLater DEF Later
  <2>4. CASE server' = server
    BY <2>4 DEF Later
  <2> QED
    BY <1>3, <2>3, <2>4 DEF Serve
<1>4. CASE server' = server
  BY <1>4 DEF Later
<1> QED
  BY <1>2, <1>3, <1>4 DEF Next, Edit, SelectModule, CloseProject, Fire, Retry, ReadProject, Load, LoadFails,
     Answer, AnswerSaved, AnswerRefused, vars

\* A step keeps GraphsKnown if what it puts anywhere is known there.
LEMMA KnownKept ==
  ASSUME TypeOK, TypeOK', GraphsKnown,
         \A m \in Modules : Later(server[m], server'[m]),
         \A m \in Modules :
           \/ graph'[m] = graph[m] /\ open' = open
           \/ Known(server'[m], graph'[m]) /\ (~open' => graph'[m].edits = {}),
         \A m \in Modules : confirmed'[m] = confirmed[m] \/ Clean(server'[m], confirmed'[m]),
         \A m \in Modules : fetch'.got[m] = fetch.got[m] \/ Clean(server'[m], fetch'.got[m]),
         \A s \in Saves : save'[s].at # "none" =>
           \/ /\ save[s].at # "none" /\ save'[s].module = save[s].module
              /\ save'[s].graph = save[s].graph
              /\ save'[s].at = "saved" => save[s].at = "saved"
           \/ /\ Known(server'[save'[s].module], save'[s].graph)
              /\ save'[s].at = "saved" => Clean(server'[save'[s].module], save'[s].graph)
  PROVE  GraphsKnown'
<1> SUFFICES ASSUME NEW m \in Modules
             PROVE  /\ server'[m].version > 0
                    /\ Clean(server'[m], Start[m])
                    /\ Known(server'[m], graph'[m])
                    /\ ~open' => graph'[m].edits = {}
                    /\ Clean(server'[m], confirmed'[m])
                    /\ Clean(server'[m], fetch'.got[m])
                    /\ \A s \in UnderWay(m)' :
                         /\ Known(server'[m], save'[s].graph)
                         /\ save'[s].at = "saved" => Clean(server'[m], save'[s].graph)
  BY DEF GraphsKnown, Start
<1>1. /\ server[m] \in Graph /\ Start[m] \in Graph /\ graph[m] \in Graph /\ confirmed[m] \in Graph
      /\ fetch.got[m] \in Graph /\ server'[m] \in Graph
  <2>1. server \in [Modules -> Graph] /\ graph \in [Modules -> Graph] /\ confirmed \in [Modules -> Graph]
    BY EditorTypes
  <2>2. fetch.got \in [Modules -> Graph] /\ Start \in [Modules -> Graph]
    BY EditorTypes
  <2>3. server' \in [Modules -> Graph]
    BY DEF TypeOK
  <2> QED
    BY <2>1, <2>2, <2>3
<1>2. server'[m].version > 0
  BY <1>1 DEF GraphsKnown, Later, Graph
<1>3. /\ \A g \in Graph : Known(server[m], g) => Known(server'[m], g)
      /\ \A g \in Graph : Clean(server[m], g) => Clean(server'[m], g)
  BY <1>1, LaterKnows, LaterCleans
<1>4. Known(server'[m], graph'[m]) /\ (~open' => graph'[m].edits = {})
  BY <1>1, <1>3 DEF GraphsKnown
<1>5. Clean(server'[m], Start[m]) /\ Clean(server'[m], confirmed'[m]) /\ Clean(server'[m], fetch'.got[m])
  BY <1>1, <1>3 DEF GraphsKnown
<1>6. ASSUME NEW s \in UnderWay(m)'
      PROVE  /\ Known(server'[m], save'[s].graph)
             /\ save'[s].at = "saved" => Clean(server'[m], save'[s].graph)
  <2>1. s \in Saves /\ save'[s].at # "none" /\ save'[s].module = m
    BY <1>6 DEF UnderWay
  <2>2. CASE /\ save[s].at # "none" /\ save'[s].module = save[s].module
             /\ save'[s].graph = save[s].graph
             /\ save'[s].at = "saved" => save[s].at = "saved"
    <3>1. save[s].graph \in Graph
      BY <2>1, EditorTypes DEF Save
    <3>2. s \in UnderWay(m)
      BY <2>1, <2>2 DEF UnderWay
    <3>3. Known(server[m], save[s].graph) /\ (save[s].at = "saved" => Clean(server[m], save[s].graph))
      BY <3>2 DEF GraphsKnown
    <3> QED
      BY <1>3, <2>2, <3>1, <3>3
  <2> QED
    BY <2>1, <2>2
<1> QED
  BY <1>2, <1>4, <1>5, <1>6

LEMMA GraphsStayKnown ==
  ASSUME TypeOK, TypeOK', GraphsKnown, [Next]_vars
  PROVE  GraphsKnown'
<1>1. \A m \in Modules : Later(server[m], server'[m])
  BY RowsGrow
<1>2. /\ server \in [Modules -> Graph] /\ graph \in [Modules -> Graph] /\ confirmed \in [Modules -> Graph]
      /\ save \in [Saves -> Save] /\ fetch.got \in [Modules -> Graph] /\ active \in Modules
  BY EditorTypes DEF TypeOK
<1>3. \A m \in Modules : Clean(server[m], confirmed[m]) /\ Clean(server[m], fetch.got[m])
  BY DEF GraphsKnown
<1>4. \A m \in Modules : Clean(server[m], server[m])
  BY <1>2 DEF Clean, Known, Graph
<1>5. \A m \in Modules : Clean(server[m], Start[m]) /\ Start = NoFetch.got
  BY DEF GraphsKnown, NoFetch
<1>6. ASSUME NEW m \in Modules, Persist(m), graph' = graph, confirmed' = confirmed, open' = open,
             server' = server, fetch' = fetch
      PROVE  GraphsKnown'
  <2>1. CASE open
    <3>1. PICK s \in Saves : save' = [save EXCEPT ![s] = [at |-> "sent", module |-> m, graph |-> graph[m]]]
      BY <1>6, <2>1, PersistSends
    <3>2. Known(server'[m], graph[m])
      BY <1>6 DEF GraphsKnown
    <3>3. save'[s] = [at |-> "sent", module |-> m, graph |-> graph[m]]
      BY <1>2, <3>1
    <3>4. \A u \in Saves \ {s} : save'[u] = save[u]
      BY <1>2, <3>1
    <3> QED
      BY <1>1, <1>6, <3>2, <3>3, <3>4, KnownKept
  <2>2. CASE ~open
    BY <1>1, <1>6, <2>2, KnownKept DEF Persist
  <2> QED
    BY <2>1, <2>2
<1>7. CASE Edit
  <2>1. PICK e : graph' = [graph EXCEPT ![active].edits = @ \cup {e}]
    BY <1>7 DEF Edit
  <2>2. Known(server[active], graph[active])
    BY <1>2 DEF GraphsKnown
  <2>3. graph'[active].version = graph[active].version /\ graph[active].edits \subseteq graph'[active].edits
    BY <1>2, <2>1 DEF Graph
  <2>4. Known(server[active], graph'[active])
    BY <2>2, <2>3 DEF Known
  <2>5. \A m \in Modules \ {active} : graph'[m] = graph[m]
    BY <1>2, <2>1
  <2> QED
    BY <1>1, <1>2, <1>7, <2>4, <2>5, KnownKept DEF Edit
<1>8. ASSUME NEW m \in Modules, SelectModule(m)
      PROVE  GraphsKnown'
  BY <1>1, <1>8, KnownKept DEF SelectModule
<1>9. CASE CloseProject
  <2>1. \A m \in Modules : Known(server[m], Unsaved) /\ Unsaved.edits = {}
    BY <1>2 DEF GraphsKnown, Known, Unsaved, Graph
  <2>2. \A m \in Modules : graph'[m] = Unsaved
    BY <1>9 DEF CloseProject
  <2> QED
    BY <1>1, <1>5, <1>9, <2>1, <2>2, KnownKept DEF CloseProject
<1>10. CASE Fire
  <2>1. timer \in Modules
    BY <1>10 DEF Fire, TypeOK
  <2> QED
    BY <1>6, <1>10, <2>1 DEF Fire, project
<1>11. CASE Retry
  BY <1>2, <1>6, <1>11 DEF Retry, project
<1>12. ASSUME NEW s \in Saves, Serve(s)
       PROVE  GraphsKnown'
  <2> DEFINE m == save[s].module
             g == save[s].graph
  <2>1. m \in Modules /\ g \in Graph /\ s \in UnderWay(m)
    BY <1>2, <1>12 DEF Save, Serve, UnderWay
  <2>2. Known(server[m], g)
    BY <2>1 DEF GraphsKnown
  <2>3. \A u \in Saves \ {s} : save'[u] = save[u]
    BY <1>2, <1>12 DEF Serve
  <2>4. CASE g.version = server[m].version /\ save' = [save EXCEPT ![s].at = "saved", ![s].graph = Saved(m, g)]
             /\ server' = [server EXCEPT ![m] = Saved(m, g)]
    <3>1. save'[s].at = "saved" /\ save'[s].module = m /\ save'[s].graph = Saved(m, g)
      BY <1>2, <2>4 DEF Save
    <3>2. server'[m] = Saved(m, g)
      BY <1>2, <2>1, <2>4
    <3>3. Clean(server'[m], save'[s].graph) /\ Known(server'[m], save'[s].graph)
      BY <2>1, <2>2, <2>4, <3>1, <3>2, SavedIsLater DEF Clean
    <3> HIDE DEF m, g
    <3> QED
      BY <1>1, <1>12, <2>3, <3>1, <3>3, KnownKept DEF Serve, project
  <2>5. CASE save' = [save EXCEPT ![s].at = "failed"] \/ save' = [save EXCEPT ![s].at = "conflict"]
    <3>1. save'[s].at # "saved" /\ save'[s].module = save[s].module /\ save'[s].graph = save[s].graph
      BY <1>2, <2>5 DEF Save
    <3> QED
      BY <1>1, <1>12, <2>3, <3>1, KnownKept DEF Serve, project
  <2> QED
    BY <1>12, <2>4, <2>5 DEF Serve
<1>13. ASSUME NEW s \in Saves, NEW m \in Modules, save[s].at # "none", save[s].module = m, NEW g,
              Clean(server[m], g), Replace(m, g), save' = [save EXCEPT ![s] = NoSave],
              server' = server, open' = open, confirmed' = confirmed, fetch' = fetch
       PROVE  GraphsKnown'
  <2>1. \A n \in Modules \ {m} : graph'[n] = graph[n]
    BY <1>2, <1>13 DEF Replace
  <2>2. graph'[m] = IF open THEN g ELSE graph[m]
    BY <1>2, <1>13 DEF Replace
  <2>3. Known(server'[m], g)
    BY <1>13 DEF Clean
  <2>4. save'[s].at = "none" /\ \A u \in Saves \ {s} : save'[u] = save[u]
    BY <1>2, <1>13 DEF NoSave
  <2>5. \A n \in Modules : \/ graph'[n] = graph[n] /\ open' = open
                           \/ Known(server'[n], graph'[n]) /\ (~open' => graph'[n].edits = {})
    BY <1>13, <2>1, <2>2, <2>3 DEF TypeOK
  <2> QED
    BY <1>1, <1>13, <2>4, <2>5, KnownKept
<1>14. ASSUME NEW s \in Saves, Answer(s)
       PROVE  GraphsKnown'
  <2> DEFINE m == save[s].module
  <2>1. m \in Modules /\ s \in UnderWay(m) /\ save[s].at # "none"
    BY <1>2, <1>14 DEF Save, Answer, AnswerSaved, AnswerRefused, UnderWay
  <2>2. CASE AnswerSaved(s)
    <3>1. Clean(server[m], save[s].graph)
      BY <2>1, <2>2 DEF GraphsKnown, AnswerSaved
    <3> QED
      BY <1>13, <2>1, <2>2, <3>1 DEF AnswerSaved
  <2>3. CASE AnswerRefused(s)
    BY <1>3, <1>13, <2>1, <2>3 DEF AnswerRefused
  <2> QED
    BY <1>14, <2>2, <2>3 DEF Answer
<1>15. CASE ReadProject
  <2>1. fetch'.got = server
    BY <1>15 DEF ReadProject
  <2> QED
    BY <1>1, <1>4, <1>15, <2>1, KnownKept DEF ReadProject, project
<1>16. CASE Load
  <2>1. /\ \A m \in Modules : Clean(server'[m], graph'[m]) /\ Clean(server'[m], confirmed'[m])
                              /\ Clean(server'[m], fetch'.got[m])
        /\ open'
    BY <1>3, <1>5, <1>16 DEF Load
  <2> QED
    BY <1>1, <1>16, <2>1, KnownKept DEF Load, Clean
<1>17. CASE LoadFails
  BY <1>1, <1>5, <1>17, KnownKept DEF LoadFails, project
<1>18. ASSUME NEW m \in Modules, OthersSave(m)
       PROVE  GraphsKnown'
  BY <1>1, <1>18, KnownKept DEF OthersSave, project
<1>19. CASE UNCHANGED vars
  BY <1>1, <1>19, KnownKept DEF vars
<1> QED
  BY <1>7, <1>8, <1>9, <1>10, <1>11, <1>12, <1>14, <1>15, <1>16, <1>17, <1>18, <1>19 DEF Next

\* A step that touches no save of m leaves its saves under way.
LEMMA OtherSaves ==
  ASSUME NEW m \in Modules, NEW s \in Saves, s \notin UnderWay(m),
         save'[s].at = "none" \/ save'[s].module # m, \A u \in Saves \ {s} : save'[u] = save[u]
  PROVE  /\ UnderWay(m)' = UnderWay(m)
         /\ \A u \in UnderWay(m) : save'[u] = save[u]
BY DEF UnderWay

LEMMA SettledStays ==
  ASSUME TypeOK, GraphsKnown, Settled, [Next]_vars
  PROVE  Settled'
<1> SUFFICES ASSUME NEW m \in Modules, m \notin upset'
             PROVE  SettledAt(m)'
  BY DEF Settled
<1>1. /\ server \in [Modules -> Graph] /\ graph \in [Modules -> Graph] /\ save \in [Saves -> Save]
      /\ active \in Modules
  BY EditorTypes DEF TypeOK
<1>2. ASSUME m \notin upset
      PROVE  SettledAt(m)
  BY <1>2 DEF Settled
<1>3. ASSUME m \notin upset, server'[m] = server[m], UnderWay(m)' = UnderWay(m),
             \A u \in UnderWay(m) : save'[u] = save[u],
             open' => open /\ graph'[m].version = graph[m].version
      PROVE  SettledAt(m)'
  BY <1>2, <1>3 DEF SettledAt
<1>4. ASSUME save' = save
      PROVE  UnderWay(m)' = UnderWay(m) /\ \A u \in UnderWay(m) : save'[u] = save[u]
  BY <1>4 DEF UnderWay
<1>5. ASSUME NEW n \in Modules, Persist(n), server' = server, graph' = graph, open' = open
      PROVE  SettledAt(m)'
  <2>1. CASE open
    <3>1. PICK s \in Saves :
            /\ save[s] = NoSave
            /\ save' = [save EXCEPT ![s] = [at |-> "sent", module |-> n, graph |-> graph[n]]]
            /\ upset' = IF UnderWay(n) # {} THEN upset \cup {n} ELSE upset
      BY <1>5, <2>1, PersistSends
    <3>2. save'[s] = [at |-> "sent", module |-> n, graph |-> graph[n]] /\ \A u \in Saves \ {s} : save'[u] = save[u]
      BY <1>1, <3>1
    <3>3. m \notin upset /\ (n = m => UnderWay(m) = {})
      BY <3>1
    <3>4. s \notin UnderWay(m)
      BY <3>1 DEF UnderWay, NoSave
    <3>5. CASE n = m
      <4>1. UnderWay(m)' = {s}
        BY <3>2, <3>3, <3>5 DEF UnderWay
      <4>2. graph[m].version = server[m].version
        BY <1>2, <2>1, <3>3, <3>5 DEF SettledAt
      <4> QED
        BY <1>5, <3>2, <3>5, <4>1, <4>2 DEF SettledAt
    <3>6. CASE n # m
      <4>1. UnderWay(m)' = UnderWay(m) /\ \A u \in UnderWay(m) : save'[u] = save[u]
        BY <3>2, <3>4, <3>6, OtherSaves
      <4> QED
        BY <1>3, <1>5, <3>3, <4>1
    <3> QED
      BY <3>5, <3>6
  <2>2. CASE ~open
    BY <1>3, <1>4, <1>5, <2>2 DEF Persist, ghosts
  <2> QED
    BY <2>1, <2>2
<1>6. CASE Edit
  <2>1. PICK e : graph' = [graph EXCEPT ![active].edits = @ \cup {e}]
    BY <1>6 DEF Edit
  <2>2. graph'[m].version = graph[m].version
    BY <1>1, <2>1 DEF Graph
  <2> QED
    BY <1>3, <1>4, <1>6, <2>2 DEF Edit
<1>7. ASSUME NEW n \in Modules, SelectModule(n)
      PROVE  SettledAt(m)'
  BY <1>3, <1>4, <1>7 DEF SelectModule, ghosts
<1>8. CASE CloseProject
  BY <1>3, <1>4, <1>8 DEF CloseProject, ghosts
<1>9. CASE Fire
  <2>1. timer \in Modules
    BY <1>9 DEF Fire, TypeOK
  <2> QED
    BY <1>5, <1>9, <2>1 DEF Fire, project
<1>10. CASE Retry
  BY <1>1, <1>5, <1>10 DEF Retry, project
<1>11. ASSUME NEW s \in Saves, Serve(s)
       PROVE  SettledAt(m)'
  <2> DEFINE n == save[s].module
             g == save[s].graph
  <2>1. n \in Modules /\ g \in Graph /\ s \in UnderWay(n) /\ save[s].at = "sent"
    BY <1>1, <1>11 DEF Save, Serve, UnderWay
  <2>2. m \notin upset
    BY <1>11 DEF Serve, ghosts
  <2>3. /\ \A u \in Saves \ {s} : save'[u] = save[u]
        /\ save'[s].module = n
        /\ save'[s].at \in {"saved", "conflict", "failed"}
    BY <1>1, <1>11 DEF Serve, Save
  <2>4. CASE n # m
    <3>1. UnderWay(m)' = UnderWay(m) /\ \A u \in UnderWay(m) : save'[u] = save[u]
      <4>1. s \notin UnderWay(m)
        BY <2>4 DEF UnderWay
      <4> QED
        BY <2>3, <2>4, <4>1, OtherSaves
    <3>2. server'[m] = server[m]
      BY <1>1, <1>11, <2>4 DEF Serve
    <3> QED
      BY <1>3, <1>11, <2>2, <3>1, <3>2 DEF Serve, project
  <2>5. CASE n = m
    <3>1. g.version = server[m].version /\ UnderWay(m) = {s}
      BY <1>2, <2>1, <2>2, <2>5 DEF SettledAt
    <3>2. UnderWay(m)' = {s}
      BY <2>3, <2>5, <3>1 DEF UnderWay
    <3>3. \/ save' = [save EXCEPT ![s].at = "saved", ![s].graph = Saved(m, g)]
             /\ server' = [server EXCEPT ![m] = Saved(m, g)]
          \/ save' = [save EXCEPT ![s].at = "failed"]
      BY <1>11, <2>5, <3>1 DEF Serve
    <3>4. \/ save'[s].at = "saved" /\ save'[s].graph = Saved(m, g) /\ server'[m] = Saved(m, g)
          \/ save'[s].at = "failed"
      BY <1>1, <3>3 DEF Save
    <3> QED
      BY <3>2, <3>4 DEF SettledAt
  <2> QED
    BY <2>4, <2>5
<1>12. ASSUME NEW s \in Saves, NEW n \in Modules, save[s].at # "none", save[s].module = n, NEW g,
              Replace(n, g), save' = [save EXCEPT ![s] = NoSave], m \notin upset,
              server' = server, open' = open, n = m => g = server[m]
       PROVE  SettledAt(m)'
  <2>1. s \in UnderWay(n) /\ save'[s].at = "none" /\ \A u \in Saves \ {s} : save'[u] = save[u]
    BY <1>1, <1>12 DEF UnderWay, NoSave
  <2>2. CASE n = m
    <3>1. UnderWay(m)' = {}
      <4>1. UnderWay(m) = {s}
        BY <1>2, <1>12, <2>1, <2>2 DEF SettledAt
      <4> QED
        BY <2>1, <4>1 DEF UnderWay
    <3>2. open => graph'[m] = server'[m]
      BY <1>1, <1>12, <2>2 DEF Replace
    <3> QED
      BY <1>12, <3>1, <3>2 DEF SettledAt
  <2>3. CASE n # m
    <3>1. UnderWay(m)' = UnderWay(m) /\ \A u \in UnderWay(m) : save'[u] = save[u]
      <4>1. s \notin UnderWay(m)
        BY <1>12, <2>3 DEF UnderWay
      <4> QED
        BY <2>1, <4>1, OtherSaves
    <3>2. graph'[m] = graph[m]
      BY <1>1, <1>12, <2>3 DEF Replace
    <3> QED
      BY <1>3, <1>12, <3>1, <3>2
  <2> QED
    BY <2>2, <2>3
<1>13. ASSUME NEW s \in Saves, Answer(s)
       PROVE  SettledAt(m)'
  <2> DEFINE n == save[s].module
  <2>1. n \in Modules /\ s \in UnderWay(n) /\ save[s].at # "none"
    BY <1>1, <1>13 DEF Save, Answer, AnswerSaved, AnswerRefused, UnderWay
  <2>2. CASE AnswerSaved(s)
    <3>1. m \notin upset
      BY <2>2 DEF AnswerSaved, ghosts
    <3>2. n = m => save[s].graph = server[m]
      BY <1>2, <2>1, <2>2, <3>1 DEF SettledAt, AnswerSaved
    <3> QED
      BY <1>12, <2>1, <2>2, <3>1, <3>2 DEF AnswerSaved
  <2>3. CASE AnswerRefused(s)
    <3>1. m \notin upset /\ (n = m => confirmed[n] = server[m])
      BY <2>3 DEF AnswerRefused, UpsetIf
    <3> QED
      BY <1>12, <2>1, <2>3, <3>1 DEF AnswerRefused
  <2> QED
    BY <1>13, <2>2, <2>3 DEF Answer
<1>14. CASE ReadProject \/ LoadFails
  BY <1>3, <1>4, <1>14 DEF ReadProject, LoadFails, project, ghosts
<1>15. CASE Load
  <2>1. fetch.got[m] = server[m] /\ (m \notin upset \/ UnderWay(m) = {})
    BY <1>15 DEF Load
  <2>2. UnderWay(m)' = UnderWay(m) /\ \A u \in UnderWay(m) : save'[u] = save[u]
    BY <1>4, <1>15 DEF Load
  <2>3. graph'[m] = server[m] /\ server' = server
    BY <1>15, <2>1 DEF Load
  <2> QED
    BY <1>2, <2>1, <2>2, <2>3 DEF SettledAt
<1>16. ASSUME NEW n \in Modules, OthersSave(n)
       PROVE  SettledAt(m)'
  <2>1. m \notin upset /\ server'[m] = server[m]
    BY <1>1, <1>16 DEF OthersSave, UpsetIf
  <2> QED
    BY <1>3, <1>4, <1>16, <2>1 DEF OthersSave, project
<1>17. CASE UNCHANGED vars
  BY <1>3, <1>4, <1>17 DEF vars
<1> QED
  BY <1>6, <1>7, <1>8, <1>9, <1>10, <1>11, <1>13, <1>14, <1>15, <1>16, <1>17 DEF Next

LEMMA PendingStays ==
  ASSUME TypeOK, TypeOK', GraphsKnown, UnsavedIsPending, [Next]_vars
  PROVE  UnsavedIsPending'
<1> SUFFICES ASSUME NEW m \in Modules, NEW e \in graph'[m].edits, e \notin server'[m].edits
             PROVE  \/ timer' = m \/ m \in forgotten'
                    \/ \E s \in UnderWay(m)' : e \in save'[s].graph.edits
  BY DEF UnsavedIsPending
<1>1. /\ server \in [Modules -> Graph] /\ graph \in [Modules -> Graph] /\ save \in [Saves -> Save]
      /\ active \in Modules /\ m # None
  BY EditorTypes, FirstAssumption DEF TypeOK
<1>2. e \notin server[m].edits
  BY RowsGrow DEF Later
<1>3. ASSUME e \in graph[m].edits
      PROVE  timer = m \/ m \in forgotten \/ \E s \in UnderWay(m) : e \in save[s].graph.edits
  BY <1>2, <1>3 DEF UnsavedIsPending
<1>4. e \in graph[m].edits => open
  BY DEF GraphsKnown, TypeOK
<1>5. ASSUME save' = save
      PROVE  UnderWay(m)' = UnderWay(m)
  BY <1>5 DEF UnderWay
<1>6. ASSUME graph'[m] = graph[m], save' = save, timer' = timer, forgotten' = forgotten
      PROVE  \/ timer' = m \/ m \in forgotten'
             \/ \E s \in UnderWay(m)' : e \in save'[s].graph.edits
  BY <1>3, <1>5, <1>6
<1>7. ASSUME NEW n \in Modules, Persist(n), graph' = graph, timer = m => n = m \/ timer' = m
      PROVE  \/ timer' = m \/ m \in forgotten'
             \/ \E s \in UnderWay(m)' : e \in save'[s].graph.edits
  <2>1. PICK s \in Saves :
          /\ save[s] = NoSave
          /\ save' = [save EXCEPT ![s] = [at |-> "sent", module |-> n, graph |-> graph[n]]]
          /\ forgotten' = forgotten \ {n}
    BY <1>4, <1>7, PersistSends
  <2>2. save'[s] = [at |-> "sent", module |-> n, graph |-> graph[n]] /\ \A u \in Saves \ {s} : save'[u] = save[u]
    BY <1>1, <2>1
  <2>3. CASE n = m
    <3>1. s \in UnderWay(m)'
      BY <2>2, <2>3 DEF UnderWay
    <3> QED
      BY <1>7, <2>2, <2>3, <3>1
  <2>4. CASE n # m
    <3>1. s \notin UnderWay(m)
      BY <2>1 DEF UnderWay, NoSave
    <3>2. UnderWay(m)' = UnderWay(m) /\ \A u \in UnderWay(m) : save'[u] = save[u]
      BY <2>2, <2>4, <3>1, OtherSaves
    <3> QED
      BY <1>3, <1>7, <2>1, <2>4, <3>2
  <2> QED
    BY <2>3, <2>4
<1>8. CASE Edit
  <2>1. CASE m = active
    BY <1>8, <2>1 DEF Edit
  <2>2. CASE m # active
    <3>1. graph'[m] = graph[m]
      BY <1>1, <1>8, <2>2 DEF Edit
    <3>2. timer = m => m \in forgotten'
      BY <1>1, <1>8, <2>2 DEF Edit
    <3>3. m \in forgotten => m \in forgotten'
      BY <1>8 DEF Edit
    <3> QED
      BY <1>3, <1>5, <1>8, <3>1, <3>2, <3>3 DEF Edit
  <2> QED
    BY <2>1, <2>2
<1>9. ASSUME NEW n \in Modules, SelectModule(n)
      PROVE  \/ timer' = m \/ m \in forgotten'
             \/ \E s \in UnderWay(m)' : e \in save'[s].graph.edits
  BY <1>6, <1>9 DEF SelectModule, ghosts
<1>10. CASE CloseProject
  BY <1>10 DEF CloseProject, Unsaved
<1>11. CASE Fire
  <2>1. timer \in Modules
    BY <1>11 DEF Fire, TypeOK
  <2> QED
    BY <1>7, <1>11, <2>1 DEF Fire, project
<1>12. CASE Retry
  BY <1>1, <1>7, <1>12 DEF Retry, project
<1>13. ASSUME NEW s \in Saves, Serve(s)
       PROVE  \/ timer' = m \/ m \in forgotten'
              \/ \E u \in UnderWay(m)' : e \in save'[u].graph.edits
  <2> DEFINE n == save[s].module
             g == save[s].graph
  <2>1. n \in Modules /\ g \in Graph /\ s \in UnderWay(n)
    BY <1>1, <1>13 DEF Save, Serve, UnderWay
  <2>2. \A u \in Saves \ {s} : save'[u] = save[u]
    BY <1>1, <1>13 DEF Serve
  <2>3. save'[s].module = n /\ save'[s].at # "none" /\ save'[s].graph.edits = g.edits
    <3>1. \/ g.version = server[n].version /\ save' = [save EXCEPT ![s].at = "saved", ![s].graph = Saved(n, g)]
          \/ save' = [save EXCEPT ![s].at = "failed"]
          \/ save' = [save EXCEPT ![s].at = "conflict"]
      BY <1>13 DEF Serve
    <3>2. g.version = server[n].version => Saved(n, g).edits = g.edits
      BY <2>1, SavedIsLater DEF GraphsKnown
    <3> QED
      BY <1>1, <3>1, <3>2 DEF Save
  <2>4. \A u \in UnderWay(m) : u \in UnderWay(m)' /\ save'[u].graph.edits = save[u].graph.edits
    BY <2>2, <2>3 DEF UnderWay
  <2> QED
    BY <1>3, <1>13, <2>4 DEF Serve, project, ghosts
<1>14. ASSUME NEW s \in Saves, NEW g, Replace(save[s].module, g), Clean(server[save[s].module], g),
              save' = [save EXCEPT ![s] = NoSave], server' = server, timer' = timer, forgotten' = forgotten
       PROVE  \/ timer' = m \/ m \in forgotten'
              \/ \E u \in UnderWay(m)' : e \in save'[u].graph.edits
  <2>1. CASE ~open
    BY <1>1, <1>4, <1>14, <2>1 DEF Replace
  <2>2. CASE open
    <3>1. save[s].module # m
      BY <1>1, <1>14, <2>2 DEF Replace, Clean
    <3>2. graph'[m] = graph[m] /\ s \notin UnderWay(m)
      BY <1>1, <1>14, <3>1 DEF Replace, UnderWay
    <3>3. UnderWay(m)' = UnderWay(m) /\ \A u \in UnderWay(m) : save'[u] = save[u]
      <4>1. save'[s].at = "none" /\ \A u \in Saves \ {s} : save'[u] = save[u]
        BY <1>1, <1>14 DEF NoSave
      <4> QED
        BY <3>2, <4>1, OtherSaves
    <3> QED
      BY <1>3, <1>14, <3>2, <3>3
  <2> QED
    BY <2>1, <2>2
<1>15. ASSUME NEW s \in Saves, Answer(s)
       PROVE  \/ timer' = m \/ m \in forgotten'
              \/ \E u \in UnderWay(m)' : e \in save'[u].graph.edits
  <2>1. save[s].module \in Modules
    BY <1>1 DEF Save
  <2>2. CASE AnswerSaved(s)
    <3>1. Clean(server[save[s].module], save[s].graph)
      BY <2>1, <2>2 DEF GraphsKnown, UnderWay, AnswerSaved
    <3> QED
      BY <1>14, <2>2, <3>1 DEF AnswerSaved, ghosts
  <2>3. CASE AnswerRefused(s)
    <3>1. Clean(server[save[s].module], confirmed[save[s].module])
      BY <2>1 DEF GraphsKnown
    <3> QED
      BY <1>14, <2>3, <3>1 DEF AnswerRefused
  <2> QED
    BY <1>15, <2>2, <2>3 DEF Answer
<1>16. CASE Load
  BY <1>2, <1>16 DEF Load, GraphsKnown, Clean
<1>17. CASE ReadProject \/ LoadFails
  BY <1>6, <1>17 DEF ReadProject, LoadFails, project, ghosts
<1>18. ASSUME NEW n \in Modules, OthersSave(n)
       PROVE  \/ timer' = m \/ m \in forgotten'
              \/ \E s \in UnderWay(m)' : e \in save'[s].graph.edits
  BY <1>6, <1>18 DEF OthersSave, project
<1>19. CASE UNCHANGED vars
  BY <1>6, <1>19 DEF vars
<1> QED
  BY <1>8, <1>9, <1>10, <1>11, <1>12, <1>13, <1>15, <1>16, <1>17, <1>18, <1>19 DEF Next

LEMMA EditorInvAlways == Spec => []EditorInv
<1>1. EditorInv /\ [Next]_vars => EditorInv'
  BY EditorStepTypes, GraphsStayKnown, SettledStays, PendingStays DEF EditorInv
<1> QED
  BY <1>1, EditorInit, PTL DEF Spec

\* Every variable of the editor keeps its type: no timer, save or load refers to a module
\* that the project has not, and all graphs have versions.
THEOREM EditorTypeCorrect == Spec => []TypeOK
<1>1. EditorInv => TypeOK
  BY DEF EditorInv
<1> QED
  BY <1>1, EditorInvAlways, PTL

\* persistActiveModule is refused for a conflict only when somebody else saved the module,
\* when it sent a save before the answer of the last, or when an older graph was put back.
THEOREM ConflictHasACauseHolds == Spec => []ConflictHasACause
<1>1. EditorInv => ConflictHasACause
  <2> SUFFICES ASSUME EditorInv, NEW s \in Saves, save[s].at = "conflict"
               PROVE  save[s].module \in upset
    BY DEF ConflictHasACause
  <2>1. save[s].module \in Modules
    BY EditorTypes DEF EditorInv, Save
  <2>2. s \in UnderWay(save[s].module)
    BY DEF UnderWay
  <2> QED
    BY <2>1, <2>2 DEF EditorInv, Settled, SettledAt
<1> QED
  BY <1>1, EditorInvAlways, PTL

\* An edit on the screen that is not in the database waits for saveTimeout or is in a save
\* under way, unless the timer was set anew for another module: nothing else loses it.
THEOREM UnsavedIsPendingHolds == Spec => []UnsavedIsPending
<1>1. EditorInv => UnsavedIsPending
  BY DEF EditorInv
<1> QED
  BY <1>1, EditorInvAlways, PTL

\* A save that the server accepts has all the edits of the row, though the browser may
\* have reloaded, rolled back or sent another save since it read that version.
THEOREM SavedStaysSavedHolds == Spec => SavedStaysSaved
<1>1. EditorInv /\ [Next]_vars => [\A m \in Modules : server[m].edits \subseteq server'[m].edits]_vars
  <2> SUFFICES ASSUME EditorInv, [Next]_vars, NEW m \in Modules
               PROVE  server[m].edits \subseteq server'[m].edits
    OBVIOUS
  <2>1. Later(server[m], server'[m])
    BY RowsGrow DEF EditorInv
  <2> QED
    BY <2>1 DEF Later
<1> QED
  BY <1>1, EditorInvAlways, PTL DEF SavedStaysSaved, Spec

-----------------------------------------------------------------------------
(***************************************************************************)
(* The pages that hear of changes                                          *)
(***************************************************************************)
\* What the handler of a change has done so far.
AtHand ==
  \A c \in Changes :
    /\ handler[c].at = "begun" /\ c \in Records => c \in ToSet(begun)
    /\ handler[c].at = "committed" => c \in committed

EventsInv == EventsTypeOK /\ AtHand /\ ToldAfterCommit

LEMMA SetOfSeq ==
  ASSUME NEW S, NEW s \in Seq(S)
  PROVE  /\ \A c \in S : Append(s, c) \in Seq(S) /\ ToSet(Append(s, c)) = ToSet(s) \cup {c}
         /\ s # << >> => /\ Tail(s) \in Seq(S) /\ ToSet(Tail(s)) \subseteq ToSet(s)
                         /\ Head(s) \in S /\ Head(s) \in ToSet(s)
<1>1. ASSUME NEW c \in S
      PROVE  ToSet(Append(s, c)) = ToSet(s) \cup {c}
  <2>1. DOMAIN Append(s, c) = 1 .. Len(s) + 1 /\ DOMAIN s = 1 .. Len(s)
    OBVIOUS
  <2>2. \A i \in 1 .. Len(s) : Append(s, c)[i] = s[i]
    OBVIOUS
  <2>3. Append(s, c)[Len(s) + 1] = c /\ 1 .. Len(s) + 1 = 1 .. Len(s) \cup {Len(s) + 1}
    OBVIOUS
  <2> QED
    BY <2>1, <2>2, <2>3 DEF ToSet
<1>2. ASSUME s # << >>
      PROVE  /\ Tail(s) \in Seq(S) /\ ToSet(Tail(s)) \subseteq ToSet(s)
             /\ Head(s) \in S /\ Head(s) \in ToSet(s)
  <2>1. 1 \in DOMAIN s /\ Head(s) = s[1] /\ Tail(s) \in Seq(S)
    BY <1>2
  <2>2. \A i \in DOMAIN Tail(s) : i + 1 \in DOMAIN s /\ Tail(s)[i] = s[i + 1]
    BY <1>2
  <2> QED
    BY <2>1, <2>2 DEF ToSet
<1> QED
  BY <1>1, <1>2

LEMMA EventTypes ==
  ASSUME EventsTypeOK
  PROVE  /\ handler \in [Changes -> Handler]
         /\ begun \in Seq(Records) /\ queue \in Seq(Moves)
         /\ stream \in [Pages -> Stream] /\ load \in [Pages -> PageLoad]
         /\ shown \in [Pages -> SUBSET Changes] /\ owed \in [Pages -> SUBSET Changes]
         /\ Closed \in Stream /\ NoLoad \in PageLoad
         /\ notices \in [Pages -> SUBSET committed] /\ committed \subseteq Changes
<1>1. << >> \in Seq(Changes)
  OBVIOUS
<1> QED
  BY <1>1 DEF EventsTypeOK, Closed, Stream, NoLoad, PageLoad

LEMMA EventsInvInit == EventsInit => EventsInv
<1> SUFFICES ASSUME EventsInit
             PROVE  EventsInv
  OBVIOUS
<1>1. /\ handler \in [Changes -> Handler]
      /\ stream \in [Pages -> Stream]
      /\ load \in [Pages -> PageLoad]
      /\ notices \in [Pages -> SUBSET committed]
  BY DEF EventsInit, Handler, Stream, Closed, PageLoad, NoLoad
<1>2. EventsTypeOK
  BY <1>1, BoundsAssumption DEF EventsInit, EventsTypeOK
<1>3. ToSet(<< >>) = {}
  BY DEF ToSet
<1>4. AtHand /\ ToldAfterCommit
  BY <1>3 DEF EventsInit, AtHand, ToldAfterCommit, Closed
<1> QED
  BY <1>2, <1>4 DEF EventsInv

\* What is announced goes to the channels that have room, and nowhere else.
LEMMA Emits ==
  ASSUME EventsTypeOK, NEW s, NEW c \in Changes, EmitProjectEvent(s, c)
  PROVE  /\ stream' \in [Pages -> Stream] /\ owed' \in [Pages -> SUBSET Changes]
         /\ \A p \in Pages :
              /\ stream'[p].at = stream[p].at
              /\ \/ stream'[p].chan = stream[p].chan
                 \/ stream'[p].chan = Append(stream[p].chan, c)
              /\ ToSet(stream'[p].chan) \subseteq ToSet(stream[p].chan) \cup {c}
<1>1. stream \in [Pages -> Stream] /\ owed \in [Pages -> SUBSET Changes]
  BY EventTypes
<1>2. ASSUME NEW p \in Pages
      PROVE  /\ stream'[p] \in Stream
             /\ stream'[p].at = stream[p].at
             /\ stream'[p].chan = stream[p].chan \/ stream'[p].chan = Append(stream[p].chan, c)
  <2>1. stream[p] \in Stream /\ stream[p].chan \in Seq(Changes)
    BY <1>1 DEF Stream
  <2>2. Append(stream[p].chan, c) \in Seq(Changes)
    BY <2>1
  <2> DEFINE chan == Append(stream[p].chan, c)
             told == [stream[p] EXCEPT !.chan = chan]
  <2>3. told \in Stream /\ told.at = stream[p].at /\ told.chan = chan
    BY <2>1, <2>2 DEF Stream
  <2>4. stream'[p] = told \/ stream'[p] = stream[p]
    BY DEF EmitProjectEvent
  <2> QED
    BY <2>1, <2>3, <2>4
<1>3. stream' \in [Pages -> Stream]
  <2>1. stream' = [p \in Pages |-> stream'[p]]
    BY DEF EmitProjectEvent
  <2> QED
    BY <1>2, <2>1
<1>4. owed' \in [Pages -> SUBSET Changes]
  BY <1>1 DEF EmitProjectEvent
<1>5. ASSUME NEW p \in Pages
      PROVE  ToSet(stream'[p].chan) \subseteq ToSet(stream[p].chan) \cup {c}
  <2>1. stream[p].chan \in Seq(Changes)
    BY <1>1 DEF Stream
  <2>2. ToSet(Append(stream[p].chan, c)) = ToSet(stream[p].chan) \cup {c}
    BY <2>1, SetOfSeq
  <2> QED
    BY <1>2, <2>2
<1> QED
  BY <1>2, <1>3, <1>4, <1>5

\* What a page does that is told of something.
LEMMA Invalidates ==
  ASSUME EventsTypeOK, NEW p \in Pages, Invalidate(p)
  PROVE  /\ load' \in [Pages -> PageLoad] /\ owed' \in [Pages -> SUBSET Changes]
         /\ shown' = shown
         /\ \A q \in Pages \ {p} : load'[q] = load[q] /\ owed'[q] = owed[q]
         /\ owed'[p] \subseteq owed[p]
         /\ \/ load'[p].at = "asked"
            \/ load'[p].at = "read" /\ owed'[p] \subseteq load'[p].got
            \/ owed'[p] = {}
<1>1. load \in [Pages -> PageLoad] /\ owed \in [Pages -> SUBSET Changes] /\ load[p] \in PageLoad
  BY EventTypes
<1>2. CASE load[p].at = "none"
  <2> DEFINE l == [load[p] EXCEPT !.at = "asked"]
  <2>1. l \in PageLoad /\ l.at = "asked"
    <3>1. load[p] \in [at : {"none", "asked", "rest"}, got : {{}}]
      BY <1>1, <1>2 DEF PageLoad
    <3>2. l \in [at : {"none", "asked", "rest"}, got : {{}}] /\ l.at = "asked"
      BY <3>1
    <3> QED
      BY <3>2 DEF PageLoad
  <2>2. load' = [load EXCEPT ![p] = l] /\ UNCHANGED <<shown, owed>>
    BY <1>2 DEF Invalidate
  <2> HIDE DEF l
  <2> QED
    BY <1>1, <2>1, <2>2
<1>3. CASE load[p].at # "none"
  <2>1. /\ owed' = IF load[p].at = "asked" THEN owed ELSE [owed EXCEPT ![p] = owed[p] \cap load[p].got]
        /\ UNCHANGED <<load, shown>>
    BY <1>3 DEF Invalidate
  <2>2. load[p].at = "asked" \/ load[p].at = "read" \/ (load[p].at = "rest" /\ load[p].got = {})
    BY <1>1, <1>3 DEF PageLoad
  <2>3. owed[p] \cap load[p].got \in SUBSET Changes
    BY <1>1
  <2> QED
    BY <1>1, <2>1, <2>2, <2>3
<1> QED
  BY <1>2, <1>3

\* A stream that is taken a step further, or has given its first event away.
LEMMA StreamMoves ==
  ASSUME EventsTypeOK, NEW p \in Pages, NEW st \in Stream, stream' = [stream EXCEPT ![p] = st]
  PROVE  /\ stream' \in [Pages -> Stream]
         /\ stream'[p] = st
         /\ \A q \in Pages \ {p} : stream'[q] = stream[q]
BY EventTypes

LEMMA Serves ==
  ASSUME EventsTypeOK, NEW p \in Pages, ServeStream(p)
  PROVE  /\ stream' \in [Pages -> Stream]
         /\ load' \in [Pages -> PageLoad] /\ owed' \in [Pages -> SUBSET Changes]
         /\ shown' = shown
         /\ cursor' \in [Pages -> Changes \cup {Nothing}]
         /\ UNCHANGED <<handler, begun, outbox, committed, notices, queue, linked, eventFaults>>
         /\ \A q \in Pages \ {p} : load'[q] = load[q] /\ owed'[q] = owed[q] /\ stream'[q] = stream[q]
         /\ owed'[p] \subseteq owed[p]
         /\ ToSet(stream'[p].chan) \subseteq ToSet(stream[p].chan)
         /\ \/ stream'[p].at = "replayed"
            \/ load'[p].at = "asked"
            \/ load'[p].at = "read" /\ owed'[p] \subseteq load'[p].got
            \/ owed'[p] = {}
<1>1. /\ stream[p] \in Stream /\ stream[p].chan \in Seq(Changes)
      /\ load \in [Pages -> PageLoad] /\ owed \in [Pages -> SUBSET Changes]
      /\ cursor \in [Pages -> Changes \cup {Nothing}]
  BY EventTypes DEF Stream, EventsTypeOK
<1>2. CASE Replay(p)
  <2> DEFINE st == [stream[p] EXCEPT !.at = "replayed"]
  <2>1. st \in Stream /\ st.at = "replayed" /\ st.chan = stream[p].chan
    BY <1>1 DEF Stream
  <2>2. stream' = [stream EXCEPT ![p] = st]
    BY <1>2 DEF Replay
  <2> HIDE DEF st
  <2>3. /\ stream' \in [Pages -> Stream] /\ stream'[p] = st
        /\ \A q \in Pages \ {p} : stream'[q] = stream[q]
    BY <2>1, <2>2, StreamMoves
  <2>4. cursor' \in [Pages -> Changes \cup {Nothing}]
    <3>1. \A j \in DOMAIN begun : begun[j] \in Changes
      BY EventTypes DEF Changes
    <3>2. Page(After(cursor[p])) \subseteq DOMAIN begun
      BY DEF Page, After
    <3>3. cursor' = cursor \/ \E j \in DOMAIN begun : cursor' = [cursor EXCEPT ![p] = begun[j]]
      BY <1>2, <3>2 DEF Replay, page
    <3> QED
      BY <1>1, <3>1, <3>3
  <2>5. UNCHANGED <<load, shown, owed>> \/ Invalidate(p)
    BY <1>2 DEF Replay, page
  <2>6. UNCHANGED <<handler, begun, outbox, committed, notices, queue, linked, eventFaults>>
    BY <1>2 DEF Replay, work
  <2>7. /\ load' \in [Pages -> PageLoad] /\ owed' \in [Pages -> SUBSET Changes]
        /\ shown' = shown
        /\ \A q \in Pages \ {p} : load'[q] = load[q] /\ owed'[q] = owed[q]
        /\ owed'[p] \subseteq owed[p]
    BY <1>1, <2>5, Invalidates
  <2> QED
    BY <2>1, <2>3, <2>4, <2>6, <2>7
<1>3. CASE Ready(p)
  <2> DEFINE st == [stream[p] EXCEPT !.at = "open"]
  <2>1. st \in Stream /\ st.chan = stream[p].chan
    BY <1>1 DEF Stream
  <2>2. stream' = [stream EXCEPT ![p] = st] /\ Invalidate(p)
        /\ UNCHANGED <<handler, begun, outbox, committed, notices, queue, linked, cursor, eventFaults>>
    BY <1>3 DEF Ready, work
  <2> HIDE DEF st
  <2>3. /\ stream' \in [Pages -> Stream] /\ stream'[p] = st
        /\ \A q \in Pages \ {p} : stream'[q] = stream[q]
    BY <2>1, <2>2, StreamMoves
  <2> QED
    BY <1>1, <2>1, <2>2, <2>3, Invalidates
<1>4. CASE Deliver(p)
  <2> DEFINE chan == Tail(stream[p].chan)
             st == [stream[p] EXCEPT !.chan = chan]
  <2>1. /\ chan \in Seq(Changes) /\ ToSet(chan) \subseteq ToSet(stream[p].chan)
        /\ Head(stream[p].chan) \in Changes
    BY <1>1, <1>4, SetOfSeq DEF Deliver
  <2>2. stream' = [stream EXCEPT ![p] = st] /\ Invalidate(p)
        /\ cursor' = [cursor EXCEPT ![p] = Head(stream[p].chan)]
        /\ UNCHANGED <<handler, begun, outbox, committed, notices, queue, linked, eventFaults>>
    BY <1>4 DEF Deliver, work
  <2> HIDE DEF chan
  <2>3. st \in Stream /\ st.chan = chan
    BY <1>1, <2>1 DEF Stream
  <2> HIDE DEF st
  <2>4. /\ stream' \in [Pages -> Stream] /\ stream'[p] = st
        /\ \A q \in Pages \ {p} : stream'[q] = stream[q]
    BY <2>2, <2>3, StreamMoves
  <2>5. cursor' \in [Pages -> Changes \cup {Nothing}]
    BY <1>1, <2>1, <2>2
  <2> QED
    BY <2>1, <2>2, <2>3, <2>4, <2>5, Invalidates
<1> QED
  BY <1>2, <1>3, <1>4 DEF ServeStream

\* The streams of some pages are cut.
LEMMA Cuts ==
  ASSUME EventsTypeOK, NEW P, Cut(P)
  PROVE  /\ stream' \in [Pages -> Stream] /\ owed' \in [Pages -> SUBSET Changes]
         /\ \A p \in Pages :
              /\ ToSet(stream'[p].chan) \subseteq ToSet(stream[p].chan)
              /\ \/ owed'[p] = {}
                 \/ owed'[p] = owed[p] /\ stream'[p] = stream[p]
<1>1. /\ stream \in [Pages -> Stream] /\ owed \in [Pages -> SUBSET Changes]
      /\ Closed \in Stream
  BY EventTypes
<1>2. ToSet(Closed.chan) = {}
  BY DEF ToSet, Closed
<1>3. /\ stream' = [p \in Pages |-> IF p \in P THEN Closed ELSE stream[p]]
      /\ owed' = [p \in Pages |-> IF p \in P THEN {} ELSE owed[p]]
  BY DEF Cut
<1> QED
  BY <1>1, <1>2, <1>3

\* The next state by what it does to the channels and to the tables of the server.
LEMMA EventsStep == EventsInv /\ [EventsNext]_eventVars => EventsInv'
<1> SUFFICES ASSUME EventsInv, [EventsNext]_eventVars
             PROVE  EventsInv'
  OBVIOUS
<1>1. EventsTypeOK /\ AtHand /\ ToldAfterCommit
  BY DEF EventsInv
<1>2. /\ handler \in [Changes -> Handler]
      /\ begun \in Seq(Records) /\ queue \in Seq(Moves)
      /\ stream \in [Pages -> Stream] /\ load \in [Pages -> PageLoad]
      /\ shown \in [Pages -> SUBSET Changes] /\ owed \in [Pages -> SUBSET Changes]
      /\ Closed \in Stream /\ NoLoad \in PageLoad
      /\ notices \in [Pages -> SUBSET committed]
  BY <1>1, EventTypes
<1>3. /\ outbox \subseteq ToSet(begun) /\ committed \subseteq Changes /\ outbox \subseteq committed
      /\ linked \in [Servers -> BOOLEAN] /\ cursor \in [Pages -> Changes \cup {Nothing}]
      /\ eventFaults \in 0 .. MaxEventFaults
  BY <1>1 DEF EventsTypeOK
<1>4. /\ \A c \in Changes : /\ handler[c].at = "begun" /\ c \in Records => c \in ToSet(begun)
                            /\ handler[c].at = "committed" => c \in committed
      /\ ToSet(queue) \subseteq committed
      /\ \A p \in Pages : ToSet(stream[p].chan) \subseteq committed
  BY <1>1 DEF AtHand, ToldAfterCommit
<1>5. Records \subseteq Changes /\ Moves \subseteq Changes
  BY DEF Changes
<1>6. EventFault => eventFaults' \in 0 .. MaxEventFaults
  BY <1>3, BoundsAssumption DEF EventFault
<1>7. ASSUME handler' = handler, begun' = begun, outbox' = outbox, committed' = committed, notices' = notices,
             linked' \in [Servers -> BOOLEAN], queue' \in Seq(Moves), ToSet(queue') \subseteq committed,
             stream' \in [Pages -> Stream], \A p \in Pages : ToSet(stream'[p].chan) \subseteq committed,
             cursor' \in [Pages -> Changes \cup {Nothing}], load' \in [Pages -> PageLoad],
             shown' \in [Pages -> SUBSET Changes], owed' \in [Pages -> SUBSET Changes],
             eventFaults' \in 0 .. MaxEventFaults
      PROVE  EventsInv'
  <2>1. EventsTypeOK'
    BY <1>2, <1>3, <1>7 DEF EventsTypeOK
  <2>2. AtHand' /\ ToldAfterCommit'
    BY <1>4, <1>7 DEF AtHand, ToldAfterCommit
  <2> QED
    BY <2>1, <2>2 DEF EventsInv
\* A change goes one step further in its handler.
<1>8. ASSUME NEW c \in Changes, NEW h \in Handler, handler' = [handler EXCEPT ![c] = h],
             h.at = "begun" /\ c \in Records => c \in ToSet(begun'),
             h.at = "committed" => c \in committed',
             begun' \in Seq(Records), ToSet(begun) \subseteq ToSet(begun'),
             outbox' \subseteq ToSet(begun'), outbox' \subseteq committed',
             committed \subseteq committed', committed' \subseteq Changes, linked' = linked,
             notices' \in [Pages -> SUBSET committed'],
             queue' \in Seq(Moves), ToSet(queue') \subseteq committed',
             stream' \in [Pages -> Stream], \A p \in Pages : ToSet(stream'[p].chan) \subseteq committed',
             cursor' = cursor, load' = load, shown' = shown, owed' \in [Pages -> SUBSET Changes],
             eventFaults' \in 0 .. MaxEventFaults
      PROVE  EventsInv'
  <2>1. /\ handler' \in [Changes -> Handler] /\ handler'[c] = h
        /\ \A d \in Changes \ {c} : handler'[d] = handler[d]
    BY <1>2, <1>8
  <2>2. EventsTypeOK'
    BY <1>2, <1>3, <1>8, <2>1 DEF EventsTypeOK
  <2>3. AtHand'
    BY <1>4, <1>8, <2>1 DEF AtHand
  <2>4. ToldAfterCommit'
    BY <1>8 DEF ToldAfterCommit
  <2> QED
    BY <2>2, <2>3, <2>4 DEF EventsInv
<1>9. ASSUME NEW c \in Changes, Finish(c)
      PROVE  \E h \in Handler : h.at = "done" /\ handler' = [handler EXCEPT ![c] = h]
  <2> DEFINE h == [handler[c] EXCEPT !.at = "done"]
  <2>1. h \in Handler /\ h.at = "done" /\ handler' = [handler EXCEPT ![c] = h]
    BY <1>2, <1>9 DEF Finish, Handler
  <2> QED
    BY <2>1
<1>10. ASSUME NEW c \in Changes, NEW s \in Servers, Begin(c, s)
       PROVE  EventsInv'
  <2> DEFINE h == [at |-> "begun", server |-> s]
  <2>1. h \in Handler /\ h.at = "begun" /\ handler' = [handler EXCEPT ![c] = h]
    BY <1>10 DEF Handler, Begin
  <2>2. /\ begun' \in Seq(Records) /\ ToSet(begun) \subseteq ToSet(begun')
        /\ c \in Records => c \in ToSet(begun')
    <3>1. CASE c \in Records
      <4>1. Append(begun, c) \in Seq(Records) /\ ToSet(Append(begun, c)) = ToSet(begun) \cup {c}
        BY <1>2, <3>1, SetOfSeq
      <4> QED
        BY <1>10, <3>1, <4>1 DEF Begin
    <3>2. CASE c \notin Records
      BY <1>2, <1>10, <3>2 DEF Begin
    <3> QED
      BY <3>1, <3>2
  <2> HIDE DEF h
  <2>3. UNCHANGED <<outbox, committed, notices, queue, linked, stream, cursor, load, shown, owed, eventFaults>>
    BY <1>10 DEF Begin, page
  <2> QED
    BY <1>2, <1>3, <1>4, <1>8, <2>1, <2>2, <2>3
<1>11. ASSUME NEW c \in Changes, Commit(c)
       PROVE  EventsInv'
  <2> DEFINE h == [handler[c] EXCEPT !.at = "committed"]
  <2>1. h \in Handler /\ h.at = "committed" /\ handler' = [handler EXCEPT ![c] = h]
    BY <1>2, <1>11 DEF Handler, Commit
  <2> HIDE DEF h
  <2>2. /\ committed' = committed \cup {c} /\ handler[c].at = "begun"
        /\ outbox' = IF c \in Records THEN outbox \cup {c} ELSE outbox
        /\ UNCHANGED <<begun, queue, linked, stream, cursor, load, shown, owed, eventFaults>>
    BY <1>11 DEF Commit, page
  <2>3. outbox' \subseteq ToSet(begun') /\ outbox' \subseteq committed'
    BY <1>3, <1>4, <2>2
  <2>4. notices' \in [Pages -> SUBSET committed']
    <3>1. PICK P \in SUBSET Pages :
            notices' = [p \in Pages |-> IF p \in P THEN notices[p] \cup {c} ELSE notices[p]]
      BY <1>11 DEF Commit
    <3>2. \A p \in Pages : notices[p] \subseteq committed'
      BY <1>2, <2>2
    <3>3. c \in committed'
      BY <2>2
    <3> QED
      BY <3>1, <3>2, <3>3
  <2> QED
    BY <1>2, <1>3, <1>4, <1>8, <2>1, <2>2, <2>3, <2>4
<1>12. ASSUME NEW c \in Changes, Announce(c)
       PROVE  EventsInv'
  <2>1. PICK h \in Handler : h.at = "done" /\ handler' = [handler EXCEPT ![c] = h]
    BY <1>9, <1>12 DEF Announce
  <2>2. /\ stream' \in [Pages -> Stream] /\ owed' \in [Pages -> SUBSET Changes]
        /\ \A p \in Pages : ToSet(stream'[p].chan) \subseteq ToSet(stream[p].chan) \cup {c}
    BY <1>1, <1>12, Emits DEF Announce
  <2>3. c \in committed
    BY <1>4, <1>12 DEF Announce
  <2>4. UNCHANGED <<begun, outbox, committed, notices, queue, linked, cursor, load, shown, eventFaults>>
    BY <1>12 DEF Announce
  <2> QED
    BY <1>2, <1>3, <1>4, <1>8, <2>1, <2>2, <2>3, <2>4
<1>13. ASSUME NEW c \in Changes, PublishWorkItemEvent(c)
       PROVE  EventsInv'
  <2>1. PICK h \in Handler : h.at = "done" /\ handler' = [handler EXCEPT ![c] = h]
    BY <1>9, <1>13 DEF PublishWorkItemEvent
  <2>2. c \in committed /\ c \in Moves
    BY <1>4, <1>13 DEF PublishWorkItemEvent
  <2>3. queue' \in Seq(Moves) /\ ToSet(queue') \subseteq committed
    <3>1. Append(queue, c) \in Seq(Moves) /\ ToSet(Append(queue, c)) = ToSet(queue) \cup {c}
      BY <1>2, <2>2, SetOfSeq
    <3>2. queue' = queue \/ queue' = Append(queue, c)
      BY <1>13 DEF PublishWorkItemEvent
    <3> QED
      BY <1>2, <1>4, <2>2, <3>1, <3>2
  <2>4. eventFaults' \in 0 .. MaxEventFaults
    BY <1>3, <1>6, <1>13 DEF PublishWorkItemEvent
  <2>5. UNCHANGED <<begun, outbox, committed, notices, linked, stream, cursor, load, shown, owed>>
    BY <1>13 DEF PublishWorkItemEvent, page
  <2> QED
    BY <1>2, <1>3, <1>4, <1>8, <2>1, <2>3, <2>4, <2>5
<1>14. ASSUME NEW s \in Servers, ConsumeSSEBroadcast(s)
       PROVE  EventsInv'
  <2>1. /\ Tail(queue) \in Seq(Moves) /\ ToSet(Tail(queue)) \subseteq ToSet(queue)
        /\ Head(queue) \in Moves /\ Head(queue) \in ToSet(queue)
    BY <1>2, <1>14, SetOfSeq DEF ConsumeSSEBroadcast
  <2>2. Head(queue) \in committed /\ Head(queue) \in Changes
    BY <1>4, <1>5, <2>1
  <2>3. EmitProjectEvent(s, Head(queue))
    BY <1>14 DEF ConsumeSSEBroadcast
  <2>4. /\ stream' \in [Pages -> Stream] /\ owed' \in [Pages -> SUBSET Changes]
        /\ \A p \in Pages : ToSet(stream'[p].chan) \subseteq ToSet(stream[p].chan) \cup {Head(queue)}
    BY <1>1, <2>2, <2>3, Emits
  <2>5. queue' = Tail(queue) /\ UNCHANGED <<handler, begun, outbox, committed, notices, linked, cursor, load, shown, eventFaults>>
    BY <1>14 DEF ConsumeSSEBroadcast
  <2> QED
    BY <1>2, <1>3, <1>4, <1>7, <2>1, <2>2, <2>4, <2>5
<1>15. ASSUME NEW s \in Servers, CrashAndRestart(s)
       PROVE  EventsInv'
  <2>1. /\ stream' \in [Pages -> Stream] /\ owed' \in [Pages -> SUBSET Changes]
        /\ \A p \in Pages : ToSet(stream'[p].chan) \subseteq ToSet(stream[p].chan)
    <3>1. Cut({p \in Pages : Listening(p, s)})
      BY <1>15 DEF CrashAndRestart
    <3> QED
      BY <1>1, <3>1, Cuts
  <2>2. ASSUME NEW c \in Changes
        PROVE  handler'[c] \in Handler /\ (handler'[c] = handler[c] \/ handler'[c].at = "done")
    <3> DEFINE h == [handler[c] EXCEPT !.at = "done"]
    <3>1. h \in Handler /\ h.at = "done" /\ handler[c] \in Handler
      BY <1>2 DEF Handler
    <3>2. handler'[c] = h \/ handler'[c] = handler[c]
      BY <1>15 DEF CrashAndRestart
    <3> QED
      BY <3>1, <3>2
  <2>3. handler' \in [Changes -> Handler]
    <3>1. handler' = [c \in Changes |-> handler'[c]]
      BY <1>15 DEF CrashAndRestart
    <3> QED
      BY <2>2, <3>1
  <2>4. outbox' \subseteq outbox /\ linked' \in [Servers -> BOOLEAN] /\ eventFaults' \in 0 .. MaxEventFaults
    BY <1>3, <1>6, <1>15 DEF CrashAndRestart
  <2>5. UNCHANGED <<begun, committed, notices, queue, cursor, load, shown>>
    BY <1>15 DEF CrashAndRestart
  <2>6. EventsTypeOK'
    BY <1>2, <1>3, <2>1, <2>3, <2>4, <2>5 DEF EventsTypeOK
  <2>7. AtHand'
    BY <1>4, <2>2, <2>5 DEF AtHand
  <2>8. ToldAfterCommit'
    BY <1>4, <2>1, <2>5 DEF ToldAfterCommit
  <2> QED
    BY <2>6, <2>7, <2>8 DEF EventsInv
<1>16. ASSUME NEW s \in Servers, ChannelCloses(s)
       PROVE  EventsInv'
  <2>1. UNCHANGED <<handler, begun, outbox, committed, notices, queue, stream, cursor, load, shown, owed>>
    BY <1>16 DEF ChannelCloses, work, page
  <2>2. linked' \in [Servers -> BOOLEAN] /\ eventFaults' \in 0 .. MaxEventFaults
    BY <1>3, <1>6, <1>16 DEF ChannelCloses
  <2> QED
    BY <1>2, <1>3, <1>4, <1>7, <2>1, <2>2
<1>17. ASSUME NEW p \in Pages, ServeStream(p)
       PROVE  EventsInv'
  <2>1. /\ stream' \in [Pages -> Stream]
        /\ load' \in [Pages -> PageLoad] /\ owed' \in [Pages -> SUBSET Changes]
        /\ shown' = shown
        /\ cursor' \in [Pages -> Changes \cup {Nothing}]
        /\ UNCHANGED <<handler, begun, outbox, committed, notices, queue, linked, eventFaults>>
    BY <1>1, <1>17, Serves
  <2>2. \A q \in Pages : ToSet(stream'[q].chan) \subseteq ToSet(stream[q].chan)
    BY <1>1, <1>17, Serves
  <2> QED
    BY <1>2, <1>3, <1>4, <1>7, <2>1, <2>2
<1>18. ASSUME NEW p \in Pages, Reload(p) \/ PageLoadFails(p)
       PROVE  EventsInv'
  <2>1. UNCHANGED <<handler, begun, outbox, committed, notices, queue, linked, stream, cursor>>
    BY <1>18 DEF Reload, ReadForPage, Show, EndLoad, PageLoadFails, work
  <2>2. load' \in [Pages -> PageLoad]
    <3>1. [at |-> "read", got |-> notices[p]] \in PageLoad /\ [at |-> "rest", got |-> {}] \in PageLoad
      BY <1>2, <1>3 DEF PageLoad
    <3> QED
      BY <1>2, <1>18, <3>1 DEF Reload, ReadForPage, Show, EndLoad, PageLoadFails
  <2>3. shown' \in [Pages -> SUBSET Changes] /\ owed' \in [Pages -> SUBSET Changes]
    <3>1. load[p].got \in SUBSET Changes
      BY <1>2 DEF PageLoad
    <3> QED
      BY <1>2, <1>18, <3>1 DEF Reload, ReadForPage, Show, EndLoad, PageLoadFails
  <2>4. eventFaults' \in 0 .. MaxEventFaults
    BY <1>3, <1>6, <1>18 DEF Reload, ReadForPage, Show, EndLoad, PageLoadFails
  <2> QED
    BY <1>2, <1>3, <1>4, <1>7, <2>1, <2>2, <2>3, <2>4
<1>19. ASSUME NEW p \in Pages, Disconnect(p)
       PROVE  EventsInv'
  <2>1. Cut({p}) /\ eventFaults' \in 0 .. MaxEventFaults
        /\ UNCHANGED <<handler, begun, outbox, committed, notices, queue, linked, cursor, load, shown>>
    BY <1>6, <1>19 DEF Disconnect, work
  <2>2. /\ stream' \in [Pages -> Stream] /\ owed' \in [Pages -> SUBSET Changes]
        /\ \A q \in Pages : ToSet(stream'[q].chan) \subseteq ToSet(stream[q].chan)
    BY <1>1, <2>1, Cuts
  <2> QED
    BY <1>2, <1>3, <1>4, <1>7, <2>1, <2>2
<1>20. ASSUME NEW p \in Pages, NEW s \in Servers, Register(p, s)
       PROVE  EventsInv'
  <2> DEFINE st == [at |-> "registered", server |-> s, chan |-> << >>]
  <2>1. st \in Stream /\ ToSet(st.chan) = {}
    <3>1. << >> \in Seq(Changes) /\ DOMAIN << >> = {}
      OBVIOUS
    <3> QED
      BY <3>1 DEF Stream, ToSet
  <2>2. stream' = [stream EXCEPT ![p] = st] /\ owed' = [owed EXCEPT ![p] = notices[p] \ shown[p]]
        /\ UNCHANGED <<handler, begun, outbox, committed, notices, queue, linked, cursor, load, shown, eventFaults>>
    BY <1>20 DEF Register, work
  <2> HIDE DEF st
  <2>3. /\ stream' \in [Pages -> Stream] /\ stream'[p] = st
        /\ \A q \in Pages \ {p} : stream'[q] = stream[q]
    BY <1>1, <2>1, <2>2, StreamMoves
  <2>4. \A q \in Pages : ToSet(stream'[q].chan) \subseteq committed
    BY <1>4, <2>1, <2>3
  <2>5. owed' \in [Pages -> SUBSET Changes]
    BY <1>2, <1>3, <2>2
  <2> QED
    BY <1>2, <1>3, <1>4, <1>7, <2>2, <2>3, <2>4, <2>5
<1>21. CASE UNCHANGED eventVars
  <2>1. UNCHANGED <<handler, begun, outbox, committed, notices, queue, linked, stream, cursor, load, shown, owed, eventFaults>>
    BY <1>21 DEF eventVars
  <2> QED
    BY <1>2, <1>3, <1>4, <1>7, <2>1
<1> QED
  BY <1>10, <1>11, <1>12, <1>13, <1>14, <1>15, <1>16, <1>17, <1>18, <1>19, <1>20, <1>21 DEF EventsNext

LEMMA EventsInvAlways == EventsSpec => []EventsInv
BY EventsInvInit, EventsStep, PTL DEF EventsSpec

\* Every variable of the event streams keeps its type; the outbox has rows of committed
\* transactions only.
THEOREM EventsTypeCorrect == EventsSpec => []EventsTypeOK
<1>1. EventsInv => EventsTypeOK
  BY DEF EventsInv
<1> QED
  BY <1>1, EventsInvAlways, PTL

\* EmitProjectEvent and PublishWorkItemEvent announce what is in the database: a page that
\* loads because of an event finds the notification there.
THEOREM ToldAfterCommitHolds == EventsSpec => []ToldAfterCommit
<1>1. EventsInv => ToldAfterCommit
  BY DEF EventsInv
<1> QED
  BY <1>1, EventsInvAlways, PTL

LEMMA OwedStep ==
  ASSUME EventsInv, OwedIsComing, [EventsNext]_eventVars
  PROVE  OwedIsComing'
<1> DEFINE Comes(p, c) == \/ stream[p].at \in {"registered", "replayed"}
                          \/ stream[p].at = "open" /\ stream[p].chan # << >>
                          \/ load[p].at = "asked"
                          \/ load[p].at = "read" /\ c \in load[p].got
<1> SUFFICES ASSUME NEW p \in Pages, NEW c \in owed'[p]
             PROVE  c \in notices'[p] /\ Comes(p, c)'
  BY DEF OwedIsComing
<1>1. EventsTypeOK /\ AtHand /\ ToldAfterCommit
  BY DEF EventsInv
<1>2. /\ handler \in [Changes -> Handler]
      /\ stream \in [Pages -> Stream] /\ load \in [Pages -> PageLoad]
      /\ shown \in [Pages -> SUBSET Changes] /\ owed \in [Pages -> SUBSET Changes]
      /\ queue \in Seq(Moves) /\ notices \in [Pages -> SUBSET committed]
  BY <1>1, EventTypes
<1>3. ASSUME c \in owed[p]
      PROVE  c \in notices[p] /\ Comes(p, c)
  BY <1>3 DEF OwedIsComing
<1>4. ASSUME c \in owed[p], notices[p] \subseteq notices'[p], stream'[p] = stream[p], load'[p] = load[p]
      PROVE  c \in notices'[p] /\ Comes(p, c)'
  BY <1>3, <1>4
\* An announcement is in the channel of the page, or there was no room for it.
<1>5. ASSUME NEW s, NEW d \in committed, EmitProjectEvent(s, d), load' = load, notices' = notices
      PROVE  c \in notices'[p] /\ Comes(p, c)'
  <2>1. d \in Changes
    BY <1>1, <1>5 DEF EventsTypeOK
  <2>2. /\ stream'[p].at = stream[p].at
        /\ stream'[p].chan = stream[p].chan \/ stream'[p].chan = Append(stream[p].chan, d)
    BY <1>1, <1>5, <2>1, Emits
  <2>3. stream[p].chan \in Seq(Changes) /\ stream[p] \in Stream
    BY <1>2 DEF Stream
  <2>4. Append(stream[p].chan, d) # << >>
    BY <2>1, <2>3
  <2>5. CASE Listening(p, s)
    <3>1. c \in owed[p] \/ (c = d /\ d \in notices[p])
      BY <1>5, <2>5 DEF EmitProjectEvent
    <3>2. stream'[p].chan # << >>
      <4>1. CASE Len(stream[p].chan) < Capacity
        <5>1. stream'[p].chan = Append(stream[p].chan, d)
          BY <1>5, <2>3, <2>5, <4>1 DEF EmitProjectEvent, Stream
        <5> QED
          BY <2>4, <5>1
      <4>2. CASE ~(Len(stream[p].chan) < Capacity)
        <5>1. stream[p].chan # << >>
          BY <2>3, <4>2, BoundsAssumption
        <5> QED
          BY <2>2, <2>4, <5>1
      <4> QED
        BY <4>1, <4>2
    <3>3. stream[p].at \in {"registered", "replayed", "open"}
      BY <2>3, <2>5 DEF Listening, Stream
    <3> QED
      BY <1>3, <1>5, <2>2, <3>1, <3>2, <3>3
  <2>6. CASE ~Listening(p, s)
    BY <1>4, <1>5, <2>6 DEF EmitProjectEvent
  <2> QED
    BY <2>5, <2>6
<1>6. ASSUME NEW P, Cut(P), load' = load, notices' = notices
      PROVE  c \in notices'[p] /\ Comes(p, c)'
  <2>1. owed'[p] = owed[p] /\ stream'[p] = stream[p]
    BY <1>1, <1>6, Cuts
  <2> QED
    BY <1>4, <1>6, <2>1
<1>7. ASSUME NEW d \in Changes, NEW s \in Servers, Begin(d, s)
      PROVE  c \in notices'[p] /\ Comes(p, c)'
  BY <1>4, <1>7 DEF Begin, page
<1>8. ASSUME NEW d \in Changes, Commit(d) \/ PublishWorkItemEvent(d)
      PROVE  c \in notices'[p] /\ Comes(p, c)'
  <2>1. UNCHANGED <<stream, load, owed>>
    BY <1>8 DEF Commit, PublishWorkItemEvent, page
  <2>2. notices[p] \subseteq notices'[p]
    <3>1. CASE Commit(d)
      BY <3>1 DEF Commit
    <3>2. CASE PublishWorkItemEvent(d)
      BY <3>2 DEF PublishWorkItemEvent
    <3> QED
      BY <1>8, <3>1, <3>2
  <2> QED
    BY <1>4, <2>1, <2>2
<1>9. ASSUME NEW d \in Changes, Announce(d)
      PROVE  c \in notices'[p] /\ Comes(p, c)'
  <2>1. d \in committed
    BY <1>1, <1>9 DEF Announce, AtHand
  <2> QED
    BY <1>5, <1>9, <2>1 DEF Announce
<1>10. ASSUME NEW s \in Servers, ConsumeSSEBroadcast(s)
       PROVE  c \in notices'[p] /\ Comes(p, c)'
  <2>1. Head(queue) \in committed
    <3>1. queue # << >>
      BY <1>10 DEF ConsumeSSEBroadcast
    <3>2. Head(queue) \in ToSet(queue)
      BY <1>2, <3>1, SetOfSeq
    <3> QED
      BY <1>1, <3>2 DEF ToldAfterCommit
  <2> QED
    BY <1>5, <1>10, <2>1 DEF ConsumeSSEBroadcast
<1>11. ASSUME NEW s \in Servers, CrashAndRestart(s)
       PROVE  c \in notices'[p] /\ Comes(p, c)'
  <2>1. Cut({q \in Pages : Listening(q, s)}) /\ load' = load /\ notices' = notices
    BY <1>11 DEF CrashAndRestart
  <2> QED
    BY <1>6, <2>1
<1>12. ASSUME NEW s \in Servers, ChannelCloses(s)
       PROVE  c \in notices'[p] /\ Comes(p, c)'
  BY <1>4, <1>12 DEF ChannelCloses, work, page
<1>13. ASSUME NEW q \in Pages, Disconnect(q)
       PROVE  c \in notices'[p] /\ Comes(p, c)'
  BY <1>6, <1>13 DEF Disconnect, work
\* What a load has read by now, or will read, is all that is still owed.
<1>14. ASSUME NEW q \in Pages, ServeStream(q)
       PROVE  c \in notices'[p] /\ Comes(p, c)'
  <2>1. /\ UNCHANGED notices
        /\ \A r \in Pages \ {q} : load'[r] = load[r] /\ owed'[r] = owed[r] /\ stream'[r] = stream[r]
        /\ owed'[q] \subseteq owed[q]
        /\ \/ stream'[q].at = "replayed"
           \/ load'[q].at = "asked"
           \/ load'[q].at = "read" /\ owed'[q] \subseteq load'[q].got
           \/ owed'[q] = {}
    BY <1>1, <1>14, Serves
  <2>2. CASE p = q
    BY <1>3, <2>1, <2>2
  <2>3. CASE p # q
    BY <1>4, <2>1, <2>3
  <2> QED
    BY <2>2, <2>3
<1>15. ASSUME NEW q \in Pages, ReadForPage(q)
       PROVE  c \in notices'[p] /\ Comes(p, c)'
  <2>1. UNCHANGED <<notices, stream, owed>>
    BY <1>15 DEF ReadForPage, work
  <2>2. load' = [load EXCEPT ![q] = [at |-> "read", got |-> notices[q]]]
    BY <1>15 DEF ReadForPage
  <2>3. CASE p = q
    BY <1>2, <1>3, <2>1, <2>2, <2>3
  <2>4. CASE p # q
    BY <1>2, <1>4, <2>1, <2>2, <2>4
  <2> QED
    BY <2>3, <2>4
<1>16. ASSUME NEW q \in Pages, Show(q)
       PROVE  c \in notices'[p] /\ Comes(p, c)'
  <2>1. UNCHANGED <<notices, stream>> /\ load[q].at = "read"
    BY <1>16 DEF Show, work
  <2>2. /\ load' = [load EXCEPT ![q] = [at |-> "rest", got |-> {}]]
        /\ owed' = [owed EXCEPT ![q] = owed[q] \ load[q].got]
    BY <1>16 DEF Show
  <2>3. CASE p = q
    <3>1. c \in owed[p] /\ c \notin load[p].got
      BY <1>2, <2>2, <2>3
    <3> QED
      BY <1>3, <2>1, <2>3, <3>1
  <2>4. CASE p # q
    BY <1>2, <1>4, <2>1, <2>2, <2>4
  <2> QED
    BY <2>3, <2>4
<1>17. ASSUME NEW q \in Pages, PageLoadFails(q)
       PROVE  c \in notices'[p] /\ Comes(p, c)'
  <2>1. UNCHANGED <<notices, stream>>
    BY <1>17 DEF PageLoadFails, work
  <2>2. load' = [load EXCEPT ![q] = [at |-> "rest", got |-> {}]] /\ owed' = [owed EXCEPT ![q] = {}]
    BY <1>17 DEF PageLoadFails
  <2>3. p # q
    BY <1>2, <2>2
  <2> QED
    BY <1>2, <1>4, <2>1, <2>2, <2>3
<1>18. ASSUME NEW q \in Pages, NEW s \in Servers, Register(q, s)
       PROVE  c \in notices'[p] /\ Comes(p, c)'
  <2>1. UNCHANGED <<notices, load>>
    BY <1>18 DEF Register, work
  <2>2. /\ stream' = [stream EXCEPT ![q] = [at |-> "registered", server |-> s, chan |-> << >>]]
        /\ owed' = [owed EXCEPT ![q] = notices[q] \ shown[q]]
    BY <1>18 DEF Register
  <2>3. CASE p = q
    BY <1>2, <2>1, <2>2, <2>3
  <2>4. CASE p # q
    BY <1>2, <1>4, <2>1, <2>2, <2>4
  <2> QED
    BY <2>3, <2>4
<1>19. ASSUME NEW q \in Pages, EndLoad(q)
       PROVE  c \in notices'[p] /\ Comes(p, c)'
  <2>1. UNCHANGED <<notices, stream, owed>> /\ load[q].at = "rest"
    BY <1>19 DEF EndLoad, work
  <2>2. load' = [load EXCEPT ![q] = NoLoad]
    BY <1>19 DEF EndLoad
  <2>3. CASE p = q
    BY <1>2, <1>3, <2>1, <2>2, <2>3
  <2>4. CASE p # q
    BY <1>2, <1>4, <2>1, <2>2, <2>4
  <2> QED
    BY <2>3, <2>4
<1>20. CASE UNCHANGED eventVars
  BY <1>4, <1>20 DEF eventVars
<1> QED
  BY <1>7, <1>8, <1>9, <1>10, <1>11, <1>12, <1>13, <1>14, <1>15, <1>16, <1>17, <1>18, <1>19, <1>20
  DEF EventsNext, Reload

\* No wake-up of a page is lost, as long as a channel has room for one event: the
\* notification that it is owed is in the database, and its stream has yet to speak or the
\* load that runs has it or has not yet read the notifications.
THEOREM OwedIsComingHolds ==
  EventsSpec => []OwedIsComing
<1>1. EventsInit => OwedIsComing
  BY DEF EventsInit, OwedIsComing
<1>2. EventsInv /\ OwedIsComing /\ [EventsNext]_eventVars => OwedIsComing'
  BY OwedStep
<1> QED
  BY <1>1, <1>2, EventsInvAlways, PTL DEF EventsSpec

-----------------------------------------------------------------------------
(***************************************************************************)
(* The sessions of the tabs                                                *)
(***************************************************************************)
\* What a request has found, and what its answer brings.
Looked ==
    \A t \in Tabs :
        /\ call[t].at \in {"none", "login"} => call[t].cookie = NoToken
        /\ call[t].at \in {"refresh", "found"} => call[t].cookie # NoToken
        /\ call[t].at = "found" => call[t].session \in SessionIds

OneSessionPerHash ==
    \A s, u \in SessionIds : rows[s].hash = rows[u].hash /\ rows[s].hash # NoToken => s = u

\* A refresh token that was traded for another is the hash of no session.
Spent ==
    \A t \in Tabs : call[t].at = "ok" /\ call[t].cookie # NoToken
        => \A s \in SessionIds : rows[s].hash # call[t].cookie

HandedOut ==
    \A a \in Accesses : token[a].valid
        => token[a].session \in SessionIds /\ rows[token[a].session].state # "absent"

Leaving == leave.at = "sent" => leave.access \in Accesses

\* What nothing has happened beside: the hash of the session of an access token is what
\* its answer brings, what the browser has with it, and what its logout is sent with.
Alone ==
    \A a \in Accesses : token[a].valid /\ ~token[a].beside /\ ~token[a].out =>
        /\ rows[token[a].session].hash # NoToken
        /\ \A t \in Tabs : call[t].at = "ok" /\ call[t].access = a
                          => call[t].refresh = rows[token[a].session].hash
        /\ \A t \in Tabs : tab[t] = a => jar = rows[token[a].session].hash
        /\ leave.at = "sent" /\ leave.access = a => leave.cookie = rows[token[a].session].hash

\* What a handled logout has left of a token that has not expired.
LeftBehind ==
    \A a \in Accesses : token[a].out /\ token[a].valid =>
        \/ rows[token[a].session].state # "live"
        \/ token[a].failed
        \/ token[a].missed /\ token[a].beside

SessionsInv ==
    /\ SessionsTypeOK /\ Looked /\ OneSessionPerHash /\ Spent /\ OneRefreshPerToken
    /\ HandedOut /\ Leaving /\ Alone /\ LeftBehind

-----------------------------------------------------------------------------
(* What the steps change.                                                  *)

LEMMA SomeIsIn == ASSUME NEW S, S # {} PROVE Some(S) \in S
BY DEF Some

\* A step that changes one call only, to one of the right type.
LEMMA OneCall ==
    ASSUME SessionsTypeOK, NEW t \in Tabs, NEW c \in Call, call' = [call EXCEPT ![t] = c]
    PROVE  /\ call' \in [Tabs -> Call]
           /\ call'[t] = c
           /\ \A u \in Tabs : u # t => call'[u] = call[u]
BY DEF SessionsTypeOK

LEMMA NoCallTyped == NoCall \in Call /\ NoCall.at = "none" /\ NoCall.cookie = NoToken
BY DEF NoCall, Call

\* Something happens beside the tokens in use, or beside all of them but one.
Marks == token' = token \/ \E b \in Accesses \cup {NoToken} : token' = Touched(b)

LEMMA TouchedFields ==
    ASSUME SessionsTypeOK, NEW b
    PROVE  /\ Touched(b) \in [Accesses -> Token]
           /\ \A a \in Accesses :
                 /\ Touched(b)[a].session = token[a].session /\ Touched(b)[a].valid = token[a].valid
                 /\ Touched(b)[a].out = token[a].out
                 /\ token[a].out \/ ~token[a].valid => Touched(b)[a] = token[a]
                 /\ a # b /\ token[a].valid /\ ~token[a].out => Touched(b)[a].beside
                 /\ ~Touched(b)[a].beside => Touched(b)[a] = token[a]
<1>1. ASSUME NEW a \in Accesses
      PROVE  LET marked == [token[a] EXCEPT !.beside = TRUE]
             IN  /\ marked \in Token /\ marked.session = token[a].session /\ marked.valid = token[a].valid
                 /\ marked.out = token[a].out /\ marked.beside
  BY DEF SessionsTypeOK, Token
<1> QED
  BY <1>1 DEF Touched, SessionsTypeOK

LEMMA MarkedFields ==
    ASSUME SessionsTypeOK, Marks
    PROVE  /\ token' \in [Accesses -> Token]
           /\ \A a \in Accesses :
                 /\ token'[a].session = token[a].session /\ token'[a].valid = token[a].valid
                 /\ token'[a].out = token[a].out
                 /\ token[a].out \/ ~token[a].valid => token'[a] = token[a]
                 /\ ~token'[a].beside => token'[a] = token[a]
BY TouchedFields DEF Marks, SessionsTypeOK

\* The tokens that a login or a refresh hands out are held by nobody.
LEMMA FreshTokens ==
    ASSUME FreeRefreshes # {}, FreeAccesses # {}
    PROVE  LET r == Some(FreeRefreshes)
               a == Some(FreeAccesses)
           IN  /\ r \in Refreshes /\ a \in Accesses
               /\ \A s \in SessionIds : rows[s].hash # r
               /\ \A t \in Tabs : call[t].cookie # r /\ call[t].access # a /\ tab[t] # a
               /\ leave.access # a
<1>1. /\ Some(FreeRefreshes) \in FreeRefreshes
      /\ Some(FreeAccesses) \in FreeAccesses
  BY SomeIsIn
<1> DEFINE r == Some(FreeRefreshes)
           a == Some(FreeAccesses)
<1>2. r \in Refreshes /\ \A s \in SessionIds : rows[s].hash # r
  BY <1>1 DEF FreeRefreshes
<1>3. ASSUME NEW t \in Tabs PROVE call[t].cookie # r
  <2> DEFINE held == {call[t].cookie, call[t].refresh}
  <2>1. held \in {{call[u].cookie, call[u].refresh} : u \in Tabs}
    OBVIOUS
  <2>2. r \notin UNION {{call[u].cookie, call[u].refresh} : u \in Tabs}
    BY <1>1 DEF FreeRefreshes
  <2> QED
    BY <2>1, <2>2
<1>4. a \in Accesses /\ a # leave.access
  BY <1>1 DEF FreeAccesses
<1>5. ASSUME NEW t \in Tabs PROVE call[t].access # a /\ tab[t] # a
  <2> DEFINE held == {tab[t], call[t].access}
  <2>1. held \in {{tab[u], call[u].access} : u \in Tabs}
    OBVIOUS
  <2>2. a \notin UNION {{tab[u], call[u].access} : u \in Tabs}
    BY <1>1 DEF FreeAccesses
  <2> QED
    BY <2>1, <2>2
<1> QED
  BY <1>2, <1>3, <1>4, <1>5

\* The three tables after new tokens were handed out.
LEMMA HandOutFields ==
    ASSUME SessionsTypeOK, NEW t \in Tabs, NEW s \in SessionIds, NEW r \in Refreshes, NEW a \in Accesses,
           HandOut(t, s, r, a)
    PROVE  /\ rows' \in [SessionIds -> Row] /\ token' \in [Accesses -> Token]
           /\ call' \in [Tabs -> Call]
           /\ rows'[s].hash = r
           /\ rows'[s].state = IF rows[s].state = "absent" THEN "live" ELSE rows[s].state
           /\ \A u \in SessionIds : u # s => rows'[u] = rows[u]
           /\ token'[a].session = s /\ token'[a].valid /\ ~token'[a].out
           /\ \A b \in Accesses : b # a => token'[b] = Touched(a)[b]
           /\ call'[t].at = "ok" /\ call'[t].cookie = call[t].cookie
           /\ call'[t].refresh = r /\ call'[t].access = a
           /\ \A u \in Tabs : u # t => call'[u] = call[u]
<1> DEFINE row == [state |-> IF rows[s].state = "absent" THEN "live" ELSE rows[s].state, hash |-> r]
           new == [Unused EXCEPT !.session = s, !.valid = TRUE]
           ok == [call[t] EXCEPT !.at = "ok", !.session = s, !.refresh = r, !.access = a]
<1>1. row \in Row /\ rows' = [rows EXCEPT ![s] = row]
  BY DEF SessionsTypeOK, Row, HandOut
<1>2. new \in Token /\ new.session = s /\ new.valid /\ ~new.out
  BY DEF Token, Unused
<1>3. ok \in Call /\ ok.at = "ok" /\ ok.cookie = call[t].cookie /\ ok.refresh = r /\ ok.access = a
  BY DEF SessionsTypeOK, Call
<1> HIDE DEF new, ok
<1>7. token' = [Touched(a) EXCEPT ![a] = new] /\ call' = [call EXCEPT ![t] = ok]
  BY DEF HandOut, new, ok
<1> HIDE DEF row
<1>4. rows' \in [SessionIds -> Row] /\ rows'[s] = row /\ \A u \in SessionIds : u # s => rows'[u] = rows[u]
  BY <1>1 DEF SessionsTypeOK
<1>5. token' \in [Accesses -> Token] /\ token'[a] = new /\ \A b \in Accesses : b # a => token'[b] = Touched(a)[b]
  <2>1. Touched(a) \in [Accesses -> Token]
    BY TouchedFields
  <2> QED
    BY <1>2, <1>7, <2>1
<1>6. call' \in [Tabs -> Call] /\ call'[t] = ok /\ \A u \in Tabs : u # t => call'[u] = call[u]
  BY <1>3, <1>7, OneCall
<1> QED
  BY <1>2, <1>3, <1>4, <1>5, <1>6 DEF row

\* A session was looked up, or the request is at an end.
LEMMA FoundFields ==
    ASSUME SessionsTypeOK, NEW t \in Tabs, NEW s \in SessionIds, Found(t, s)
    PROVE  /\ call' \in [Tabs -> Call]
           /\ call'[t].at = "found" /\ call'[t].cookie = call[t].cookie /\ call'[t].session = s
           /\ \A u \in Tabs : u # t => call'[u] = call[u]
<1> DEFINE c == [call[t] EXCEPT !.at = "found", !.session = s]
<1>1. c \in Call /\ c.at = "found" /\ c.cookie = call[t].cookie /\ c.session = s
  BY DEF SessionsTypeOK, Call
<1>2. call' = [call EXCEPT ![t] = c]
  BY DEF Found
<1> HIDE DEF c
<1> QED
  BY <1>1, <1>2, OneCall

\* FindSessionByRefreshToken finds a session that is live, or refuses.
LEMMA FindSteps ==
    ASSUME NEW t \in Tabs, FindSessionByRefreshToken(t)
    PROVE  (\E s \in SessionIds : Found(t, s)) \/ Refuse(t)
<1> DEFINE live == {s \in With(call[t].cookie) : rows[s].state = "live" /\ userActive}
<1>1. CASE live # {}
  <2>1. Some(live) \in live /\ live \subseteq SessionIds
    BY <1>1, SomeIsIn DEF With
  <2> QED
    BY <1>1, <2>1 DEF FindSessionByRefreshToken
<1>2. CASE live = {}
  BY <1>2 DEF FindSessionByRefreshToken
<1> QED
  BY <1>1, <1>2

\* New tokens are fresh.  A login inserts a session; a refresh replaces the hash of a
\* session that is not revoked, and it was the one that the request brought.
HandsOut(t) ==
    \E s \in SessionIds, r \in Refreshes, a \in Accesses :
        /\ HandOut(t, s, r, a)
        /\ \A u \in SessionIds : rows[u].hash # r
        /\ \A u \in Tabs : call[u].cookie # r /\ call[u].access # a /\ tab[u] # a
        /\ leave.access # a
        /\ rows[s].state # "revoked"
        /\ \/ call[t].at = "login" /\ rows[s].state = "absent"
           \/ call[t].at = "found" /\ s = call[t].session /\ rows[s].hash = call[t].cookie

LEMMA CreateHandsOut == ASSUME NEW t \in Tabs, CreateSession(t) PROVE HandsOut(t)
<1>1. Absent # {} /\ FreeRefreshes # {} /\ FreeAccesses # {}
  BY DEF CreateSession
<1>2. Some(Absent) \in SessionIds /\ rows[Some(Absent)].state = "absent"
  BY <1>1, SomeIsIn DEF Absent
<1> QED
  BY <1>1, <1>2, FreshTokens DEF CreateSession, HandsOut

LEMMA RotateSteps ==
    ASSUME Looked, NEW t \in Tabs, RotateRefreshToken(t)
    PROVE  HandsOut(t) \/ Refuse(t)
<1> DEFINE s == call[t].session
<1>1. call[t].at = "found" /\ s \in SessionIds
  BY DEF RotateRefreshToken, Looked
<1>2. CASE rows[s].hash = call[t].cookie /\ rows[s].state # "revoked"
  <2>1. /\ FreeRefreshes # {} /\ FreeAccesses # {}
        /\ HandOut(t, s, Some(FreeRefreshes), Some(FreeAccesses))
    BY <1>2 DEF RotateRefreshToken
  <2> HIDE DEF s
  <2> QED
    BY <1>1, <1>2, <2>1, FreshTokens DEF HandsOut, s
<1>3. CASE ~(rows[s].hash = call[t].cookie /\ rows[s].state # "revoked")
  BY <1>3 DEF RotateRefreshToken
<1> QED
  BY <1>2, <1>3

-----------------------------------------------------------------------------
(* The steps by what they do to the tables.                                *)

\* A step that leaves the sessions and the logout alone, and every call but one, which
\* is given up, is still to be answered, or has found a session.
Asks(t) ==
    /\ UNCHANGED <<rows, leave>> /\ Marks
    /\ \A u \in Tabs : u # t => call'[u] = call[u]
    /\ \/ call'[t] = NoCall
       \/ call'[t].at = "login" /\ call'[t].cookie = NoToken
       \/ call'[t].at = "refresh" /\ call'[t].cookie # NoToken
       \/ /\ call[t].at = "refresh" /\ call'[t].cookie = call[t].cookie
          /\ call'[t].at = "found" /\ call'[t].session \in SessionIds

LEMMA AskingSteps ==
    ASSUME SessionsTypeOK, Looked, NEW t \in Tabs,
           \/ Login(t) \/ OpenPage(t) \/ FindSessionByRefreshToken(t) \/ Refuse(t)
           \/ Receive(t) \/ LoseAnswer(t) \/ AnswerFails(t)
    PROVE  call' \in [Tabs -> Call] /\ (Asks(t) \/ UNCHANGED <<rows, token, leave, call>>)
<1>1. CASE Login(t)
  <2> DEFINE c == [call[t] EXCEPT !.at = "login"]
  <2>1. c \in Call /\ c.at = "login" /\ c.cookie = call[t].cookie
    BY DEF SessionsTypeOK, Call
  <2>2. call' = [call EXCEPT ![t] = c] /\ call[t].cookie = NoToken
    BY <1>1, NoCallTyped DEF Login
  <2> HIDE DEF c
  <2> QED
    BY <1>1, <2>1, <2>2, OneCall DEF Login, Asks, Marks
<1>2. CASE OpenPage(t)
  <2>1. CASE UNCHANGED call
    BY <1>2, <2>1 DEF OpenPage, SessionsTypeOK
  <2>2. CASE jar # NoToken /\ call' = [call EXCEPT ![t] = [@ EXCEPT !.at = "refresh", !.cookie = jar]]
    <3> DEFINE c == [call[t] EXCEPT !.at = "refresh", !.cookie = jar]
    <3>1. c \in Call /\ c.at = "refresh" /\ c.cookie # NoToken
      BY <2>2 DEF SessionsTypeOK, Call
    <3>2. call' = [call EXCEPT ![t] = c]
      BY <2>2
    <3> HIDE DEF c
    <3> QED
      BY <1>2, <3>1, <3>2, OneCall DEF OpenPage, Asks, Marks
  <2> QED
    BY <1>2, <2>1, <2>2 DEF OpenPage
<1>3. ASSUME Refuse(t) \/ Receive(t) \/ LoseAnswer(t) \/ AnswerFails(t)
      PROVE  call' \in [Tabs -> Call] /\ Asks(t)
  <2>1. call' = [call EXCEPT ![t] = NoCall] /\ UNCHANGED <<rows, leave>>
    BY <1>3 DEF Refuse, Receive, LoseAnswer, AnswerFails
  <2>2. Marks
    BY <1>3 DEF Refuse, Receive, LoseAnswer, AnswerFails, Marks, SessionsTypeOK, Call
  <2> QED
    BY <2>1, <2>2, OneCall, NoCallTyped DEF Asks
<1>4. CASE FindSessionByRefreshToken(t)
  <2>1. call[t].at = "refresh"
    BY <1>4 DEF FindSessionByRefreshToken
  <2>2. ASSUME NEW s \in SessionIds, Found(t, s)
        PROVE  call' \in [Tabs -> Call] /\ Asks(t)
    BY <2>1, <2>2, FoundFields DEF Found, client, Asks, Marks
  <2> QED
    BY <1>3, <1>4, <2>2, FindSteps
<1> QED
  BY <1>1, <1>2, <1>3, <1>4

\* A handled logout.
Leaves(rows1, fails) ==
    /\ leave.at = "sent"
    /\ rows1 = IF fails THEN rows ELSE Revoked
    /\ HandledLogout(rows1, fails)

LEMMA LogoutSteps ==
    ASSUME HandleLogout
    PROVE  \E rows1 \in {Revoked, rows}, fails \in BOOLEAN : Leaves(rows1, fails)
BY DEF HandleLogout, Leaves

LEMMA RevokedRows ==
    ASSUME SessionsTypeOK
    PROVE  /\ Revoked \in [SessionIds -> Row]
           /\ \A s \in SessionIds :
                 /\ Revoked[s].hash = rows[s].hash
                 /\ Revoked[s].state \in {rows[s].state, "revoked"}
                 /\ s \in With(leave.cookie) => Revoked[s].state = "revoked"
BY DEF SessionsTypeOK, Row, Revoked

\* Every step of the system is one of these.
LEMMA SessionsSteps ==
    ASSUME SessionsTypeOK, Looked, SessionsNext
    PROVE  \/ \E t \in Tabs : \/ Login(t) \/ OpenPage(t)
                              \/ FindSessionByRefreshToken(t) \/ Refuse(t)
                              \/ Receive(t) \/ LoseAnswer(t) \/ AnswerFails(t)
           \/ \E t \in Tabs : HandsOut(t)
           \/ \E t \in Tabs : Logout(t)
           \/ HandleLogout \/ ReceiveLogout
           \/ \E a \in Accesses : ExpireAccess(a)
           \/ \E s \in SessionIds : ExpireSession(s)
           \/ Deactivate
BY CreateHandsOut, RotateSteps DEF SessionsNext, AnswerCall

-----------------------------------------------------------------------------
(* Types.                                                                  *)

LEMMA SessionsInitTypes == SessionsInit => SessionsTypeOK
<1> SUFFICES ASSUME SessionsInit PROVE SessionsTypeOK
  OBVIOUS
<1>1. rows \in [SessionIds -> Row] /\ token \in [Accesses -> Token]
  BY DEF SessionsInit, Row, Token, Unused
<1>2. call \in [Tabs -> Call] /\ leave \in Leave
  BY NoCallTyped DEF SessionsInit, Leave, Stay
<1> QED
  BY <1>1, <1>2, SessionFaultsAssumption DEF SessionsInit, SessionsTypeOK

LEMMA FaultTyped == ASSUME SessionsTypeOK, SessionFault PROVE sessionFaults' \in 0 .. MaxSessionFaults
BY SessionFaultsAssumption DEF SessionsTypeOK, SessionFault

\* The access token of a logout, and the tokens after it.
LEMMA LogoutFields ==
    ASSUME SessionsTypeOK, Leaving, NEW rows1, NEW fails \in BOOLEAN, Leaves(rows1, fails)
    PROVE  LET a == leave.access
           IN  /\ a \in Accesses
               /\ token' \in [Accesses -> Token]
               /\ ~token[a].valid => token' = token
               /\ \A b \in Accesses : b # a => token'[b] = token[b]
               /\ token'[a].session = token[a].session /\ token'[a].valid = token[a].valid
               /\ token'[a].beside = token[a].beside
               /\ token[a].valid => /\ token'[a].out
                                   /\ token'[a].failed = (token[a].failed \/ fails)
                                   /\ token'[a].missed =
                                          (token[a].missed \/ token[a].session \notin With(leave.cookie))
<1> DEFINE a == leave.access
           missed == token[a].missed \/ token[a].session \notin With(leave.cookie)
           failed == token[a].failed \/ fails
           new == [token[a] EXCEPT !.out = TRUE, !.failed = failed, !.missed = missed]
<1>1. a \in Accesses
  BY DEF Leaves, Leaving
<1>2. missed \in BOOLEAN /\ failed \in BOOLEAN
  <2>1. token[a] \in Token
    BY <1>1 DEF SessionsTypeOK
  <2> QED
    BY <2>1 DEF Token
<1>3. token' = IF token[a].valid THEN [token EXCEPT ![a] = new] ELSE token
  BY DEF Leaves, HandledLogout
<1> HIDE DEF missed, failed
<1>4. /\ new \in Token
      /\ new.session = token[a].session /\ new.valid = token[a].valid /\ new.beside = token[a].beside
      /\ new.out /\ new.failed = failed /\ new.missed = missed
  BY <1>1, <1>2 DEF SessionsTypeOK, Token
<1> HIDE DEF new
<1> QED
  BY <1>1, <1>3, <1>4 DEF SessionsTypeOK, missed, failed

LEMMA LogoutTyped ==
    ASSUME SessionsTypeOK, Leaving, HandleLogout
    PROVE  SessionsTypeOK'
<1>1. PICK rows1 \in {Revoked, rows}, fails \in BOOLEAN : Leaves(rows1, fails)
  BY LogoutSteps
<1>2. rows' \in [SessionIds -> Row]
  BY <1>1, RevokedRows DEF Leaves, HandledLogout, SessionsTypeOK
<1>3. token' \in [Accesses -> Token]
  BY <1>1, LogoutFields
<1>4. leave' \in Leave
  BY <1>1 DEF Leaves, HandledLogout, SessionsTypeOK, Leave
<1>5. sessionFaults' \in 0 .. MaxSessionFaults
  BY FaultTyped DEF HandleLogout, SessionsTypeOK
<1> QED
  BY <1>1, <1>2, <1>3, <1>4, <1>5 DEF Leaves, HandledLogout, SessionsTypeOK, client

LEMMA SessionsTypes ==
    ASSUME SessionsTypeOK, Looked, Leaving, [SessionsNext]_sessionVars
    PROVE  SessionsTypeOK'
<1>1. CASE UNCHANGED sessionVars
  BY <1>1 DEF sessionVars, SessionsTypeOK
<1>2. ASSUME NEW t \in Tabs,
             \/ Login(t) \/ OpenPage(t)
             \/ FindSessionByRefreshToken(t) \/ Refuse(t)
      PROVE  SessionsTypeOK'
  <2>1. call' \in [Tabs -> Call] /\ UNCHANGED <<userActive, rows, token, jar, leave, sessionFaults>>
    BY <1>2, AskingSteps, FindSteps DEF Login, OpenPage, Found, Refuse,
        client, SessionsTypeOK
  <2>2. tab' \in [Tabs -> Accesses \cup {NoToken}]
    BY <1>2, FindSteps DEF Login, OpenPage, Found, Refuse,
        client, SessionsTypeOK
  <2> QED
    BY <2>1, <2>2 DEF SessionsTypeOK
<1>3. ASSUME NEW t \in Tabs, Receive(t) \/ LoseAnswer(t) \/ AnswerFails(t)
      PROVE  SessionsTypeOK'
  <2>1. call' \in [Tabs -> Call] /\ UNCHANGED <<userActive, rows, leave>>
    BY <1>3, AskingSteps DEF Receive, LoseAnswer, AnswerFails, SessionsTypeOK
  <2>2. jar' \in Refreshes \cup {NoToken} /\ tab' \in [Tabs -> Accesses \cup {NoToken}]
    BY <1>3 DEF Receive, LoseAnswer, AnswerFails, client, SessionsTypeOK, Call
  <2>3. sessionFaults' \in 0 .. MaxSessionFaults
    BY <1>3, FaultTyped DEF Receive, LoseAnswer, AnswerFails, SessionsTypeOK
  <2>4. token' \in [Accesses -> Token]
    BY <1>3, TouchedFields DEF Receive, LoseAnswer, AnswerFails, SessionsTypeOK
  <2> QED
    BY <2>1, <2>2, <2>3, <2>4 DEF SessionsTypeOK
<1>4. ASSUME NEW t \in Tabs, HandsOut(t) PROVE SessionsTypeOK'
  <2>1. PICK s \in SessionIds, r \in Refreshes, a \in Accesses : HandOut(t, s, r, a)
    BY <1>4 DEF HandsOut
  <2>2. /\ rows' \in [SessionIds -> Row] /\ token' \in [Accesses -> Token]
        /\ call' \in [Tabs -> Call]
    BY <2>1, HandOutFields
  <2> QED
    BY <2>1, <2>2 DEF HandOut, SessionsTypeOK, client
<1>5. ASSUME NEW t \in Tabs, Logout(t) PROVE SessionsTypeOK'
  BY <1>5 DEF Logout, SessionsTypeOK, Leave
<1>6. CASE HandleLogout
  BY <1>6, LogoutTyped
<1>7. CASE ReceiveLogout
  BY <1>7, TouchedFields DEF ReceiveLogout, SessionsTypeOK, Leave, Stay
<1>8. ASSUME NEW a \in Accesses, ExpireAccess(a) PROVE SessionsTypeOK'
  <2>1. Unused \in Token
    BY DEF Unused, Token
  <2> QED
    BY <1>8, <2>1 DEF ExpireAccess, SessionsTypeOK, client
<1>9. ASSUME NEW s \in SessionIds, ExpireSession(s) PROVE SessionsTypeOK'
  <2>1. rows' \in [SessionIds -> Row]
    BY <1>9 DEF ExpireSession, SessionsTypeOK, Row
  <2> QED
    BY <1>9, <2>1 DEF ExpireSession, SessionsTypeOK, client
<1>10. CASE Deactivate
  BY <1>10 DEF Deactivate, SessionsTypeOK, client
<1> QED
  BY <1>1, <1>2, <1>3, <1>4, <1>5, <1>6, <1>7, <1>8, <1>9, <1>10, SessionsSteps

-----------------------------------------------------------------------------
(* The invariant.                                                          *)

\* The parts of the invariant that are about calls and hashes, and those that are about
\* the access tokens.
Calls == Looked /\ OneSessionPerHash /\ Spent /\ OneRefreshPerToken
Tokens == HandedOut /\ Alone /\ LeftBehind

LEMMA SessionsInvInit == SessionsInit => SessionsInv
<1> SUFFICES ASSUME SessionsInit PROVE SessionsInv
  OBVIOUS
<1>1. Looked /\ Spent /\ OneRefreshPerToken
  BY NoCallTyped DEF SessionsInit, Looked, Spent, OneRefreshPerToken
<1>2. OneSessionPerHash /\ HandedOut /\ Alone /\ LeftBehind
  BY DEF SessionsInit, OneSessionPerHash, HandedOut, Alone, LeftBehind, Unused
<1>3. Leaving
  BY DEF SessionsInit, Leaving, Stay
<1> QED
  BY <1>1, <1>2, <1>3, SessionsInitTypes DEF SessionsInv

\* A request that goes on, or ends, without new tokens.
LEMMA AskedCalls ==
    ASSUME SessionsTypeOK, Calls, NEW t \in Tabs, Asks(t)
    PROVE  Calls'
<1> USE DEF Calls
<1>1. call'[t].at # "ok"
  BY NoCallTyped DEF Asks
<1>2. Looked'
  BY NoCallTyped DEF Asks, Looked
<1>3. OneSessionPerHash'
  BY DEF Asks, OneSessionPerHash
<1>4. Spent' /\ OneRefreshPerToken'
  BY <1>1 DEF Asks, Spent, OneRefreshPerToken
<1> QED
  BY <1>2, <1>3, <1>4

\* New tokens: the hash that the request brought is gone, and the new one is nobody
\* else's.
LEMMA HandedCalls ==
    ASSUME SessionsTypeOK, Calls, NEW t \in Tabs, HandsOut(t)
    PROVE  Calls'
<1> USE DEF Calls
<1>1. PICK s \in SessionIds, r \in Refreshes, a \in Accesses :
        /\ HandOut(t, s, r, a)
        /\ \A u \in SessionIds : rows[u].hash # r
        /\ \A u \in Tabs : call[u].cookie # r
        /\ \/ call[t].at = "login" /\ rows[s].state = "absent"
           \/ call[t].at = "found" /\ rows[s].hash = call[t].cookie
  BY DEF HandsOut
<1>2. /\ rows'[s].hash = r
      /\ \A u \in SessionIds : u # s => rows'[u] = rows[u]
      /\ call'[t].at = "ok" /\ call'[t].cookie = call[t].cookie
      /\ \A u \in Tabs : u # t => call'[u] = call[u]
  BY <1>1, HandOutFields
<1>3. Looked'
  BY <1>2 DEF Looked
<1>4. OneSessionPerHash'
  BY <1>1, <1>2 DEF OneSessionPerHash
<1>5. Spent'
  <2>1. ASSUME NEW u \in Tabs, u # t, call[u].at = "ok", call[u].cookie # NoToken, NEW v \in SessionIds
        PROVE  rows'[v].hash # call[u].cookie
    BY <1>1, <1>2, <2>1 DEF Spent
  <2>2. ASSUME call[t].cookie # NoToken, NEW v \in SessionIds
        PROVE  rows'[v].hash # call[t].cookie
    BY <1>1, <1>2, <2>2 DEF Looked, OneSessionPerHash
  <2> QED
    BY <1>2, <2>1, <2>2 DEF Spent
<1>6. ASSUME NEW u \in Tabs, u # t, call[u].at = "ok", call[t].cookie # NoToken
      PROVE  call[u].cookie # call[t].cookie
  BY <1>1, <1>6 DEF Spent, Looked
<1>7. OneRefreshPerToken'
  BY <1>2, <1>6 DEF OneRefreshPerToken
<1> QED
  BY <1>3, <1>4, <1>5, <1>7

LEMMA CallsStep ==
    ASSUME SessionsInv, [SessionsNext]_sessionVars
    PROVE  Calls'
<1> USE DEF SessionsInv
<1>1. ASSUME UNCHANGED call, \A s \in SessionIds : rows'[s].hash = rows[s].hash
      PROVE  Calls'
  BY <1>1 DEF Calls, Looked, OneSessionPerHash, Spent, OneRefreshPerToken
<1>2. ASSUME NEW t \in Tabs,
             \/ Login(t) \/ OpenPage(t) \/ FindSessionByRefreshToken(t) \/ Refuse(t)
             \/ Receive(t) \/ LoseAnswer(t) \/ AnswerFails(t)
      PROVE  Calls'
  BY <1>1, <1>2, AskingSteps, AskedCalls DEF Calls
<1>3. ASSUME NEW t \in Tabs, HandsOut(t) PROVE Calls'
  BY <1>3, HandedCalls DEF Calls
<1>4. CASE HandleLogout
  <2>1. UNCHANGED call /\ rows' \in {Revoked, rows}
    BY <1>4, LogoutSteps DEF Leaves, HandledLogout
  <2> QED
    BY <1>1, <2>1, RevokedRows
<1>5. ASSUME NEW s \in SessionIds, ExpireSession(s) PROVE Calls'
  <2>1. \A u \in SessionIds : rows'[u].hash = rows[u].hash
    BY <1>5 DEF ExpireSession, SessionsTypeOK, Row
  <2> QED
    BY <1>1, <1>5, <2>1 DEF ExpireSession
<1>6. ASSUME \/ UNCHANGED sessionVars \/ (\E t \in Tabs : Logout(t)) \/ ReceiveLogout
             \/ (\E a \in Accesses : ExpireAccess(a)) \/ Deactivate
      PROVE  Calls'
  BY <1>1, <1>6 DEF sessionVars, Logout, ReceiveLogout, ExpireAccess, Deactivate
<1> QED
  BY <1>2, <1>3, <1>4, <1>5, <1>6, SessionsSteps

LEMMA LeavingStep ==
    ASSUME SessionsInv, [SessionsNext]_sessionVars
    PROVE  Leaving'
<1> USE DEF SessionsInv
<1>1. ASSUME UNCHANGED leave PROVE Leaving'
  BY <1>1 DEF Leaving
<1>2. ASSUME NEW t \in Tabs,
             \/ Login(t) \/ OpenPage(t) \/ FindSessionByRefreshToken(t) \/ Refuse(t)
             \/ Receive(t) \/ LoseAnswer(t) \/ AnswerFails(t)
      PROVE  Leaving'
  BY <1>1, <1>2, AskingSteps DEF Asks
<1>3. ASSUME NEW t \in Tabs, Logout(t) PROVE Leaving'
  BY <1>3 DEF Logout, Leaving, SessionsTypeOK
<1>4. CASE HandleLogout
  <2>1. leave' = [leave EXCEPT !.at = "answered"]
    BY <1>4 DEF HandleLogout, HandledLogout
  <2> QED
    BY <2>1 DEF Leaving, SessionsTypeOK, Leave
<1>5. CASE ReceiveLogout
  BY <1>5 DEF ReceiveLogout, Leaving, Stay
<1>6. ASSUME \/ UNCHANGED sessionVars \/ (\E t \in Tabs : HandsOut(t))
             \/ (\E a \in Accesses : ExpireAccess(a))
             \/ (\E s \in SessionIds : ExpireSession(s)) \/ Deactivate
      PROVE  Leaving'
  BY <1>1, <1>6 DEF sessionVars, HandsOut, HandOut, ExpireAccess, ExpireSession,
     Deactivate
<1> QED
  BY <1>2, <1>3, <1>4, <1>5, <1>6, SessionsSteps

\* A step beside the tokens, which changes no session's state or hash.
LEMMA MarkedTokens ==
    ASSUME SessionsTypeOK, HandedOut, LeftBehind, Marks, UNCHANGED rows
    PROVE  HandedOut' /\ LeftBehind'
<1>1. HandedOut'
  BY MarkedFields DEF HandedOut
<1>2. LeftBehind'
  BY MarkedFields DEF LeftBehind
<1> QED
  BY <1>1, <1>2

\* The access tokens that have not expired are of sessions that were inserted, and what
\* a logout has not reached is recorded with its token.
LEMMA HandedTokens ==
    ASSUME SessionsTypeOK, Tokens, NEW t \in Tabs, HandsOut(t)
    PROVE  Tokens'
<1>1. PICK s \in SessionIds, r \in Refreshes, a \in Accesses :
        /\ HandOut(t, s, r, a) /\ rows[s].state # "revoked"
        /\ \A u \in Tabs : call[u].access # a /\ tab[u] # a
        /\ leave.access # a
  BY DEF HandsOut
<1>2. /\ rows'[s].state = IF rows[s].state = "absent" THEN "live" ELSE rows[s].state
      /\ rows'[s].hash = r
      /\ \A u \in SessionIds : u # s => rows'[u] = rows[u]
      /\ token'[a].session = s /\ token'[a].valid /\ ~token'[a].out
      /\ call'[t].refresh = r /\ call'[t].access = a
      /\ \A u \in Tabs : u # t => call'[u] = call[u]
  BY <1>1, HandOutFields
<1>3. \A b \in Accesses : b # a =>
        /\ token'[b].session = token[b].session /\ token'[b].valid = token[b].valid
        /\ token'[b].out = token[b].out
        /\ token[b].out => token'[b] = token[b]
        /\ token[b].valid /\ ~token[b].out => token'[b].beside
  BY <1>1, HandOutFields, TouchedFields
<1>4. HandedOut'
  BY <1>2, <1>3 DEF Tokens, HandedOut
<1>5. LeftBehind'
  <2> SUFFICES ASSUME NEW b \in Accesses, token'[b].out, token'[b].valid
               PROVE  \/ rows'[token'[b].session].state # "live"
                      \/ token'[b].failed
                      \/ token'[b].missed /\ token'[b].beside
    BY DEF LeftBehind
  <2>1. b # a /\ token'[b] = token[b]
    BY <1>2, <1>3
  <2>2. rows'[token[b].session].state = rows[token[b].session].state
    BY <1>2, <2>1 DEF Tokens, HandedOut
  <2> QED
    BY <2>1, <2>2 DEF Tokens, LeftBehind
\* Only the new token has had nothing happen beside it, and only the answer has it.
<1>6. Alone'
  <2> SUFFICES ASSUME NEW b \in Accesses, token'[b].valid, ~token'[b].beside, ~token'[b].out
               PROVE  /\ rows'[token'[b].session].hash # NoToken
                      /\ \A u \in Tabs : call'[u].at = "ok" /\ call'[u].access = b
                                        => call'[u].refresh = rows'[token'[b].session].hash
                      /\ \A u \in Tabs : tab'[u] = b => jar' = rows'[token'[b].session].hash
                      /\ leave'.at = "sent" /\ leave'.access = b
                         => leave'.cookie = rows'[token'[b].session].hash
    BY DEF Alone
  <2>1. b = a
    BY <1>3
  <2>2. UNCHANGED <<tab, leave>>
    BY <1>1 DEF HandOut, client
  <2>3. r # NoToken
    BY TokensAssumption
  <2> QED
    BY <1>1, <1>2, <2>1, <2>2, <2>3
<1> QED
  BY <1>4, <1>5, <1>6 DEF Tokens

LEMMA LogoutTokens ==
    ASSUME SessionsTypeOK, Tokens, Leaving, HandleLogout
    PROVE  Tokens'
<1>1. PICK rows1 \in {Revoked, rows}, fails \in BOOLEAN : Leaves(rows1, fails)
  BY LogoutSteps
<1> DEFINE a == leave.access
<1>2. /\ a \in Accesses
      /\ ~token[a].valid => token' = token
      /\ \A b \in Accesses : b # a => token'[b] = token[b]
      /\ token'[a].session = token[a].session /\ token'[a].valid = token[a].valid
      /\ token'[a].beside = token[a].beside
      /\ token[a].valid => /\ token'[a].out
                          /\ token'[a].failed = (token[a].failed \/ fails)
                          /\ token'[a].missed = (token[a].missed \/ token[a].session \notin With(leave.cookie))
  BY <1>1, LogoutFields
<1>3. rows' = (IF fails THEN rows ELSE Revoked) /\ leave.at = "sent"
  BY <1>1 DEF Leaves, HandledLogout
<1>4. \A s \in SessionIds : rows'[s].state \in {rows[s].state, "revoked"} /\ rows'[s].hash = rows[s].hash
  BY <1>3, RevokedRows
<1>5. HandedOut'
  <2> SUFFICES ASSUME NEW b \in Accesses, token'[b].valid
               PROVE  token'[b].session \in SessionIds /\ rows'[token'[b].session].state # "absent"
    BY DEF HandedOut
  <2>1. token[b].valid /\ token'[b].session = token[b].session
    BY <1>2
  <2> QED
    BY <1>4, <2>1 DEF Tokens, HandedOut
<1>6. LeftBehind'
  <2> SUFFICES ASSUME NEW b \in Accesses, token'[b].out, token'[b].valid
               PROVE  \/ rows'[token'[b].session].state # "live"
                      \/ token'[b].failed
                      \/ token'[b].missed /\ token'[b].beside
    BY DEF LeftBehind
  <2>1. token[b].valid /\ token'[b].session = token[b].session /\ token[b].session \in SessionIds
    BY <1>2 DEF Tokens, HandedOut
  <2>2. CASE token[b].out
    <3>1. \/ rows[token[b].session].state # "live"
          \/ token[b].failed
          \/ token[b].missed /\ token[b].beside
      BY <2>1, <2>2 DEF Tokens, LeftBehind
    <3> QED
      BY <1>2, <1>4, <2>1, <3>1
  <2>3. CASE ~token[b].out
    <3>1. b = a
      BY <1>2, <2>3
    <3>2. CASE fails
      BY <1>2, <2>1, <3>1, <3>2
    <3>3. CASE ~fails /\ token[a].session \in With(leave.cookie)
      BY <1>3, <2>1, <3>1, <3>3, RevokedRows
    <3>4. CASE token[a].session \notin With(leave.cookie)
      <4>1. token[a].beside
        BY <1>3, <2>1, <2>3, <3>1, <3>4 DEF Tokens, Alone, With
      <4> QED
        BY <1>2, <2>1, <3>1, <3>4, <4>1
    <3> QED
      BY <3>2, <3>3, <3>4
  <2> QED
    BY <2>2, <2>3
<1>7. Alone'
  <2> SUFFICES ASSUME NEW b \in Accesses, token'[b].valid, ~token'[b].beside, ~token'[b].out
               PROVE  /\ rows'[token'[b].session].hash # NoToken
                      /\ \A u \in Tabs : call'[u].at = "ok" /\ call'[u].access = b
                                        => call'[u].refresh = rows'[token'[b].session].hash
                      /\ \A u \in Tabs : tab'[u] = b => jar' = rows'[token'[b].session].hash
                      /\ leave'.at = "sent" /\ leave'.access = b
                         => leave'.cookie = rows'[token'[b].session].hash
    BY DEF Alone
  <2>1. b # a /\ token'[b] = token[b]
    BY <1>2
  <2>2. token[b].session \in SessionIds /\ rows'[token[b].session].hash = rows[token[b].session].hash
    BY <1>4, <2>1 DEF Tokens, HandedOut
  <2>3. UNCHANGED <<call, tab, jar>> /\ leave'.at = "answered"
    BY <1>1 DEF Leaves, HandledLogout, client, SessionsTypeOK, Leave
  <2> QED
    BY <2>1, <2>2, <2>3 DEF Tokens, Alone
<1> QED
  BY <1>5, <1>6, <1>7 DEF Tokens

\* What a browser that asks, or hears, has with a token.
LEMMA AloneAsks ==
    ASSUME SessionsInv, NEW t \in Tabs,
           \/ Login(t) \/ OpenPage(t) \/ FindSessionByRefreshToken(t) \/ Refuse(t)
           \/ Receive(t) \/ LoseAnswer(t) \/ AnswerFails(t)
    PROVE  Alone'
<1> USE DEF SessionsInv
<1>1. UNCHANGED <<rows, leave>> /\ Marks /\ \A u \in Tabs : call'[u].at = "ok" => call'[u] = call[u]
  <2>1. UNCHANGED <<rows, leave>> /\ Marks
    BY AskingSteps DEF Asks, Marks
  <2>2. \A u \in Tabs : call'[u].at = "ok" => call'[u] = call[u]
    BY AskingSteps, NoCallTyped DEF Asks
  <2> QED
    BY <2>1, <2>2
<1> SUFFICES ASSUME NEW b \in Accesses, token'[b].valid, ~token'[b].beside, ~token'[b].out
             PROVE  /\ rows'[token'[b].session].hash # NoToken
                    /\ \A u \in Tabs : call'[u].at = "ok" /\ call'[u].access = b
                                      => call'[u].refresh = rows'[token'[b].session].hash
                    /\ \A u \in Tabs : tab'[u] = b => jar' = rows'[token'[b].session].hash
                    /\ leave'.at = "sent" /\ leave'.access = b
                       => leave'.cookie = rows'[token'[b].session].hash
  BY DEF Alone
<1>2. token'[b] = token[b]
  BY <1>1, MarkedFields
<1>3. CASE Receive(t)
  <2>1. call[t].at = "ok" /\ jar' = call[t].refresh /\ token' = Touched(call[t].access)
    BY <1>3 DEF Receive
  <2>2. b = call[t].access
    BY <1>2, <2>1, TouchedFields
  <2>3. jar' = rows[token[b].session].hash
    BY <1>2, <2>1, <2>2 DEF Alone
  <2> QED
    BY <1>1, <1>2, <2>3 DEF Alone
<1>4. CASE ~Receive(t)
  <2>1. jar' = jar /\ \A u \in Tabs : tab'[u] \in {tab[u], NoToken}
    BY <1>4, FindSteps DEF Login, OpenPage, Found, Refuse, LoseAnswer, AnswerFails, client, SessionsTypeOK
  <2>2. b # NoToken
    BY TokensAssumption
  <2> QED
    BY <1>1, <1>2, <2>1, <2>2 DEF Alone
<1> QED
  BY <1>3, <1>4

LEMMA TokensStep ==
    ASSUME SessionsInv, [SessionsNext]_sessionVars
    PROVE  Tokens'
<1> USE DEF SessionsInv
<1>1. ASSUME UNCHANGED <<rows, token, call, tab, jar>>,
             leave'.at = "sent" => leave' = leave
      PROVE  Tokens'
  BY <1>1 DEF Tokens, HandedOut, Alone, LeftBehind
<1>2. ASSUME NEW t \in Tabs,
             \/ Login(t) \/ OpenPage(t) \/ FindSessionByRefreshToken(t) \/ Refuse(t)
             \/ Receive(t) \/ LoseAnswer(t) \/ AnswerFails(t)
      PROVE  Tokens'
  <2>1. UNCHANGED rows /\ Marks
    BY <1>2, AskingSteps DEF Asks, Marks
  <2> QED
    BY <1>2, <2>1, MarkedTokens, AloneAsks DEF Tokens
<1>3. ASSUME NEW t \in Tabs, HandsOut(t) PROVE Tokens'
  BY <1>3, HandedTokens DEF Tokens
<1>4. CASE HandleLogout
  BY <1>4, LogoutTokens DEF Tokens
<1>5. ASSUME NEW a \in Accesses, ExpireAccess(a) PROVE Tokens'
  <2>1. /\ ~token'[a].valid /\ UNCHANGED <<rows, call, tab, jar, leave>>
        /\ \A b \in Accesses : b # a => token'[b] = token[b]
    BY <1>5 DEF ExpireAccess, client, SessionsTypeOK, Unused
  <2> QED
    BY <2>1 DEF Tokens, HandedOut, Alone, LeftBehind
<1>6. ASSUME NEW s \in SessionIds, ExpireSession(s) PROVE Tokens'
  <2>1. /\ rows'[s].state = "expired" /\ rows'[s].hash = rows[s].hash
        /\ \A u \in SessionIds : u # s => rows'[u] = rows[u]
    BY <1>6 DEF ExpireSession, SessionsTypeOK, Row
  <2>2. UNCHANGED <<token, call, tab, jar, leave>>
    BY <1>6 DEF ExpireSession, client
  <2>3. HandedOut' /\ LeftBehind'
    BY <2>1, <2>2 DEF HandedOut, LeftBehind
  <2>4. \A u \in SessionIds : rows'[u].hash = rows[u].hash
    BY <2>1
  <2>5. \A a \in Accesses : token[a].valid => rows'[token[a].session].hash = rows[token[a].session].hash
    BY <2>4 DEF HandedOut
  <2>6. Alone'
    BY <2>2, <2>5 DEF Alone
  <2> QED
    BY <2>3, <2>6 DEF Tokens
\* The logout is sent with the cookie that the browser has with the token.
<1>7. ASSUME NEW t \in Tabs, Logout(t) PROVE Tokens'
  <2>1. /\ UNCHANGED <<rows, token, call, jar>> /\ leave'.cookie = jar /\ leave'.access = tab[t]
        /\ \A u \in Tabs : tab'[u] \in {tab[u], NoToken}
    BY <1>7 DEF Logout, SessionsTypeOK
  <2>2. \A a \in Accesses : a # NoToken
    BY TokensAssumption
  <2>3. HandedOut' /\ LeftBehind'
    BY <2>1 DEF HandedOut, LeftBehind
  <2>4. Alone'
    BY <2>1, <2>2 DEF Alone
  <2> QED
    BY <2>3, <2>4 DEF Tokens
<1>8. CASE ReceiveLogout
  <2>1. UNCHANGED rows /\ token' = Touched(NoToken) /\ \A a \in Accesses : a # NoToken
    BY <1>8, TokensAssumption DEF ReceiveLogout
  <2>2. Marks
    BY <2>1 DEF Marks
  <2>3. \A a \in Accesses : token'[a].valid /\ ~token'[a].out => token'[a].beside
    BY <2>1, TouchedFields
  <2>4. Alone'
    BY <2>3 DEF Alone
  <2> QED
    BY <2>1, <2>2, <2>4, MarkedTokens DEF Tokens
<1>9. ASSUME UNCHANGED sessionVars \/ Deactivate
      PROVE  Tokens'
  BY <1>1, <1>9 DEF sessionVars, Deactivate, client
<1> QED
  BY <1>2, <1>3, <1>4, <1>5, <1>6, <1>7, <1>8, <1>9, SessionsSteps

LEMMA SessionsStep == SessionsInv /\ [SessionsNext]_sessionVars => SessionsInv'
BY SessionsTypes, CallsStep, LeavingStep, TokensStep DEF SessionsInv, Calls, Tokens

-----------------------------------------------------------------------------
(* The theorems.                                                           *)

\* The inductive invariant holds of every reachable state.
THEOREM SessionsInvAlways == SessionsSpec => []SessionsInv
BY SessionsInvInit, SessionsStep, PTL DEF SessionsSpec

\* Every variable has its type: what the tables, the calls and the browser hold.
THEOREM SessionsTypeCorrect == SessionsSpec => []SessionsTypeOK
<1>1. SessionsInv => SessionsTypeOK
  BY DEF SessionsInv
<1> QED
  BY <1>1, SessionsInvAlways, PTL

\* However many tabs send the same refresh token, one of them at most is answered with
\* new tokens: the update by id and old hash (RotateRefreshToken) finds the row for one.
THEOREM OneRefreshPerTokenHolds == SessionsSpec => []OneRefreshPerToken
<1>1. SessionsInv => OneRefreshPerToken
  BY DEF SessionsInv
<1> QED
  BY <1>1, SessionsInvAlways, PTL

\* After the logout of its tab, AuthMiddleware lets a request with an access token in only
\* when the revocation failed, or missed the session because of another tab.
THEOREM LoggedOutStaysOutHolds == SessionsSpec => []LoggedOutStaysOut
<1>1. SessionsInv => LoggedOutStaysOut
  BY DEF SessionsInv, LeftBehind, LoggedOutStaysOut, LetIn, Live
<1> QED
  BY <1>1, SessionsInvAlways, PTL

\* No login or refresh hands out an access token for a session that has been revoked,
\* whatever came between the look at the session and the update of its hash.
THEOREM NothingForTheRevokedHolds == SessionsSpec => NothingForTheRevoked
<1>1. ASSUME SessionsInv, [SessionsNext]_sessionVars, NEW a \in Accesses, ~token[a].valid, token'[a].valid
      PROVE  rows[token'[a].session].state # "revoked"
  <2> USE DEF SessionsInv
  <2>1. ASSUME NEW t \in Tabs, HandsOut(t)
        PROVE  rows[token'[a].session].state # "revoked"
    <3>1. PICK s \in SessionIds, r \in Refreshes, b \in Accesses :
            HandOut(t, s, r, b) /\ rows[s].state # "revoked"
      BY <2>1 DEF HandsOut
    <3>2. token'[b].session = s /\ \A c \in Accesses : c # b => token'[c].valid = token[c].valid
      BY <1>1, <3>1, HandOutFields, TouchedFields
    <3> QED
      BY <1>1, <3>1, <3>2
  <2>2. ASSUME token' = token PROVE FALSE
    BY <1>1, <2>2
  <2>3. ASSUME NEW t \in Tabs,
               \/ Login(t) \/ OpenPage(t) \/ FindSessionByRefreshToken(t) \/ Refuse(t)
               \/ Receive(t) \/ LoseAnswer(t) \/ AnswerFails(t)
        PROVE  FALSE
    BY <1>1, <2>2, <2>3, AskingSteps, MarkedFields DEF Asks
  <2>4. ASSUME HandleLogout PROVE FALSE
    <3>1. PICK rows1 \in {Revoked, rows}, fails \in BOOLEAN : Leaves(rows1, fails)
      BY <2>4, LogoutSteps
    <3> QED
      BY <1>1, <3>1, LogoutFields
  <2>5. ASSUME NEW b \in Accesses, ExpireAccess(b) PROVE FALSE
    BY <1>1, <2>5 DEF ExpireAccess, SessionsTypeOK, Unused
  <2>6. ASSUME \/ UNCHANGED sessionVars \/ (\E t \in Tabs : Logout(t))
               \/ (\E s \in SessionIds : ExpireSession(s)) \/ Deactivate
        PROVE  FALSE
    BY <2>2, <2>6 DEF sessionVars, Logout, ExpireSession, Deactivate
  <2>7. ASSUME ReceiveLogout PROVE FALSE
    BY <1>1, <2>7, TouchedFields DEF ReceiveLogout
  <2> QED
    BY <1>1, <2>1, <2>3, <2>4, <2>5, <2>6, <2>7, SessionsSteps
<1>2. SessionsInv /\ [SessionsNext]_sessionVars
      => [\A a \in Accesses : ~token[a].valid /\ token'[a].valid
                              => rows[token'[a].session].state # "revoked"]_sessionVars
  BY <1>1
<1> QED
  BY <1>2, SessionsInvAlways, PTL DEF NothingForTheRevoked, SessionsSpec

\* Once a deactivated user is locked out and no login or refresh is past the check of
\* users.status, none of the user's tabs gets in again.
THEOREM LockoutIsFinalHolds == SessionsSpec => LockoutIsFinal
<1>1. ASSUME SessionsInv, [SessionsNext]_sessionVars, LockedOut
      PROVE  LockedOut'
  <2> USE DEF SessionsInv
  <2>1. /\ ~userActive /\ \A t \in Tabs : call[t].at \notin {"login", "found"}
        /\ \A a \in Accesses : ~(token[a].valid /\ rows[token[a].session].state = "live")
    BY <1>1 DEF LockedOut, CanAct, LetIn, Live
  <2>2. ASSUME userActive' = userActive, \A t \in Tabs : call'[t].at \notin {"login", "found"},
               \A a \in Accesses : /\ token'[a].valid => token[a].valid
                                   /\ token'[a].valid => token'[a].session = token[a].session,
               \A s \in SessionIds : rows'[s].state = "live" => rows[s].state = "live"
        PROVE  LockedOut'
    BY <1>1, <2>1, <2>2 DEF LockedOut, CanAct, LetIn, Live, HandedOut
  <2>3. ASSUME NEW t \in Tabs, HandsOut(t)
        PROVE  FALSE
    BY <2>1, <2>3 DEF HandsOut
  <2>4. ASSUME NEW t \in Tabs, FindSessionByRefreshToken(t)
        PROVE  Refuse(t)
    BY <2>1, <2>4 DEF FindSessionByRefreshToken
  <2>5. ASSUME NEW t \in Tabs,
               OpenPage(t) \/ Refuse(t) \/ Receive(t) \/ LoseAnswer(t) \/ AnswerFails(t)
        PROVE  LockedOut'
    <3>1. \A u \in Tabs : call'[u].at \notin {"login", "found"}
      <4>1. call \in [Tabs -> Call]
        BY <1>1 DEF SessionsTypeOK
      <4>2. CASE OpenPage(t)
        BY <2>1, <4>1, <4>2 DEF OpenPage, Call
      <4>3. CASE Refuse(t) \/ Receive(t) \/ LoseAnswer(t) \/ AnswerFails(t)
        <5>1. call' = [call EXCEPT ![t] = NoCall]
          BY <4>3 DEF Refuse, Receive, LoseAnswer, AnswerFails
        <5> QED
          BY <2>1, <4>1, <5>1, NoCallTyped
      <4> QED
        BY <2>5, <4>2, <4>3
    <3>2. Marks
      BY <1>1, <2>5 DEF OpenPage, Refuse, Receive, LoseAnswer, AnswerFails, client, Marks, SessionsTypeOK, Call
    <3> QED
      BY <1>1, <2>2, <2>5, <3>1, <3>2, MarkedFields
      DEF OpenPage, Refuse, Receive, LoseAnswer, AnswerFails, client
  <2>6. ASSUME NEW t \in Tabs, Login(t)
        PROVE  FALSE
    BY <2>1, <2>6 DEF Login
  <2>7. CASE HandleLogout
    <3>1. PICK rows1 \in {Revoked, rows}, fails \in BOOLEAN : Leaves(rows1, fails)
      BY <2>7, LogoutSteps
    <3>2. \A a \in Accesses : token'[a].valid = token[a].valid /\ token'[a].session = token[a].session
      BY <1>1, <3>1, LogoutFields
    <3>3. \A s \in SessionIds : rows'[s].state = "live" => rows[s].state = "live"
      BY <1>1, <3>1, RevokedRows DEF Leaves, HandledLogout
    <3> QED
      BY <2>1, <2>2, <3>1, <3>2, <3>3 DEF Leaves, HandledLogout
  <2>8. ASSUME NEW b \in Accesses, ExpireAccess(b)
        PROVE  LockedOut'
    <3>1. ~token'[b].valid /\ \A a \in Accesses : a # b => token'[a] = token[a]
      BY <1>1, <2>8 DEF ExpireAccess, SessionsTypeOK, Unused
    <3> QED
      BY <2>1, <2>2, <2>8, <3>1 DEF ExpireAccess
  <2>9. ASSUME NEW s \in SessionIds, ExpireSession(s)
        PROVE  LockedOut'
    <3>1. rows'[s].state = "expired" /\ \A u \in SessionIds : u # s => rows'[u] = rows[u]
      BY <1>1, <2>9 DEF ExpireSession, SessionsTypeOK, Row
    <3> QED
      BY <2>1, <2>2, <2>9, <3>1 DEF ExpireSession
  <2>10. CASE \/ UNCHANGED sessionVars \/ (\E t \in Tabs : Logout(t))
              \/ Deactivate
    BY <2>1, <2>2, <2>10 DEF sessionVars, Logout, Deactivate
  <2>11. CASE ReceiveLogout
    BY <1>1, <2>1, <2>2, <2>11, TouchedFields DEF ReceiveLogout
  <2> QED
    BY <1>1, <2>3, <2>4, <2>5, <2>6, <2>7, <2>8, <2>9, <2>10, <2>11, SessionsSteps
<1>2. SessionsInv /\ [SessionsNext]_sessionVars
      => [LockedOut => LockedOut']_sessionVars
  BY <1>1
<1> QED
  BY <1>2, SessionsInvAlways, PTL DEF LockoutIsFinal, SessionsSpec
=============================================================================
