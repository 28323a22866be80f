------------------------------- MODULE WorkItem -------------------------------
(***************************************************************************)
(* One work item under concurrent requests: POST .../transitions moves it  *)
(* along the status machine, PATCH edits its other columns, and users      *)
(* start and stop watching it.  Every handler is split where it leaves the *)
(* process: the read that the decision is taken on (FindByKey), the read   *)
(* that opens the transaction, the guarded UPDATE and the reading of the   *)
(* watchers, the COMMIT, the read of the row after it, the publication of  *)
(* the event.  Between two of these steps any other request may run.       *)
(*                                                                         *)
(* PostgreSQL runs the transactions at READ COMMITTED: each statement sees *)
(* what was committed when it starts, and an UPDATE waits for the row lock *)
(* and re-evaluates its WHERE on the row it then finds.  Nobody else sees  *)
(* what a transaction writes before its COMMIT, so the row, the history    *)
(* and the notifications change there.                                     *)
(*                                                                         *)
(* A request is handled once; a client that tries again is another         *)
(* request.  The row_version a client sends is one that the row has had:   *)
(* the API hands versions out and clients return them.                     *)
(***************************************************************************)
EXTENDS Kanban, Integers, Sequences

CONSTANTS
  Transitions,   \* requests POST /api/work-items/{key}/transitions
  Updates,       \* requests PATCH /api/work-items/{key}
  Users,         \* members of the project who may watch the item
  ActorOf,       \* the user who sends a request
  Titles,        \* contents of the columns PATCH sets freely
  CreatedRows,   \* rows the creation may leave, for the runs to bound
  Keep           \* a column that the request does not mention

Requests == Transitions \cup Updates

Row == [status : Status, version : Nat \ {0}, reason : Text, resolution : Text, title : Titles]

Created == "created"   \* from_status is NULL in the entry the creation writes

ASSUME RequestsAssumption == Transitions \cap Updates = {} /\ Created \notin Requests
ASSUME ActorAssumption == DOMAIN ActorOf = Requests
ASSUME KeepAssumption == Keep \notin Titles \cup Text \cup Status
ASSUME CreatedAssumption ==
  \A new \in CreatedRows : /\ new \in Row
                           /\ new.version = 1
                           /\ ValidFields(new.status, new.reason, new.resolution)

VARIABLES
  row,       \* the row of work_items
  history,   \* the rows of work_item_status_history, in commit order
  watchers,  \* the users in work_item_watchers
  notified,  \* the rows of notifications: the dedup_key's version and user
  events,    \* the workitem.transitioned events published so far
  clock,     \* the database clock, which CURRENT_TIMESTAMP reads at BEGIN
  pc,        \* how far the handler of each request has come
  base,      \* the row_version in the body of each request
  read,      \* the row FindByKey returned to each request
  write,     \* the columns each request is about to set
  tx,        \* the status and the time each transaction began with
  found,     \* the watchers a transition is about to notify; after its COMMIT,
             \* those whom it did notify
  fresh      \* the status each transition found after its commit

vars == <<row, history, watchers, notified, events, clock, pc, base, read, write, tx, found, fresh>>

\* 200, 409, and 400 for everything else that goes wrong.
Answers == {"ok", "conflict", "rejected"}

Steps == {"new", "checked", "begun", "updated", "committed", "reread"} \cup Answers

-----------------------------------------------------------------------------

\* The row and the first history entry, as CreateWorkItem leaves them: any
\* status may be asked for, row_version is the column's default.
Init ==
  /\ row \in CreatedRows
  /\ history = << [id |-> Created, from |-> Created, to |-> row.status, at |-> 0] >>
  /\ watchers = {}
  /\ notified = {}
  /\ events = {}
  /\ clock = 0
  /\ pc = [r \in Requests |-> "new"]
  /\ base = [r \in Requests |-> 1]
  /\ read = [r \in Requests |-> row]
  /\ write = [r \in Requests |-> [status |-> row.status, reason |-> Keep,
                                   resolution |-> Keep, title |-> Keep]]
  /\ tx = [r \in Requests |-> [from |-> row.status, at |-> 0]]
  /\ found = [r \in Requests |-> {}]
  /\ fresh = [r \in Requests |-> row.status]

Goto(r, from, to) ==
  /\ pc[r] = from
  /\ pc' = [pc EXCEPT ![r] = to]

\* An answer that leaves everything else as it is: to a request that failed a
\* check, lost to another one, or met an error of the database.
Answer(r, from, answer) ==
  /\ Goto(r, from, answer)
  /\ UNCHANGED <<row, history, watchers, notified, events, clock, base, read, write, tx, found, fresh>>

\* One of the row's columns, unless the request leaves it alone.
Set(column, old) == IF column = Keep THEN old ELSE column

\* Mutant: the UPDATE that forgets row_version = row_version + 1.
SetColumnsSameVersion(old, columns) ==
  [status |-> columns.status, version |-> old.version,
   reason |-> Set(columns.reason, old.reason),
   resolution |-> Set(columns.resolution, old.resolution),
   title |-> Set(columns.title, old.title)]

\* UPDATE work_items SET ... , row_version = row_version + 1 on the row found.
SetColumns(old, columns) ==
  [status |-> columns.status, version |-> old.version + 1,
   reason |-> Set(columns.reason, old.reason),
   resolution |-> Set(columns.resolution, old.resolution),
   title |-> Set(columns.title, old.title)]

-----------------------------------------------------------------------------
(***************************************************************************)
(* POST /api/work-items/{key}/transitions                                  *)
(***************************************************************************)

\* The columns a transition sets: the CASE expressions of transitionWorkItemSQL.
TransitionColumns(to, note, resolution) ==
  [status |-> to,
   reason |-> IF to = "Blocked" THEN note ELSE Keep,
   resolution |-> IF to = "Done" THEN resolution ELSE Keep,
   title |-> Keep]

\* What Execute asks of the body of the request and of the status it read.
TransitionAccepted(version, from, to, note, resolution) ==
  /\ version >= 1
  /\ CanTransitionStatus(from, to)
  /\ ValidFields(to, note, resolution)

\* Execute up to the call of UpdateStatus: the input is checked, the row is
\* read, the state machine is asked about the status just read.
TransitionCheck(r) ==
  \E version \in 0 .. row.version, to \in Status, note, resolution \in Text :
    IF TransitionAccepted(version, row.status, to, note, resolution)
    THEN /\ Goto(r, "new", "checked")
         /\ base' = [base EXCEPT ![r] = version]
         /\ read' = [read EXCEPT ![r] = row]
         /\ write' = [write EXCEPT ![r] = TransitionColumns(to, note, resolution)]
         /\ UNCHANGED <<row, history, watchers, notified, events, clock, tx, found, fresh>>
    ELSE Answer(r, "new", "rejected")

\* UpdateStatus begins its transaction and reads the status for the history.
TransitionBegin(r) ==
  /\ Goto(r, "checked", "begun")
  /\ clock' = clock + 1
  /\ tx' = [tx EXCEPT ![r] = [from |-> row.status, at |-> clock + 1]]
  /\ UNCHANGED <<row, history, watchers, notified, events, base, read, write, found, fresh>>

\* A transaction that changed the row keeps it locked until its end.
RowLocked == \E q \in Transitions : pc[q] = "updated"

\* The UPDATE finds the row at the version of the request; the watchers other
\* than the actor are read after it.
TransitionLock(r) ==
  /\ Goto(r, "begun", "updated")
  /\ found' = [found EXCEPT ![r] = watchers \ {ActorOf[r]}]
  /\ UNCHANGED <<row, history, watchers, notified, events, clock, base, read, write, tx, fresh>>

\* Mutant: the UPDATE has no AND row_version = $5.
TransitionUpdateUnguarded(r) == ~RowLocked /\ TransitionLock(r)

\* Mutant: RowsAffected() is not looked at.
TransitionUpdateUnchecked(r) ==
  /\ ~RowLocked
  /\ IF row.version # base[r] THEN Answer(r, "begun", "committed") ELSE TransitionLock(r)

\* Mutant: the conflict is never answered.
TransitionUpdateStuck(r) == ~RowLocked /\ row.version = base[r] /\ TransitionLock(r)

\* The UPDATE waits for the row, and finds it at the version of the request or
\* finds none.
TransitionUpdate(r) ==
  /\ ~RowLocked
  /\ IF row.version # base[r] THEN Answer(r, "begun", "conflict") ELSE TransitionLock(r)

\* Mutant: the dedup_key names the item and the watcher, not the version.
NoticesSameKey(r, told) == [version : {1}, user : told]

\* A notification for each of the users told, under the dedup_key of this version.
Notices(r, told) == [version : {base[r]}, user : told]

\* COMMIT: the row and the history entry are there, and the notifications of
\* the watchers whose INSERT succeeded.  Any of these may have failed: they run
\* on the transaction while the rows of the watchers are still open, and their
\* errors are dropped like those of the query for the watchers and of its rows.
TransitionCommit(r) ==
  /\ Goto(r, "updated", "committed")
  /\ row' = SetColumns(row, write[r])
  /\ history' = Append(history, [id |-> r, from |-> tx[r].from,
                                 to |-> write[r].status, at |-> tx[r].at])
  /\ \E told \in SUBSET found[r] :
       /\ notified' = notified \cup Notices(r, told)
       /\ found' = [found EXCEPT ![r] = told]
  /\ UNCHANGED <<watchers, events, clock, base, read, write, tx, fresh>>

\* The row is read again after the commit, outside the transaction.
TransitionReread(r) ==
  /\ Goto(r, "committed", "reread")
  /\ fresh' = [fresh EXCEPT ![r] = row.status]
  /\ UNCHANGED <<row, history, watchers, notified, events, clock, base, read, write, tx, found>>

\* Mutant: old_status is taken from the row after the commit.
TransitionPublishLateOld(r) ==
  /\ Goto(r, "reread", "ok")
  /\ events' = events \cup {[id |-> r, old |-> fresh[r], status |-> fresh[r]]}
  /\ UNCHANGED <<row, history, watchers, notified, clock, base, read, write, tx, found, fresh>>

\* The event is published, or the publisher's error is dropped.
TransitionPublish(r) ==
  /\ Goto(r, "reread", "ok")
  /\ \/ events' = events \cup {[id |-> r, old |-> read[r].status, status |-> fresh[r]]}
     \/ UNCHANGED events
  /\ UNCHANGED <<row, history, watchers, notified, clock, base, read, write, tx, found, fresh>>

-----------------------------------------------------------------------------
(***************************************************************************)
(* PATCH /api/work-items/{key}                                             *)
(***************************************************************************)

\* Mutant: the merged columns are not validated.
UpdateAcceptedUnvalidated(version, status, merged) ==
  version >= 1 /\ status \in {Keep, merged.status}

\* A PATCH may repeat the status and not change it; what results is validated.
UpdateAccepted(version, status, merged) ==
  /\ version >= 1
  /\ status \in {Keep, merged.status}
  /\ ValidFields(merged.status, merged.reason, merged.resolution)

\* Execute up to the call of Update: the row is read, the columns the request
\* leaves out are filled in from it, the result is validated.  A null in the
\* body is a column left out; an empty string is a blank text.
UpdateCheck(r) ==
  \E version \in 0 .. row.version, status \in Status \cup {Keep},
     title \in Titles \cup {Keep}, reason, resolution \in {Keep, "blank", "text"} :
    LET merged == [status |-> row.status, reason |-> Set(reason, row.reason),
                   resolution |-> Set(resolution, row.resolution),
                   title |-> Set(title, row.title)]
    IN  IF UpdateAccepted(version, status, merged)
        THEN /\ Goto(r, "new", "checked")
             /\ base' = [base EXCEPT ![r] = version]
             /\ read' = [read EXCEPT ![r] = row]
             /\ write' = [write EXCEPT ![r] = merged]
             /\ UNCHANGED <<row, history, watchers, notified, events, clock, tx, found, fresh>>
        ELSE Answer(r, "new", "rejected")

\* A module, node, parent or assignee that does not belong to the project.
UpdateReferenceRejected(r) == Answer(r, "checked", "rejected")

UpdateWrite(r) ==
  /\ Goto(r, "checked", "committed")
  /\ row' = SetColumns(row, write[r])
  /\ UNCHANGED <<history, watchers, notified, events, clock, base, read, write, tx, found, fresh>>

\* Mutant: the UPDATE has no AND row_version = $17.
UpdateCommitUnguarded(r) == ~RowLocked /\ UpdateWrite(r)

\* The guarded UPDATE of all the columns, the status among them, and the COMMIT.
UpdateCommit(r) ==
  /\ ~RowLocked
  /\ IF row.version # base[r] THEN Answer(r, "checked", "conflict") ELSE UpdateWrite(r)

\* The row is read again for the answer, which publishes nothing.
UpdateReread(r) == Answer(r, "committed", "ok")

-----------------------------------------------------------------------------
(***************************************************************************)
(* Failures, and the watchers artifact                                     *)
(***************************************************************************)

\* A statement fails: what is not committed is rolled back.  The handlers answer
\* every such error with 400 like a failed check, one of the read that follows
\* the COMMIT included.
DatabaseError(r) ==
  \E from \in {"new", "checked", "begun", "updated", "committed"} : Answer(r, from, "rejected")

\* POST and DELETE .../artifacts/watchers.
Watch(u) ==
  /\ watchers' = watchers \cup {u}
  /\ UNCHANGED <<row, history, notified, events, clock, pc, base, read, write, tx, found, fresh>>

Unwatch(u) ==
  /\ u \in watchers
  /\ watchers' = watchers \ {u}
  /\ UNCHANGED <<row, history, notified, events, clock, pc, base, read, write, tx, found, fresh>>

\* What a handler does after the checks.
TransitionContinue(r) ==
  \/ TransitionBegin(r) \/ TransitionUpdate(r) \/ TransitionCommit(r)
  \/ TransitionReread(r) \/ TransitionPublish(r)

UpdateContinue(r) == UpdateReferenceRejected(r) \/ UpdateCommit(r) \/ UpdateReread(r)

Next ==
  \/ \E r \in Transitions : TransitionCheck(r) \/ TransitionContinue(r)
  \/ \E r \in Updates : UpdateCheck(r) \/ UpdateContinue(r)
  \/ \E r \in Requests : DatabaseError(r)
  \/ \E u \in Users : Watch(u) \/ Unwatch(u)

Spec == Init /\ [][Next]_vars

\* A request handler is a goroutine of its own and waits for the database only.
Fairness ==
  /\ \A r \in Transitions : WF_vars(TransitionContinue(r))
  /\ \A r \in Updates : WF_vars(UpdateContinue(r))

FairSpec == Spec /\ Fairness

-----------------------------------------------------------------------------
(***************************************************************************)
(* Properties                                                              *)
(***************************************************************************)

Trail == [k \in 1 .. Len(history) |-> <<history[k].from, history[k].to>>]

Board == INSTANCE WorkItemBoard WITH item <- row, trail <- Trail

\* The type of the variables.
TypeOK ==
  /\ row \in Row
  /\ history \in Seq([id : Requests \cup {Created}, from : Status \cup {Created},
                      to : Status, at : Nat])
  /\ watchers \in SUBSET Users
  /\ notified \in SUBSET [version : Nat \ {0}, user : Users]
  /\ events \in SUBSET [id : Requests, old : Status, status : Status]
  /\ clock \in Nat
  /\ pc \in [Requests -> Steps]
  /\ base \in [Requests -> Nat \ {0}]
  /\ read \in [Requests -> Row]
  /\ write \in [Requests -> [status : Status, reason : Text \cup {Keep},
                             resolution : Text \cup {Keep}, title : Titles \cup {Keep}]]
  /\ tx \in [Requests -> [from : Status, at : Nat]]
  /\ found \in [Requests -> SUBSET Users]
  /\ fresh \in [Requests -> Status]

\* The handlers, interleaved at will, do what the abstract board does: every
\* committed request is a move or an edit of the row as it is at the commit.
ImplementsBoard == Board!Spec

\* The history is an unbroken chain of allowed transitions that ends in the
\* status of the row, although each from_status is read before the UPDATE and
\* each target was checked against a read before the transaction.
AuditTrail == Board!AuditTrail

\* The reason of a Blocked item and the resolution of a Done one are never
\* lost, although they are checked against a status that others may change.
StatusHasItsReason == Board!StatusHasItsReason

\* The entries are in the order of their created_at, the time their transaction
\* began: what the derived views sort by and compute durations from.
HistoryInTimeOrder ==
  \A k \in 1 .. Len(history) - 1 : history[k].at < history[k + 1].at

\* The step in which a request commits.
Commits(r) == pc[r] \in {"checked", "begun", "updated"} /\ pc'[r] = "committed"

\* No lost update: when a request commits, the row is still the one it read
\* when it checked and merged its input.
DecidedOnWhatItChanges == [][\A r \in Requests : Commits(r) => read[r] = row]_vars

Succeeded == {r \in Requests : pc[r] \in {"committed", "reread", "ok"}}

\* Of the requests sent with the same row_version, one at most succeeds.
OneWinnerPerVersion == \A r, s \in Succeeded : base[r] = base[s] => r = s

Recorded(r) == \E k \in 1 .. Len(history) : history[k].id = r

\* What an answer tells: 200 to a transition, that its entry is in the history;
\* 409, that it is not and that the row has moved on.  400 does not tell: the read
\* after the COMMIT may have failed.  But then the row has left the version of the
\* request, so that sending the same request again cannot move the item twice.
AnswerIsTrue ==
  \A r \in Requests :
    /\ r \in Transitions /\ pc[r] = "ok" => Recorded(r)
    /\ pc[r] = "conflict" => ~Recorded(r) /\ base[r] < row.version
    /\ pc[r] = "rejected" /\ Recorded(r) => base[r] < row.version

ToldOf(u) == {n \in notified : n.user = u}

\* A move notifies only users whom it found watching, never the one who moves;
\* each INSERT that succeeds brings its user one new notification, as no dedup_key
\* is met twice; and nothing but such a move brings any: what a transaction that
\* fails wrote is not seen.  (A watcher whose INSERT fails is told by nobody.)
ToldOncePerMove ==
  [][\A u \in Users :
       IF \E r \in Transitions : Commits(r) /\ u \in found'[r]
       THEN /\ \A r \in Transitions : Commits(r) => u \in found[r] /\ u # ActorOf[r]
            /\ \E n \in ToldOf(u)' : ToldOf(u)' \ ToldOf(u) = {n}
       ELSE ToldOf(u)' = ToldOf(u)]_vars

\* The entry of r left from old, and status is where it, or one after it, arrived.
Told(r, old, status) ==
  \E k \in 1 .. Len(history) :
    /\ history[k].id = r
    /\ history[k].from = old
    /\ \E j \in k .. Len(history) : history[j].to = status

\* An event is about a committed transition: old_status is where that one left
\* from, and status is where it, or one after it, arrived.  (The status is read
\* after the commit, so the pair need not be an allowed transition.)
EventNamesItsMove == \A e \in events : Told(e.id, e.old, e.status)

\* Once its input is checked, every request is answered.
EveryRequestAnswered == \A r \in Requests : pc[r] = "checked" ~> pc[r] \in Answers

-----------------------------------------------------------------------------
(***************************************************************************)
(* The inductive invariant behind the safety properties                    *)
(***************************************************************************)

Deciding(r) == pc[r] \in {"checked", "begun", "updated"}

\* Whoever has the row locked has it at the version of its request, alone.
LockedAtBase ==
  \A r \in Transitions : pc[r] = "updated" =>
    /\ base[r] = row.version
    /\ \A q \in Transitions : pc[q] = "updated" => q = r

\* The row has one content per version, and versions only grow.
SnapshotsAreOld ==
  \A r \in Requests : Deciding(r) =>
    /\ base[r] <= read[r].version
    /\ read[r].version <= row.version
    /\ read[r].version = row.version => read[r] = row

\* What a request is about to write is right for the row that it read.
WritesFitTheirRead ==
  /\ \A r \in Transitions : Deciding(r) =>
       /\ CanTransitionStatus(read[r].status, write[r].status)
       /\ \E note, resolution \in Text :
            /\ ValidFields(write[r].status, note, resolution)
            /\ write[r] = TransitionColumns(write[r].status, note, resolution)
  /\ \A r \in Updates : Deciding(r) =>
       /\ pc[r] = "checked"
       /\ write[r].status = read[r].status
       /\ write[r].reason \in Text /\ write[r].resolution \in Text /\ write[r].title \in Titles
       /\ ValidFields(write[r].status, write[r].reason, write[r].resolution)

Last == history[Len(history)]

\* A transaction that can still commit began after the last one committed.
BegunAfterLastCommit ==
  /\ Last.at <= clock
  /\ \A r \in Requests : tx[r].at <= clock
  /\ \A r \in Transitions : pc[r] \in {"begun", "updated"} /\ read[r].version = row.version =>
       /\ tx[r].from = row.status
       /\ Last.at < tx[r].at

\* The audit trail, said of the history itself.
HistoryChained ==
  /\ Len(history) >= 1
  /\ history[1].from = Created
  /\ Last.to = row.status
  /\ \A k \in 1 .. Len(history) - 1 :
       /\ history[k + 1].from = history[k].to
       /\ CanTransitionStatus(history[k + 1].from, history[k + 1].to)

\* The versions that were used up are behind the version of the row.
WinnersAreBehind == \A r \in Succeeded : base[r] < row.version

\* All the parts together are preserved by every step.
Consistent ==
  /\ LockedAtBase
  /\ SnapshotsAreOld
  /\ WritesFitTheirRead
  /\ BegunAfterLastCommit
  /\ HistoryChained
  /\ HistoryInTimeOrder
  /\ WinnersAreBehind
  /\ OneWinnerPerVersion
  /\ ValidFields(row.status, row.reason, row.resolution)

\* An entry of the history is the creation's or that of a transition past its
\* COMMIT, and every transition that got there has one.
EntriesHaveOwners ==
  /\ \A r \in Transitions : pc[r] \in {"committed", "reread", "ok"} =>
       Recorded(r)
  /\ \A k \in 1 .. Len(history) :
       \/ history[k].id = Created
       \/ /\ history[k].id \in Transitions
          /\ pc[history[k].id] \in {"committed", "reread", "ok", "rejected"}

\* The version of a request that was recorded, or lost, is used up.
AnsweredAreBehind ==
  \A r \in Requests : pc[r] = "conflict" \/ Recorded(r) => base[r] < row.version

\* What a transition will publish is of its own entry.
EventsToCome ==
  \A r \in Transitions :
    /\ pc[r] = "committed" => \E k \in 1 .. Len(history) :
         history[k].id = r /\ history[k].from = read[r].status
    /\ pc[r] = "reread" => Told(r, read[r].status, fresh[r])

\* The dedup_keys used up are of versions that the row has left behind, and
\* nobody is about to be told of a move of his own.
NoticesAreBehind ==
  /\ \A n \in notified : n.version < row.version
  /\ \A r \in Transitions : pc[r] = "updated" => ActorOf[r] \notin found[r]

\* What the requests have told the world fits what they did.
Reported ==
  /\ EntriesHaveOwners
  /\ AnsweredAreBehind
  /\ EventsToCome
  /\ EventNamesItsMove
  /\ NoticesAreBehind
=============================================================================
