---------------------------- MODULE WorkItemProofs ----------------------------
(***************************************************************************)
(* Proofs about WorkItem: whatever the number of requests, users and       *)
(* titles, the guarded UPDATE makes every committed request a step of the  *)
(* abstract board.                                                         *)
(*                                                                         *)
(* The argument.  A client sends a row_version it was given, so base[r] is *)
(* at most the version of the row that FindByKey then reads; that version  *)
(* is at most the version of the row later on; and a commit needs base[r]  *)
(* to be the version of the row.  The three are then equal, and as two     *)
(* rows of one version are the same row (Snapshot), the row that changes   *)
(* is the row that the checks were made on.                                *)
(*                                                                         *)
(* What the requests tell the world, in answers, events and notifications, *)
(* fits what they did (Reported): an entry of the history names its        *)
(* request, a refused version and a used dedup_key are behind the row, and *)
(* the row only moves on.                                                  *)
(***************************************************************************)
EXTENDS WorkItem, SequenceTheorems, TLAPS

(***************************************************************************)
(* Types                                                                   *)
(***************************************************************************)

LEMMA InitTypeOK == Init => TypeOK
<1> SUFFICES ASSUME Init PROVE TypeOK
  OBVIOUS
<1>1. row \in Row /\ row.status \in Status
  BY CreatedAssumption DEF Init, Row
<1>2. history \in Seq([id : Requests \cup {Created}, from : Status \cup {Created},
                       to : Status, at : Nat])
  BY <1>1 DEF Init
<1> QED
  BY <1>1, <1>2 DEF Init, TypeOK, Steps
LEMMA SetColumnsType ==
  ASSUME NEW old \in Row,
         NEW columns \in [status : Status, reason : Text \cup {Keep},
                          resolution : Text \cup {Keep}, title : Titles \cup {Keep}]
  PROVE  SetColumns(old, columns) \in Row
BY DEF SetColumns, Set, Row

LEMMA AnswerTypeOK ==
  ASSUME TypeOK, NEW r \in Requests, NEW from \in Steps, NEW answer \in Steps,
         Answer(r, from, answer)
  PROVE  TypeOK'
BY DEF TypeOK, Answer, Goto

LEMMA TransitionTypeOK ==
  ASSUME TypeOK, NEW r \in Transitions, TransitionCheck(r) \/ TransitionContinue(r)
  PROVE  TypeOK'
<1> r \in Requests
  BY DEF Requests
<1>1. CASE TransitionCheck(r)
  <2> PICK version \in 0 .. row.version, to \in Status, note \in Text, resolution \in Text :
        TransitionCheck(r)!(version, to, note, resolution)
    BY <1>1 DEF TransitionCheck
  <2>1. CASE TransitionAccepted(version, row.status, to, note, resolution)
    <3>1. version \in Nat \ {0}
      BY <2>1 DEF TransitionAccepted
    <3>2. TransitionColumns(to, note, resolution)
            \in [status : Status, reason : Text \cup {Keep},
                 resolution : Text \cup {Keep}, title : Titles \cup {Keep}]
      BY DEF TransitionColumns
    <3> /\ Goto(r, "new", "checked")
        /\ base' = [base EXCEPT ![r] = version]
        /\ read' = [read EXCEPT ![r] = row]
        /\ write' = [write EXCEPT ![r] = TransitionColumns(to, note, resolution)]
        /\ UNCHANGED <<row, history, watchers, notified, events, clock, tx, found, fresh>>
      BY <2>1
    <3>3. pc' \in [Requests -> Steps]
      BY DEF TypeOK, Goto, Steps
    <3>4. base' \in [Requests -> Nat \ {0}] /\ read' \in [Requests -> Row]
      BY <3>1 DEF TypeOK
    <3>5. write' \in [Requests -> [status : Status, reason : Text \cup {Keep},
                                  resolution : Text \cup {Keep}, title : Titles \cup {Keep}]]
      BY <3>2 DEF TypeOK
    <3> QED
      BY <3>3, <3>4, <3>5 DEF TypeOK
  <2>2. CASE ~TransitionAccepted(version, row.status, to, note, resolution)
    BY <2>2, AnswerTypeOK DEF Steps, Answers
  <2> QED
    BY <2>1, <2>2
<1>2. CASE TransitionBegin(r)
  BY <1>2 DEF TypeOK, TransitionBegin, Goto, Steps, Row
<1>3. CASE TransitionUpdate(r)
  <2>1. CASE row.version # base[r]
    BY <1>3, <2>1, AnswerTypeOK DEF TransitionUpdate, Steps, Answers
  <2>2. CASE TransitionLock(r)
    BY <2>2 DEF TransitionLock, TypeOK, Goto, Steps
  <2> QED
    BY <1>3, <2>1, <2>2 DEF TransitionUpdate
<1>6. CASE TransitionCommit(r)
  <2>1. row' \in Row
    BY <1>6, SetColumnsType DEF TransitionCommit, TypeOK
  <2>2. history' \in Seq([id : Requests \cup {Created}, from : Status \cup {Created},
                          to : Status, at : Nat])
    BY <1>6 DEF TransitionCommit, TypeOK
  <2>3. notified' \in SUBSET [version : Nat \ {0}, user : Users]
    BY <1>6 DEF TransitionCommit, TypeOK, Notices
  <2> QED
    BY <1>6, <2>1, <2>2, <2>3 DEF TransitionCommit, TypeOK, Goto, Steps
<1>4. CASE TransitionReread(r)
  BY <1>4 DEF TypeOK, TransitionReread, Goto, Steps, Row
<1>5. CASE TransitionPublish(r)
  <2>1. events' \in SUBSET [id : Requests, old : Status, status : Status]
    BY <1>5 DEF TypeOK, TransitionPublish, Row
  <2> QED
    BY <1>5, <2>1 DEF TypeOK, TransitionPublish, Goto, Steps, Answers
<1> QED
  BY <1>1, <1>2, <1>3, <1>4, <1>5, <1>6 DEF TransitionContinue

LEMMA UpdateTypeOK ==
  ASSUME TypeOK, NEW r \in Updates, UpdateCheck(r) \/ UpdateContinue(r)
  PROVE  TypeOK'
<1> r \in Requests
  BY DEF Requests
<1>1. CASE UpdateCheck(r)
  <2> PICK version \in 0 .. row.version, status \in Status \cup {Keep},
           title \in Titles \cup {Keep}, reason \in {Keep, "blank", "text"},
           resolution \in {Keep, "blank", "text"} :
             UpdateCheck(r)!(version, status, title, reason, resolution)
    BY <1>1 DEF UpdateCheck
  <2> DEFINE merged == [status |-> row.status, reason |-> Set(reason, row.reason),
                        resolution |-> Set(resolution, row.resolution),
                        title |-> Set(title, row.title)]
  <2>1. CASE UpdateAccepted(version, status, merged)
    <3>1. version \in Nat \ {0}
      BY <2>1 DEF UpdateAccepted
    <3>2. merged \in [status : Status, reason : Text \cup {Keep},
                      resolution : Text \cup {Keep}, title : Titles \cup {Keep}]
      BY DEF Set, TypeOK, Row, Text
    <3> /\ Goto(r, "new", "checked")
        /\ base' = [base EXCEPT ![r] = version]
        /\ read' = [read EXCEPT ![r] = row]
        /\ write' = [write EXCEPT ![r] = merged]
        /\ UNCHANGED <<row, history, watchers, notified, events, clock, tx, found, fresh>>
      BY <2>1
    <3>3. pc' \in [Requests -> Steps]
      BY DEF TypeOK, Goto, Steps
    <3>4. base' \in [Requests -> Nat \ {0}] /\ read' \in [Requests -> Row]
      BY <3>1 DEF TypeOK
    <3>5. write' \in [Requests -> [status : Status, reason : Text \cup {Keep},
                                  resolution : Text \cup {Keep}, title : Titles \cup {Keep}]]
      BY <3>2 DEF TypeOK
    <3> QED
      BY <3>3, <3>4, <3>5 DEF TypeOK
  <2>2. CASE ~UpdateAccepted(version, status, merged)
    BY <2>2, AnswerTypeOK DEF Steps, Answers
  <2> QED
    BY <2>1, <2>2
<1>2. CASE UpdateReferenceRejected(r)
  BY <1>2, AnswerTypeOK DEF UpdateReferenceRejected, Steps, Answers
<1>3. CASE UpdateCommit(r)
  <2>1. CASE row.version # base[r]
    BY <1>3, <2>1, AnswerTypeOK DEF UpdateCommit, Steps, Answers
  <2>2. CASE UpdateWrite(r)
    <3>1. row' \in Row
      BY <2>2, SetColumnsType DEF UpdateWrite, TypeOK
    <3> QED
      BY <2>2, <3>1 DEF UpdateWrite, TypeOK, Goto, Steps
  <2> QED
    BY <1>3, <2>1, <2>2 DEF UpdateCommit
<1>4. CASE UpdateReread(r)
  BY <1>4, AnswerTypeOK DEF UpdateReread, Steps, Answers
<1> QED
  BY <1>1, <1>2, <1>3, <1>4 DEF UpdateContinue

LEMMA NextTypeOK == TypeOK /\ [Next]_vars => TypeOK'
<1> SUFFICES ASSUME TypeOK, [Next]_vars PROVE TypeOK'
  OBVIOUS
<1>1. ASSUME NEW r \in Requests, DatabaseError(r) PROVE TypeOK'
  BY <1>1, AnswerTypeOK DEF DatabaseError, Steps, Answers
<1>2. ASSUME NEW u \in Users, Watch(u) \/ Unwatch(u) PROVE TypeOK'
  BY <1>2 DEF TypeOK, Watch, Unwatch
<1>3. CASE UNCHANGED vars
  BY <1>3 DEF TypeOK, vars
<1> QED
  BY <1>1, <1>2, <1>3, TransitionTypeOK, UpdateTypeOK DEF Next

\* Every variable keeps its type: the handlers never store what the columns of
\* the schema could not hold.
THEOREM TypeCorrect == Spec => []TypeOK
BY InitTypeOK, NextTypeOK, PTL DEF Spec

(***************************************************************************)
(* The inductive invariant                                                 *)
(***************************************************************************)

LEMMA SeqElement ==
  ASSUME NEW S, NEW seq \in Seq(S), NEW k \in 1 .. Len(seq)
  PROVE  seq[k] \in S
OBVIOUS

LEMMA LastType == TypeOK /\ HistoryChained => Last.at \in Nat
<1> SUFFICES ASSUME TypeOK, HistoryChained PROVE Last.at \in Nat
  OBVIOUS
<1> DEFINE Entry == [id : Requests \cup {Created}, from : Status \cup {Created},
                     to : Status, at : Nat]
<1>1. history \in Seq(Entry)
  BY DEF TypeOK
<1>2. Len(history) \in 1 .. Len(history)
  BY <1>1 DEF HistoryChained
<1> HIDE DEF Entry
<1>3. Last \in Entry
  BY <1>1, <1>2, SeqElement DEF Last
<1> QED
  BY <1>3 DEF Entry

LEMMA InitConsistent == Init => Consistent
<1> SUFFICES ASSUME Init PROVE Consistent
  OBVIOUS
<1>1. row.version = 1 /\ ValidFields(row.status, row.reason, row.resolution)
  BY CreatedAssumption DEF Init
<1>2. Len(history) = 1 /\ history[1] = [id |-> Created, from |-> Created, to |-> row.status, at |-> 0]
  BY DEF Init
<1>3. \A r \in Requests : pc[r] = "new"
  BY DEF Init
<1>4. LockedAtBase /\ SnapshotsAreOld /\ WritesFitTheirRead /\ WinnersAreBehind /\ OneWinnerPerVersion
  BY <1>3 DEF LockedAtBase, SnapshotsAreOld, WritesFitTheirRead, WinnersAreBehind,
              OneWinnerPerVersion, Deciding, Succeeded, Requests
<1>5. BegunAfterLastCommit
  BY <1>2, <1>3 DEF BegunAfterLastCommit, Last, Init, Requests
<1>6. HistoryChained /\ HistoryInTimeOrder
  BY <1>2 DEF HistoryChained, HistoryInTimeOrder, Last
<1> QED
  BY <1>1, <1>4, <1>5, <1>6 DEF Consistent

LEMMA AnswerConsistent ==
  ASSUME TypeOK, Consistent, NEW r \in Requests, NEW from \in Steps, NEW answer \in Answers,
         Answer(r, from, answer), answer = "ok" => from = "committed"
  PROVE  Consistent'
<1> USE DEF Answer, Goto
<1>1. \A q \in Requests : Deciding(q)' => Deciding(q) /\ pc'[q] = pc[q]
  BY DEF TypeOK, Deciding, Answers
<1>2. Succeeded' \subseteq Succeeded
  BY DEF TypeOK, Succeeded, Answers
<1>3. SnapshotsAreOld' /\ LockedAtBase'
  BY <1>1 DEF Consistent, SnapshotsAreOld, LockedAtBase, Deciding, Requests
<1>4. WritesFitTheirRead'
  BY <1>1 DEF Consistent, WritesFitTheirRead, Requests
<1>5. BegunAfterLastCommit'
  BY <1>1 DEF Consistent, BegunAfterLastCommit, Last, Deciding, Requests
<1>6. HistoryChained' /\ HistoryInTimeOrder'
  BY DEF Consistent, HistoryChained, HistoryInTimeOrder, Last
<1>7. WinnersAreBehind' /\ OneWinnerPerVersion'
  BY <1>2 DEF Consistent, WinnersAreBehind, OneWinnerPerVersion
<1> QED
  BY <1>3, <1>4, <1>5, <1>6, <1>7 DEF Consistent

\* A request that has just read the row and means to write to it.
LEMMA CheckConsistent ==
  ASSUME TypeOK, Consistent, NEW r \in Requests, NEW version \in 1 .. row.version, NEW columns,
         Goto(r, "new", "checked"),
         base' = [base EXCEPT ![r] = version],
         read' = [read EXCEPT ![r] = row],
         write' = [write EXCEPT ![r] = columns],
         UNCHANGED <<row, history, watchers, notified, events, clock, tx, found, fresh>>,
         WritesFitTheirRead'
  PROVE  Consistent'
<1> USE DEF Goto
<1>1. SnapshotsAreOld' /\ LockedAtBase'
  BY DEF Consistent, SnapshotsAreOld, LockedAtBase, Deciding, TypeOK, Row, Requests
<1>2. BegunAfterLastCommit'
  BY DEF Consistent, BegunAfterLastCommit, Last, TypeOK, Requests
<1>3. HistoryChained' /\ HistoryInTimeOrder'
  BY DEF Consistent, HistoryChained, HistoryInTimeOrder, Last
<1>4. Succeeded' = Succeeded /\ \A q \in Succeeded : base'[q] = base[q]
  BY DEF Succeeded, TypeOK
<1>5. WinnersAreBehind' /\ OneWinnerPerVersion'
  BY <1>4 DEF Consistent, WinnersAreBehind, OneWinnerPerVersion
<1> QED
  BY <1>1, <1>2, <1>3, <1>5 DEF Consistent

\* The row that a committing request changes is the row that it read.
LEMMA CommitsWhatItRead ==
  ASSUME TypeOK, Consistent, NEW r \in Requests, Deciding(r), row.version = base[r]
  PROVE  read[r] = row
BY DEF Consistent, SnapshotsAreOld, TypeOK, Row

\* What every commit does to the parts that do not speak of the history.
LEMMA CommitConsistent ==
  ASSUME TypeOK, Consistent, NEW r \in Requests, Deciding(r), row.version = base[r],
         pc' = [pc EXCEPT ![r] = "committed"],
         row' = SetColumns(row, write[r]),
         UNCHANGED <<base, read, write>>,
         \A q \in Transitions : pc[q] = "updated" => q = r
  PROVE  /\ row'.version = row.version + 1
         /\ LockedAtBase' /\ SnapshotsAreOld' /\ WritesFitTheirRead'
         /\ WinnersAreBehind' /\ OneWinnerPerVersion'
<1>1. row'.version = row.version + 1 /\ row.version \in Nat
  BY DEF SetColumns, TypeOK, Row
<1>2. \A q \in Requests : Deciding(q)' => q # r /\ Deciding(q) /\ pc'[q] = pc[q]
  BY DEF Deciding, TypeOK
<1>3. SnapshotsAreOld'
  <2> SUFFICES ASSUME NEW q \in Requests, Deciding(q)'
               PROVE  /\ base[q] <= read[q].version
                      /\ read[q].version <= row'.version
                      /\ read[q].version # row'.version
    BY DEF SnapshotsAreOld
  <2>1. base[q] <= read[q].version /\ read[q].version <= row.version
    BY <1>2 DEF Consistent, SnapshotsAreOld
  <2>2. read[q].version \in Nat
    BY DEF TypeOK, Row
  <2> QED
    BY <1>1, <2>1, <2>2
<1>4. WritesFitTheirRead'
  BY <1>2 DEF Consistent, WritesFitTheirRead, Requests
<1>5. Succeeded' \subseteq Succeeded \cup {r}
  BY DEF Succeeded, TypeOK
<1>6. \A q \in Succeeded : base[q] < row.version
  BY DEF Consistent, WinnersAreBehind
<1>7. \A q \in Requests : base[q] \in Nat
  BY DEF TypeOK
<1>8. Succeeded \subseteq Requests
  BY DEF Succeeded
<1>9. WinnersAreBehind'
  BY <1>1, <1>5, <1>6, <1>7, <1>8 DEF WinnersAreBehind
<1>10. OneWinnerPerVersion'
  BY <1>1, <1>5, <1>6, <1>7, <1>8 DEF Consistent, OneWinnerPerVersion
<1>11. LockedAtBase'
  BY DEF LockedAtBase, TypeOK, Requests
<1> QED
  BY <1>1, <1>3, <1>4, <1>9, <1>10, <1>11

LEMMA TransitionCommitConsistent ==
  ASSUME TypeOK, Consistent, NEW r \in Transitions, TransitionCommit(r)
  PROVE  Consistent' /\ read[r] = row /\ history'[Len(history')].from = row.status
         /\ history' = Append(history, history'[Len(history')])
<1> r \in Requests
  BY DEF Requests
<1>1. pc[r] = "updated" /\ Deciding(r)
  BY DEF TransitionCommit, Goto, Deciding
<1> row.version = base[r] /\ \A q \in Transitions : pc[q] = "updated" => q = r
  BY <1>1 DEF Consistent, LockedAtBase
<1>2. read[r] = row
  BY <1>1, CommitsWhatItRead
<1>3. /\ row'.version = row.version + 1
      /\ LockedAtBase' /\ SnapshotsAreOld' /\ WritesFitTheirRead'
      /\ WinnersAreBehind' /\ OneWinnerPerVersion'
  BY <1>1, CommitConsistent DEF TransitionCommit, Goto
<1>4. PICK note \in Text, resolution \in Text :
        /\ ValidFields(write[r].status, note, resolution)
        /\ write[r] = TransitionColumns(write[r].status, note, resolution)
  BY <1>1 DEF Consistent, WritesFitTheirRead
<1>5. CanTransitionStatus(row.status, write[r].status)
  BY <1>1, <1>2 DEF Consistent, WritesFitTheirRead
<1>6. row'.status = write[r].status
  BY DEF TransitionCommit, SetColumns
<1>7. ValidFields(row'.status, row'.reason, row'.resolution)
  BY <1>4, KeepAssumption
  DEF TransitionCommit, SetColumns, Set, TransitionColumns, ValidFields, Filled, Text
<1> DEFINE entry == [id |-> r, from |-> tx[r].from, to |-> write[r].status, at |-> tx[r].at]
<1>8. /\ Len(history') = Len(history) + 1 /\ Len(history) \in Nat
      /\ history'[Len(history')] = entry
      /\ \A k \in 1 .. Len(history) : history'[k] = history[k]
      /\ history' = Append(history, entry)
  BY DEF TransitionCommit, TypeOK
<1>9. tx[r].from = row.status /\ Last.at < tx[r].at /\ tx[r].at <= clock
  BY <1>1, <1>2 DEF Consistent, BegunAfterLastCommit
<1>10. HistoryChained'
  <2>1. Len(history') >= 1 /\ history'[1].from = Created /\ Last'.to = row'.status
    BY <1>6, <1>8 DEF Consistent, HistoryChained, Last
  <2>2. ASSUME NEW k \in 1 .. Len(history') - 1
        PROVE  /\ history'[k + 1].from = history'[k].to
               /\ CanTransitionStatus(history'[k + 1].from, history'[k + 1].to)
    <3>1. CASE k = Len(history)
      BY <1>5, <1>8, <1>9, <3>1 DEF Consistent, HistoryChained, Last
    <3>2. CASE k < Len(history)
      <4> k \in 1 .. Len(history) - 1 /\ k + 1 \in 1 .. Len(history)
        BY <1>8, <3>2
      <4> QED
        BY <1>8 DEF Consistent, HistoryChained
    <3> QED
      BY <1>8, <3>1, <3>2
  <2> QED
    BY <2>1, <2>2 DEF HistoryChained
<1>11. HistoryInTimeOrder'
  <2> SUFFICES ASSUME NEW k \in 1 .. Len(history') - 1
               PROVE  history'[k].at < history'[k + 1].at
    BY DEF HistoryInTimeOrder
  <2>1. CASE k = Len(history)
    BY <1>8, <1>9, <2>1 DEF Last
  <2>2. CASE k < Len(history)
    <3> k \in 1 .. Len(history) - 1 /\ k + 1 \in 1 .. Len(history)
      BY <1>8, <2>2
    <3> QED
      BY <1>8 DEF Consistent, HistoryInTimeOrder
  <2> QED
    BY <1>8, <2>1, <2>2
<1>12. BegunAfterLastCommit'
  <2>1. UNCHANGED <<clock, tx, read>> /\ Last'.at = tx[r].at
    BY <1>8 DEF TransitionCommit, Last
  <2>2. ASSUME NEW q \in Transitions, pc'[q] \in {"begun", "updated"}
        PROVE  read[q].version # row'.version
    <3>1. q \in Requests /\ Deciding(q)
      BY <2>2 DEF TransitionCommit, Goto, TypeOK, Deciding, Requests
    <3>2. read[q].version <= row.version /\ read[q].version \in Nat /\ row.version \in Nat
      BY <3>1 DEF Consistent, SnapshotsAreOld, TypeOK, Row
    <3> QED
      BY <1>3, <3>2
  <2> QED
    BY <1>9, <2>1, <2>2 DEF Consistent, BegunAfterLastCommit
<1> QED
  BY <1>2, <1>3, <1>7, <1>8, <1>9, <1>10, <1>11, <1>12 DEF Consistent

LEMMA TransitionConsistent ==
  ASSUME TypeOK, Consistent, NEW r \in Transitions, TransitionCheck(r) \/ TransitionContinue(r)
  PROVE  Consistent'
<1> r \in Requests
  BY DEF Requests
<1>1. CASE TransitionCheck(r)
  <2> PICK version \in 0 .. row.version, to \in Status, note \in Text, resolution \in Text :
        TransitionCheck(r)!(version, to, note, resolution)
    BY <1>1 DEF TransitionCheck
  <2>1. CASE TransitionAccepted(version, row.status, to, note, resolution)
    <3> /\ Goto(r, "new", "checked")
        /\ base' = [base EXCEPT ![r] = version]
        /\ read' = [read EXCEPT ![r] = row]
        /\ write' = [write EXCEPT ![r] = TransitionColumns(to, note, resolution)]
        /\ UNCHANGED <<row, history, watchers, notified, events, clock, tx, found, fresh>>
      BY <2>1
    <3>1. write'[r].status = to /\ write'[r] = TransitionColumns(to, note, resolution) /\ read'[r] = row
      BY DEF TypeOK, TransitionColumns
    <3>2. \A q \in Requests \ {r} : pc'[q] = pc[q] /\ read'[q] = read[q] /\ write'[q] = write[q]
      BY DEF TypeOK, Goto
    <3>3. r \notin Updates
      BY RequestsAssumption
    <3>4. WritesFitTheirRead'
      BY <2>1, <3>1, <3>2, <3>3
      DEF Consistent, WritesFitTheirRead, Deciding, Requests, TransitionAccepted
    <3>5. version \in 1 .. row.version
      BY <2>1 DEF TransitionAccepted
    <3> QED
      BY <3>4, <3>5, CheckConsistent
  <2>2. CASE ~TransitionAccepted(version, row.status, to, note, resolution)
    BY <2>2, AnswerConsistent DEF Steps, Answers
  <2> QED
    BY <2>1, <2>2
<1>2. CASE TransitionBegin(r)
  <2> USE <1>2 DEF TransitionBegin, Goto
  <2>1. \A q \in Requests : Deciding(q)' => Deciding(q)
    BY DEF Deciding, TypeOK
  <2>2. Succeeded' = Succeeded
    BY DEF Succeeded, TypeOK
  <2>3. SnapshotsAreOld' /\ LockedAtBase'
    BY <2>1 DEF Consistent, SnapshotsAreOld, LockedAtBase, TypeOK, Requests
  <2>4. WritesFitTheirRead'
    <3>1. \A q \in Updates : pc'[q] = pc[q]
      BY RequestsAssumption DEF TypeOK, Requests
    <3> QED
      BY <2>1, <3>1 DEF Consistent, WritesFitTheirRead, Requests
  <2>5. BegunAfterLastCommit'
    <3> SUFFICES /\ Last'.at <= clock'
                 /\ \A q \in Requests : tx'[q].at <= clock'
                 /\ \A q \in Transitions : pc'[q] \in {"begun", "updated"} /\ read'[q].version = row'.version =>
                      tx'[q].from = row'.status /\ Last'.at < tx'[q].at
      BY DEF BegunAfterLastCommit
    <3>1. Last' = Last /\ Last.at <= clock /\ clock \in Nat
      BY DEF Consistent, BegunAfterLastCommit, Last, TypeOK
    <3>2. Last.at \in Nat
      BY LastType DEF Consistent
    <3>3. tx'[r] = [from |-> row.status, at |-> clock + 1]
      BY DEF TypeOK
    <3>4. \A q \in Requests \ {r} : tx'[q] = tx[q] /\ pc'[q] = pc[q] /\ tx[q].at \in Nat
      BY DEF TypeOK
    <3>5. \A q \in Requests : tx[q].at <= clock /\ tx[q].at \in Nat
      BY DEF Consistent, BegunAfterLastCommit, TypeOK
    <3>6. clock' = clock + 1 /\ row' = row /\ read' = read
      OBVIOUS
    <3>7. \A q \in Requests : tx'[q].at <= clock'
      BY <3>1, <3>3, <3>4, <3>5, <3>6
    <3>8. \A q \in Transitions : pc'[q] \in {"begun", "updated"} /\ read[q].version = row.version =>
            tx'[q].from = row.status /\ Last.at < tx'[q].at
      BY <3>1, <3>2, <3>3, <3>4 DEF Consistent, BegunAfterLastCommit, Requests
    <3> QED
      BY <3>1, <3>2, <3>6, <3>7, <3>8
  <2>6. HistoryChained' /\ HistoryInTimeOrder'
    BY DEF Consistent, HistoryChained, HistoryInTimeOrder, Last
  <2>7. WinnersAreBehind' /\ OneWinnerPerVersion'
    BY <2>2 DEF Consistent, WinnersAreBehind, OneWinnerPerVersion
  <2> QED
    BY <2>3, <2>4, <2>5, <2>6, <2>7 DEF Consistent
<1>3. CASE TransitionUpdate(r)
  <2>1. CASE row.version # base[r]
    BY <1>3, <2>1, AnswerConsistent DEF TransitionUpdate, Steps, Answers
  <2>2. CASE row.version = base[r]
    <3> /\ ~RowLocked /\ Goto(r, "begun", "updated")
        /\ UNCHANGED <<row, history, clock, base, read, write, tx>>
      BY <1>3, <2>2 DEF TransitionUpdate, TransitionLock
    <3> USE DEF Goto
    <3>1. \A q \in Requests : q # r => pc'[q] = pc[q]
      BY DEF TypeOK
    <3>2. \A q \in Requests : Deciding(q)' => Deciding(q)
      BY <3>1 DEF Deciding
    <3>3. LockedAtBase'
      BY <2>2, <3>1 DEF RowLocked, LockedAtBase, Requests
    <3>4. SnapshotsAreOld'
      BY <3>2 DEF Consistent, SnapshotsAreOld
    <3>5. WritesFitTheirRead'
      <4>1. \A q \in Updates : pc'[q] = pc[q]
        BY <3>1, RequestsAssumption DEF Requests
      <4> QED
        BY <3>2, <4>1 DEF Consistent, WritesFitTheirRead, Requests
    <3>6. BegunAfterLastCommit'
      BY <3>1 DEF Consistent, BegunAfterLastCommit, Last, Requests
    <3>7. HistoryChained' /\ HistoryInTimeOrder'
      BY DEF Consistent, HistoryChained, HistoryInTimeOrder, Last
    <3>8. Succeeded' = Succeeded
      BY DEF Succeeded, TypeOK
    <3>9. WinnersAreBehind' /\ OneWinnerPerVersion'
      BY <3>8 DEF Consistent, WinnersAreBehind, OneWinnerPerVersion
    <3> QED
      BY <3>3, <3>4, <3>5, <3>6, <3>7, <3>9 DEF Consistent
  <2> QED
    BY <2>1, <2>2
<1>7. CASE TransitionCommit(r)
  BY <1>7, TransitionCommitConsistent
<1>4. ASSUME NEW from \in {"committed", "reread"}, NEW to \in {"reread", "ok"}, Goto(r, from, to),
             UNCHANGED <<row, history, clock, base, read, write, tx>>
      PROVE  Consistent'
  <2> USE <1>4 DEF Goto
  <2>1. \A q \in Requests : Deciding(q)' => Deciding(q) /\ pc'[q] = pc[q]
    BY DEF Deciding, TypeOK
  <2>2. Succeeded' = Succeeded
    BY DEF Succeeded, TypeOK
  <2>3. SnapshotsAreOld' /\ WritesFitTheirRead' /\ LockedAtBase'
    BY <2>1 DEF Consistent, SnapshotsAreOld, WritesFitTheirRead, LockedAtBase, Deciding, Requests
  <2>4. BegunAfterLastCommit'
    BY <2>1 DEF Consistent, BegunAfterLastCommit, Last, Requests, Deciding
  <2>5. HistoryChained' /\ HistoryInTimeOrder'
    BY DEF Consistent, HistoryChained, HistoryInTimeOrder, Last
  <2>6. WinnersAreBehind' /\ OneWinnerPerVersion'
    BY <2>2 DEF Consistent, WinnersAreBehind, OneWinnerPerVersion
  <2> QED
    BY <2>3, <2>4, <2>5, <2>6 DEF Consistent
<1>5. CASE TransitionReread(r)
  BY <1>4, <1>5 DEF TransitionReread
<1>6. CASE TransitionPublish(r)
  BY <1>4, <1>6 DEF TransitionPublish
<1> QED
  BY <1>1, <1>2, <1>3, <1>5, <1>6, <1>7 DEF TransitionContinue

LEMMA UpdateConsistent ==
  ASSUME TypeOK, Consistent, NEW r \in Updates, UpdateCheck(r) \/ UpdateContinue(r)
  PROVE  Consistent'
<1> r \in Requests
  BY DEF Requests
<1>1. CASE UpdateCheck(r)
  <2> PICK version \in 0 .. row.version, status \in Status \cup {Keep},
           title \in Titles \cup {Keep}, reason \in {Keep, "blank", "text"},
           resolution \in {Keep, "blank", "text"} :
             UpdateCheck(r)!(version, status, title, reason, resolution)
    BY <1>1 DEF UpdateCheck
  <2> DEFINE merged == [status |-> row.status, reason |-> Set(reason, row.reason),
                        resolution |-> Set(resolution, row.resolution),
                        title |-> Set(title, row.title)]
  <2>1. CASE UpdateAccepted(version, status, merged)
    <3> /\ Goto(r, "new", "checked")
        /\ base' = [base EXCEPT ![r] = version]
        /\ read' = [read EXCEPT ![r] = row]
        /\ write' = [write EXCEPT ![r] = merged]
        /\ UNCHANGED <<row, history, watchers, notified, events, clock, tx, found, fresh>>
      BY <2>1
    <3>1. write'[r] = merged /\ read'[r] = row /\ pc'[r] = "checked"
      BY DEF TypeOK, Goto
    <3>2. \A q \in Requests \ {r} : pc'[q] = pc[q] /\ read'[q] = read[q] /\ write'[q] = write[q]
      BY DEF TypeOK, Goto
    <3>3. r \notin Transitions
      BY RequestsAssumption
    <3>4. merged.reason \in Text /\ merged.resolution \in Text /\ merged.title \in Titles
      BY DEF Set, TypeOK, Row, Text
    <3>5. WritesFitTheirRead'
      BY <2>1, <3>1, <3>2, <3>3, <3>4
      DEF Consistent, WritesFitTheirRead, Deciding, Requests, UpdateAccepted
    <3>6. version \in 1 .. row.version
      BY <2>1 DEF UpdateAccepted
    <3> QED
      BY <3>5, <3>6, CheckConsistent
  <2>2. CASE ~UpdateAccepted(version, status, merged)
    BY <2>2, AnswerConsistent DEF Steps, Answers
  <2> QED
    BY <2>1, <2>2
<1>2. CASE UpdateReferenceRejected(r)
  BY <1>2, AnswerConsistent DEF UpdateReferenceRejected, Steps, Answers
<1>3. CASE UpdateCommit(r)
  <2>1. CASE row.version # base[r]
    BY <1>3, <2>1, AnswerConsistent DEF UpdateCommit, Steps, Answers
  <2>2. CASE row.version = base[r]
    <3> UpdateWrite(r) /\ ~RowLocked
      BY <1>3, <2>2 DEF UpdateCommit
    <3>1. Deciding(r)
      BY DEF UpdateWrite, Goto, Deciding
    <3>2. read[r] = row
      BY <2>2, <3>1, CommitsWhatItRead
    <3>3. /\ row'.version = row.version + 1
          /\ LockedAtBase' /\ SnapshotsAreOld' /\ WritesFitTheirRead'
          /\ WinnersAreBehind' /\ OneWinnerPerVersion'
      BY <2>2, <3>1, CommitConsistent DEF UpdateWrite, Goto, RowLocked
    <3>4. row'.status = row.status /\ ValidFields(row'.status, row'.reason, row'.resolution)
      BY <3>1, <3>2, KeepAssumption
      DEF Consistent, WritesFitTheirRead, UpdateWrite, SetColumns, Set
    <3>5. BegunAfterLastCommit'
      <4>1. UNCHANGED <<history, clock, tx, read>>
        BY DEF UpdateWrite
      <4>2. ASSUME NEW q \in Transitions, pc'[q] \in {"begun", "updated"}
            PROVE  read[q].version # row'.version
        <5>1. q \in Requests /\ Deciding(q)
          BY <4>2 DEF UpdateWrite, Goto, TypeOK, Deciding, Requests
        <5>2. read[q].version <= row.version /\ read[q].version \in Nat /\ row.version \in Nat
          BY <5>1 DEF Consistent, SnapshotsAreOld, TypeOK, Row
        <5> QED
          BY <3>3, <5>2
      <4> QED
        BY <4>1, <4>2 DEF Consistent, BegunAfterLastCommit, Last
    <3>6. HistoryChained' /\ HistoryInTimeOrder'
      BY <3>4 DEF UpdateWrite, Consistent, HistoryChained, HistoryInTimeOrder, Last
    <3> QED
      BY <3>3, <3>4, <3>5, <3>6 DEF Consistent
  <2> QED
    BY <2>1, <2>2
<1>4. CASE UpdateReread(r)
  BY <1>4, AnswerConsistent DEF UpdateReread, Steps, Answers
<1> QED
  BY <1>1, <1>2, <1>3, <1>4 DEF UpdateContinue

LEMMA NextConsistent == TypeOK /\ Consistent /\ [Next]_vars => Consistent'
<1> SUFFICES ASSUME TypeOK, Consistent, [Next]_vars PROVE Consistent'
  OBVIOUS
<1>1. ASSUME NEW r \in Requests, DatabaseError(r) PROVE Consistent'
  BY <1>1, AnswerConsistent DEF DatabaseError, Steps, Answers
<1>2. ASSUME UNCHANGED <<row, history, clock, pc, base, read, write, tx>> PROVE Consistent'
  <2> USE <1>2
  <2>1. SnapshotsAreOld' /\ WritesFitTheirRead' /\ LockedAtBase'
    BY DEF Consistent, SnapshotsAreOld, WritesFitTheirRead, LockedAtBase, Deciding
  <2>2. BegunAfterLastCommit' /\ HistoryChained' /\ HistoryInTimeOrder'
    BY DEF Consistent, BegunAfterLastCommit, HistoryChained, HistoryInTimeOrder, Last
  <2>3. WinnersAreBehind' /\ OneWinnerPerVersion'
    BY DEF Consistent, WinnersAreBehind, OneWinnerPerVersion, Succeeded
  <2> QED
    BY <2>1, <2>2, <2>3 DEF Consistent
<1>3. ASSUME NEW u \in Users, Watch(u) \/ Unwatch(u) PROVE Consistent'
  BY <1>2, <1>3 DEF Watch, Unwatch
<1>4. CASE UNCHANGED vars
  BY <1>2, <1>4 DEF vars
<1> QED
  BY <1>1, <1>3, <1>4, TransitionConsistent, UpdateConsistent DEF Next

\* The inductive invariant holds for any number of concurrent requests.
THEOREM ConsistentAlways == Spec => []Consistent
BY InitTypeOK, InitConsistent, NextTypeOK, NextConsistent, PTL DEF Spec

(***************************************************************************)
(* What follows from it                                                    *)
(***************************************************************************)

\* The instance of Kanban inside Board is the one this module extends.
LEMMA SameKanban ==
  /\ Board!Status = Status /\ Board!Text = Text /\ Board!Created = Created
  /\ \A from, to : Board!CanTransitionStatus(from, to) <=> CanTransitionStatus(from, to)
  /\ \A s, b, e : Board!ValidFields(s, b, e) <=> ValidFields(s, b, e)
BY DEF Status, Board!Status, Text, Board!Text, Created, Board!Created,
       CanTransitionStatus, Board!CanTransitionStatus, Allowed, Board!Allowed,
       ValidFields, Board!ValidFields, Filled, Board!Filled

LEMMA TrailEntries ==
  ASSUME TypeOK
  PROVE  /\ Len(history) \in Nat /\ Len(Trail) = Len(history)
         /\ \A k \in 1 .. Len(history) :
              Trail[k][1] = history[k].from /\ Trail[k][2] = history[k].to
<1>1. Len(history) \in Nat
  BY DEF TypeOK
<1> QED
  BY <1>1 DEF Trail

LEMMA ChainIsTrail == TypeOK /\ Consistent => AuditTrail /\ StatusHasItsReason
<1> SUFFICES ASSUME TypeOK, Consistent PROVE AuditTrail /\ StatusHasItsReason
  OBVIOUS
<1>1. HistoryChained
  BY DEF Consistent
<1>2. Len(Trail) >= 1 /\ Trail[1][1] = Created /\ Trail[Len(Trail)][2] = row.status
  BY <1>1, TrailEntries DEF HistoryChained, Last
<1>3. ASSUME NEW k \in 1 .. Len(Trail) - 1
      PROVE  Trail[k + 1][1] = Trail[k][2] /\ CanTransitionStatus(Trail[k + 1][1], Trail[k + 1][2])
  <2>1. k \in 1 .. Len(history) /\ k + 1 \in 1 .. Len(history) /\ k \in 1 .. Len(history) - 1
    BY TrailEntries
  <2> QED
    BY <1>1, <2>1, TrailEntries DEF HistoryChained
<1>4. AuditTrail
  BY <1>2, <1>3, SameKanban DEF AuditTrail, Board!AuditTrail
<1>5. StatusHasItsReason
  BY SameKanban DEF Consistent, StatusHasItsReason, Board!StatusHasItsReason
<1> QED
  BY <1>4, <1>5

\* The status history is an unbroken chain of allowed transitions that ends in
\* the status of the row, for any number of concurrent requests.
THEOREM AuditTrailHolds == Spec => []AuditTrail
BY TypeCorrect, ConsistentAlways, ChainIsTrail, PTL

\* A Blocked item always has its reason and a Done item its resolution.
THEOREM ReasonHolds == Spec => []StatusHasItsReason
BY TypeCorrect, ConsistentAlways, ChainIsTrail, PTL

LEMMA ConsistentParts == Consistent => HistoryInTimeOrder /\ OneWinnerPerVersion
BY DEF Consistent

\* The created_at of the history entries follow the order of the commits.
THEOREM TimeOrderHolds == Spec => []HistoryInTimeOrder
BY ConsistentAlways, ConsistentParts, PTL

\* Two requests that were sent with one row_version do not both succeed.
THEOREM OneWinnerHolds == Spec => []OneWinnerPerVersion
BY ConsistentAlways, ConsistentParts, PTL

(***************************************************************************)
(* Refinement                                                              *)
(***************************************************************************)

\* A step of the system that is not a commit changes neither row nor history.
LEMMA OnlyCommitsChange ==
  ASSUME TypeOK, [Next]_vars
  PROVE  \/ UNCHANGED <<row, history>> /\ \A r \in Requests : ~Commits(r)
         \/ \E r \in Transitions : TransitionCommit(r)
         \/ \E r \in Updates : row.version = base[r] /\ UpdateWrite(r)
<1> DEFINE Quiet == UNCHANGED <<row, history>> /\ \A r \in Requests : ~Commits(r)
<1>1. ASSUME NEW r \in Requests, NEW from, NEW to \in Steps, Goto(r, from, to),
             UNCHANGED <<row, history>>, from \in {"checked", "begun", "updated"} => to # "committed"
      PROVE  Quiet
  BY <1>1 DEF Goto, Commits, TypeOK
<1>2. ASSUME NEW r \in Requests, NEW from, NEW answer \in Answers, Answer(r, from, answer)
      PROVE  Quiet
  BY <1>1, <1>2 DEF Answer, Answers, Steps
<1>3. ASSUME UNCHANGED <<row, history, pc>> PROVE Quiet
  BY <1>3 DEF Commits
<1>4. ASSUME NEW r \in Transitions, TransitionCheck(r) \/ TransitionContinue(r)
      PROVE  Quiet \/ TransitionCommit(r)
  <2> r \in Requests
    BY DEF Requests
  <2>1. CASE TransitionCheck(r)
    <3>1. CASE Answer(r, "new", "rejected")
      BY <1>2, <3>1 DEF Answers
    <3>2. CASE Goto(r, "new", "checked") /\ UNCHANGED <<row, history>>
      BY <1>1, <3>2 DEF Steps
    <3> QED
      BY <2>1, <3>1, <3>2 DEF TransitionCheck
  <2>2. CASE TransitionBegin(r) \/ TransitionReread(r) \/ TransitionPublish(r)
    BY <1>1, <2>2 DEF TransitionBegin, TransitionReread, TransitionPublish, Steps, Answers
  <2>3. CASE TransitionUpdate(r)
    <3>1. CASE Answer(r, "begun", "conflict")
      BY <1>2, <3>1 DEF Answers
    <3>2. CASE Goto(r, "begun", "updated") /\ UNCHANGED <<row, history>>
      BY <1>1, <3>2 DEF Steps
    <3> QED
      BY <2>3, <3>1, <3>2 DEF TransitionUpdate, TransitionLock
  <2> QED
    BY <1>4, <2>1, <2>2, <2>3 DEF TransitionContinue
<1>5. ASSUME NEW r \in Updates, UpdateCheck(r) \/ UpdateContinue(r)
      PROVE  Quiet \/ (row.version = base[r] /\ UpdateWrite(r))
  <2> r \in Requests
    BY DEF Requests
  <2>1. CASE UpdateCheck(r)
    <3>1. CASE Answer(r, "new", "rejected")
      BY <1>2, <3>1 DEF Answers
    <3>2. CASE Goto(r, "new", "checked") /\ UNCHANGED <<row, history>>
      BY <1>1, <3>2 DEF Steps
    <3> QED
      BY <2>1, <3>1, <3>2 DEF UpdateCheck
  <2>2. CASE UpdateReferenceRejected(r) \/ UpdateReread(r)
    BY <1>2, <2>2 DEF UpdateReferenceRejected, UpdateReread, Answers
  <2>3. CASE UpdateCommit(r)
    BY <1>2, <2>3 DEF UpdateCommit, Answers
  <2> QED
    BY <1>5, <2>1, <2>2, <2>3 DEF UpdateContinue
<1>6. ASSUME NEW r \in Requests, DatabaseError(r) PROVE Quiet
  BY <1>2, <1>6 DEF DatabaseError, Answers
<1>7. ASSUME NEW u \in Users, Watch(u) \/ Unwatch(u) PROVE Quiet
  BY <1>3, <1>7 DEF Watch, Unwatch
<1>8. CASE UNCHANGED vars
  BY <1>3, <1>8 DEF vars
<1>9. Quiet => UNCHANGED <<row, history>> /\ \A r \in Requests : ~Commits(r)
  BY DEF Quiet
<1> HIDE DEF Quiet
<1>10. CASE \E r \in Transitions : TransitionCheck(r) \/ TransitionContinue(r)
  BY <1>4, <1>9, <1>10
<1>11. CASE \E r \in Updates : UpdateCheck(r) \/ UpdateContinue(r)
  BY <1>5, <1>9, <1>11
<1> QED
  BY <1>6, <1>7, <1>8, <1>9, <1>10, <1>11 DEF Next

LEMMA StepDecidesOnWhatItChanges ==
  TypeOK /\ Consistent /\ [Next]_vars => \A r \in Requests : Commits(r) => read[r] = row
<1> SUFFICES ASSUME TypeOK, Consistent, [Next]_vars, NEW r \in Requests, Commits(r)
             PROVE  read[r] = row
  OBVIOUS
<1>1. Deciding(r)
  BY DEF Commits, Deciding
<1>2. ASSUME NEW q \in Requests, pc' = [pc EXCEPT ![q] = "committed"] PROVE r = q
  BY <1>2 DEF Commits, TypeOK
<1>3. row.version = base[r]
  <2>1. ASSUME NEW q \in Transitions, TransitionCommit(q) PROVE row.version = base[r]
    BY <1>2, <2>1 DEF TransitionCommit, Goto, Requests, Consistent, LockedAtBase
  <2>2. ASSUME NEW q \in Updates, UpdateWrite(q), row.version = base[q] PROVE row.version = base[r]
    BY <1>2, <2>2 DEF UpdateWrite, Goto, Requests
  <2> QED
    BY <2>1, <2>2, OnlyCommitsChange
<1> QED
  BY <1>1, <1>3, CommitsWhatItRead

\* No lost update: a request that commits changes the very row it was checked
\* against, whatever ran between its read and its guarded UPDATE.
THEOREM NoLostUpdate == Spec => DecidedOnWhatItChanges
<1>1. TypeOK /\ Consistent /\ [Next]_vars
        => [\A r \in Requests : Commits(r) => read[r] = row]_vars
  BY StepDecidesOnWhatItChanges
<1> QED
  BY <1>1, TypeCorrect, ConsistentAlways, PTL DEF Spec, DecidedOnWhatItChanges

LEMMA InitBoard == Init => Board!Init
<1> SUFFICES ASSUME Init PROVE Board!Init
  OBVIOUS
<1>1. row \in Row /\ row.version = 1 /\ ValidFields(row.status, row.reason, row.resolution)
  BY CreatedAssumption DEF Init
<1>2. row \in [status : Status, version : {1}, reason : Text, resolution : Text, title : Titles]
  BY <1>1 DEF Row
<1>3. Trail = << <<Created, row.status>> >>
  BY DEF Init, Trail
<1> QED
  BY <1>1, <1>2, <1>3, SameKanban DEF Board!Init

LEMMA TrailType == TypeOK => Trail \in Seq((Status \cup {Created}) \X Status)
<1> SUFFICES ASSUME TypeOK PROVE Trail \in Seq((Status \cup {Created}) \X Status)
  OBVIOUS
<1> DEFINE Entry == [id : Requests \cup {Created}, from : Status \cup {Created},
                     to : Status, at : Nat]
<1>1. history \in Seq(Entry) /\ Len(history) \in Nat
  BY DEF TypeOK
<1> HIDE DEF Entry
<1>2. \A k \in 1 .. Len(history) : history[k] \in Entry
  BY <1>1, SeqElement
<1>3. \A k \in 1 .. Len(history) :
        <<history[k].from, history[k].to>> \in (Status \cup {Created}) \X Status
  BY <1>2 DEF Entry
<1> QED
  BY <1>1, <1>3 DEF Trail

LEMMA MoveOnBoard ==
  ASSUME TypeOK, Consistent, NEW r \in Transitions, TransitionCommit(r)
  PROVE  Board!Next
<1> DEFINE to == write[r].status
<1> r \in Requests
  BY DEF Requests
<1>1. Deciding(r) /\ row.version = base[r] /\ row' = SetColumns(row, write[r])
  BY DEF TransitionCommit, Goto, Deciding, Consistent, LockedAtBase
<1>2. row \in Row /\ to \in Status
  BY DEF TypeOK
<1>3. PICK note \in Text, resolution \in Text :
        ValidFields(to, note, resolution) /\ write[r] = TransitionColumns(to, note, resolution)
  BY <1>1 DEF Consistent, WritesFitTheirRead
<1>4. CanTransitionStatus(row.status, to)
  BY <1>1, CommitsWhatItRead DEF Consistent, WritesFitTheirRead
<1>5. row' = [status |-> to, version |-> row.version + 1,
              reason |-> IF to = "Blocked" THEN note ELSE row.reason,
              resolution |-> IF to = "Done" THEN resolution ELSE row.resolution,
              title |-> row.title]
  <2>1. write[r].reason = (IF to = "Blocked" THEN note ELSE Keep)
        /\ write[r].resolution = (IF to = "Done" THEN resolution ELSE Keep)
        /\ write[r].title = Keep
    BY <1>3 DEF TransitionColumns
  <2>2. note # Keep /\ resolution # Keep
    BY KeepAssumption
  <2> QED
    BY <1>1, <1>2, <2>1, <2>2 DEF SetColumns, Set, Row
<1>6. Trail' = Append(Trail, <<row.status, to>>)
  <2> DEFINE entry == [id |-> r, from |-> tx[r].from, to |-> to, at |-> tx[r].at]
  <2>1. history' = Append(history, entry)
    BY DEF TransitionCommit
  <2>2. entry.from = row.status
    BY <1>1, CommitsWhatItRead DEF Consistent, BegunAfterLastCommit, TransitionCommit, Goto
  <2>3. Len(history) \in Nat /\ Len(history') = Len(history) + 1
        /\ history'[Len(history) + 1] = entry
        /\ \A k \in 1 .. Len(history) : history'[k] = history[k]
    BY <2>1 DEF TypeOK
  <2> DEFINE S == (Status \cup {Created}) \X Status
  <2>4. Trail \in Seq(S) /\ Len(Trail) = Len(history) /\ <<row.status, to>> \in S
    BY TrailType, <1>2, TrailEntries DEF Row
  <2>5. Trail' \in Seq(S) /\ Len(Trail') = Len(history) + 1
    <3>1. \A k \in 1 .. Len(history) : Trail[k] \in S
      BY <2>4, SeqElement
    <3>2. \A k \in 1 .. Len(history) + 1 : <<history'[k].from, history'[k].to>> \in S
      <4> SUFFICES ASSUME NEW k \in 1 .. Len(history) + 1
                   PROVE  <<history'[k].from, history'[k].to>> \in S
        OBVIOUS
      <4>1. CASE k = Len(history) + 1
        BY <2>2, <2>3, <2>4, <4>1
      <4>2. CASE k \in 1 .. Len(history)
        BY <2>3, <3>1, <4>2 DEF Trail
      <4> QED
        BY <2>3, <4>1, <4>2
    <3> QED
      BY <2>3, <3>2 DEF Trail
  <2>6. \A k \in 1 .. Len(history) : Trail'[k] = Trail[k]
    BY <2>3 DEF Trail
  <2>7. Trail'[Len(history) + 1] = <<row.status, to>>
    BY <2>2, <2>3 DEF Trail
  <2> HIDE DEF S
  <2>8. /\ Append(Trail, <<row.status, to>>) \in Seq(S)
        /\ Len(Append(Trail, <<row.status, to>>)) = Len(history) + 1
        /\ \A k \in 1 .. Len(history) : Append(Trail, <<row.status, to>>)[k] = Trail[k]
        /\ Append(Trail, <<row.status, to>>)[Len(history) + 1] = <<row.status, to>>
    BY <2>4, AppendProperties
  <2>9. \A k \in 1 .. Len(history) + 1 : Trail'[k] = Append(Trail, <<row.status, to>>)[k]
    <3> SUFFICES ASSUME NEW k \in 1 .. Len(history) + 1
                 PROVE  Trail'[k] = Append(Trail, <<row.status, to>>)[k]
      OBVIOUS
    <3>1. CASE k = Len(history) + 1
      BY <2>7, <2>8, <3>1
    <3>2. CASE k \in 1 .. Len(history)
      <4>1. Trail'[k] = Trail[k]
        BY <2>6, <3>2
      <4>2. Append(Trail, <<row.status, to>>)[k] = Trail[k]
        BY <2>8, <3>2
      <4> QED
        BY <4>1, <4>2
    <3>3. k = Len(history) + 1 \/ k \in 1 .. Len(history)
      BY <2>3
    <3> QED
      BY <3>1, <3>2, <3>3, Zenon
  <2> DEFINE new == Append(Trail, <<row.status, to>>)
  <2>10. Len(Trail') = Len(new) /\ \A k \in 1 .. Len(Trail') : Trail'[k] = new[k]
    BY <2>5, <2>8, <2>9
  <2>11. Trail' \in Seq(S) /\ new \in Seq(S)
    BY <2>5, <2>8
  <2> HIDE DEF new
  <2>12. Trail' = new
    BY <2>10, <2>11, SeqEqual
  <2> QED
    BY <2>12 DEF new
<1>7. Board!Move(to)
  BY <1>3, <1>4, <1>5, <1>6, SameKanban DEF Board!Move
<1> QED
  BY <1>2, <1>7, SameKanban DEF Board!Next

LEMMA EditOnBoard ==
  ASSUME TypeOK, Consistent, NEW r \in Updates, row.version = base[r], UpdateWrite(r)
  PROVE  Board!Next
<1> r \in Requests
  BY DEF Requests
<1>1. Deciding(r) /\ row' = SetColumns(row, write[r]) /\ history' = history
  BY DEF UpdateWrite, Goto, Deciding
<1>2. row \in Row
  BY DEF TypeOK
<1>3. /\ write[r].status = row.status
      /\ write[r].reason \in Text /\ write[r].resolution \in Text /\ write[r].title \in Titles
      /\ ValidFields(row.status, write[r].reason, write[r].resolution)
  BY <1>1, CommitsWhatItRead DEF Consistent, WritesFitTheirRead
<1>4. write[r].reason # Keep /\ write[r].resolution # Keep /\ write[r].title # Keep
  BY <1>3, KeepAssumption
<1>5. row' = [status |-> row.status, version |-> row.version + 1, reason |-> write[r].reason,
              resolution |-> write[r].resolution, title |-> write[r].title]
  BY <1>1, <1>2, <1>3, <1>4 DEF SetColumns, Set, Row
<1>6. Trail' = Trail
  BY <1>1 DEF Trail
<1> QED
  BY <1>3, <1>5, <1>6, SameKanban DEF Board!Next, Board!Edit

LEMMA StepOnBoard == TypeOK /\ Consistent /\ [Next]_vars => [Board!Next]_(Board!boardVars)
<1> SUFFICES ASSUME TypeOK, Consistent, [Next]_vars PROVE [Board!Next]_(Board!boardVars)
  OBVIOUS
<1>1. ASSUME UNCHANGED <<row, history>> PROVE UNCHANGED Board!boardVars
  BY <1>1 DEF Board!boardVars, Trail
<1> QED
  BY <1>1, OnlyCommitsChange, MoveOnBoard, EditOnBoard

\* The concurrent handlers implement the atomic board: every behaviour of theirs
\* is, seen through the row and the history, a behaviour of WorkItemBoard.
THEOREM BoardImplemented == Spec => ImplementsBoard
<1>1. Init => Board!Init
  BY InitBoard
<1>2. TypeOK /\ Consistent /\ [Next]_vars => [Board!Next]_(Board!boardVars)
  BY StepOnBoard
<1> QED
  BY <1>1, <1>2, TypeCorrect, ConsistentAlways, PTL DEF Spec, ImplementsBoard, Board!Spec

(***************************************************************************)
(* Answers, events and notifications                                       *)
(***************************************************************************)

LEMMA InitReported == Init => Reported
<1> SUFFICES ASSUME Init PROVE Reported
  OBVIOUS
<1>1. Len(history) = 1 /\ history[1].id = Created /\ Created \notin Requests
  BY RequestsAssumption DEF Init, Requests
<1>2. \A r \in Requests : pc[r] = "new"
  BY DEF Init
<1>3. events = {} /\ notified = {}
  BY DEF Init
<1> QED
  BY <1>1, <1>2, <1>3
  DEF Reported, EntriesHaveOwners, AnsweredAreBehind, EventsToCome, EventNamesItsMove,
      NoticesAreBehind, Recorded, Requests

\* A step of one request that neither commits nor reads the row again.
LEMMA QuietReported ==
  ASSUME TypeOK, Reported, NEW r \in Requests, NEW to \in Steps,
         pc' = [pc EXCEPT ![r] = to],
         UNCHANGED <<row, history, notified, events, fresh>>,
         \A q \in Requests \ {r} : base'[q] = base[q] /\ read'[q] = read[q] /\ found'[q] = found[q],
         pc[r] \notin {"reread", "ok", "rejected"},
         to \notin {"committed", "reread"},
         to = "ok" => r \in Updates,
         pc[r] = "committed" => to \in {"ok", "rejected"},
         to = "conflict" => base'[r] < row.version,
         base'[r] = base[r] \/ pc[r] = "new",
         to = "updated" => ActorOf[r] \notin found'[r]
  PROVE  Reported'
<1>1. pc'[r] = to /\ \A q \in Requests \ {r} : pc'[q] = pc[q]
  BY DEF TypeOK
<1>2. Transitions \subseteq Requests /\ (r \in Updates => r \notin Transitions)
  BY RequestsAssumption DEF Requests
<1>3. EntriesHaveOwners'
  <2>1. ASSUME NEW q \in Transitions, pc'[q] \in {"committed", "reread", "ok"}
        PROVE  \E k \in 1 .. Len(history) : history[k].id = q
    BY <1>1, <1>2, <2>1 DEF Reported, EntriesHaveOwners, Recorded
  <2>2. ASSUME NEW k \in 1 .. Len(history), history[k].id # Created
        PROVE  /\ history[k].id \in Transitions
               /\ pc'[history[k].id] \in {"committed", "reread", "ok", "rejected"}
    BY <1>1, <1>2, <2>2 DEF Reported, EntriesHaveOwners
  <2> QED
    BY <2>1, <2>2 DEF EntriesHaveOwners, Recorded
<1>4. AnsweredAreBehind'
  <2>1. Recorded(r) => base'[r] = base[r]
    <3>1. Recorded(r) => pc[r] # "new"
      BY RequestsAssumption DEF Reported, EntriesHaveOwners, Recorded, Requests
    <3> QED
      BY <3>1
  <2> QED
    BY <1>1, <2>1 DEF Reported, AnsweredAreBehind, Recorded
<1>5. EventsToCome'
  BY <1>1, <1>2 DEF Reported, EventsToCome, Told
<1>6. EventNamesItsMove'
  BY DEF Reported, EventNamesItsMove, Told
<1>7. NoticesAreBehind'
  BY <1>1, <1>2 DEF Reported, NoticesAreBehind
<1> QED
  BY <1>3, <1>4, <1>5, <1>6, <1>7 DEF Reported

LEMMA AnswerReported ==
  ASSUME TypeOK, Reported, NEW r \in Requests,
         NEW from \in {"new", "checked", "begun", "updated", "committed"}, NEW answer \in Answers,
         Answer(r, from, answer),
         answer = "ok" => r \in Updates,
         from = "committed" => answer \in {"ok", "rejected"},
         answer = "conflict" => base[r] < row.version
  PROVE  Reported'
<1>1. /\ pc[r] = from /\ pc' = [pc EXCEPT ![r] = answer]
      /\ UNCHANGED <<row, history, notified, events, fresh, base, read, found>>
  BY DEF Answer, Goto
<1>2. answer \in Steps /\ answer \notin {"updated", "committed", "reread"}
  BY DEF Steps, Answers
<1> QED
  BY <1>1, <1>2, QuietReported

\* A request that has not committed is answered 409 when the row has moved on.
LEMMA ConflictIsBehind ==
  ASSUME TypeOK, Consistent, NEW r \in Requests, Deciding(r), row.version # base[r]
  PROVE  base[r] < row.version
BY DEF Consistent, SnapshotsAreOld, TypeOK, Row

\* What the history says of a move, it says from then on.
LEMMA EntriesStay ==
  ASSUME TypeOK, NEW entry, history' = Append(history, entry)
  PROVE  /\ Len(history') = Len(history) + 1 /\ Len(history) \in Nat
         /\ history'[Len(history) + 1] = entry
         /\ 1 .. Len(history) \subseteq 1 .. Len(history')
         /\ \A k \in 1 .. Len(history) : history'[k] = history[k]
         /\ \A q, old, status : Told(q, old, status) => Told(q, old, status)'
<1>1. /\ Len(history') = Len(history) + 1 /\ Len(history) \in Nat
      /\ history'[Len(history) + 1] = entry
      /\ \A k \in 1 .. Len(history) : history'[k] = history[k]
  BY DEF TypeOK
<1>2. 1 .. Len(history) \subseteq 1 .. Len(history')
  BY <1>1
<1>3. ASSUME NEW q, NEW old, NEW status, Told(q, old, status)
      PROVE  \E k \in 1 .. Len(history') :
               /\ history'[k].id = q
               /\ history'[k].from = old
               /\ \E j \in k .. Len(history') : history'[j].to = status
  <2>1. PICK k \in 1 .. Len(history) :
          /\ history[k].id = q /\ history[k].from = old
          /\ \E j \in k .. Len(history) : history[j].to = status
    BY <1>3 DEF Told
  <2>2. PICK j \in k .. Len(history) : history[j].to = status
    BY <2>1
  <2>3. j \in 1 .. Len(history) /\ j \in k .. Len(history') /\ k \in 1 .. Len(history')
    BY <1>1
  <2>4. history'[k] = history[k] /\ history'[j] = history[j]
    BY <1>1, <2>3
  <2> QED
    BY <2>1, <2>2, <2>3, <2>4
<1> QED
  BY <1>1, <1>2, <1>3 DEF Told

LEMMA CommitReported ==
  ASSUME TypeOK, Consistent, Reported, NEW r \in Transitions, TransitionCommit(r)
  PROVE  Reported'
<1> r \in Requests
  BY DEF Requests
<1> DEFINE entry == [id |-> r, from |-> tx[r].from, to |-> write[r].status, at |-> tx[r].at]
<1>1. /\ pc[r] = "updated" /\ pc'[r] = "committed"
      /\ \A q \in Requests \ {r} : pc'[q] = pc[q]
  BY DEF TransitionCommit, Goto, TypeOK
<1>2. history' = Append(history, entry)
  BY DEF TransitionCommit
<1>3. read[r] = row /\ history'[Len(history')].from = row.status
  BY TransitionCommitConsistent
<1> HIDE DEF entry
<1>4. /\ Len(history') = Len(history) + 1 /\ Len(history) \in Nat
      /\ history'[Len(history) + 1] = entry
      /\ \A k \in 1 .. Len(history) : history'[k] = history[k]
      /\ \A q, old, status : Told(q, old, status) => Told(q, old, status)'
  BY <1>2, EntriesStay
<1>5. entry.id = r /\ entry.from = read[r].status
  BY <1>3, <1>4 DEF entry
<1>6. /\ UNCHANGED <<events, base, read, fresh>>
      /\ \A q \in Requests \ {r} : found'[q] = found[q]
      /\ \A n \in notified' : n \in notified \/ n.version = base[r]
  BY DEF TransitionCommit, Notices, TypeOK
<1>7. row.version \in Nat /\ row'.version = row.version + 1 /\ base[r] = row.version
  BY <1>1 DEF TransitionCommit, SetColumns, TypeOK, Row, Consistent, LockedAtBase
<1>8. EntriesHaveOwners'
  <2>1. ASSUME NEW q \in Transitions, pc'[q] \in {"committed", "reread", "ok"}
        PROVE  \E k \in 1 .. Len(history') : history'[k].id = q
    <3>1. CASE q = r
      <4>1. Len(history) + 1 \in 1 .. Len(history')
        BY <1>4
      <4> QED
        BY <1>4, <1>5, <3>1, <4>1
    <3>2. CASE q # r
      <4>1. PICK k \in 1 .. Len(history) : history[k].id = q
        BY <1>1, <2>1, <3>2 DEF Reported, EntriesHaveOwners, Recorded, Requests
      <4>2. k \in 1 .. Len(history')
        BY <1>4
      <4> QED
        BY <1>4, <4>1, <4>2
    <3> QED
      BY <3>1, <3>2
  <2>2. ASSUME NEW k \in 1 .. Len(history'), history'[k].id # Created
        PROVE  /\ history'[k].id \in Transitions
               /\ pc'[history'[k].id] \in {"committed", "reread", "ok", "rejected"}
    <3>1. CASE k = Len(history) + 1
      BY <1>1, <1>4, <1>5, <3>1
    <3>2. CASE k \in 1 .. Len(history)
      <4>1. history[k].id \in Transitions /\ pc[history[k].id] \in {"committed", "reread", "ok", "rejected"}
        BY <1>4, <2>2, <3>2 DEF Reported, EntriesHaveOwners
      <4> QED
        BY <1>1, <1>4, <3>2, <4>1 DEF Requests
    <3> QED
      BY <1>4, <3>1, <3>2
  <2> QED
    BY <2>1, <2>2 DEF EntriesHaveOwners, Recorded
<1>9. AnsweredAreBehind'
  <2> SUFFICES ASSUME NEW q \in Requests, pc'[q] = "conflict" \/ Recorded(q)'
               PROVE  base[q] < row'.version
    BY <1>6 DEF AnsweredAreBehind
  <2>1. CASE q = r
    BY <1>7, <2>1
  <2>2. CASE q # r
    <3>1. Recorded(q)' => Recorded(q)
      BY <1>4, <1>5, <2>2 DEF Recorded
    <3>2. base[q] < row.version /\ base[q] \in Nat
      BY <1>1, <2>2, <3>1 DEF Reported, AnsweredAreBehind, TypeOK
    <3> QED
      BY <1>7, <3>2
  <2> QED
    BY <2>1, <2>2
<1>10. EventsToCome'
  <2>1. ASSUME NEW q \in Transitions, pc'[q] = "committed"
        PROVE  \E k \in 1 .. Len(history') : history'[k].id = q /\ history'[k].from = read[q].status
    <3>1. CASE q = r
      <4>1. Len(history) + 1 \in 1 .. Len(history')
        BY <1>4
      <4> QED
        BY <1>4, <1>5, <3>1, <4>1
    <3>2. CASE q # r
      <4>1. PICK k \in 1 .. Len(history) : history[k].id = q /\ history[k].from = read[q].status
        BY <1>1, <2>1, <3>2 DEF Reported, EventsToCome, Requests
      <4>2. k \in 1 .. Len(history')
        BY <1>4
      <4> QED
        BY <1>4, <4>1, <4>2
    <3> QED
      BY <3>1, <3>2
  <2>2. ASSUME NEW q \in Transitions, pc'[q] = "reread"
        PROVE  Told(q, read[q].status, fresh[q])'
    <3>1. Told(q, read[q].status, fresh[q])
      BY <1>1, <2>2 DEF Reported, EventsToCome, Requests
    <3> QED
      BY <1>4, <1>6, <3>1 DEF Told
  <2> QED
    BY <1>6, <2>1, <2>2 DEF EventsToCome
<1>11. EventNamesItsMove'
  BY <1>4, <1>6 DEF Reported, EventNamesItsMove, Told
<1>12. NoticesAreBehind'
  <2>1. ASSUME NEW n \in notified' PROVE n.version < row'.version
    <3>1. CASE n \in notified
      <4>1. n.version < row.version /\ n.version \in Nat
        BY <3>1 DEF Reported, NoticesAreBehind, TypeOK
      <4> QED
        BY <1>7, <4>1
    <3>2. CASE n.version = base[r]
      BY <1>7, <3>2
    <3> QED
      BY <1>6, <2>1, <3>1, <3>2
  <2>2. ASSUME NEW q \in Transitions, pc'[q] = "updated" PROVE ActorOf[q] \notin found'[q]
    BY <1>1, <1>6, <2>2 DEF Reported, NoticesAreBehind, Requests
  <2> QED
    BY <1>6, <2>1, <2>2 DEF NoticesAreBehind
<1> QED
  BY <1>8, <1>9, <1>10, <1>11, <1>12 DEF Reported

LEMMA EditReported ==
  ASSUME TypeOK, Reported, NEW r \in Updates, UpdateWrite(r)
  PROVE  Reported'
<1> r \in Requests /\ r \notin Transitions
  BY RequestsAssumption DEF Requests
<1>1. /\ pc[r] = "checked" /\ pc'[r] = "committed"
      /\ \A q \in Requests \ {r} : pc'[q] = pc[q]
      /\ UNCHANGED <<history, notified, events, base, read, found, fresh>>
  BY DEF UpdateWrite, Goto, TypeOK
<1>2. row.version \in Nat /\ row'.version = row.version + 1
  BY DEF UpdateWrite, SetColumns, TypeOK, Row
<1>3. \A q \in Transitions : pc'[q] = pc[q]
  BY <1>1 DEF Requests
<1>4. EntriesHaveOwners'
  BY <1>1, <1>3 DEF Reported, EntriesHaveOwners, Recorded
<1>5. AnsweredAreBehind'
  <2> SUFFICES ASSUME NEW q \in Requests, pc'[q] = "conflict" \/ Recorded(q)
               PROVE  base[q] < row'.version
    BY <1>1 DEF AnsweredAreBehind, Recorded
  <2>1. base[q] < row.version /\ base[q] \in Nat
    BY <1>1 DEF Reported, AnsweredAreBehind, TypeOK
  <2> QED
    BY <1>2, <2>1
<1>6. EventsToCome' /\ EventNamesItsMove'
  BY <1>1, <1>3 DEF Reported, EventsToCome, EventNamesItsMove, Told
<1>7. NoticesAreBehind'
  <2>1. ASSUME NEW n \in notified PROVE n.version < row'.version
    <3>1. n.version < row.version /\ n.version \in Nat
      BY <2>1 DEF Reported, NoticesAreBehind, TypeOK
    <3> QED
      BY <1>2, <3>1
  <2> QED
    BY <1>1, <1>3, <2>1 DEF Reported, NoticesAreBehind
<1> QED
  BY <1>4, <1>5, <1>6, <1>7 DEF Reported

\* The status that is read after the commit is that of the last entry, which is
\* the request's own or comes after it.
LEMMA RereadReported ==
  ASSUME TypeOK, Consistent, Reported, NEW r \in Transitions, TransitionReread(r)
  PROVE  Reported'
<1> r \in Requests
  BY DEF Requests
<1>1. /\ pc[r] = "committed" /\ pc'[r] = "reread" /\ fresh'[r] = row.status
      /\ \A q \in Requests \ {r} : pc'[q] = pc[q] /\ fresh'[q] = fresh[q]
      /\ UNCHANGED <<row, history, notified, events, base, read, found>>
  BY DEF TransitionReread, Goto, TypeOK
<1>2. Told(r, read[r].status, row.status)
  <2>1. PICK k \in 1 .. Len(history) : history[k].id = r /\ history[k].from = read[r].status
    BY <1>1 DEF Reported, EventsToCome
  <2>2. Len(history) \in k .. Len(history) /\ history[Len(history)].to = row.status
    BY DEF Consistent, HistoryChained, Last, TypeOK
  <2> QED
    BY <2>1, <2>2 DEF Told
<1>3. EntriesHaveOwners'
  <2>1. ASSUME NEW q \in Transitions, pc'[q] \in {"committed", "reread", "ok"}
        PROVE  \E k \in 1 .. Len(history) : history[k].id = q
    BY <1>1, <2>1 DEF Reported, EntriesHaveOwners, Recorded, Requests
  <2>2. ASSUME NEW k \in 1 .. Len(history), history[k].id # Created
        PROVE  /\ history[k].id \in Transitions
               /\ pc'[history[k].id] \in {"committed", "reread", "ok", "rejected"}
    BY <1>1, <2>2 DEF Reported, EntriesHaveOwners, Requests
  <2> QED
    BY <1>1, <2>1, <2>2 DEF EntriesHaveOwners, Recorded
<1>4. AnsweredAreBehind'
  BY <1>1 DEF Reported, AnsweredAreBehind, Recorded
<1>5. EventsToCome'
  <2>1. ASSUME NEW q \in Transitions
        PROVE  /\ pc'[q] = "committed" => \E k \in 1 .. Len(history) :
                    history[k].id = q /\ history[k].from = read[q].status
               /\ pc'[q] = "reread" => Told(q, read[q].status, fresh'[q])
    BY <1>1, <1>2 DEF Reported, EventsToCome, Requests
  <2> QED
    BY <1>1, <2>1 DEF EventsToCome, Told
<1>6. EventNamesItsMove'
  BY <1>1 DEF Reported, EventNamesItsMove, Told
<1>7. NoticesAreBehind'
  BY <1>1 DEF Reported, NoticesAreBehind, Requests
<1> QED
  BY <1>3, <1>4, <1>5, <1>6, <1>7 DEF Reported

LEMMA PublishReported ==
  ASSUME TypeOK, Reported, NEW r \in Transitions, TransitionPublish(r)
  PROVE  Reported'
<1> r \in Requests
  BY DEF Requests
<1>1. /\ pc[r] = "reread" /\ pc'[r] = "ok"
      /\ \A q \in Requests \ {r} : pc'[q] = pc[q]
      /\ UNCHANGED <<row, history, notified, base, read, found, fresh>>
      /\ events' \subseteq events \cup {[id |-> r, old |-> read[r].status, status |-> fresh[r]]}
  BY DEF TransitionPublish, Goto, TypeOK
<1>2. Told(r, read[r].status, fresh[r])
  BY <1>1 DEF Reported, EventsToCome
<1>3. EntriesHaveOwners'
  <2>1. ASSUME NEW q \in Transitions, pc'[q] \in {"committed", "reread", "ok"}
        PROVE  \E k \in 1 .. Len(history) : history[k].id = q
    BY <1>1, <2>1 DEF Reported, EntriesHaveOwners, Recorded, Requests
  <2>2. ASSUME NEW k \in 1 .. Len(history), history[k].id # Created
        PROVE  /\ history[k].id \in Transitions
               /\ pc'[history[k].id] \in {"committed", "reread", "ok", "rejected"}
    BY <1>1, <2>2 DEF Reported, EntriesHaveOwners, Requests
  <2> QED
    BY <1>1, <2>1, <2>2 DEF EntriesHaveOwners, Recorded
<1>4. AnsweredAreBehind'
  BY <1>1 DEF Reported, AnsweredAreBehind, Recorded
<1>5. EventsToCome'
  BY <1>1 DEF Reported, EventsToCome, Told, Requests
<1>6. EventNamesItsMove'
  <2>1. ASSUME NEW e \in events' PROVE Told(e.id, e.old, e.status)
    BY <1>1, <1>2, <2>1 DEF Reported, EventNamesItsMove
  <2> QED
    BY <1>1, <2>1 DEF EventNamesItsMove, Told
<1>7. NoticesAreBehind'
  BY <1>1 DEF Reported, NoticesAreBehind, Requests
<1> QED
  BY <1>3, <1>4, <1>5, <1>6, <1>7 DEF Reported

LEMMA TransitionReported ==
  ASSUME TypeOK, Consistent, Reported, NEW r \in Transitions,
         TransitionCheck(r) \/ TransitionContinue(r)
  PROVE  Reported'
<1> r \in Requests
  BY DEF Requests
<1>1. CASE TransitionCheck(r)
  <2> PICK version \in 0 .. row.version, to \in Status, note \in Text, resolution \in Text :
        TransitionCheck(r)!(version, to, note, resolution)
    BY <1>1 DEF TransitionCheck
  <2>1. CASE TransitionAccepted(version, row.status, to, note, resolution)
    <3>1. /\ pc[r] = "new" /\ pc' = [pc EXCEPT ![r] = "checked"]
          /\ UNCHANGED <<row, history, notified, events, fresh>>
          /\ \A q \in Requests \ {r} : base'[q] = base[q] /\ read'[q] = read[q] /\ found'[q] = found[q]
      BY <2>1 DEF Goto, TypeOK
    <3>2. "checked" \in Steps
      BY DEF Steps
    <3> QED
      BY <3>1, <3>2, QuietReported
  <2>2. CASE ~TransitionAccepted(version, row.status, to, note, resolution)
    BY <2>2, AnswerReported DEF Answers
  <2> QED
    BY <2>1, <2>2
<1>2. CASE TransitionBegin(r)
  <2>1. /\ pc[r] = "checked" /\ pc' = [pc EXCEPT ![r] = "begun"]
        /\ UNCHANGED <<row, history, notified, events, fresh, found, base, read>>
    BY <1>2 DEF TransitionBegin, Goto
  <2> QED
    BY <2>1, QuietReported DEF Steps
<1>3. CASE TransitionUpdate(r)
  <2>1. CASE row.version # base[r]
    <3>1. Answer(r, "begun", "conflict")
      BY <1>3, <2>1 DEF TransitionUpdate
    <3>2. base[r] < row.version
      BY <2>1, <3>1, ConflictIsBehind DEF Answer, Goto, Deciding
    <3> QED
      BY <3>1, <3>2, AnswerReported DEF Answers
  <2>2. CASE row.version = base[r]
    <3>1. /\ pc[r] = "begun" /\ pc' = [pc EXCEPT ![r] = "updated"]
          /\ UNCHANGED <<row, history, notified, events, fresh, base, read>>
          /\ found' = [found EXCEPT ![r] = watchers \ {ActorOf[r]}]
      BY <1>3, <2>2 DEF TransitionUpdate, TransitionLock, Goto
    <3>2. /\ \A q \in Requests \ {r} : base'[q] = base[q] /\ read'[q] = read[q] /\ found'[q] = found[q]
          /\ ActorOf[r] \notin found'[r]
      BY <3>1 DEF TypeOK
    <3>3. "updated" \in Steps
      BY DEF Steps
    <3> QED
      BY <3>1, <3>2, <3>3, QuietReported
  <2> QED
    BY <2>1, <2>2
<1> QED
  BY <1>1, <1>2, <1>3, CommitReported, RereadReported, PublishReported DEF TransitionContinue

LEMMA UpdateReported ==
  ASSUME TypeOK, Consistent, Reported, NEW r \in Updates, UpdateCheck(r) \/ UpdateContinue(r)
  PROVE  Reported'
<1> r \in Requests
  BY DEF Requests
<1>1. CASE UpdateCheck(r)
  <2>1. CASE Answer(r, "new", "rejected")
    BY <2>1, AnswerReported DEF Answers
  <2>2. CASE /\ Goto(r, "new", "checked")
             /\ \E version : base' = [base EXCEPT ![r] = version]
             /\ read' = [read EXCEPT ![r] = row]
             /\ UNCHANGED <<row, history, notified, events, fresh, found>>
    <3>1. /\ pc[r] = "new" /\ pc' = [pc EXCEPT ![r] = "checked"]
          /\ UNCHANGED <<row, history, notified, events, fresh>>
          /\ \A q \in Requests \ {r} : base'[q] = base[q] /\ read'[q] = read[q] /\ found'[q] = found[q]
      BY <2>2 DEF Goto, TypeOK
    <3>2. "checked" \in Steps
      BY DEF Steps
    <3> QED
      BY <3>1, <3>2, QuietReported
  <2> QED
    BY <1>1, <2>1, <2>2 DEF UpdateCheck
<1>2. CASE UpdateReferenceRejected(r)
  BY <1>2, AnswerReported DEF UpdateReferenceRejected, Answers
<1>3. CASE UpdateCommit(r)
  <2>1. CASE row.version # base[r]
    <3>1. Answer(r, "checked", "conflict")
      BY <1>3, <2>1 DEF UpdateCommit
    <3>2. base[r] < row.version
      BY <2>1, <3>1, ConflictIsBehind DEF Answer, Goto, Deciding
    <3> QED
      BY <3>1, <3>2, AnswerReported DEF Answers
  <2>2. CASE row.version = base[r]
    BY <1>3, <2>2, EditReported DEF UpdateCommit
  <2> QED
    BY <2>1, <2>2
<1>4. CASE UpdateReread(r)
  BY <1>4, AnswerReported DEF UpdateReread, Answers
<1> QED
  BY <1>1, <1>2, <1>3, <1>4 DEF UpdateContinue

LEMMA NextReported == TypeOK /\ Consistent /\ Reported /\ [Next]_vars => Reported'
<1> SUFFICES ASSUME TypeOK, Consistent, Reported, [Next]_vars PROVE Reported'
  OBVIOUS
<1>1. ASSUME NEW r \in Requests, DatabaseError(r) PROVE Reported'
  BY <1>1, AnswerReported DEF DatabaseError, Answers
<1>2. ASSUME UNCHANGED <<row, history, notified, events, pc, base, read, found, fresh>>
      PROVE  Reported'
  BY <1>2 DEF Reported, EntriesHaveOwners, AnsweredAreBehind, EventsToCome, EventNamesItsMove,
              NoticesAreBehind, Recorded, Told
<1>3. ASSUME NEW u \in Users, Watch(u) \/ Unwatch(u) PROVE Reported'
  BY <1>2, <1>3 DEF Watch, Unwatch
<1>4. CASE UNCHANGED vars
  BY <1>2, <1>4 DEF vars
<1> QED
  BY <1>1, <1>3, <1>4, TransitionReported, UpdateReported DEF Next

\* What the answers, the events and the notifications say is inductive beside
\* Consistent, for any number of concurrent requests.
THEOREM ReportedAlways == Spec => []Reported
BY InitReported, NextReported, TypeCorrect, ConsistentAlways, PTL DEF Spec

LEMMA ReportedIsTrue == TypeOK /\ Reported => AnswerIsTrue
<1> SUFFICES ASSUME TypeOK, Reported, NEW r \in Requests
             PROVE  /\ r \in Transitions /\ pc[r] = "ok" => Recorded(r)
                    /\ pc[r] = "conflict" => ~Recorded(r) /\ base[r] < row.version
                    /\ pc[r] = "rejected" /\ Recorded(r) => base[r] < row.version
  BY DEF AnswerIsTrue
<1>1. ASSUME Recorded(r) PROVE pc[r] # "conflict"
  BY <1>1, RequestsAssumption DEF Reported, EntriesHaveOwners, Recorded, Requests
<1> QED
  BY <1>1 DEF Reported, EntriesHaveOwners, AnsweredAreBehind

\* A 200 means the transition's entry is in the history; a 409 that it is not and
\* that the row is past the version the client sent; and a 400 after the COMMIT
\* leaves the row past that version too, so that no retry moves the item twice.
THEOREM AnswerIsTrueHolds == Spec => []AnswerIsTrue
BY TypeCorrect, ReportedAlways, ReportedIsTrue, PTL

LEMMA ReportedEvents == Reported => EventNamesItsMove
BY DEF Reported

\* Every published event is about a committed transition: where that one left
\* from, and where it or a later one arrived.
THEOREM EventNamesItsMoveHolds == Spec => []EventNamesItsMove
BY ReportedAlways, ReportedEvents, PTL

\* Only the COMMIT of a transition brings notifications.
LEMMA OnlyMovesNotify ==
  ASSUME TypeOK, [Next]_vars
  PROVE  \/ notified' = notified /\ \A r \in Transitions : ~Commits(r)
         \/ \E r \in Transitions : TransitionCommit(r)
<1>1. notified' = notified \/ \E r \in Transitions : TransitionCommit(r)
  BY DEF Next, TransitionCheck, TransitionContinue, UpdateCheck, UpdateContinue, Answer,
         TransitionBegin, TransitionUpdate, TransitionLock, TransitionReread, TransitionPublish,
         UpdateReferenceRejected, UpdateCommit, UpdateWrite, UpdateReread, DatabaseError,
         Watch, Unwatch, vars
<1>2. ASSUME NEW q \in Updates, UpdateWrite(q) PROVE \A r \in Transitions : ~Commits(r)
  BY <1>2, RequestsAssumption DEF UpdateWrite, Goto, Commits, TypeOK, Requests
<1> QED
  BY <1>1, <1>2, OnlyCommitsChange DEF Requests

LEMMA StepTellsOnce ==
  ASSUME TypeOK, Consistent, Reported, [Next]_vars, NEW u \in Users
  PROVE  IF \E r \in Transitions : Commits(r) /\ u \in found'[r]
         THEN /\ \A r \in Transitions : Commits(r) => u \in found[r] /\ u # ActorOf[r]
              /\ \E n \in ToldOf(u)' : ToldOf(u)' \ ToldOf(u) = {n}
         ELSE ToldOf(u)' = ToldOf(u)
<1>1. CASE notified' = notified /\ \A r \in Transitions : ~Commits(r)
  BY <1>1 DEF ToldOf
<1>2. ASSUME NEW r \in Transitions, TransitionCommit(r)
      PROVE  IF u \in found'[r]
             THEN /\ u \in found[r] /\ u # ActorOf[r]
                  /\ \E n \in ToldOf(u)' : ToldOf(u)' \ ToldOf(u) = {n}
             ELSE ToldOf(u)' = ToldOf(u)
  <2> r \in Requests
    BY DEF Requests
  <2>1. pc[r] = "updated" /\ base[r] = row.version
    BY <1>2 DEF TransitionCommit, Goto, Consistent, LockedAtBase
  <2>2. PICK told \in SUBSET found[r] : /\ notified' = notified \cup Notices(r, told)
                                        /\ found' = [found EXCEPT ![r] = told]
    BY <1>2 DEF TransitionCommit
  <2>3. found'[r] = told
    BY <2>2 DEF TypeOK
  <2> DEFINE n == [version |-> base[r], user |-> u]
  <2>4. n \notin notified
    <3>1. \A m \in notified : m.version < row.version
      BY DEF Reported, NoticesAreBehind
    <3>2. row.version \in Nat
      BY DEF TypeOK, Row
    <3> QED
      BY <2>1, <3>1, <3>2
  <2>5. \A m \in Notices(r, told) : m.user = u => m = n /\ u \in told
    BY DEF Notices
  <2>6. CASE u \in told
    <3>1. n \in Notices(r, told) /\ n.user = u
      BY <2>6 DEF Notices
    <3>2. n \in ToldOf(u)' /\ ToldOf(u)' \ ToldOf(u) = {n}
      BY <2>2, <2>4, <2>5, <3>1 DEF ToldOf
    <3>3. u \in found[r] /\ u # ActorOf[r]
      BY <2>1, <2>2, <2>6 DEF Reported, NoticesAreBehind
    <3> QED
      BY <2>3, <2>6, <3>2, <3>3
  <2>7. CASE u \notin told
    BY <2>2, <2>3, <2>5, <2>7 DEF ToldOf
  <2> QED
    BY <2>6, <2>7
<1>3. ASSUME NEW r \in Transitions, TransitionCommit(r)
      PROVE  Commits(r) /\ \A q \in Transitions : Commits(q) => q = r
  BY <1>3 DEF TransitionCommit, Goto, Commits, TypeOK, Requests
<1>4. ASSUME NEW r \in Transitions, TransitionCommit(r)
      PROVE  IF \E q \in Transitions : Commits(q) /\ u \in found'[q]
             THEN /\ \A q \in Transitions : Commits(q) => u \in found[q] /\ u # ActorOf[q]
                  /\ \E n \in ToldOf(u)' : ToldOf(u)' \ ToldOf(u) = {n}
             ELSE ToldOf(u)' = ToldOf(u)
  <2>1. (\E q \in Transitions : Commits(q) /\ u \in found'[q]) <=> u \in found'[r]
    BY <1>3, <1>4
  <2>2. u \in found[r] /\ u # ActorOf[r]
          => \A q \in Transitions : Commits(q) => u \in found[q] /\ u # ActorOf[q]
    BY <1>3, <1>4
  <2> QED
    BY <1>2, <1>4, <2>1, <2>2
<1> QED
  BY <1>1, <1>4, OnlyMovesNotify

\* A move notifies users whom it found watching, never its actor; each INSERT that
\* succeeds brings exactly one new notification, and nothing else brings any.
THEOREM ToldOncePerMoveHolds == Spec => ToldOncePerMove
<1>1. TypeOK /\ Consistent /\ Reported /\ [Next]_vars
        => [\A u \in Users :
              IF \E r \in Transitions : Commits(r) /\ u \in found'[r]
              THEN /\ \A r \in Transitions : Commits(r) => u \in found[r] /\ u # ActorOf[r]
                   /\ \E n \in ToldOf(u)' : ToldOf(u)' \ ToldOf(u) = {n}
              ELSE ToldOf(u)' = ToldOf(u)]_vars
  BY StepTellsOnce
<1> QED
  BY <1>1, TypeCorrect, ConsistentAlways, ReportedAlways, PTL DEF Spec, ToldOncePerMove
=============================================================================
