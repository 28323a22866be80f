--------------------------- MODULE WorkerJobsProofs ---------------------------
(***************************************************************************)
(* Proofs about WorkerJobs, for any number of jobs and workers and any     *)
(* bounds on errors and faults.                                            *)
(*                                                                         *)
(* The argument.  A job is executed by its own handler only before it is   *)
(* answered, and its message is in one place only: once in its queue, or   *)
(* with one consumer whose channel is open (Placed).  A row keeps its      *)
(* result, and whoever is done with a job has written one or has slipped   *)
(* (Written), so that the message may be acknowledged.  Every call that    *)
(* has been made or may still be made, by a request that has not been      *)
(* sent, a message that waits or an execution that is under way, is paid   *)
(* for by the first one, an error of the model or a fault (Budget).  Until *)
(* the first fault a job that has an outcome is executed no more           *)
(* (Undisturbed).                                                          *)
(***************************************************************************)
EXTENDS WorkerJobs, FiniteSetTheorems, TLAPS

\* What an executor may have in hand.
Held ==
    /\ \A e \in Executors : task[e].at \in {"idle", "out"} <=> task[e].job = None
    /\ \A e \in Consumers : task[e].job # None => Kind(task[e].job) = e[2]
    /\ \A j \in Jobs : task[j].job # None => task[j].job = j /\ answer[j] = 0
    /\ \A j \in Jobs : task[j].at # "out"
    /\ \A w \in linked : worker[w] # "down"

Waits(q, j) == \E i \in DOMAIN q : q[i] = j
Distinct(q) == \A i, m \in DOMAIN q : q[i] = q[m] => i = m

\* The messages.
Ordered == \A k \in Kinds : Distinct(queue[k]) /\ \A j \in Jobs : Waits(queue[k], j) => Kind(j) = k

Placed ==
    /\ Ordered
    /\ \A j \in Jobs : Queued(j) => Holders(j) = {} /\ answer[j] = 202
    /\ \A j \in Jobs : \A e, f \in Holders(j) : e = f
    /\ \A j \in Jobs : Holders(j) # {} => answer[j] = 202

\* Results.
Written ==
    /\ \A j \in Jobs : polled[j] # 0 => Ended(j)
    /\ \A e \in Executors : LET j == task[e].job IN
          /\ task[e].at \in {"good", "bad"} => task[e].call # 0
          /\ task[e].at = "lost" => j \in slipped /\ j \in ApiRuns
          /\ task[e].at = "done" \/ (task[e].at = "failed" /\ j \in ApiRuns) => Ended(j) \/ j \in slipped

Kept == \A j \in Jobs : j \notin slipped =>
    /\ answer[j] = 202 /\ ~Ended(j) => Queued(j) \/ Holders(j) # {}
    /\ answer[j] = 200 => Ended(j)

\* The executions of j that may still call, or have their message put back.
Pending(j) == {e \in Executors :
    /\ task[e].job = j
    /\ \/ task[e].at \in {"taken", "started"}
       \/ j \in AiJobs /\ task[e].at \in {"bad", "failed"} /\ e \in Consumers /\ e[1] \in linked}

Unasked(j) == answer[j] = 0 /\ task[j].job = None

Allowed(j) == 1 + faults + (IF j \in AiJobs THEN errors ELSE 0)

InBudget(j) ==
    /\ IsFiniteSet(Pending(j))
    /\ calls[j] + Cardinality(Pending(j)) + (IF Queued(j) \/ Unasked(j) THEN 1 ELSE 0) <= Allowed(j)

Budget == \A j \in Jobs : InBudget(j)

\* Before the first fault a job that has an outcome is not done again, so that the
\* outcome that was shown is the one of the row.
Finished(e, j) == task[e].at = "done" \/ (task[e].at = "failed" /\ j \in ApiRuns)
Over(j) == ~Queued(j) /\ ~Unasked(j) /\ \A e \in Executors : Executing(e, j) => Finished(e, j)

Undisturbed == faults = 0 =>
    /\ linked = Workers /\ \A w \in Workers : worker[w] = "up"
    /\ \A j \in Jobs : Ended(j) => Over(j)
    /\ \A j \in Jobs : polled[j] \in {0, row[j].result}

Inv == TypeOK /\ Held /\ Placed /\ Written /\ Kept /\ Budget /\ Undisturbed

-----------------------------------------------------------------------------
(* Queues of distinct jobs.                                                *)

LEMMA Appended ==
    ASSUME NEW q \in Seq(Jobs), NEW j \in Jobs
    PROVE  /\ Append(q, j) \in Seq(Jobs)
           /\ \A i \in Jobs : Waits(Append(q, j), i) <=> Waits(q, i) \/ i = j
           /\ Distinct(q) /\ ~Waits(q, j) => Distinct(Append(q, j))
<1>1. Append(q, j) \in Seq(Jobs) /\ Len(Append(q, j)) = Len(q) + 1
  OBVIOUS
<1>2. DOMAIN Append(q, j) = 1 .. Len(q) + 1 /\ DOMAIN q = 1 .. Len(q) /\ Len(q) \in Nat
  OBVIOUS
<1>3. Append(q, j)[Len(q) + 1] = j /\ \A n \in DOMAIN q : Append(q, j)[n] = q[n]
  OBVIOUS
<1>4. \A n \in 1 .. Len(q) + 1 : n \in DOMAIN q \/ n = Len(q) + 1
  BY <1>2
<1>5. ASSUME NEW i \in Jobs PROVE Waits(Append(q, j), i) <=> Waits(q, i) \/ i = j
  <2>1. ASSUME Waits(Append(q, j), i) PROVE Waits(q, i) \/ i = j
    BY <1>2, <1>3, <1>4, <2>1 DEF Waits
  <2>2. ASSUME Waits(q, i) PROVE Waits(Append(q, j), i)
    BY <1>2, <1>3, <2>2 DEF Waits
  <2>3. Waits(Append(q, j), j)
    BY <1>2, <1>3 DEF Waits
  <2> QED
    BY <2>1, <2>2, <2>3
<1>6. ASSUME Distinct(q), ~Waits(q, j) PROVE Distinct(Append(q, j))
  BY <1>2, <1>3, <1>4, <1>6 DEF Waits, Distinct
<1> QED
  BY <1>1, <1>5, <1>6

LEMMA Popped ==
    ASSUME NEW q \in Seq(Jobs), q # <<>>, Distinct(q)
    PROVE  /\ Head(q) \in Jobs /\ Tail(q) \in Seq(Jobs) /\ Distinct(Tail(q))
           /\ Waits(q, Head(q)) /\ ~Waits(Tail(q), Head(q))
           /\ \A i \in Jobs : i # Head(q) => (Waits(Tail(q), i) <=> Waits(q, i))
<1>1. Head(q) \in Jobs /\ Tail(q) \in Seq(Jobs) /\ Len(q) \in Nat /\ Len(q) > 0
  OBVIOUS
<1>2. DOMAIN q = 1 .. Len(q) /\ DOMAIN Tail(q) = 1 .. Len(q) - 1 /\ q[1] = Head(q)
  BY <1>1
<1>3. \A n \in DOMAIN Tail(q) : Tail(q)[n] = q[n + 1]
  BY <1>1, <1>2
<1>4. \A n \in DOMAIN q : n = 1 \/ n - 1 \in DOMAIN Tail(q)
  BY <1>1, <1>2
<1>5. \A n \in DOMAIN Tail(q) : n + 1 \in DOMAIN q /\ n + 1 # 1
  BY <1>1, <1>2
<1>6. Waits(q, Head(q))
  BY <1>1, <1>2 DEF Waits
<1>7. ~Waits(Tail(q), Head(q))
  BY <1>1, <1>2, <1>3, <1>5 DEF Waits, Distinct
<1>8. ASSUME NEW i \in Jobs, i # Head(q) PROVE Waits(Tail(q), i) <=> Waits(q, i)
  <2>1. ASSUME Waits(Tail(q), i) PROVE Waits(q, i)
    BY <1>3, <1>5, <2>1 DEF Waits
  <2>2. ASSUME Waits(q, i) PROVE Waits(Tail(q), i)
    <3>1. PICK n \in DOMAIN q : q[n] = i
      BY <2>2 DEF Waits
    <3>2. n - 1 \in DOMAIN Tail(q) /\ Tail(q)[n - 1] = q[(n - 1) + 1]
      BY <1>2, <1>3, <1>4, <1>8, <3>1
    <3>3. (n - 1) + 1 = n
      BY <1>2, <3>1
    <3> QED
      BY <3>1, <3>2, <3>3 DEF Waits
  <2> QED
    BY <2>1, <2>2
<1>9. Distinct(Tail(q))
  <2> SUFFICES ASSUME NEW n \in DOMAIN Tail(q), NEW m \in DOMAIN Tail(q), Tail(q)[n] = Tail(q)[m]
               PROVE  n = m
    BY DEF Distinct
  <2>1. n + 1 = m + 1
    BY <1>3, <1>5 DEF Distinct
  <2> QED
    BY <1>2, <2>1
<1> QED
  BY <1>1, <1>6, <1>7, <1>8, <1>9

LEMMA Pushed ==
    ASSUME NEW q \in Seq(Jobs), NEW j \in Jobs
    PROVE  /\ <<j>> \o q \in Seq(Jobs)
           /\ \A i \in Jobs : Waits(<<j>> \o q, i) <=> Waits(q, i) \/ i = j
           /\ Distinct(q) /\ ~Waits(q, j) => Distinct(<<j>> \o q)
<1> DEFINE p == <<j>> \o q
<1>1. <<j>> \in Seq(Jobs) /\ Len(<<j>>) = 1 /\ <<j>>[1] = j
  OBVIOUS
<1>2. p \in Seq(Jobs) /\ Len(p) = Len(q) + 1 /\ Len(q) \in Nat
  BY <1>1
<1>3. DOMAIN p = 1 .. Len(q) + 1 /\ DOMAIN q = 1 .. Len(q)
  BY <1>2
<1>4. p[1] = j
  BY <1>1, <1>2
<1>5. ASSUME NEW n \in DOMAIN q PROVE n + 1 \in DOMAIN p /\ p[n + 1] = q[n]
  BY <1>1, <1>2, <1>3, <1>5
<1>6. ASSUME NEW n \in DOMAIN p, n # 1 PROVE n - 1 \in DOMAIN q /\ p[n] = q[n - 1]
  BY <1>1, <1>2, <1>3, <1>6
<1> HIDE DEF p
<1>7. ASSUME NEW i \in Jobs PROVE Waits(p, i) <=> Waits(q, i) \/ i = j
  <2>1. ASSUME Waits(p, i) PROVE Waits(q, i) \/ i = j
    BY <1>4, <1>6, <2>1 DEF Waits
  <2>2. ASSUME Waits(q, i) PROVE Waits(p, i)
    BY <1>5, <2>2 DEF Waits
  <2>3. Waits(p, j)
    BY <1>2, <1>3, <1>4 DEF Waits
  <2> QED
    BY <2>1, <2>2, <2>3
<1>8. ASSUME Distinct(q), ~Waits(q, j) PROVE Distinct(p)
  <2> SUFFICES ASSUME NEW n \in DOMAIN p, NEW m \in DOMAIN p, p[n] = p[m] PROVE n = m
    BY DEF Distinct
  <2>1. CASE n = 1
    BY <1>4, <1>6, <1>8, <2>1 DEF Waits
  <2>2. CASE m = 1
    BY <1>4, <1>6, <1>8, <2>2 DEF Waits
  <2>3. CASE n # 1 /\ m # 1
    <3>1. n - 1 = m - 1
      BY <1>6, <1>8, <2>3 DEF Distinct
    <3> QED
      BY <1>3, <3>1
  <2> QED
    BY <2>1, <2>2, <2>3
<1> QED
  BY <1>2, <1>7, <1>8 DEF p

-----------------------------------------------------------------------------
(* What the steps do to the queues.                                        *)

LEMMA KindTyped == \A j \in Jobs : Kind(j) \in Kinds
BY DEF Kind, Kinds

\* A step that changes the queue of one kind.
LEMMA OneQueue ==
    ASSUME TypeOK, Ordered, NEW k \in Kinds, NEW q \in Seq(Jobs), Distinct(q),
           \A i \in Jobs : Waits(q, i) => Kind(i) = k,
           queue' = [queue EXCEPT ![k] = q]
    PROVE  /\ queue' \in [Kinds -> Seq(Jobs)] /\ Ordered'
           /\ \A i \in Jobs : Queued(i)' <=> IF Kind(i) = k THEN Waits(q, i) ELSE Queued(i)
<1>1. queue' \in [Kinds -> Seq(Jobs)] /\ queue'[k] = q /\ \A m \in Kinds : m # k => queue'[m] = queue[m]
  BY DEF TypeOK
<1>2. Ordered'
  BY <1>1 DEF Ordered
<1>3. \A i \in Jobs : Queued(i)' <=> Waits(queue'[Kind(i)], i)
  BY DEF Queued, Waits
<1>4. \A i \in Jobs : Queued(i) <=> Waits(queue[Kind(i)], i)
  BY DEF Queued, Waits
<1> QED
  BY <1>1, <1>2, <1>3, <1>4, KindTyped

LEMMA QueueStays ==
    ASSUME TypeOK, Ordered, UNCHANGED queue
    PROVE  /\ queue' \in [Kinds -> Seq(Jobs)] /\ Ordered'
           /\ \A i \in Jobs : Queued(i)' <=> Queued(i)
BY DEF TypeOK, Ordered, Queued

LEMMA Enqueues ==
    ASSUME TypeOK, Ordered, NEW j \in Jobs, ~Queued(j), Enqueued(j)
    PROVE  /\ queue' \in [Kinds -> Seq(Jobs)] /\ Ordered'
           /\ \A i \in Jobs : Queued(i)' <=> Queued(i) \/ i = j
<1> DEFINE k == Kind(j)
           q == Append(queue[k], j)
<1>1. k \in Kinds /\ queue[k] \in Seq(Jobs)
  BY KindTyped DEF TypeOK
<1>2. \A i \in Jobs : Queued(i) <=> Waits(queue[Kind(i)], i)
  BY DEF Queued, Waits
<1>3. /\ q \in Seq(Jobs) /\ Distinct(q)
      /\ \A i \in Jobs : Waits(q, i) <=> Waits(queue[k], i) \/ i = j
  BY <1>1, <1>2, Appended DEF Ordered
<1>4. queue' = [queue EXCEPT ![k] = q]
  BY DEF Enqueued
<1>5. \A i \in Jobs : Waits(q, i) => Kind(i) = k
  BY <1>1, <1>3 DEF Ordered
<1> HIDE DEF q
<1>6. /\ queue' \in [Kinds -> Seq(Jobs)] /\ Ordered'
      /\ \A i \in Jobs : Queued(i)' <=> IF Kind(i) = k THEN Waits(q, i) ELSE Queued(i)
  BY <1>1, <1>3, <1>4, <1>5, OneQueue
<1> QED
  BY <1>2, <1>3, <1>6

LEMMA Dequeues ==
    ASSUME TypeOK, Ordered, NEW k \in Kinds, queue[k] # <<>>, queue' = [queue EXCEPT ![k] = Tail(@)]
    PROVE  LET j == Head(queue[k])
           IN  /\ j \in Jobs /\ Kind(j) = k /\ Queued(j)
               /\ queue' \in [Kinds -> Seq(Jobs)] /\ Ordered'
               /\ \A i \in Jobs : Queued(i)' <=> Queued(i) /\ i # j
<1> DEFINE j == Head(queue[k])
           q == Tail(queue[k])
<1>1. queue[k] \in Seq(Jobs) /\ Distinct(queue[k])
  BY DEF TypeOK, Ordered
<1>2. /\ j \in Jobs /\ q \in Seq(Jobs) /\ Distinct(q)
      /\ Waits(queue[k], j) /\ ~Waits(q, j)
      /\ \A i \in Jobs : i # j => (Waits(q, i) <=> Waits(queue[k], i))
  BY <1>1, Popped
<1>3. Kind(j) = k /\ \A i \in Jobs : Waits(q, i) => Kind(i) = k
  BY <1>2 DEF Ordered
<1>4. \A i \in Jobs : Queued(i) <=> Waits(queue[Kind(i)], i)
  BY DEF Queued, Waits
<1> HIDE DEF q, j
<1>5. /\ queue' \in [Kinds -> Seq(Jobs)] /\ Ordered'
      /\ \A i \in Jobs : Queued(i)' <=> IF Kind(i) = k THEN Waits(q, i) ELSE Queued(i)
  BY <1>2, <1>3, OneQueue DEF q
<1> QED
  BY <1>2, <1>3, <1>4, <1>5 DEF j

\* Messages that are nowhere else go back, one of each kind at most.
LEMMA Requeues ==
    ASSUME TypeOK, Ordered, NEW js \in SUBSET Jobs, \A i, j \in js : Kind(i) = Kind(j) => i = j,
           \A j \in js : ~Queued(j), queue' = Requeue(queue, js)
    PROVE  /\ queue' \in [Kinds -> Seq(Jobs)] /\ Ordered'
           /\ \A i \in Jobs : Queued(i)' <=> Queued(i) \/ i \in js
<1> DEFINE new(k) == LET back == {j \in js : Kind(j) = k}
                     IN  IF back = {} THEN queue[k] ELSE <<CHOOSE j \in back : TRUE>> \o queue[k]
<1>1. queue' = [k \in Kinds |-> new(k)]
  BY DEF Requeue
<1>2. \A i \in Jobs : Queued(i) <=> Waits(queue[Kind(i)], i)
  BY DEF Queued, Waits
<1>3. ASSUME NEW k \in Kinds
      PROVE  /\ new(k) \in Seq(Jobs) /\ Distinct(new(k))
             /\ \A i \in Jobs : Waits(new(k), i) <=> Waits(queue[k], i) \/ (i \in js /\ Kind(i) = k)
  <2> DEFINE back == {j \in js : Kind(j) = k}
  <2>1. queue[k] \in Seq(Jobs) /\ Distinct(queue[k])
    BY DEF TypeOK, Ordered
  <2>2. CASE back = {}
    BY <2>1, <2>2
  <2>3. CASE back # {}
    <3> DEFINE j == CHOOSE i \in back : TRUE
    <3>1. j \in back
      BY <2>3
    <3>2. \A i \in js : Kind(i) = k <=> i = j
      BY <3>1
    <3>3. ~Waits(queue[k], j) /\ j \in Jobs /\ j \in js
      BY <1>2, <3>1
    <3>4. new(k) = <<j>> \o queue[k]
      BY <2>3
    <3> HIDE DEF j, new, back
    <3> QED
      BY <2>1, <3>2, <3>3, <3>4, Pushed
  <2> QED
    BY <2>2, <2>3
<1> HIDE DEF new
<1>4. queue' \in [Kinds -> Seq(Jobs)] /\ \A k \in Kinds : queue'[k] = new(k)
  BY <1>1, <1>3
<1>5. Ordered'
  BY <1>3, <1>4 DEF Ordered
<1>6. \A i \in Jobs : Queued(i)' <=> Waits(queue'[Kind(i)], i)
  BY DEF Queued, Waits
<1> QED
  BY <1>2, <1>3, <1>4, <1>5, <1>6, KindTyped

-----------------------------------------------------------------------------
(* What the steps do to the executors and the rows.                        *)

Tasks == [job : Jobs \cup {None}, at : Points, call : Nat]
Rows == [status : Statuses, result : Nat]

LEMMA OneTask ==
    ASSUME TypeOK, NEW e \in Executors, NEW t \in Tasks, task' = [task EXCEPT ![e] = t]
    PROVE  task' \in [Executors -> Tasks] /\ task'[e] = t /\ \A f \in Executors : f # e => task'[f] = task[f]
BY DEF TypeOK, Tasks

LEMMA MovesFields ==
    ASSUME TypeOK, NEW e \in Executors, NEW at \in Points, Moves(e, at)
    PROVE  /\ task' \in [Executors -> Tasks]
           /\ task'[e].at = at /\ task'[e].job = task[e].job /\ task'[e].call = task[e].call
           /\ \A f \in Executors : f # e => task'[f] = task[f]
<1>1. task \in [Executors -> Tasks]
  BY DEF TypeOK, Tasks
<1> QED
  BY <1>1 DEF Tasks, Moves

LEMMA CallsFields ==
    ASSUME TypeOK, NEW e \in Executors, NEW at \in Points, task[e].job \in Jobs, Calls(e, at)
    PROVE  /\ task' \in [Executors -> Tasks]
           /\ task'[e].at = at /\ task'[e].job = task[e].job
           /\ task'[e].call # 0
           /\ \A f \in Executors : f # e => task'[f] = task[f]
           /\ calls' = [calls EXCEPT ![task[e].job] = @ + 1]
<1> DEFINE t == [job |-> task[e].job, at |-> at, call |-> calls[task[e].job] + 1]
<1>1. calls[task[e].job] \in Nat
  BY DEF TypeOK
<1>2. t \in Tasks /\ t.at = at /\ t.job = task[e].job /\ t.call # 0
  BY <1>1 DEF Tasks
<1>3. task' = [task EXCEPT ![e] = t] /\ calls' = [calls EXCEPT ![task[e].job] = @ + 1]
  BY DEF Calls
<1> HIDE DEF t
<1> QED
  BY <1>2, <1>3, OneTask

LEMMA IdleTyped == Idle \in Tasks /\ Idle.job = None /\ Idle.at = "idle"
BY DEF Idle, Tasks, Points

LEMMA PlacesApart == Consumers \subseteq Executors /\ Jobs \subseteq Executors /\ Jobs \cap Consumers = {}
BY JobsAssumption DEF Executors, Consumers

LEMMA ConsumersArePairs ==
    /\ \A e \in Consumers : e[1] \in Workers /\ e[2] \in Kinds /\ e = <<e[1], e[2]>>
    /\ \A w \in Workers, k \in Kinds : <<w, k>> \in Consumers /\ <<w, k>>[1] = w /\ <<w, k>>[2] = k
BY DEF Consumers

\* Whoever is at work has a job.
LEMMA InHand ==
    ASSUME TypeOK, Held, NEW e \in Executors, task[e].at \notin {"idle", "out"}
    PROVE  task[e].job \in Jobs
<1>1. task[e] \in Tasks
  BY DEF TypeOK, Tasks
<1>2. task[e].job # None
  BY DEF Held
<1> QED
  BY <1>1, <1>2 DEF Tasks

\* A row keeps its result, and the one that is saved has one, unless it is that of an
\* AI job that failed.
LEMMA RowsGrow ==
    ASSUME TypeOK, Held, Written, [Next]_vars
    PROVE  /\ row' \in [Jobs -> Rows]
           /\ \A j \in Jobs : Ended(j) => Ended(j)'
<1> USE DEF Rows, Statuses, Ended
<1>0. row \in [Jobs -> Rows]
  BY DEF TypeOK
<1>1. CASE UNCHANGED row
  BY <1>0, <1>1
<1>2. ASSUME NEW j \in Jobs, GenerateFlow(j) \/ EnqueueRun(j)
      PROVE  row' \in [Jobs -> Rows] /\ \A i \in Jobs : Ended(i) => Ended(i)'
  <2>1. row' = row \/ row' = [row EXCEPT ![j].status = "pending"]
    BY <1>2 DEF GenerateFlow, EnqueueRun
  <2> QED
    BY <1>0, <2>1
<1>3. ASSUME NEW e \in Executors, StartAi(e)
      PROVE  row' \in [Jobs -> Rows] /\ \A i \in Jobs : Ended(i) => Ended(i)'
  <2> DEFINE j == task[e].job
             new == UpdateJobStatus(j, "processing", 0)
  <2>1. j \in Jobs /\ new \in Rows /\ new.result = row[j].result
    BY <1>0, <1>3 DEF StartAi, Jobs, UpdateJobStatus
  <2>2. row' = row \/ row' = [row EXCEPT ![j] = new]
    BY <1>3 DEF StartAi
  <2> HIDE DEF new, j
  <2> QED
    BY <1>0, <2>1, <2>2 DEF Rows
<1>4. ASSUME NEW e \in Executors, Save(e)
      PROVE  row' \in [Jobs -> Rows] /\ \A i \in Jobs : Ended(i) => Ended(i)'
  <2> DEFINE j == task[e].job
             new == SavedRow(j, task[e].at, task[e].call)
  <2>1. j \in Jobs
    BY <1>4, InHand DEF Save
  <2>4. task[e].call \in Nat /\ task[e].call # 0
    BY <1>4 DEF Save, Written, TypeOK
  <2>2. new \in Rows /\ (row[j].result # 0 => new.result # 0)
    BY <1>0, <1>4, <2>1, <2>4 DEF Save, SavedRow, UpdateJobStatus
  <2>3. row' = row \/ row' = [row EXCEPT ![j] = new]
    BY <1>4 DEF Save
  <2> HIDE DEF new, j
  <2> QED
    BY <1>0, <2>1, <2>2, <2>3 DEF Rows
<1>5. \/ UNCHANGED row
      \/ \E j \in Jobs : GenerateFlow(j) \/ EnqueueRun(j)
      \/ \E e \in Executors : StartAi(e) \/ Save(e)
  BY DEF Next, vars, Execution, GenerateFlowFails, RunNow, AnswerNow, ClientLeaves, Poll, StartApi, CallAi,
         CallApi, Deliver, Settle, LeaveLoop, Terminate, ChannelCloses, Crash, Exit, Restart, ServerChannelCloses
<1> QED
  BY <1>1, <1>2, <1>3, <1>4, <1>5

\* A handler takes up the job of its request.
Takes(j) == \E at \in {"taken", "started"} : task' = [task EXCEPT ![j] = [job |-> j, at |-> at, call |-> 0]]

LEMMA TakesFields ==
    ASSUME TypeOK, NEW j \in Jobs, Takes(j)
    PROVE  /\ task' \in [Executors -> Tasks]
           /\ task'[j].job = j /\ task'[j].at \in {"taken", "started"}
           /\ \A e \in Executors : e # j => task'[e] = task[e]
<1>1. PICK at \in {"taken", "started"} : task' = [task EXCEPT ![j] = [job |-> j, at |-> at, call |-> 0]]
  BY DEF Takes
<1> DEFINE t == [job |-> j, at |-> at, call |-> 0]
<1>2. t \in Tasks /\ t.job = j /\ t.at = at
  BY DEF Tasks, Points
<1> HIDE DEF t
<1> QED
  BY <1>1, <1>2, OneTask, PlacesApart DEF t

\* The consumer of a delivery holds the message that was the first one.
LEMMA DeliverFields ==
    ASSUME TypeOK, Ordered, NEW e \in Consumers, Deliver(e)
    PROVE  LET j == Head(queue[e[2]])
           IN  /\ j \in Jobs /\ Kind(j) = e[2] /\ Queued(j)
               /\ queue' \in [Kinds -> Seq(Jobs)] /\ Ordered'
               /\ \A i \in Jobs : Queued(i)' <=> Queued(i) /\ i # j
               /\ task' \in [Executors -> Tasks]
               /\ task'[e].job = j /\ task'[e].at = "taken"
               /\ \A f \in Executors : f # e => task'[f] = task[f]
<1> DEFINE j == Head(queue[e[2]])
           t == [job |-> j, at |-> "taken", call |-> 0]
<1>1. e[2] \in Kinds /\ e \in Executors
  BY ConsumersArePairs, PlacesApart
<1>2. /\ j \in Jobs /\ Kind(j) = e[2] /\ Queued(j)
      /\ queue' \in [Kinds -> Seq(Jobs)] /\ Ordered'
      /\ \A i \in Jobs : Queued(i)' <=> Queued(i) /\ i # j
  BY <1>1, Dequeues DEF Deliver
<1>3. t \in Tasks /\ t.job = j /\ t.at = "taken"
  BY <1>2 DEF Tasks, Points
<1>4. task' = [task EXCEPT ![e] = t]
  BY DEF Deliver
<1> HIDE DEF t, j
<1> QED
  BY <1>1, <1>2, <1>3, <1>4, OneTask DEF j

\* The message that a consumer has settled goes back to the queue or is gone.
LEMMA SettleFields ==
    ASSUME TypeOK, Held, Placed, NEW e \in Consumers, Settle(e)
    PROVE  LET j == task[e].job
               back == e[2] = "ai" /\ task[e].at = "failed" /\ e[1] \in linked
           IN  /\ j \in Jobs
               /\ queue' \in [Kinds -> Seq(Jobs)] /\ Ordered'
               /\ \A i \in Jobs : Queued(i)' <=> Queued(i) \/ (back /\ i = j)
               /\ task' \in [Executors -> Tasks] /\ task'[e] = Idle
               /\ \A f \in Executors : f # e => task'[f] = task[f]
<1> DEFINE j == task[e].job
           back == e[2] = "ai" /\ task[e].at = "failed" /\ e[1] \in linked
<1>1. e \in Executors
  BY PlacesApart
<1>2. j \in Jobs
  BY <1>1, InHand DEF Settle
<1>3. task' \in [Executors -> Tasks] /\ task'[e] = Idle /\ \A f \in Executors : f # e => task'[f] = task[f]
  BY <1>1, OneTask, IdleTyped DEF Settle
<1>4. queue' = IF back THEN Requeue(queue, {j}) ELSE queue
  BY DEF Settle
<1>5. ASSUME back
      PROVE  /\ queue' \in [Kinds -> Seq(Jobs)] /\ Ordered'
             /\ \A i \in Jobs : Queued(i)' <=> Queued(i) \/ i = j
  <2>1. ~Queued(j)
    BY <1>1, <1>2, <1>5 DEF Placed, Holders, Executing
  <2> HIDE DEF j, back
  <2>2. /\ queue' \in [Kinds -> Seq(Jobs)] /\ Ordered'
        /\ \A i \in Jobs : Queued(i)' <=> Queued(i) \/ i \in {j}
    <3>1. {j} \in SUBSET Jobs /\ (\A i, m \in {j} : Kind(i) = Kind(m) => i = m) /\ \A i \in {j} : ~Queued(i)
      BY <1>2, <2>1
    <3>2. queue' = Requeue(queue, {j}) /\ Ordered
      BY <1>4, <1>5 DEF Placed
    <3> QED
      BY <3>1, <3>2, Requeues
  <2> QED
    BY <2>2
<1>6. ASSUME ~back
      PROVE  /\ queue' \in [Kinds -> Seq(Jobs)] /\ Ordered'
             /\ \A i \in Jobs : Queued(i)' <=> Queued(i)
  BY <1>4, <1>6, QueueStays DEF Placed
<1> QED
  BY <1>2, <1>3, <1>5, <1>6

LEMMA HeldByIs ==
    ASSUME TypeOK, Held, NEW w \in Workers
    PROVE  /\ HeldBy(w) \in SUBSET Jobs
           /\ \A i, j \in HeldBy(w) : Kind(i) = Kind(j) => i = j
           /\ \A j \in Jobs : j \in HeldBy(w) <=> \E e \in Holders(j) : e[1] = w
<1>1. \A k \in Kinds : /\ <<w, k>> \in Consumers /\ <<w, k>> \in Executors
                       /\ <<w, k>>[1] = w /\ <<w, k>>[2] = k
                       /\ task[<<w, k>>].job \in Jobs \cup {None}
  <2>1. task \in [Executors -> Tasks]
    BY DEF TypeOK, Tasks
  <2> QED
    BY <2>1, ConsumersArePairs, PlacesApart DEF Tasks
<1>2. \A j \in HeldBy(w) : w \in linked /\ j \in Jobs /\ \E k \in Kinds : task[<<w, k>>].job = j
  BY <1>1 DEF HeldBy
<1>3. ASSUME NEW j \in Jobs, w \in linked, NEW k \in Kinds, task[<<w, k>>].job = j PROVE j \in HeldBy(w)
  BY <1>3, JobsAssumption DEF HeldBy
<1>4. \A j \in Jobs, k \in Kinds : task[<<w, k>>].job = j => Kind(j) = k
  BY <1>1, JobsAssumption DEF Held
<1>5. ASSUME NEW i \in HeldBy(w), NEW j \in HeldBy(w), Kind(i) = Kind(j) PROVE i = j
  <2>1. PICK k \in Kinds : task[<<w, k>>].job = i
    BY <1>2
  <2>2. PICK m \in Kinds : task[<<w, m>>].job = j
    BY <1>2
  <2>3. k = m
    BY <1>2, <1>4, <1>5, <2>1, <2>2
  <2> QED
    BY <2>1, <2>2, <2>3
<1>6. ASSUME NEW j \in Jobs PROVE j \in HeldBy(w) <=> \E e \in Holders(j) : e[1] = w
  <2>1. ASSUME j \in HeldBy(w) PROVE \E e \in Holders(j) : e[1] = w
    <3>1. PICK k \in Kinds : task[<<w, k>>].job = j
      BY <1>2, <2>1
    <3>2. <<w, k>> \in Holders(j)
      BY <1>1, <1>2, <2>1, <3>1 DEF Holders, Executing
    <3> QED
      BY <1>1, <3>2
  <2>2. ASSUME NEW e \in Holders(j), e[1] = w PROVE j \in HeldBy(w)
    <3>1. e[2] \in Kinds /\ e = <<w, e[2]>> /\ w \in linked /\ task[e].job = j
      BY <2>2, ConsumersArePairs DEF Holders, Executing
    <3> QED
      BY <1>3, <3>1
  <2> QED
    BY <2>1, <2>2
<1> QED
  BY <1>2, <1>5, <1>6

\* What a worker held goes back when its channel closes.
LEMMA ReturnFields ==
    ASSUME TypeOK, Held, Placed, NEW w \in Workers, queue' = Requeue(queue, HeldBy(w))
    PROVE  /\ queue' \in [Kinds -> Seq(Jobs)] /\ Ordered'
           /\ \A j \in Jobs : Queued(j)' <=> Queued(j) \/ \E e \in Holders(j) : e[1] = w
<1>1. \A j \in HeldBy(w) : ~Queued(j)
  BY HeldByIs DEF Placed
<1>2. HeldBy(w) \in SUBSET Jobs /\ \A i, j \in HeldBy(w) : Kind(i) = Kind(j) => i = j
  BY HeldByIs
<1>3. /\ queue' \in [Kinds -> Seq(Jobs)] /\ Ordered'
      /\ \A j \in Jobs : Queued(j)' <=> Queued(j) \/ j \in HeldBy(w)
  BY <1>1, <1>2, Requeues DEF Placed
<1> QED
  BY <1>3, HeldByIs

\* The executions of a worker are gone, or begin anew.
LEMMA WipeFields ==
    ASSUME TypeOK, NEW w \in Workers, NEW t \in Tasks,
           task' = [e \in Executors |-> IF e \in Consumers /\ e[1] = w THEN t ELSE task[e]]
    PROVE  /\ task' \in [Executors -> Tasks]
           /\ \A e \in Consumers : task'[e] = IF e[1] = w THEN t ELSE task[e]
           /\ \A j \in Jobs : task'[j] = task[j]
<1>1. task \in [Executors -> Tasks]
  BY DEF TypeOK, Tasks
<1> QED
  BY <1>1, PlacesApart

LEMMA OutTyped == Out \in Tasks /\ Out.job = None /\ Out.at = "out"
BY DEF Out, Idle, Tasks, Points

\* A consumer that leaves its loop holds nothing.
LEMMA LeaveLoopFields ==
    ASSUME TypeOK, NEW e \in Consumers, LeaveLoop(e)
    PROVE  /\ task' \in [Executors -> Tasks]
           /\ task'[e].at = "out" /\ task'[e].job = task[e].job /\ task[e].at = "idle"
           /\ \A f \in Executors : f # e => task'[f] = task[f]
<1>1. Moves(e, "out") /\ "out" \in Points /\ e \in Executors /\ task[e].at = "idle"
  BY PlacesApart DEF LeaveLoop, Moves, Points
<1> QED
  BY <1>1, MovesFields

-----------------------------------------------------------------------------
(* The steps by what they do to queues and executors.                      *)

\* The steps of an execution move one executor, and leave everything alone that a
\* message depends on.
LEMMA ExecutionFields ==
    ASSUME TypeOK, Held, NEW e \in Executors, Execution(e)
    PROVE  /\ task' \in [Executors -> Tasks]
           /\ task[e].at \in {"taken", "started", "good", "bad"}
           /\ task'[e].at \in {"started", "good", "bad", "done", "failed", "lost"}
           /\ task'[e].job = task[e].job /\ task[e].job \in Jobs
           /\ \A f \in Executors : f # e => task'[f] = task[f]
           /\ UNCHANGED <<queue, worker, linked, broker, gone, answer, polled>>
<1>1. /\ task[e].at \in {"taken", "started", "good", "bad"}
      /\ UNCHANGED <<queue, worker, linked, broker, gone, answer, polled>>
  BY DEF Execution, StartAi, StartApi, CallAi, CallApi, Save
<1>2. \E at \in {"started", "good", "bad", "done", "failed", "lost"} : Moves(e, at) \/ Calls(e, at)
  BY DEF Execution, StartAi, StartApi, CallAi, CallApi, Save, Run
<1>3. {"started", "good", "bad", "done", "failed", "lost"} \subseteq Points
  BY DEF Points
<1>4. task[e].job \in Jobs
  BY <1>1, InHand
<1> QED
  BY <1>1, <1>2, <1>3, <1>4, MovesFields, CallsFields

\* The requests that end or begin without a message.
LEMMA AnswerNowFields ==
    ASSUME TypeOK, Held, NEW j \in Jobs, AnswerNow(j)
    PROVE  /\ task' \in [Executors -> Tasks] /\ task'[j] = Idle
           /\ \A e \in Executors : e # j => task'[e] = task[e]
           /\ task[j].at \in {"done", "failed"} /\ task[j].job = j /\ answer[j] = 0
           /\ answer' \in [Jobs -> {0, 200, 202, 400, 500}]
           /\ answer'[j] \in {200, 400, 500} /\ (answer'[j] = 200 => task[j].at = "done")
           /\ \A i \in Jobs : i # j => answer'[i] = answer[i]
<1>1. j \in Executors /\ task[j].at \in {"done", "failed"}
  BY PlacesApart DEF AnswerNow
<1>2. task' \in [Executors -> Tasks] /\ task'[j] = Idle /\ \A e \in Executors : e # j => task'[e] = task[e]
  BY <1>1, OneTask, IdleTyped DEF AnswerNow
<1>3. task[j].job = j /\ answer[j] = 0
  BY <1>1, InHand, JobsAssumption DEF Held
<1> DEFINE c == IF task[j].at = "done" THEN 200 ELSE IF j \in AiJobs THEN 500 ELSE 400
<1>4. answer' = [answer EXCEPT ![j] = c] /\ c \in {200, 400, 500} /\ (c = 200 => task[j].at = "done")
  BY DEF AnswerNow
<1> HIDE DEF c
<1> QED
  BY <1>1, <1>2, <1>3, <1>4 DEF TypeOK

\* POST: the job is published, vanishes, is refused or is executed by its handler.
Asks(j) == GenerateFlow(j) \/ EnqueueRun(j) \/ RunNow(j) \/ GenerateFlowFails(j)

Published(j) == Enqueued(j) /\ UNCHANGED <<task, slipped>> /\ answer' = [answer EXCEPT ![j] = 202]
Slips(j) ==
    /\ UNCHANGED <<queue, task>> /\ slipped' = slipped \cup {j}
    /\ answer' = [answer EXCEPT ![j] = 202]
    /\ Fault \/ UNCHANGED faults
Executes(j) == Takes(j) /\ UNCHANGED <<queue, answer, slipped, faults>>
Fails(j) == UNCHANGED <<queue, task, slipped>> /\ answer' = [answer EXCEPT ![j] = 500] /\ Fault

LEMMA AskFields ==
    ASSUME NEW j \in Jobs, Asks(j)
    PROVE  /\ task[j] = Idle /\ answer[j] = 0
           /\ UNCHANGED <<worker, linked, broker, gone, polled, calls, errors>>
           /\ Published(j) \/ Slips(j) \/ Executes(j) \/ Fails(j)
<1>1. task[j] = Idle /\ answer[j] = 0 /\ UNCHANGED <<worker, linked, broker, gone, polled, calls, errors>>
  BY DEF Asks, GenerateFlow, EnqueueRun, RunNow, GenerateFlowFails
<1>2. CASE GenerateFlow(j)
  BY <1>2 DEF GenerateFlow, Published, Slips, Executes, Takes, Vanished, Refused
<1>3. CASE EnqueueRun(j)
  BY <1>3 DEF EnqueueRun, Published, Slips, Vanished, Refused
<1>4. CASE RunNow(j)
  BY <1>4 DEF RunNow, Executes, Takes
<1>5. CASE GenerateFlowFails(j)
  BY <1>5 DEF GenerateFlowFails, Fails
<1> QED
  BY <1>1, <1>2, <1>3, <1>4, <1>5 DEF Asks

\* Nothing is asked of a job that is queued or held.
LEMMA AskedIsNowhere ==
    ASSUME Placed, NEW j \in Jobs, answer[j] = 0
    PROVE  ~Queued(j) /\ Holders(j) = {}
BY DEF Placed

\* Every step is one of these.
LEMMA Steps ==
    ASSUME [Next]_vars
    PROVE  \/ UNCHANGED vars
           \/ \E j \in Jobs : Asks(j) \/ AnswerNow(j) \/ ClientLeaves(j) \/ Poll(j)
           \/ \E e \in Executors : Execution(e)
           \/ \E e \in Consumers : Deliver(e) \/ Settle(e) \/ LeaveLoop(e)
           \/ \E w \in Workers : Terminate(w) \/ ChannelCloses(w) \/ Crash(w) \/ Exit(w) \/ Restart(w)
           \/ ServerChannelCloses
BY DEF Next, Asks

-----------------------------------------------------------------------------
(* What executors have in hand, and where the messages are.                *)

LEMMA HeldStep ==
    ASSUME TypeOK, Held, Placed, [Next]_vars
    PROVE  Held'
<1>1. ASSUME UNCHANGED <<task, answer>>, linked' \subseteq linked,
             \A w \in linked' : worker'[w] # "down"
      PROVE  Held'
  BY <1>1 DEF Held
\* One executor only has something else in hand than before.
<1>2. ASSUME NEW e \in Executors, \A f \in Executors : f # e => task'[f] = task[f],
             task'[e].at \in {"idle", "out"} <=> task'[e].job = None,
             task'[e].job \in {task[e].job, None},
             e \in Jobs => task'[e].at # "out",
             UNCHANGED <<answer, linked, worker>>
      PROVE  Held'
  BY <1>2, PlacesApart DEF Held
<1>3. CASE UNCHANGED vars
  BY <1>1, <1>3 DEF vars, Held
<1>4. ASSUME NEW j \in Jobs, Asks(j) PROVE Held'
  <2>1. task[j].job = None /\ UNCHANGED <<linked, worker>>
    BY <1>4, AskFields, IdleTyped
  <2>2. CASE UNCHANGED task /\ \E c \in {202, 500} : answer' = [answer EXCEPT ![j] = c]
    <3>1. \A i \in Jobs : i # j => answer'[i] = answer[i]
      BY <2>2 DEF TypeOK
    <3> QED
      BY <2>1, <2>2, <3>1 DEF Held
  <2>3. CASE Executes(j)
    <3>1. /\ task'[j].job = j /\ task'[j].at \in {"taken", "started"}
          /\ \A e \in Executors : e # j => task'[e] = task[e]
      BY <2>3, TakesFields DEF Executes
    <3>2. answer[j] = 0 /\ UNCHANGED answer
      BY <1>4, <2>3, AskFields DEF Executes
    <3> QED
      BY <2>1, <3>1, <3>2, PlacesApart, JobsAssumption DEF Held
  <2> QED
    BY <1>4, <2>2, <2>3, AskFields DEF Published, Slips, Fails
<1>5. ASSUME NEW j \in Jobs, AnswerNow(j) PROVE Held'
  <2>1. UNCHANGED <<linked, worker>>
    BY <1>5 DEF AnswerNow
  <2> QED
    BY <1>5, <2>1, AnswerNowFields, IdleTyped, PlacesApart DEF Held
<1>6. ASSUME NEW j \in Jobs, ClientLeaves(j) \/ Poll(j) PROVE Held'
  BY <1>1, <1>6 DEF ClientLeaves, Poll, Held
<1>7. ASSUME NEW e \in Executors, Execution(e) PROVE Held'
  <2>1. /\ task'[e].at \in {"started", "good", "bad", "done", "failed", "lost"}
        /\ task'[e].job = task[e].job /\ task[e].job \in Jobs
        /\ \A f \in Executors : f # e => task'[f] = task[f]
        /\ UNCHANGED <<answer, linked, worker>>
    BY <1>7, ExecutionFields
  <2> QED
    BY <1>2, <2>1, JobsAssumption
<1>8. ASSUME NEW e \in Consumers, Deliver(e) PROVE Held'
  <2> DEFINE j == Head(queue[e[2]])
  <2>1. /\ j \in Jobs /\ Kind(j) = e[2] /\ task'[e].job = j /\ task'[e].at = "taken"
        /\ \A f \in Executors : f # e => task'[f] = task[f]
    BY <1>8, DeliverFields DEF Placed
  <2>2. UNCHANGED <<answer, linked, worker>>
    BY <1>8 DEF Deliver
  <2> HIDE DEF j
  <2> QED
    BY <2>1, <2>2, PlacesApart, JobsAssumption DEF Held
<1>9. ASSUME NEW e \in Consumers, Settle(e) PROVE Held'
  <2>1. UNCHANGED <<answer, linked, worker>> /\ e \in Executors /\ e \notin Jobs
    BY <1>9, PlacesApart DEF Settle
  <2>2. task'[e] = Idle /\ \A f \in Executors : f # e => task'[f] = task[f]
    BY <1>9, SettleFields
  <2> QED
    BY <1>2, <2>1, <2>2, IdleTyped
<1>10. ASSUME NEW e \in Consumers, LeaveLoop(e) PROVE Held'
  <2>1. UNCHANGED <<answer, linked, worker>> /\ e \in Executors /\ e \notin Jobs
    BY <1>10, PlacesApart DEF LeaveLoop
  <2>2. /\ task'[e].at = "out" /\ task'[e].job = None
        /\ \A f \in Executors : f # e => task'[f] = task[f]
    BY <1>10, <2>1, LeaveLoopFields DEF Held
  <2> QED
    BY <1>2, <2>1, <2>2
<1>11. ASSUME NEW w \in Workers, Terminate(w) PROVE Held'
  <2>1. \A v \in linked : worker'[v] # "down"
    BY <1>11 DEF Terminate, TypeOK, Held
  <2> QED
    BY <1>1, <1>11, <2>1 DEF Terminate
<1>12. ASSUME NEW w \in Workers, ChannelCloses(w) PROVE Held'
  BY <1>1, <1>12 DEF ChannelCloses, Held
<1>13. ASSUME NEW w \in Workers, Exit(w) PROVE Held'
  <2>1. \A v \in linked' : worker'[v] # "down"
    BY <1>13 DEF Exit, TypeOK, Held
  <2> QED
    BY <1>1, <1>13, <2>1 DEF Exit
<1>14. ASSUME NEW w \in Workers, NEW t \in Tasks, t.job = None, t.at \in {"idle", "out"}, UNCHANGED answer,
              task' = [e \in Executors |-> IF e \in Consumers /\ e[1] = w THEN t ELSE task[e]],
              \A v \in linked' : worker'[v] # "down"
       PROVE  Held'
  <2>1. /\ \A e \in Consumers : task'[e] = IF e[1] = w THEN t ELSE task[e]
        /\ \A j \in Jobs : task'[j] = task[j]
    BY <1>14, WipeFields
  <2> QED
    BY <1>14, <2>1 DEF Held, Executors
<1>15. ASSUME NEW w \in Workers, Crash(w) PROVE Held'
  <2>1. \A v \in linked' : worker'[v] # "down"
    BY <1>15 DEF Crash, TypeOK, Held
  <2> QED
    BY <1>14, <1>15, <2>1, OutTyped DEF Crash
<1>16. ASSUME NEW w \in Workers, Restart(w) PROVE Held'
  <2>1. \A v \in linked' : worker'[v] # "down"
    BY <1>16 DEF Restart, TypeOK, Held
  <2> QED
    BY <1>14, <1>16, <2>1, IdleTyped DEF Restart
<1>17. CASE ServerChannelCloses
  BY <1>1, <1>17 DEF ServerChannelCloses, Held
<1> QED
  BY <1>3, <1>4, <1>5, <1>6, <1>7, <1>8, <1>9, <1>10, <1>11, <1>12, <1>13, <1>15, <1>16, <1>17, Steps

\* The messages of a step that puts none into a queue, and none into another hand.
LEMMA PlacedStays ==
    ASSUME TypeOK, Placed, Ordered', \A j \in Jobs : Queued(j)' => Queued(j),
           \A j \in Jobs : Holders(j)' \subseteq Holders(j),
           \A j \in Jobs : answer[j] # 0 => answer'[j] = answer[j]
    PROVE  Placed'
BY DEF Placed

\* A message that goes back was in the hand of one consumer, which holds it no more.
LEMMA PlacedBack ==
    ASSUME TypeOK, Placed, Ordered', NEW js \in SUBSET Jobs,
           \A j \in Jobs : Queued(j)' => Queued(j) \/ j \in js,
           \A j \in js : Holders(j) # {} /\ Holders(j)' = {},
           \A j \in Jobs : Holders(j)' \subseteq Holders(j),
           UNCHANGED answer
    PROVE  Placed'
BY DEF Placed

LEMMA PlacedStep ==
    ASSUME TypeOK, Held, Placed, [Next]_vars
    PROVE  Placed' /\ queue' \in [Kinds -> Seq(Jobs)]
<1>1. Ordered
  BY DEF Placed
\* The queues stay, and no consumer gets a job that it did not have.
<1>2. ASSUME UNCHANGED queue, linked' \subseteq linked,
             \A e \in Consumers : task'[e].job \in {task[e].job, None},
             \A j \in Jobs : answer[j] # 0 => answer'[j] = answer[j]
      PROVE  Placed' /\ queue' \in [Kinds -> Seq(Jobs)]
  <2>1. \A j \in Jobs : Holders(j)' \subseteq Holders(j)
    BY <1>2, JobsAssumption DEF Holders, Executing
  <2> QED
    BY <1>1, <1>2, <2>1, QueueStays, PlacedStays
<1>3. CASE UNCHANGED vars
  BY <1>2, <1>3 DEF vars
<1>4. ASSUME NEW j \in Jobs, Asks(j) PROVE Placed' /\ queue' \in [Kinds -> Seq(Jobs)]
  <2>1. answer[j] = 0 /\ UNCHANGED linked /\ ~Queued(j) /\ Holders(j) = {}
    BY <1>4, AskFields, AskedIsNowhere
  <2>2. CASE Published(j)
    <3>1. /\ queue' \in [Kinds -> Seq(Jobs)] /\ Ordered'
          /\ \A i \in Jobs : Queued(i)' <=> Queued(i) \/ i = j
      BY <1>1, <2>1, <2>2, Enqueues DEF Published
    <3>2. answer'[j] = 202 /\ \A i \in Jobs : i # j => answer'[i] = answer[i]
      BY <2>2 DEF Published, TypeOK
    <3>3. \A i \in Jobs : Holders(i)' = Holders(i)
      BY <2>1, <2>2 DEF Published, Holders, Executing
    <3> QED
      BY <2>1, <3>1, <3>2, <3>3 DEF Placed
  <2>3. CASE Slips(j) \/ Fails(j)
    BY <1>2, <2>1, <2>3 DEF Slips, Fails, TypeOK
  <2>4. CASE Executes(j)
    <3>1. \A e \in Consumers : task'[e] = task[e]
      BY <2>4, TakesFields, PlacesApart DEF Executes
    <3> QED
      BY <1>2, <2>1, <2>4, <3>1 DEF Executes
  <2> QED
    BY <1>4, <2>2, <2>3, <2>4, AskFields
<1>5. ASSUME NEW j \in Jobs, AnswerNow(j) PROVE Placed' /\ queue' \in [Kinds -> Seq(Jobs)]
  <2>1. \A e \in Consumers : task'[e] = task[e]
    BY <1>5, AnswerNowFields, PlacesApart
  <2>2. \A i \in Jobs : answer[i] # 0 => answer'[i] = answer[i]
    BY <1>5, AnswerNowFields
  <2> QED
    BY <1>2, <1>5, <2>1, <2>2 DEF AnswerNow
<1>6. ASSUME NEW j \in Jobs, ClientLeaves(j) \/ Poll(j) PROVE Placed' /\ queue' \in [Kinds -> Seq(Jobs)]
  BY <1>2, <1>6 DEF ClientLeaves, Poll
<1>7. ASSUME NEW e \in Executors, Execution(e) PROVE Placed' /\ queue' \in [Kinds -> Seq(Jobs)]
  <2>1. \A f \in Executors : task'[f].job = task[f].job
    BY <1>7, ExecutionFields
  <2> QED
    BY <1>2, <1>7, <2>1, ExecutionFields, PlacesApart
<1>8. ASSUME NEW e \in Consumers, Deliver(e) PROVE Placed' /\ queue' \in [Kinds -> Seq(Jobs)]
  <2>1. PICK j \in Jobs :
        /\ Queued(j)
        /\ queue' \in [Kinds -> Seq(Jobs)] /\ Ordered'
        /\ \A i \in Jobs : Queued(i)' <=> Queued(i) /\ i # j
        /\ task'[e].job = j
        /\ \A f \in Executors : f # e => task'[f] = task[f]
    BY <1>1, <1>8, DeliverFields
  <2>2. UNCHANGED <<answer, linked>> /\ task[e].at = "idle"
    BY <1>8 DEF Deliver
  <2>3. Holders(j)' \subseteq Holders(j) \cup {e}
    BY <2>1, <2>2, PlacesApart DEF Holders, Executing
  <2>4. \A i \in Jobs : i # j => Holders(i)' \subseteq Holders(i)
    BY <2>1, <2>2, PlacesApart DEF Holders, Executing
  <2> QED
    BY <2>1, <2>2, <2>3, <2>4 DEF Placed
<1>9. ASSUME NEW e \in Consumers, Settle(e) PROVE Placed' /\ queue' \in [Kinds -> Seq(Jobs)]
  <2> DEFINE back == e[2] = "ai" /\ task[e].at = "failed" /\ e[1] \in linked
  <2>1. PICK j \in Jobs :
        /\ j = task[e].job
        /\ queue' \in [Kinds -> Seq(Jobs)] /\ Ordered'
        /\ \A i \in Jobs : Queued(i)' <=> Queued(i) \/ (back /\ i = j)
        /\ task'[e].job = None
        /\ \A f \in Executors : f # e => task'[f] = task[f]
    BY <1>9, SettleFields, IdleTyped
  <2>2. UNCHANGED <<answer, linked>>
    BY <1>9 DEF Settle
  <2>3. \A i \in Jobs : Holders(i)' \subseteq Holders(i)
    BY <2>1, <2>2, PlacesApart, JobsAssumption DEF Holders, Executing
  <2>4. CASE back
    <3>1. e \in Holders(j)
      BY <2>1, <2>4 DEF Holders, Executing
    <3>2. e \notin Holders(j)'
      BY <2>1, JobsAssumption DEF Holders, Executing
    <3>3. Holders(j)' = {}
      BY <2>1, <2>3, <3>1, <3>2 DEF Placed
    <3>4. \A i \in Jobs : Queued(i)' => Queued(i) \/ i \in {j}
      BY <2>1
    <3>5. {j} \in SUBSET Jobs /\ \A i \in {j} : Holders(i) # {} /\ Holders(i)' = {}
      BY <3>1, <3>3
    <3> HIDE DEF back
    <3> QED
      BY <2>1, <2>2, <2>3, <3>4, <3>5, PlacedBack
  <2>5. CASE ~back
    BY <2>1, <2>2, <2>3, <2>5, PlacedStays
  <2> QED
    BY <2>4, <2>5
<1>10. ASSUME NEW e \in Consumers, LeaveLoop(e) PROVE Placed' /\ queue' \in [Kinds -> Seq(Jobs)]
  <2>1. \A f \in Consumers : task'[f].job = task[f].job
    BY <1>10, LeaveLoopFields, PlacesApart
  <2> QED
    BY <1>2, <1>10, <2>1 DEF LeaveLoop
<1>11. ASSUME NEW w \in Workers, Terminate(w) \/ Exit(w) PROVE Placed' /\ queue' \in [Kinds -> Seq(Jobs)]
  BY <1>2, <1>11 DEF Terminate, Exit
<1>12. ASSUME NEW w \in Workers, queue' = Requeue(queue, HeldBy(w)), linked' = linked \ {w}, UNCHANGED answer,
              \A e \in Consumers : task'[e].job \in {task[e].job, None}
       PROVE  Placed' /\ queue' \in [Kinds -> Seq(Jobs)]
  <2> DEFINE js == {j \in Jobs : \E e \in Holders(j) : e[1] = w}
  <2>1. /\ queue' \in [Kinds -> Seq(Jobs)] /\ Ordered'
        /\ \A j \in Jobs : Queued(j)' <=> Queued(j) \/ j \in js
    BY <1>12, ReturnFields
  <2>2. \A j \in Jobs : Holders(j)' \subseteq Holders(j) /\ \A e \in Holders(j)' : e[1] # w
    BY <1>12, JobsAssumption DEF Holders, Executing
  <2>3. \A j \in js : Holders(j) # {} /\ Holders(j)' = {}
    BY <2>2 DEF Placed
  <2> HIDE DEF js
  <2>4. js \in SUBSET Jobs
    BY DEF js
  <2> QED
    BY <1>12, <2>1, <2>2, <2>3, <2>4, PlacedBack
<1>13. ASSUME NEW w \in Workers, ChannelCloses(w) PROVE Placed' /\ queue' \in [Kinds -> Seq(Jobs)]
  BY <1>12, <1>13 DEF ChannelCloses
<1>14. ASSUME NEW w \in Workers, Crash(w) PROVE Placed' /\ queue' \in [Kinds -> Seq(Jobs)]
  <2>1. \A e \in Consumers : task'[e].job \in {task[e].job, None}
    BY <1>14, OutTyped, PlacesApart DEF Crash
  <2> QED
    BY <1>12, <1>14, <2>1 DEF Crash
<1>15. ASSUME NEW w \in Workers, Restart(w) PROVE Placed' /\ queue' \in [Kinds -> Seq(Jobs)]
  <2>1. \A e \in Consumers : task'[e] = IF e[1] = w THEN Idle ELSE task[e]
    BY <1>15, WipeFields, IdleTyped DEF Restart
  <2>2. UNCHANGED <<queue, answer>> /\ linked' = linked \cup {w}
    BY <1>15 DEF Restart
  <2>3. \A j \in Jobs : Holders(j)' \subseteq Holders(j)
    BY <2>1, <2>2, IdleTyped, JobsAssumption DEF Holders, Executing
  <2> QED
    BY <1>1, <2>2, <2>3, QueueStays, PlacedStays
<1>16. CASE ServerChannelCloses
  BY <1>2, <1>16 DEF ServerChannelCloses
<1> QED
  BY <1>3, <1>4, <1>5, <1>6, <1>7, <1>8, <1>9, <1>10, <1>11, <1>13, <1>14, <1>15, <1>16, Steps

-----------------------------------------------------------------------------
(* Types.                                                                  *)

LEMMA InitTypeOK == Init => TypeOK
<1> SUFFICES ASSUME Init PROVE TypeOK
  OBVIOUS
<1>1. row \in [Jobs -> [status : Statuses, result : Nat]]
  BY DEF Init, Statuses
<1>2. queue \in [Kinds -> Seq(Jobs)] /\ calls \in [Jobs -> Nat] /\ answer \in [Jobs -> {0, 200, 202, 400, 500}]
  BY DEF Init
<1>3. task \in [Executors -> [job : Jobs \cup {None}, at : Points, call : Nat]]
  BY IdleTyped DEF Init, Tasks
<1>4. errors \in 0 .. MaxErrors /\ faults \in 0 .. MaxFaults
  BY JobsAssumption DEF Init
<1>5. worker \in [Workers -> {"up", "stopping", "down"}] /\ linked \in SUBSET Workers /\ broker \in {"open", "closed"}
  BY DEF Init
<1>6. gone \in SUBSET Jobs /\ polled \in [Jobs -> Nat] /\ slipped \in SUBSET Jobs
  BY DEF Init
<1> QED
  BY <1>1, <1>2, <1>3, <1>4, <1>5, <1>6 DEF TypeOK

\* Faults and errors are counted up to their bounds, and never taken back.
LEMMA CountersGrow ==
    ASSUME TypeOK, [Next]_vars
    PROVE  /\ faults' \in 0 .. MaxFaults /\ errors' \in 0 .. MaxErrors
           /\ faults' >= faults /\ errors' >= errors
<1>1. UNCHANGED faults \/ Fault
  BY DEF Next, vars, GenerateFlow, EnqueueRun, Enqueued, Vanished, Refused, RunNow, GenerateFlowFails,
         AnswerNow, ClientLeaves, Poll, Execution, StartAi, StartApi, CallAi, CallApi, Save, Works, Breaks,
         Deliver, Settle, LeaveLoop, Terminate, ChannelCloses, Crash, Exit, Restart, ServerChannelCloses
<1>2. UNCHANGED errors \/ ModelFails
  BY DEF Next, vars, GenerateFlow, EnqueueRun, RunNow, GenerateFlowFails,
         AnswerNow, ClientLeaves, Poll, Execution, StartAi, StartApi, CallAi, CallApi, Save,
         Deliver, Settle, LeaveLoop, Terminate, ChannelCloses, Crash, Exit, Restart, ServerChannelCloses
<1>3. faults \in 0 .. MaxFaults /\ errors \in 0 .. MaxErrors
  BY DEF TypeOK
<1>4. MaxFaults \in Nat /\ MaxErrors \in Nat
  BY JobsAssumption
<1>5. faults' \in 0 .. MaxFaults /\ faults' >= faults
  BY <1>1, <1>3, <1>4 DEF Fault
<1>6. errors' \in 0 .. MaxErrors /\ errors' >= errors
  BY <1>2, <1>3, <1>4 DEF ModelFails
<1> QED
  BY <1>5, <1>6

\* What has slipped is not forgotten.
LEMMA SlippedGrows ==
    ASSUME TypeOK, Held, [Next]_vars
    PROVE  slipped' \in SUBSET Jobs /\ slipped \subseteq slipped'
<1>1. ASSUME NEW j \in Jobs, Asks(j) PROVE slipped' \in SUBSET Jobs /\ slipped \subseteq slipped'
  <2>1. slipped' = slipped \/ slipped' = slipped \cup {j}
    BY <1>1, AskFields DEF Published, Slips, Executes, Fails
  <2> QED
    BY <2>1 DEF TypeOK
<1>2. ASSUME NEW e \in Executors, StartApi(e) \/ Save(e)
      PROVE  slipped' \in SUBSET Jobs /\ slipped \subseteq slipped'
  <2>1. task[e].job \in Jobs
    BY <1>2, InHand DEF StartApi, Save
  <2> QED
    BY <1>2, <2>1 DEF StartApi, Save, TypeOK
<1>3. \/ UNCHANGED slipped \/ (\E j \in Jobs : Asks(j)) \/ (\E e \in Executors : StartApi(e) \/ Save(e))
  BY Steps DEF vars, Execution, AnswerNow, ClientLeaves, Poll, StartAi, CallAi, CallApi, Deliver, Settle,
               LeaveLoop, Terminate, ChannelCloses, Crash, Exit, Restart, ServerChannelCloses
<1> QED
  BY <1>1, <1>2, <1>3 DEF TypeOK

\* The variables of requests, workers and channels.
LEMMA RestTyped ==
    ASSUME TypeOK, Held, [Next]_vars
    PROVE  /\ worker' \in [Workers -> {"up", "stopping", "down"}]
           /\ linked' \in SUBSET Workers /\ broker' \in {"open", "closed"}
           /\ gone' \in SUBSET Jobs /\ polled' \in [Jobs -> Nat]
           /\ answer' \in [Jobs -> {0, 200, 202, 400, 500}]
           /\ calls' \in [Jobs -> Nat]
<1> DEFINE Goal == /\ worker' \in [Workers -> {"up", "stopping", "down"}]
                   /\ linked' \in SUBSET Workers /\ broker' \in {"open", "closed"}
                   /\ gone' \in SUBSET Jobs /\ polled' \in [Jobs -> Nat]
                   /\ answer' \in [Jobs -> {0, 200, 202, 400, 500}]
                   /\ calls' \in [Jobs -> Nat]
<1>1. ASSUME UNCHANGED <<worker, linked, broker, gone, polled, answer, calls>> PROVE Goal
  BY <1>1 DEF TypeOK
<1>2. ASSUME NEW j \in Jobs, Asks(j) PROVE Goal
  <2>1. UNCHANGED answer \/ \E c \in {202, 500} : answer' = [answer EXCEPT ![j] = c]
    BY <1>2, AskFields DEF Published, Slips, Executes, Fails
  <2>2. answer' \in [Jobs -> {0, 200, 202, 400, 500}]
    <3>1. answer \in [Jobs -> {0, 200, 202, 400, 500}]
      BY DEF TypeOK
    <3> QED
      BY <2>1, <3>1
  <2>3. UNCHANGED <<worker, linked, broker, gone, polled, calls>>
    BY <1>2, AskFields
  <2> QED
    BY <2>2, <2>3 DEF TypeOK
<1>3. ASSUME NEW j \in Jobs, AnswerNow(j) PROVE Goal
  BY <1>3, AnswerNowFields DEF AnswerNow, TypeOK
<1>4. ASSUME NEW j \in Jobs, ClientLeaves(j) \/ Poll(j) PROVE Goal
  BY <1>4 DEF ClientLeaves, Poll, TypeOK
<1>5. ASSUME NEW e \in Executors, Execution(e) PROVE Goal
  <2>1. UNCHANGED <<worker, linked, broker, gone, polled, answer>> /\ task[e].job \in Jobs
    BY <1>5, ExecutionFields
  <2>2. calls' = calls \/ calls' = [calls EXCEPT ![task[e].job] = @ + 1]
    BY <1>5 DEF Calls, Execution, StartAi, StartApi, CallAi, CallApi, Save
  <2>3. calls' \in [Jobs -> Nat]
    <3>1. calls \in [Jobs -> Nat]
      BY DEF TypeOK
    <3> QED
      BY <2>1, <2>2, <3>1
  <2> QED
    BY <2>1, <2>3 DEF TypeOK
<1>6. ASSUME NEW w \in Workers, Terminate(w) \/ ChannelCloses(w) \/ Crash(w) \/ Exit(w) \/ Restart(w) PROVE Goal
  <2>0. worker \in [Workers -> {"up", "stopping", "down"}] /\ linked \in SUBSET Workers
    BY DEF TypeOK
  <2>1. worker' \in [Workers -> {"up", "stopping", "down"}] /\ linked' \in SUBSET Workers
    BY <1>6, <2>0 DEF Terminate, ChannelCloses, Crash, Exit, Restart
  <2>2. UNCHANGED <<broker, gone, polled, answer, calls>>
    BY <1>6 DEF Terminate, ChannelCloses, Crash, Exit, Restart
  <2> QED
    BY <2>1, <2>2 DEF TypeOK
<1>7. ASSUME UNCHANGED vars \/ \E e \in Consumers : Deliver(e) \/ Settle(e) \/ LeaveLoop(e) PROVE Goal
  BY <1>1, <1>7 DEF vars, Deliver, Settle, LeaveLoop
<1>8. CASE ServerChannelCloses
  BY <1>8 DEF ServerChannelCloses, TypeOK
<1> HIDE DEF Goal
<1> QED
  BY <1>2, <1>3, <1>4, <1>5, <1>6, <1>7, <1>8, Steps DEF Goal

LEMMA TasksTyped ==
    ASSUME TypeOK, Held, Placed, [Next]_vars
    PROVE  task' \in [Executors -> Tasks]
<1>0. task \in [Executors -> Tasks]
  BY DEF TypeOK, Tasks
<1>1. ASSUME NEW j \in Jobs, Asks(j) \/ AnswerNow(j) PROVE task' \in [Executors -> Tasks]
  BY <1>0, <1>1, AskFields, AnswerNowFields, TakesFields DEF Published, Slips, Executes, Fails
<1>2. ASSUME NEW e \in Executors, Execution(e) PROVE task' \in [Executors -> Tasks]
  BY <1>2, ExecutionFields
<1>3. ASSUME NEW e \in Consumers, Deliver(e) \/ Settle(e) \/ LeaveLoop(e) PROVE task' \in [Executors -> Tasks]
  BY <1>3, DeliverFields, SettleFields, LeaveLoopFields DEF Placed
<1>4. ASSUME NEW w \in Workers, Crash(w) \/ Restart(w) PROVE task' \in [Executors -> Tasks]
  BY <1>4, WipeFields, IdleTyped, OutTyped DEF Crash, Restart
<1>5. \/ UNCHANGED task
      \/ \E j \in Jobs : Asks(j) \/ AnswerNow(j)
      \/ \E e \in Executors : Execution(e)
      \/ \E e \in Consumers : Deliver(e) \/ Settle(e) \/ LeaveLoop(e)
      \/ \E w \in Workers : Crash(w) \/ Restart(w)
  BY Steps DEF vars, ClientLeaves, Poll, Terminate, ChannelCloses, Exit, ServerChannelCloses
<1> QED
  BY <1>0, <1>1, <1>2, <1>3, <1>4, <1>5

LEMMA TypeStep == TypeOK /\ Held /\ Placed /\ Written /\ [Next]_vars => TypeOK'
<1> SUFFICES ASSUME TypeOK, Held, Placed, Written, [Next]_vars PROVE TypeOK'
  OBVIOUS
<1>1. row' \in [Jobs -> [status : Statuses, result : Nat]]
  BY RowsGrow DEF Rows
<1>2. task' \in [Executors -> [job : Jobs \cup {None}, at : Points, call : Nat]]
  BY TasksTyped DEF Tasks
<1> QED
  BY <1>1, <1>2, PlacedStep, RestTyped, CountersGrow, SlippedGrows DEF TypeOK

-----------------------------------------------------------------------------
(* Results.                                                                *)

\* An outcome is written, or its loss is recorded.
LEMMA SaveFields ==
    ASSUME TypeOK, Held, Written, NEW e \in Executors, Save(e)
    PROVE  /\ task[e].at \in {"good", "bad"}
           /\ task'[e].at = IF task[e].at = "good" THEN "done" ELSE "failed"
           /\ \/ task[e].job \in slipped'
              \/ task[e].at = "good" \/ task[e].job \in ApiRuns => row'[task[e].job].result # 0
           /\ \A i \in Jobs : i # task[e].job => row'[i] = row[i]
           /\ \/ task[e].at = "good" \/ task[e].job \in ApiRuns
              \/ row'[task[e].job].result = row[task[e].job].result
<1> DEFINE j == task[e].job
           new == SavedRow(j, task[e].at, task[e].call)
           at == IF task[e].at = "good" THEN "done" ELSE "failed"
<1>1. task[e].at \in {"good", "bad"} /\ j \in Jobs
  BY InHand DEF Save
<1>2. Moves(e, at) /\ at \in Points
  BY DEF Save, Points
<1>3. task'[e].at = at
  BY <1>2, MovesFields
<1>4. row' = [row EXCEPT ![j] = new] \/ (slipped' = slipped \cup {j} /\ UNCHANGED row)
  BY DEF Save
<1>9. task[e].call \in Nat /\ task[e].call # 0
  BY <1>1 DEF Written, TypeOK
<1>5. IF task[e].at = "good" \/ j \in ApiRuns THEN new.result # 0 ELSE new.result = row[j].result
  BY <1>1, <1>9, JobsAssumption DEF SavedRow, UpdateJobStatus, Jobs
<1>6. row \in [Jobs -> Rows]
  BY DEF TypeOK, Rows
<1> HIDE DEF new, j
<1>7. CASE row' = [row EXCEPT ![j] = new]
  BY <1>1, <1>3, <1>5, <1>6, <1>7 DEF j
<1>8. CASE slipped' = slipped \cup {j} /\ UNCHANGED row
  BY <1>1, <1>3, <1>8 DEF j
<1> QED
  BY <1>4, <1>7, <1>8

\* Whoever is done with a job has written a result, or it has slipped.
Settled(t) ==
    /\ t.at \in {"good", "bad"} => t.call # 0
    /\ t.at = "lost" => t.job \in slipped /\ t.job \in ApiRuns
    /\ t.at = "done" \/ (t.at = "failed" /\ t.job \in ApiRuns) => Ended(t.job) \/ t.job \in slipped

LEMMA WrittenIs == Written <=> (\A j \in Jobs : polled[j] # 0 => Ended(j)) /\ \A e \in Executors : Settled(task[e])
BY DEF Written, Settled

LEMMA WrittenIsNext == Written' <=> (\A j \in Jobs : polled'[j] # 0 => Ended(j)') /\ \A e \in Executors : Settled(task[e])'
BY DEF Written, Settled

\* What a client is shown is in the row.
LEMMA PollFields ==
    ASSUME TypeOK, Held, [Next]_vars
    PROVE  \A j \in Jobs : polled'[j] = polled[j] \/ (polled'[j] = row[j].result /\ UNCHANGED row)
<1>1. UNCHANGED polled \/ \E j \in Jobs : Poll(j)
  BY Steps, AskFields, ExecutionFields DEF vars, AnswerNow, ClientLeaves, Deliver, Settle, LeaveLoop,
       Terminate, ChannelCloses, Crash, Exit, Restart, ServerChannelCloses
<1>2. polled \in [Jobs -> Nat]
  BY DEF TypeOK
<1> QED
  BY <1>1, <1>2 DEF Poll

LEMMA WrittenStep ==
    ASSUME TypeOK, Held, Placed, Written, [Next]_vars
    PROVE  Written'
<1>1. slipped \subseteq slipped' /\ \A j \in Jobs : Ended(j) => Ended(j)'
  BY SlippedGrows, RowsGrow DEF Ended
<1>2. \A j \in Jobs : polled'[j] # 0 => Ended(j)'
  <2>2. \A j \in Jobs : polled'[j] = polled[j] \/ polled'[j] = row[j].result
    BY PollFields
  <2>3. \A j \in Jobs : row[j].result # 0 => Ended(j)
    BY DEF Ended
  <2> QED
    BY <1>1, <2>2, <2>3, WrittenIs
\* An executor that keeps its place, or begins, or ends.
<1>3. ASSUME NEW e \in Executors,
             task'[e] = task[e] \/ task'[e].at \in {"idle", "out", "taken", "started"}
      PROVE  Settled(task[e])'
  <2>1. CASE task'[e] = task[e]
    <3>1. Settled(task[e]) /\ task[e] \in Tasks
      BY WrittenIs DEF TypeOK, Tasks
    <3>2. task[e].at \in {"done", "failed"} => task[e].job \in Jobs
      BY InHand
    <3> QED
      BY <1>1, <2>1, <3>1, <3>2 DEF Settled, Ended
  <2>2. CASE task'[e].at \in {"idle", "out", "taken", "started"}
    BY <2>2 DEF Settled
  <2> QED
    BY <1>3, <2>1, <2>2
<1>4. ASSUME NEW e \in Executors, Execution(e) PROVE Written'
  <2>1. \A f \in Executors : f # e => Settled(task[f])'
    BY <1>3, <1>4, ExecutionFields
  <2>2. task'[e].job = task[e].job
    BY <1>4, ExecutionFields
  <2>3. CASE StartAi(e) \/ CallAi(e) \/ CallApi(e)
    <3>1. CASE Moves(e, "started")
      <4>1. task'[e].at = "started"
        BY <3>1, MovesFields DEF Points
      <4> QED
        BY <1>2, <1>3, <2>1, <4>1, WrittenIsNext
    <3>2. ASSUME NEW at \in {"good", "bad"}, Calls(e, at) PROVE Written'
      <4>1. task'[e].at = at /\ task'[e].call # 0
        BY <1>4, <3>2, CallsFields, ExecutionFields DEF Points
      <4>2. Settled(task[e])'
        BY <3>2, <4>1 DEF Settled
      <4> QED
        BY <1>2, <2>1, <4>2, WrittenIsNext
    <3> QED
      BY <2>3, <3>1, <3>2 DEF StartAi, CallAi, CallApi, Run
  <2>4. CASE StartApi(e)
    <3>1. \/ Moves(e, "started")
          \/ Moves(e, "lost") /\ task[e].job \in slipped' /\ task[e].job \in ApiRuns
      BY <2>4 DEF StartApi
    <3>2. \/ task'[e].at = "started"
          \/ task'[e].at = "lost" /\ task[e].job \in slipped' /\ task[e].job \in ApiRuns
      BY <3>1, MovesFields DEF Points
    <3>3. Settled(task[e])'
      BY <1>3, <2>2, <3>2 DEF Settled
    <3> QED
      BY <1>2, <2>1, <3>3, WrittenIsNext
  <2>5. CASE Save(e)
    <3>1. Settled(task[e])'
      BY <2>2, <2>5, SaveFields DEF Settled, Ended
    <3> QED
      BY <1>2, <2>1, <3>1, WrittenIsNext
  <2> QED
    BY <1>4, <2>3, <2>4, <2>5 DEF Execution
<1>5. ASSUME \A e \in Executors : task'[e] = task[e] \/ task'[e].at \in {"idle", "out", "taken", "started"}
      PROVE  Written'
  BY <1>2, <1>3, <1>5, WrittenIsNext
<1>6. ASSUME NEW j \in Jobs, Asks(j) \/ AnswerNow(j) PROVE Written'
  BY <1>5, <1>6, AskFields, AnswerNowFields, TakesFields, IdleTyped DEF Published, Slips, Executes, Fails
<1>7. ASSUME NEW e \in Consumers, Deliver(e) \/ Settle(e) \/ LeaveLoop(e) PROVE Written'
  BY <1>5, <1>7, DeliverFields, SettleFields, LeaveLoopFields, IdleTyped DEF Placed
<1>8. ASSUME NEW w \in Workers, Crash(w) \/ Restart(w) PROVE Written'
  BY <1>5, <1>8, IdleTyped, OutTyped DEF Crash, Restart
<1>9. ASSUME UNCHANGED task PROVE Written'
  BY <1>5, <1>9
<1> QED
  BY <1>4, <1>6, <1>7, <1>8, <1>9, Steps
     DEF vars, ClientLeaves, Poll, Terminate, ChannelCloses, Exit, ServerChannelCloses

-----------------------------------------------------------------------------
(* What was accepted.                                                      *)

KeptJob(j) == j \notin slipped =>
    /\ answer[j] = 202 /\ ~Ended(j) => Queued(j) \/ Holders(j) # {}
    /\ answer[j] = 200 => Ended(j)

LEMMA KeptStep ==
    ASSUME TypeOK, Held, Placed, Written, Kept, [Next]_vars
    PROVE  Kept'
<1>0. slipped \subseteq slipped' /\ \A j \in Jobs : Ended(j) => Ended(j)'
  BY SlippedGrows, RowsGrow DEF Ended
\* A job whose message is still there.
<1>1. ASSUME NEW j \in Jobs, answer'[j] = answer[j],
             Queued(j) \/ Holders(j) # {} => Queued(j)' \/ Holders(j)' # {}
      PROVE  KeptJob(j)'
  BY <1>0, <1>1 DEF Kept, KeptJob
\* A job that is over.
<1>2. ASSUME NEW j \in Jobs, j \in slipped \/ j \in slipped' \/ Ended(j) \/ answer'[j] \notin {200, 202}
      PROVE  KeptJob(j)'
  BY <1>0, <1>2 DEF KeptJob
<1>3. ASSUME \A j \in Jobs : KeptJob(j)' PROVE Kept'
  BY <1>3 DEF Kept, KeptJob
<1>4. ASSUME UNCHANGED <<queue, linked, answer>>, \A e \in Consumers : task'[e].job = task[e].job
      PROVE  Kept'
  <2>1. \A j \in Jobs : Queued(j)' = Queued(j) /\ Holders(j)' = Holders(j)
    BY <1>4 DEF Queued, Holders, Executing
  <2> QED
    BY <1>1, <1>3, <1>4, <2>1
<1>5. CASE UNCHANGED vars
  BY <1>4, <1>5 DEF vars
<1>6. ASSUME NEW j \in Jobs, Asks(j) PROVE Kept'
  <2>1. UNCHANGED linked /\ \A e \in Consumers : task'[e] = task[e]
    BY <1>6, AskFields, TakesFields, PlacesApart DEF Published, Slips, Executes, Fails
  <2>2. \A i \in Jobs : Holders(i)' = Holders(i)
    BY <2>1 DEF Holders, Executing
  <2>3. answer \in [Jobs -> {0, 200, 202, 400, 500}]
    BY DEF TypeOK
  <2>4. CASE Published(j)
    <3>1. \A i \in Jobs : Queued(i)' <=> Queued(i) \/ i = j
      BY <1>6, <2>4, AskFields, AskedIsNowhere, Enqueues DEF Published, Placed
    <3>2. KeptJob(j)'
      BY <2>3, <2>4, <3>1 DEF KeptJob, Published
    <3>3. \A i \in Jobs : i # j => answer'[i] = answer[i]
      BY <2>3, <2>4 DEF Published
    <3> QED
      BY <1>1, <1>3, <2>2, <3>1, <3>2, <3>3
  <2>5. CASE Slips(j) \/ Fails(j)
    <3>1. j \in slipped' \/ answer'[j] = 500
      BY <2>3, <2>5 DEF Slips, Fails
    <3>2. \A i \in Jobs : i # j => answer'[i] = answer[i]
      BY <2>3, <2>5 DEF Slips, Fails
    <3>3. \A i \in Jobs : Queued(i)' = Queued(i)
      BY <2>5 DEF Slips, Fails, Queued
    <3> QED
      BY <1>1, <1>2, <1>3, <2>2, <3>1, <3>2, <3>3
  <2>6. CASE Executes(j)
    BY <1>4, <2>1, <2>6 DEF Executes
  <2> QED
    BY <1>6, <2>4, <2>5, <2>6, AskFields
<1>7. ASSUME NEW j \in Jobs, AnswerNow(j) PROVE Kept'
  <2>1. UNCHANGED <<queue, linked>> /\ \A e \in Consumers : task'[e] = task[e]
    BY <1>7, AnswerNowFields, PlacesApart DEF AnswerNow
  <2>2. \A i \in Jobs : Queued(i)' = Queued(i) /\ Holders(i)' = Holders(i)
    BY <2>1 DEF Queued, Holders, Executing
  <2>3. Settled(task[j]) /\ task[j].job = j
    BY <1>7, AnswerNowFields, WrittenIs, PlacesApart
  <2>4. answer'[j] \in {400, 500} \/ Ended(j) \/ j \in slipped
    BY <1>7, <2>3, AnswerNowFields DEF Settled
  <2>5. KeptJob(j)'
    BY <1>2, <2>4
  <2> QED
    BY <1>1, <1>3, <1>7, <2>2, <2>5, AnswerNowFields
<1>8. ASSUME NEW j \in Jobs, ClientLeaves(j) \/ Poll(j) PROVE Kept'
  BY <1>4, <1>8 DEF ClientLeaves, Poll
<1>9. ASSUME NEW e \in Executors, Execution(e) PROVE Kept'
  <2>1. \A f \in Consumers : task'[f].job = task[f].job
    BY <1>9, ExecutionFields, PlacesApart
  <2> QED
    BY <1>4, <1>9, <2>1, ExecutionFields
<1>10. ASSUME NEW e \in Consumers, Deliver(e) PROVE Kept'
  <2>1. PICK j \in Jobs :
        /\ \A i \in Jobs : Queued(i)' <=> Queued(i) /\ i # j
        /\ task'[e].job = j
        /\ \A f \in Executors : f # e => task'[f] = task[f]
    BY <1>10, DeliverFields DEF Placed
  <2>2. UNCHANGED <<answer, linked>> /\ e[1] \in linked /\ task[e].job = None
    BY <1>10, PlacesApart DEF Deliver, Held
  <2>3. e \in Holders(j)'
    BY <2>1, <2>2 DEF Holders, Executing
  <2>4. \A i \in Jobs : i # j => Holders(i)' = Holders(i)
    BY <2>1, <2>2, PlacesApart, JobsAssumption DEF Holders, Executing
  <2> QED
    BY <1>1, <1>3, <2>1, <2>2, <2>3, <2>4
<1>11. ASSUME NEW e \in Consumers, Settle(e) PROVE Kept'
  <2> DEFINE back == e[2] = "ai" /\ task[e].at = "failed" /\ e[1] \in linked
  <2>1. PICK j \in Jobs :
        /\ j = task[e].job
        /\ \A i \in Jobs : Queued(i)' <=> Queued(i) \/ (back /\ i = j)
        /\ task'[e].job = None
        /\ \A f \in Executors : f # e => task'[f] = task[f]
    BY <1>11, SettleFields, IdleTyped
  <2>2. UNCHANGED <<answer, linked>> /\ task[e].at \in {"done", "failed", "lost"}
    BY <1>11 DEF Settle
  <2>3. \A i \in Jobs : i # j => Holders(i)' = Holders(i)
    BY <2>1, <2>2, PlacesApart, JobsAssumption DEF Holders, Executing
  <2>4. e[1] \notin linked => Holders(j)' = Holders(j)
    BY <2>1, <2>2, PlacesApart DEF Holders, Executing
  <2>5. e[2] = "ai" \/ j \in ApiRuns
    BY <2>1, JobsAssumption DEF Held, Kind, Jobs
  <2>6. Settled(task[e])
    BY WrittenIs, PlacesApart
  <2>7. e[1] \in linked /\ ~back => Ended(j) \/ j \in slipped
    BY <2>1, <2>2, <2>5, <2>6 DEF Settled
  <2>8. KeptJob(j)'
    <3>1. CASE e[1] \in linked /\ ~back
      BY <1>2, <2>7, <3>1
    <3>2. CASE back
      BY <1>1, <2>1, <2>2, <3>2
    <3>3. CASE e[1] \notin linked
      BY <1>1, <2>1, <2>2, <2>4, <3>3
    <3> QED
      BY <3>1, <3>2, <3>3
  <2> HIDE DEF back
  <2> QED
    BY <1>1, <1>3, <2>1, <2>2, <2>3, <2>8
<1>12. ASSUME NEW e \in Consumers, LeaveLoop(e) PROVE Kept'
  <2>1. \A f \in Consumers : task'[f].job = task[f].job
    BY <1>12, LeaveLoopFields, PlacesApart
  <2> QED
    BY <1>4, <1>12, <2>1 DEF LeaveLoop
<1>13. ASSUME NEW w \in Workers, Terminate(w) PROVE Kept'
  BY <1>4, <1>13 DEF Terminate
<1>14. ASSUME NEW w \in Workers, queue' = Requeue(queue, HeldBy(w)), linked' = linked \ {w}, UNCHANGED answer,
              \A e \in Consumers : e[1] # w => task'[e] = task[e]
       PROVE  Kept'
  <2>1. \A j \in Jobs : Queued(j)' <=> Queued(j) \/ \E e \in Holders(j) : e[1] = w
    BY <1>14, ReturnFields
  <2>2. \A j \in Jobs : \A e \in Holders(j) : e[1] # w => e \in Holders(j)'
    BY <1>14 DEF Holders, Executing
  <2> QED
    BY <1>1, <1>3, <1>14, <2>1, <2>2
<1>15. ASSUME NEW w \in Workers, ChannelCloses(w) \/ Crash(w) PROVE Kept'
  <2>1. \A e \in Consumers : e[1] # w => task'[e] = task[e]
    BY <1>15, WipeFields, OutTyped DEF ChannelCloses, Crash
  <2> QED
    BY <1>14, <1>15, <2>1 DEF ChannelCloses, Crash
<1>16. ASSUME NEW w \in Workers, Exit(w) PROVE Kept'
  <2>1. UNCHANGED <<queue, task, answer>> /\ linked' = linked \ {w} /\ \A k \in Kinds : task[<<w, k>>].at = "out"
    BY <1>16 DEF Exit
  <2>2. \A e \in Consumers : e[1] = w => task[e].job = None
    BY <2>1, ConsumersArePairs, PlacesApart DEF Held
  <2>3. \A j \in Jobs : Holders(j)' = Holders(j) /\ Queued(j)' = Queued(j)
    BY <2>1, <2>2, JobsAssumption DEF Holders, Executing, Queued
  <2> QED
    BY <1>1, <1>3, <2>1, <2>3
<1>17. ASSUME NEW w \in Workers, Restart(w) PROVE Kept'
  <2>1. UNCHANGED <<queue, answer>> /\ linked' = linked \cup {w} /\ w \notin linked
    BY <1>17 DEF Restart, Held
  <2>2. \A e \in Consumers : e[1] # w => task'[e] = task[e]
    BY <1>17, WipeFields, IdleTyped DEF Restart
  <2>3. \A j \in Jobs : Holders(j) \subseteq Holders(j)' /\ Queued(j)' = Queued(j)
    BY <2>1, <2>2 DEF Holders, Executing, Queued
  <2> QED
    BY <1>1, <1>3, <2>1, <2>3
<1>18. CASE ServerChannelCloses
  BY <1>4, <1>18 DEF ServerChannelCloses
<1> QED
  BY <1>5, <1>6, <1>7, <1>8, <1>9, <1>10, <1>11, <1>12, <1>13, <1>15, <1>16, <1>17, <1>18, Steps

-----------------------------------------------------------------------------
(* Calls.                                                                  *)

LEMMA FewerPending ==
    ASSUME NEW S, IsFiniteSet(S), NEW T, T \subseteq S
    PROVE  IsFiniteSet(T) /\ Cardinality(T) \in Nat /\ Cardinality(S) \in Nat /\ Cardinality(T) <= Cardinality(S)
BY FS_Subset, FS_CardinalityType

LEMMA OneMorePending ==
    ASSUME NEW S, IsFiniteSet(S), NEW T, NEW e, T \subseteq S \cup {e}
    PROVE  IsFiniteSet(T) /\ Cardinality(T) \in Nat /\ Cardinality(S) \in Nat /\ Cardinality(T) <= Cardinality(S) + 1
<1>1. IsFiniteSet(S \cup {e}) /\ Cardinality(S \cup {e}) = IF e \in S THEN Cardinality(S) ELSE Cardinality(S) + 1
  BY FS_AddElement
<1>2. IsFiniteSet(T) /\ Cardinality(T) <= Cardinality(S \cup {e})
  BY <1>1, FS_Subset
<1>3. Cardinality(S) \in Nat /\ Cardinality(T) \in Nat /\ Cardinality(S \cup {e}) \in Nat
  BY <1>1, <1>2, FS_CardinalityType
<1> QED
  BY <1>1, <1>2, <1>3

LEMMA OneLessPending ==
    ASSUME NEW S, IsFiniteSet(S), NEW T, NEW e \in S, T \subseteq S \ {e}
    PROVE  IsFiniteSet(T) /\ Cardinality(T) \in Nat /\ Cardinality(S) \in Nat /\ Cardinality(T) + 1 <= Cardinality(S)
<1>1. IsFiniteSet(S \ {e}) /\ Cardinality(S \ {e}) = Cardinality(S) - 1
  BY FS_RemoveElement
<1>2. IsFiniteSet(T) /\ Cardinality(T) <= Cardinality(S \ {e})
  BY <1>1, FS_Subset
<1>3. Cardinality(S) \in Nat /\ Cardinality(T) \in Nat /\ Cardinality(S \ {e}) \in Nat
  BY <1>1, <1>2, FS_CardinalityType
<1> QED
  BY <1>1, <1>2, <1>3

Grown == /\ faults \in Nat /\ errors \in Nat /\ faults' \in Nat /\ errors' \in Nat
         /\ faults' >= faults /\ errors' >= errors
         /\ calls \in [Jobs -> Nat]

LEMMA AlwaysGrown == ASSUME TypeOK, [Next]_vars PROVE Grown
<1>1. calls \in [Jobs -> Nat] /\ faults \in 0 .. MaxFaults /\ errors \in 0 .. MaxErrors
  BY DEF TypeOK
<1>2. MaxFaults \in Nat /\ MaxErrors \in Nat
  BY JobsAssumption
<1> QED
  BY <1>1, <1>2, CountersGrow DEF Grown

\* A step that asks for no more calls of j than there were.
LEMMA BudgetStays ==
    ASSUME Grown, NEW j \in Jobs, InBudget(j), calls'[j] = calls[j], Pending(j)' \subseteq Pending(j),
           Queued(j)' \/ Unasked(j)' => Queued(j) \/ Unasked(j) \/ faults' = faults + 1
    PROVE  InBudget(j)'
<1>1. /\ IsFiniteSet(Pending(j)') /\ Cardinality(Pending(j)') \in Nat /\ Cardinality(Pending(j)) \in Nat
      /\ Cardinality(Pending(j)') <= Cardinality(Pending(j))
  BY FewerPending DEF InBudget
<1>2. calls[j] \in Nat
  BY DEF Grown
<1> QED
  BY <1>1, <1>2 DEF InBudget, Allowed, Grown

\* The request or the message of j becomes an execution.
LEMMA BudgetBegins ==
    ASSUME Grown, NEW j \in Jobs, InBudget(j), calls'[j] = calls[j], NEW e, Pending(j)' \subseteq Pending(j) \cup {e},
           Queued(j) \/ Unasked(j), ~Queued(j)', ~Unasked(j)'
    PROVE  InBudget(j)'
<1>1. /\ IsFiniteSet(Pending(j)') /\ Cardinality(Pending(j)') \in Nat /\ Cardinality(Pending(j)) \in Nat
      /\ Cardinality(Pending(j)') <= Cardinality(Pending(j)) + 1
  BY OneMorePending DEF InBudget
<1>2. calls[j] \in Nat
  BY DEF Grown
<1> QED
  BY <1>1, <1>2 DEF InBudget, Allowed, Grown

\* An execution of j becomes a call or a message.
LEMMA BudgetEnds ==
    ASSUME Grown, NEW j \in Jobs, InBudget(j), NEW e \in Pending(j), Pending(j)' \subseteq Pending(j) \ {e},
           \/ calls'[j] = calls[j] /\ ~Queued(j) /\ ~Unasked(j)
           \/ calls'[j] = calls[j] + 1 /\ (Queued(j)' \/ Unasked(j)' => Queued(j) \/ Unasked(j))
    PROVE  InBudget(j)'
<1>1. /\ IsFiniteSet(Pending(j)') /\ Cardinality(Pending(j)') \in Nat /\ Cardinality(Pending(j)) \in Nat
      /\ Cardinality(Pending(j)') + 1 <= Cardinality(Pending(j))
  BY OneLessPending DEF InBudget
<1>2. calls[j] \in Nat
  BY DEF Grown
<1> QED
  BY <1>1, <1>2 DEF InBudget, Allowed, Grown

\* A call of the model failed.
LEMMA BudgetErrs ==
    ASSUME Grown, NEW j \in AiJobs, InBudget(j), Pending(j)' \subseteq Pending(j), calls'[j] = calls[j] + 1,
           errors' = errors + 1, Queued(j)' \/ Unasked(j)' => Queued(j) \/ Unasked(j)
    PROVE  InBudget(j)'
<1>1. /\ IsFiniteSet(Pending(j)') /\ Cardinality(Pending(j)') \in Nat /\ Cardinality(Pending(j)) \in Nat
      /\ Cardinality(Pending(j)') <= Cardinality(Pending(j))
  BY FewerPending DEF InBudget
<1>2. calls[j] \in Nat
  BY DEF Grown, Jobs
<1> QED
  BY <1>1, <1>2 DEF InBudget, Allowed, Grown

\* An execution goes on.
LEMMA BudgetExecution ==
    ASSUME TypeOK, Held, Placed, Written, Budget, Grown, [Next]_vars, NEW e \in Executors, Execution(e)
    PROVE  Budget'
<1> DEFINE at == task'[e].at
<1>1. PICK j \in Jobs :
        /\ j = task[e].job /\ task'[e].job = j
        /\ \A f \in Executors : f # e => task'[f] = task[f]
        /\ UNCHANGED <<queue, linked, answer>>
  BY ExecutionFields
<1>2. \A i \in Jobs : task'[i].job = task[i].job
  BY <1>1, PlacesApart
<1>3. \A i \in Jobs : (Queued(i)' <=> Queued(i)) /\ (Unasked(i)' <=> Unasked(i))
  BY <1>1, <1>2 DEF Queued, Unasked
<1>4. \A i \in Jobs : i # j => Pending(i)' \subseteq Pending(i)
  BY <1>1 DEF Pending
<1>5. Pending(j)' \subseteq Pending(j) \cup {e}
  BY <1>1 DEF Pending
<1>6. CASE StartAi(e) \/ StartApi(e) \/ Save(e)
  <2>1. UNCHANGED calls
    BY <1>6 DEF StartAi, StartApi, Save
  <2>2. e \in Pending(j)' => e \in Pending(j)
    <3>1. CASE StartAi(e) \/ StartApi(e)
      BY <1>1, <3>1 DEF StartAi, StartApi, Pending
    <3>2. CASE Save(e)
      BY <1>1, <3>2, SaveFields DEF Pending
    <3> QED
      BY <1>6, <3>1, <3>2
  <2>3. \A i \in Jobs : Pending(i)' \subseteq Pending(i)
    BY <1>4, <1>5, <2>2
  <2> QED
    BY <1>3, <2>1, <2>3, BudgetStays DEF Budget
<1>7. CASE CallAi(e) \/ CallApi(e)
  <2>1. calls' = [calls EXCEPT ![j] = @ + 1] /\ task[e].at = "started"
    BY <1>1, <1>7 DEF CallAi, CallApi, Calls
  <2>2. calls'[j] = calls[j] + 1 /\ \A i \in Jobs : i # j => calls'[i] = calls[i]
    BY <2>1 DEF Grown
  <2>3. e \in Pending(j)
    BY <1>1, <2>1 DEF Pending
  <2>4. ASSUME at = "good" \/ (at = "bad" /\ j \in ApiRuns) PROVE InBudget(j)'
    <3>1. e \notin Pending(j)'
      BY <1>1, <2>4, JobsAssumption DEF Pending
    <3>2. Pending(j)' \subseteq Pending(j) \ {e}
      BY <1>5, <3>1
    <3> QED
      BY <1>3, <2>2, <2>3, <3>2, BudgetEnds DEF Budget
  <2>5. ASSUME CallAi(e), Calls(e, "bad"), ModelFails PROVE InBudget(j)'
    <3>1. j \in AiJobs /\ errors' = errors + 1
      BY <1>1, <2>5 DEF CallAi, ModelFails
    <3>2. Pending(j)' \subseteq Pending(j)
      BY <1>5, <2>3
    <3>3. InBudget(j)
      BY DEF Budget
    <3> QED
      BY <1>3, <2>2, <3>1, <3>2, <3>3, BudgetErrs
  <2>6. InBudget(j)'
    <3>1. \/ Calls(e, "good")
          \/ Calls(e, "bad") /\ j \in ApiRuns
          \/ CallAi(e) /\ Calls(e, "bad") /\ ModelFails
      BY <1>1, <1>7 DEF CallAi, CallApi, Run
    <3>2. \/ at = "good" \/ (at = "bad" /\ j \in ApiRuns)
          \/ CallAi(e) /\ Calls(e, "bad") /\ ModelFails
      BY <1>1, <3>1, CallsFields DEF Points
    <3> QED
      BY <2>4, <2>5, <3>2
  <2> QED
    BY <1>3, <1>4, <2>2, <2>6, BudgetStays DEF Budget
<1> QED
  BY <1>6, <1>7 DEF Execution

LEMMA BudgetStep ==
    ASSUME TypeOK, Held, Placed, Written, Budget, [Next]_vars
    PROVE  Budget'
<1>0. Grown
  BY AlwaysGrown
<1>1. ASSUME UNCHANGED <<calls, queue, answer>>, linked' \subseteq linked,
             \A e \in Executors : task'[e] = task[e] \/ (task'[e].job = None /\ task[e].job = None)
      PROVE  Budget'
  <2>1. \A j \in Jobs : Pending(j)' \subseteq Pending(j)
    BY <1>1, JobsAssumption DEF Pending
  <2>2. \A j \in Jobs : (Queued(j)' <=> Queued(j)) /\ (Unasked(j)' => Unasked(j))
    BY <1>1, PlacesApart DEF Queued, Unasked
  <2> QED
    BY <1>0, <1>1, <2>1, <2>2, BudgetStays DEF Budget
<1>2. CASE UNCHANGED vars
  BY <1>1, <1>2 DEF vars
<1>3. ASSUME NEW j \in Jobs, Asks(j) PROVE Budget'
  <2>1. /\ task[j].job = None /\ answer[j] = 0 /\ UNCHANGED <<linked, calls>>
        /\ ~Queued(j) /\ Unasked(j)
    BY <1>3, AskFields, AskedIsNowhere, IdleTyped DEF Unasked
  <2>2. answer \in [Jobs -> {0, 200, 202, 400, 500}]
    BY DEF TypeOK
  <2>3. CASE Published(j) \/ Slips(j) \/ Fails(j)
    <3>1. UNCHANGED task /\ \A i \in Jobs : i # j => answer'[i] = answer[i]
      BY <2>2, <2>3 DEF Published, Slips, Fails
    <3>2. \A i \in Jobs : Pending(i)' \subseteq Pending(i)
      BY <2>1, <3>1 DEF Pending
    <3>3. \A i \in Jobs : i # j => (Queued(i)' <=> Queued(i)) /\ (Unasked(i)' <=> Unasked(i))
      <4>1. \A i \in Jobs : i # j => (Queued(i)' <=> Queued(i))
        BY <2>1, <2>3, Enqueues DEF Published, Slips, Fails, Placed, Queued
      <4> QED
        BY <3>1, <4>1 DEF Unasked
    <3> QED
      BY <1>0, <2>1, <3>2, <3>3, BudgetStays DEF Budget
  <2>4. CASE Executes(j)
    <3>1. /\ task'[j].job = j /\ \A e \in Executors : e # j => task'[e] = task[e]
          /\ UNCHANGED <<queue, answer>>
      BY <2>4, TakesFields DEF Executes
    <3>2. \A i \in Jobs : Queued(i)' <=> Queued(i)
      BY <3>1 DEF Queued
    <3>3. ~Unasked(j)' /\ \A i \in Jobs : i # j => (Unasked(i)' <=> Unasked(i))
      BY <3>1, PlacesApart, JobsAssumption DEF Unasked
    <3>4. Pending(j)' \subseteq Pending(j) \cup {j} /\ \A i \in Jobs : i # j => Pending(i)' \subseteq Pending(i)
      BY <2>1, <3>1 DEF Pending
    <3>5. InBudget(j)'
      BY <1>0, <2>1, <3>2, <3>3, <3>4, BudgetBegins DEF Budget
    <3> QED
      BY <1>0, <2>1, <3>2, <3>3, <3>4, <3>5, BudgetStays DEF Budget
  <2> QED
    BY <1>3, <2>3, <2>4, AskFields
<1>4. ASSUME NEW j \in Jobs, AnswerNow(j) PROVE Budget'
  <2>1. UNCHANGED <<queue, linked, calls>>
    BY <1>4 DEF AnswerNow
  <2>2. /\ task'[j].job = None /\ \A e \in Executors : e # j => task'[e] = task[e]
        /\ answer'[j] \in {200, 400, 500} /\ \A i \in Jobs : i # j => answer'[i] = answer[i]
    BY <1>4, AnswerNowFields, IdleTyped
  <2>3. \A i \in Jobs : Pending(i)' \subseteq Pending(i)
    BY <2>1, <2>2, JobsAssumption DEF Pending
  <2>4. \A i \in Jobs : (Queued(i)' <=> Queued(i)) /\ (Unasked(i)' => Unasked(i))
    BY <2>1, <2>2, PlacesApart DEF Queued, Unasked
  <2> QED
    BY <1>0, <2>1, <2>3, <2>4, BudgetStays DEF Budget
<1>5. ASSUME NEW j \in Jobs, ClientLeaves(j) \/ Poll(j) PROVE Budget'
  BY <1>1, <1>5 DEF ClientLeaves, Poll
<1>6. ASSUME NEW e \in Executors, Execution(e) PROVE Budget'
  BY <1>0, <1>6, BudgetExecution
<1>7. ASSUME NEW e \in Consumers, Deliver(e) PROVE Budget'
  <2>1. PICK j \in Jobs :
        /\ Queued(j)
        /\ \A i \in Jobs : Queued(i)' <=> Queued(i) /\ i # j
        /\ task'[e].job = j
        /\ \A f \in Executors : f # e => task'[f] = task[f]
    BY <1>7, DeliverFields DEF Placed
  <2>2. UNCHANGED <<answer, linked, calls>>
    BY <1>7 DEF Deliver
  <2>3. \A i \in Jobs : Unasked(i)' <=> Unasked(i)
    BY <2>1, <2>2, PlacesApart DEF Unasked
  <2>4. ~Unasked(j)
    BY <2>1 DEF Unasked, Placed
  <2>5. Pending(j)' \subseteq Pending(j) \cup {e} /\ \A i \in Jobs : i # j => Pending(i)' \subseteq Pending(i)
    BY <2>1, <2>2, PlacesApart DEF Pending
  <2>6. InBudget(j)'
    BY <1>0, <2>1, <2>2, <2>3, <2>4, <2>5, BudgetBegins DEF Budget
  <2> QED
    BY <1>0, <2>1, <2>2, <2>3, <2>5, <2>6, BudgetStays DEF Budget
<1>8. ASSUME NEW e \in Consumers, Settle(e) PROVE Budget'
  <2> DEFINE back == e[2] = "ai" /\ task[e].at = "failed" /\ e[1] \in linked
  <2>1. PICK j \in Jobs :
        /\ j = task[e].job
        /\ \A i \in Jobs : Queued(i)' <=> Queued(i) \/ (back /\ i = j)
        /\ task'[e].job = None
        /\ \A f \in Executors : f # e => task'[f] = task[f]
    BY <1>8, SettleFields, IdleTyped
  <2>2. UNCHANGED <<answer, linked, calls>>
    BY <1>8 DEF Settle
  <2>3. \A i \in Jobs : Unasked(i)' <=> Unasked(i)
    BY <2>1, <2>2, PlacesApart DEF Unasked
  <2>4. \A i \in Jobs : Pending(i)' \subseteq Pending(i)
    BY <2>1, <2>2, PlacesApart, JobsAssumption DEF Pending
  <2>5. CASE back
    <3>1. e \in Executors /\ e \in Holders(j)
      BY <2>1, <2>5, PlacesApart DEF Holders, Executing
    <3>2. j \in AiJobs
      BY <2>1, <2>5, JobsAssumption DEF Held, Kind
    <3>3. e \in Pending(j)
      BY <2>1, <2>5, <3>1, <3>2 DEF Pending
    <3>4. e \notin Pending(j)'
      BY <2>1, JobsAssumption DEF Pending
    <3>5. ~Queued(j) /\ ~Unasked(j)
      BY <3>1 DEF Placed, Unasked
    <3>6. InBudget(j)'
      BY <1>0, <2>2, <2>4, <3>3, <3>4, <3>5, BudgetEnds DEF Budget
    <3> QED
      BY <1>0, <2>1, <2>2, <2>3, <2>4, <3>6, BudgetStays DEF Budget
  <2>6. CASE ~back
    BY <1>0, <2>1, <2>2, <2>3, <2>4, <2>6, BudgetStays DEF Budget
  <2> QED
    BY <2>5, <2>6
<1>9. ASSUME NEW e \in Consumers, LeaveLoop(e) PROVE Budget'
  <2>1. /\ task'[e].job = None /\ task[e].job = None
        /\ \A f \in Executors : f # e => task'[f] = task[f]
    BY <1>9, LeaveLoopFields, PlacesApart DEF Held
  <2> QED
    BY <1>1, <1>9, <2>1 DEF LeaveLoop
<1>10. ASSUME NEW w \in Workers, Terminate(w) \/ Exit(w) PROVE Budget'
  BY <1>1, <1>10 DEF Terminate, Exit
<1>11. ASSUME NEW w \in Workers, ChannelCloses(w) \/ Crash(w) PROVE Budget'
  <2>1. UNCHANGED <<answer, calls>> /\ linked' = linked \ {w} /\ faults' = faults + 1
    BY <1>11 DEF ChannelCloses, Crash, Fault
  <2>2. /\ \A j \in Jobs : task'[j] = task[j]
        /\ \A e \in Executors : task'[e] = task[e] \/ task'[e].job = None
    BY <1>11, WipeFields, OutTyped DEF ChannelCloses, Crash, Executors
  <2>3. \A j \in Jobs : Pending(j)' \subseteq Pending(j)
    BY <2>1, <2>2, JobsAssumption DEF Pending
  <2> QED
    BY <1>0, <2>1, <2>3, BudgetStays DEF Budget
<1>12. ASSUME NEW w \in Workers, Restart(w) PROVE Budget'
  <2>1. UNCHANGED <<answer, calls, queue>> /\ linked' = linked \cup {w}
    BY <1>12 DEF Restart
  <2>2. /\ \A e \in Consumers : task'[e] = IF e[1] = w THEN Idle ELSE task[e]
        /\ \A j \in Jobs : task'[j] = task[j]
    BY <1>12, WipeFields, IdleTyped DEF Restart
  <2>3. \A j \in Jobs : Pending(j)' \subseteq Pending(j)
    BY <2>1, <2>2, IdleTyped, JobsAssumption DEF Pending, Executors
  <2>4. \A j \in Jobs : (Queued(j)' <=> Queued(j)) /\ (Unasked(j)' <=> Unasked(j))
    BY <2>1, <2>2 DEF Queued, Unasked
  <2> QED
    BY <1>0, <2>1, <2>3, <2>4, BudgetStays DEF Budget
<1>13. CASE ServerChannelCloses
  BY <1>1, <1>13 DEF ServerChannelCloses
<1> QED
  BY <1>2, <1>3, <1>4, <1>5, <1>6, <1>7, <1>8, <1>9, <1>10, <1>11, <1>12, <1>13, Steps

-----------------------------------------------------------------------------
(* Before the first fault.                                                 *)

\* While every channel is open a job is in one place.
LEMMA OneExecutor ==
    ASSUME TypeOK, Held, Placed, linked = Workers, NEW j \in Jobs, NEW e \in Executors, Executing(e, j)
    PROVE  ~Queued(j) /\ ~Unasked(j) /\ \A f \in Executors : Executing(f, j) => f = e
<1>1. \A f \in Consumers : Executing(f, j) => f \in Holders(j)
  BY ConsumersArePairs DEF Holders
<1>2. \A f \in Jobs : Executing(f, j) => f = j /\ answer[j] = 0
  BY JobsAssumption DEF Held, Executing
<1>3. j # None
  BY JobsAssumption
<1> QED
  BY <1>1, <1>2, <1>3, PlacesApart DEF Placed, Unasked, Executing, Executors

\* Nothing but a save changes the result of a row.
LEMMA ResultChanges ==
    ASSUME TypeOK, Held, Written, [Next]_vars, NEW j \in Jobs
    PROVE  \/ row'[j].result = row[j].result
           \/ \E e \in Executors : Save(e) /\ Executing(e, j)
<1>0. row \in [Jobs -> Rows]
  BY DEF TypeOK, Rows
<1>1. ASSUME NEW i \in Jobs, GenerateFlow(i) \/ EnqueueRun(i) PROVE row'[j].result = row[j].result
  <2>1. row' = row \/ row' = [row EXCEPT ![i].status = "pending"]
    BY <1>1 DEF GenerateFlow, EnqueueRun
  <2> QED
    BY <1>0, <2>1 DEF Rows
<1>2. ASSUME NEW e \in Executors, StartAi(e) PROVE row'[j].result = row[j].result
  <2> DEFINE i == task[e].job
             new == UpdateJobStatus(i, "processing", 0)
  <2>1. i \in Jobs /\ new.result = row[i].result
    BY <1>2 DEF StartAi, Jobs, UpdateJobStatus
  <2>2. row' = row \/ row' = [row EXCEPT ![i] = new]
    BY <1>2 DEF StartAi
  <2> HIDE DEF new, i
  <2> QED
    BY <1>0, <2>1, <2>2
<1>3. ASSUME NEW e \in Executors, Save(e), ~Executing(e, j) PROVE row'[j].result = row[j].result
  BY <1>3, SaveFields DEF Executing
<1>4. \/ UNCHANGED row
      \/ \E i \in Jobs : GenerateFlow(i) \/ EnqueueRun(i)
      \/ \E e \in Executors : StartAi(e) \/ Save(e)
  BY DEF Next, vars, Execution, GenerateFlowFails, RunNow, AnswerNow, ClientLeaves, Poll, StartApi, CallAi,
         CallApi, Deliver, Settle, LeaveLoop, Terminate, ChannelCloses, Crash, Exit, Restart, ServerChannelCloses
<1> QED
  BY <1>1, <1>2, <1>3, <1>4

LEMMA UndisturbedStep ==
    ASSUME TypeOK, Held, Placed, Written, Undisturbed, [Next]_vars
    PROVE  Undisturbed'
<1> SUFFICES ASSUME faults' = 0
             PROVE  /\ linked' = Workers /\ \A w \in Workers : worker'[w] = "up"
                    /\ \A j \in Jobs : Ended(j)' => Over(j)'
                    /\ \A j \in Jobs : polled'[j] \in {0, row'[j].result}
  BY DEF Undisturbed
<1>0. faults = 0 /\ ~Fault /\ Ordered
  <2>1. faults \in Nat
    BY JobsAssumption DEF TypeOK
  <2> QED
    BY <2>1, CountersGrow DEF Fault, TypeOK, Placed
<1>1. /\ linked = Workers /\ \A w \in Workers : worker[w] = "up"
      /\ \A j \in Jobs : Ended(j) => Over(j)
      /\ \A j \in Jobs : polled[j] \in {0, row[j].result}
  BY <1>0 DEF Undisturbed
<1>2. \A w \in Workers : ~Terminate(w) /\ ~ChannelCloses(w) /\ ~Crash(w) /\ ~Exit(w) /\ ~Restart(w)
  BY <1>0, <1>1 DEF Terminate, ChannelCloses, Crash, Exit, Restart
<1>3. UNCHANGED <<linked, worker>>
  BY <1>2, Steps, AskFields, ExecutionFields DEF vars, AnswerNow, ClientLeaves, Poll, Deliver, Settle, LeaveLoop,
       ServerChannelCloses
<1>4. \A j \in Jobs : Ended(j) => row'[j].result = row[j].result
  <2> SUFFICES ASSUME NEW j \in Jobs, Ended(j), NEW e \in Executors, Save(e), Executing(e, j) PROVE FALSE
    BY ResultChanges
  <2> QED
    BY <1>1 DEF Over, Finished, Save
<1>5. \A j \in Jobs : polled'[j] \in {0, row'[j].result}
  <2> SUFFICES ASSUME NEW j \in Jobs PROVE polled'[j] \in {0, row'[j].result}
    OBVIOUS
  <2>1. polled[j] \in {0, row'[j].result}
    BY <1>1, <1>4 DEF Ended
  <2> QED
    BY <2>1, PollFields
\* A job that had ended, of which no executor but one that ends has changed.
<1>6. ASSUME NEW j \in Jobs, Ended(j)', Ended(j), Queued(j)' => Queued(j), Unasked(j)' => Unasked(j),
             \A e \in Executors : task'[e] = task[e] \/ task'[e].job # j
      PROVE  Over(j)'
  <2>1. Over(j)
    BY <1>1, <1>6
  <2> QED
    BY <1>6, <2>1 DEF Over, Executing, Finished
<1>7. ASSUME \A e \in Executors : ~Save(e) PROVE \A j \in Jobs : Ended(j)' => Ended(j)
  BY <1>7, ResultChanges DEF Ended
<1>8. CASE UNCHANGED vars
  BY <1>1, <1>8 DEF vars, Ended, Over, Queued, Unasked, Executing, Finished
<1>9. ASSUME NEW i \in Jobs, Asks(i) PROVE \A j \in Jobs : Ended(j)' => Over(j)'
  <2>1. /\ task[i].job = None /\ answer[i] = 0 /\ Unasked(i) /\ ~Queued(i)
        /\ Published(i) \/ Slips(i) \/ Executes(i)
    BY <1>0, <1>9, AskFields, AskedIsNowhere, IdleTyped DEF Unasked, Fails
  <2>2. \A j \in Jobs : Ended(j)' => Ended(j)
    <3>1. UNCHANGED calls /\ UNCHANGED polled
      BY <1>9, AskFields
    <3>2. row' = row \/ row' = [row EXCEPT ![i].status = "pending"]
      BY <1>9 DEF Asks, GenerateFlow, GenerateFlowFails, EnqueueRun, RunNow
    <3>3. row \in [Jobs -> Rows]
      BY DEF TypeOK, Rows
    <3> QED
      BY <3>2, <3>3 DEF Ended, Rows
  <2>3. ~Ended(i)
    BY <1>1, <2>1 DEF Over
  <2>4. \A j \in Jobs : j # i => (Queued(j)' => Queued(j))
    BY <1>0, <2>1, Enqueues DEF Published, Slips, Executes, Queued
  <2>5. \A j \in Jobs : j # i => (Unasked(j)' => Unasked(j))
    <3>1. \A j \in Jobs : j # i => answer'[j] = answer[j]
      BY <2>1 DEF Published, Slips, Executes, TypeOK
    <3>2. \A j \in Jobs : j # i => task'[j] = task[j]
      BY <2>1, TakesFields, PlacesApart DEF Published, Slips, Executes
    <3> QED
      BY <3>1, <3>2 DEF Unasked
  <2>6. \A e \in Executors : task'[e] = task[e] \/ task'[e].job = i
    BY <2>1, TakesFields DEF Published, Slips, Executes
  <2> QED
    BY <1>6, <2>2, <2>3, <2>4, <2>5, <2>6
<1>10. ASSUME NEW i \in Jobs, AnswerNow(i) PROVE \A j \in Jobs : Ended(j)' => Over(j)'
  <2>1. UNCHANGED <<row, queue>>
    BY <1>10 DEF AnswerNow
  <2>2. /\ task'[i] = Idle /\ \A e \in Executors : e # i => task'[e] = task[e]
        /\ answer'[i] # 0 /\ \A j \in Jobs : j # i => answer'[j] = answer[j]
    BY <1>10, AnswerNowFields
  <2>3. \A j \in Jobs : /\ Ended(j)' => Ended(j)
                        /\ Queued(j)' => Queued(j)
                        /\ Unasked(j)' => Unasked(j)
    BY <2>1, <2>2, PlacesApart DEF Ended, Queued, Unasked
  <2>4. \A j \in Jobs, e \in Executors : task'[e] = task[e] \/ task'[e].job # j
    BY <2>2, IdleTyped, JobsAssumption
  <2> QED
    BY <1>6, <2>3, <2>4
<1>11. ASSUME UNCHANGED <<row, queue, task, answer>> PROVE \A j \in Jobs : Ended(j)' => Over(j)'
  BY <1>1, <1>11 DEF Ended, Over, Queued, Unasked, Executing, Finished
<1>12. ASSUME NEW e \in Executors, Execution(e) PROVE \A j \in Jobs : Ended(j)' => Over(j)'
  <2>1. /\ task[e].at \in {"taken", "started", "good", "bad"}
        /\ task'[e].job = task[e].job /\ task[e].job \in Jobs
        /\ \A f \in Executors : f # e => task'[f] = task[f]
        /\ UNCHANGED <<queue, answer>>
    BY <1>12, ExecutionFields
  <2>2. \A j \in Jobs : (Queued(j)' <=> Queued(j)) /\ (Unasked(j)' <=> Unasked(j))
    BY <2>1, PlacesApart DEF Queued, Unasked
  <2>3. ASSUME NEW j \in Jobs, j # task[e].job, Ended(j)' PROVE Over(j)'
    <3>1. Ended(j)
      <4>1. \A f \in Executors : Save(f) /\ Executing(f, j) => f = e
        <5> SUFFICES ASSUME NEW f \in Executors, Save(f), f # e PROVE FALSE
          OBVIOUS
        <5>1. task'[f] = task[f] /\ task[f].at \in {"good", "bad"} /\ task[f] \in Tasks
          BY <2>1 DEF Save, TypeOK, Tasks
        <5>2. task'[f].at \in {"done", "failed"}
          BY SaveFields
        <5> QED
          BY <5>1, <5>2
      <4> QED
        BY <2>3, <4>1, ResultChanges DEF Ended, Executing
    <3> QED
      BY <1>6, <2>1, <2>2, <2>3, <3>1
  <2>4. ASSUME NEW j \in Jobs, j = task[e].job, Ended(j)' PROVE Over(j)'
    <3>1. ~Queued(j) /\ ~Unasked(j) /\ \A f \in Executors : Executing(f, j) => f = e
      BY <1>1, <2>4, OneExecutor DEF Executing
    <3>2. ~Ended(j)
      BY <1>1, <2>1, <2>4 DEF Over, Finished, Executing
    <3>3. PICK f \in Executors : Save(f) /\ Executing(f, j)
      BY <2>4, <3>2, ResultChanges DEF Ended
    <3>4. Save(e)
      BY <3>1, <3>3
    <3>5. task[e].at = "good" \/ j \in ApiRuns
      BY <2>4, <3>2, <3>4, SaveFields DEF Ended
    <3>6. Finished(e, j)'
      BY <2>4, <3>4, <3>5, SaveFields DEF Finished
    <3>7. \A g \in Executors : Executing(g, j)' => g = e
      BY <2>1, <3>1 DEF Executing
    <3> QED
      BY <2>2, <3>1, <3>6, <3>7 DEF Over
  <2> QED
    BY <2>3, <2>4
<1>13. ASSUME NEW e \in Consumers, Deliver(e) PROVE \A j \in Jobs : Ended(j)' => Over(j)'
  <2>1. PICK i \in Jobs :
        /\ Queued(i)
        /\ \A j \in Jobs : Queued(j)' <=> Queued(j) /\ j # i
        /\ task'[e].job = i
        /\ \A f \in Executors : f # e => task'[f] = task[f]
    BY <1>0, <1>13, DeliverFields
  <2>2. UNCHANGED <<row, answer>>
    BY <1>13 DEF Deliver
  <2>3. ~Ended(i)
    BY <1>1, <2>1 DEF Over
  <2>4. \A j \in Jobs : (Ended(j)' => Ended(j)) /\ (Unasked(j)' => Unasked(j))
    BY <2>1, <2>2, PlacesApart DEF Ended, Unasked
  <2> QED
    BY <1>6, <2>1, <2>3, <2>4
<1>14. ASSUME NEW e \in Consumers, Settle(e) PROVE \A j \in Jobs : Ended(j)' => Over(j)'
  <2> DEFINE back == e[2] = "ai" /\ task[e].at = "failed" /\ e[1] \in linked
  <2>1. PICK i \in Jobs :
        /\ i = task[e].job
        /\ \A j \in Jobs : Queued(j)' <=> Queued(j) \/ (back /\ j = i)
        /\ task'[e].job = None
        /\ \A f \in Executors : f # e => task'[f] = task[f]
    BY <1>14, SettleFields, IdleTyped
  <2>2. UNCHANGED <<row, answer>>
    BY <1>14 DEF Settle
  <2>3. back => ~Ended(i)
    <3>1. e \in Executors
      BY PlacesApart
    <3>2. back => i \in AiJobs
      BY <2>1, JobsAssumption DEF Held, Kind
    <3> QED
      BY <1>1, <2>1, <3>1, <3>2, JobsAssumption DEF Over, Finished, Executing
  <2>4. \A j \in Jobs : (Ended(j)' => Ended(j)) /\ (Unasked(j)' => Unasked(j))
    BY <2>1, <2>2, PlacesApart DEF Ended, Unasked
  <2> HIDE DEF back
  <2>5. \A j \in Jobs : Ended(j) => (Queued(j)' => Queued(j))
    BY <2>1, <2>3
  <2>6. \A j \in Jobs, f \in Executors : task'[f] = task[f] \/ task'[f].job # j
    BY <2>1, JobsAssumption
  <2> QED
    BY <1>6, <2>4, <2>5, <2>6
<1>15. ASSUME NEW e \in Consumers, LeaveLoop(e) PROVE \A j \in Jobs : Ended(j)' => Over(j)'
  <2>1. /\ task'[e].job = None
        /\ \A f \in Executors : f # e => task'[f] = task[f]
    BY <1>15, LeaveLoopFields, PlacesApart DEF Held
  <2>2. UNCHANGED <<row, queue, answer>>
    BY <1>15 DEF LeaveLoop
  <2>3. \A j \in Jobs : /\ Ended(j)' => Ended(j)
                        /\ Queued(j)' => Queued(j)
                        /\ Unasked(j)' => Unasked(j)
    BY <2>1, <2>2, PlacesApart DEF Ended, Queued, Unasked
  <2>4. \A j \in Jobs, f \in Executors : task'[f] = task[f] \/ task'[f].job # j
    BY <2>1, JobsAssumption
  <2> QED
    BY <1>6, <2>3, <2>4
<1>16. \A j \in Jobs : Ended(j)' => Over(j)'
  <2>1. \A j \in Jobs : ClientLeaves(j) \/ Poll(j) => UNCHANGED <<row, queue, task, answer>>
    BY DEF ClientLeaves, Poll
  <2>2. ServerChannelCloses => UNCHANGED <<row, queue, task, answer>>
    BY DEF ServerChannelCloses
  <2>3. \/ \E j \in Jobs : Asks(j) \/ AnswerNow(j) \/ ClientLeaves(j) \/ Poll(j)
        \/ \E e \in Executors : Execution(e)
        \/ \E e \in Consumers : Deliver(e) \/ Settle(e) \/ LeaveLoop(e)
        \/ ServerChannelCloses \/ UNCHANGED vars
    BY <1>2, Steps
  <2> QED
    BY <1>8, <1>9, <1>10, <1>11, <1>12, <1>13, <1>14, <1>15, <2>1, <2>2, <2>3
<1> QED
  BY <1>1, <1>3, <1>5, <1>16

-----------------------------------------------------------------------------
(* The theorems.                                                           *)

LEMMA InitInv == Init => Inv
<1> SUFFICES ASSUME Init PROVE Inv
  OBVIOUS
<1>1. /\ \A e \in Executors : task[e] = Idle
      /\ \A j \in Jobs : answer[j] = 0 /\ calls[j] = 0 /\ ~Queued(j)
      /\ \A k \in Kinds : queue[k] = <<>>
  BY KindTyped DEF Init, Queued
<1>2. Held
  BY <1>1, IdleTyped, PlacesApart, JobsAssumption DEF Held, Init
<1>3. \A j \in Jobs : Holders(j) = {} /\ Pending(j) = {}
  BY <1>1, IdleTyped, PlacesApart, JobsAssumption DEF Holders, Executing, Pending
<1>4. Placed
  BY <1>1, <1>3 DEF Placed, Ordered, Distinct, Waits
<1>5. Written
  BY <1>1, IdleTyped DEF Init, Written
<1>6. Kept
  BY <1>1 DEF Kept
<1>7. Budget
  <2>1. faults = 0 /\ errors = 0
    BY DEF Init
  <2>2. ASSUME NEW j \in Jobs PROVE InBudget(j)
    <3>1. Pending(j) = {} /\ calls[j] = 0 /\ ~Queued(j)
      BY <1>1, <1>3
    <3>2. IsFiniteSet(Pending(j)) /\ Cardinality(Pending(j)) = 0
      BY <3>1, FS_EmptySet
    <3> QED
      BY <2>1, <3>1, <3>2 DEF InBudget, Allowed
  <2> QED
    BY <2>2 DEF Budget
<1>8. Undisturbed
  BY DEF Init, Undisturbed, Ended
<1> QED
  BY <1>2, <1>4, <1>5, <1>6, <1>7, <1>8, InitTypeOK DEF Inv

LEMMA InvStep == Inv /\ [Next]_vars => Inv'
BY TypeStep, HeldStep, PlacedStep, WrittenStep, KeptStep, BudgetStep, UndisturbedStep DEF Inv

\* The inductive invariant holds of every reachable state.
THEOREM InvAlways == Spec => []Inv
BY InitInv, InvStep, PTL DEF Spec

\* Every variable has its type: rows, queues, executors, workers and requests.
THEOREM TypeCorrect == Spec => []TypeOK
<1>1. Inv => TypeOK
  BY DEF Inv
<1> QED
  BY <1>1, InvAlways, PTL

\* One message of each job: it is counted once in its queue, or once with a consumer.
LEMMA PlacedIsOneMessage ==
    ASSUME Inv
    PROVE  OneMessage
<1> SUFFICES ASSUME NEW j \in Jobs
             PROVE  /\ Cardinality({i \in DOMAIN queue[Kind(j)] : queue[Kind(j)][i] = j})
                          + Cardinality(Holders(j)) <= 1
                    /\ Queued(j) \/ Holders(j) # {} => answer[j] = 202
  BY DEF OneMessage
<1> DEFINE P == {i \in DOMAIN queue[Kind(j)] : queue[Kind(j)][i] = j}
<1>1. P # {} <=> Queued(j)
  BY DEF Queued
<1>2. \A i, m \in P : i = m
  BY KindTyped DEF Inv, Placed, Ordered, Distinct
<1>3. \A e, f \in Holders(j) : e = f
  BY DEF Inv, Placed
<1>4. ASSUME NEW S, \A e, f \in S : e = f PROVE Cardinality(S) = IF S = {} THEN 0 ELSE 1
  <2>1. S = {} \/ \E e : S = {e}
    BY <1>4
  <2> QED
    BY <2>1, FS_EmptySet, FS_Singleton
<1>5. Cardinality(P) = IF P = {} THEN 0 ELSE 1
  BY <1>2, <1>4
<1>6. Cardinality(Holders(j)) = IF Holders(j) = {} THEN 0 ELSE 1
  BY <1>3, <1>4
<1>7. /\ Queued(j) => Holders(j) = {} /\ answer[j] = 202
      /\ Holders(j) # {} => answer[j] = 202
  BY DEF Inv, Placed
<1> QED
  BY <1>1, <1>5, <1>6, <1>7

\* However often workers lose it, an accepted job is queued, held, or ended, unless one
\* of the errors that the handlers and the workers ignore has happened to it.
THEOREM AcceptedIsKeptHolds == Spec => []AcceptedIsKept
<1>1. Inv => AcceptedIsKept
  BY PlacedIsOneMessage DEF Inv, AcceptedIsKept, Kept
<1> QED
  BY <1>1, InvAlways, PTL

\* The model and the targets are called once, and once more for each failed call of the
\* model and each fault at most.
THEOREM CallsHaveACauseHolds == Spec => []CallsHaveACause
<1>1. ASSUME Inv, NEW j \in Jobs PROVE calls[j] <= 1 + faults + (IF j \in AiJobs THEN errors ELSE 0)
  <2>1. InBudget(j) /\ Cardinality(Pending(j)) \in Nat
    BY <1>1, FS_CardinalityType DEF Inv, Budget, InBudget
  <2>2. calls[j] \in Nat
    BY <1>1 DEF Inv, TypeOK
  <2>3. faults \in Nat /\ errors \in Nat
    <3>1. faults \in 0 .. MaxFaults /\ errors \in 0 .. MaxErrors
      BY <1>1 DEF Inv, TypeOK
    <3> QED
      BY <3>1, JobsAssumption
  <2> QED
    BY <2>1, <2>2, <2>3 DEF InBudget, Allowed
<1>2. Inv => CallsHaveACause
  BY <1>1 DEF CallsHaveACause
<1> QED
  BY <1>2, InvAlways, PTL

\* A client that has seen a result of its job sees one at every later poll, and before
\* the first fault the same one.
THEOREM ShownResultKeptHolds == Spec => ShownResultKept
<1>1. ASSUME Inv, [Next]_vars, NEW j \in Jobs, polled[j] # 0
      PROVE  polled'[j] # 0 /\ (polled'[j] # polled[j] => faults > 0)
  <2>1. Ended(j)
    BY <1>1 DEF Inv, Written
  <2>2. polled'[j] = polled[j] \/ polled'[j] = row[j].result
    BY <1>1, PollFields DEF Inv
  <2>3. faults \in Nat
    BY <1>1, JobsAssumption DEF Inv, TypeOK
  <2>4. faults = 0 => polled[j] = row[j].result
    BY <1>1 DEF Inv, Undisturbed
  <2> QED
    BY <1>1, <2>1, <2>2, <2>3, <2>4 DEF Ended
<1>2. Inv /\ [Next]_vars =>
        [\A j \in Jobs : polled[j] # 0 => /\ polled'[j] # 0
                                          /\ polled'[j] # polled[j] => faults > 0]_vars
  BY <1>1
<1> QED
  BY <1>2, InvAlways, PTL DEF ShownResultKept, Spec
=============================================================================
