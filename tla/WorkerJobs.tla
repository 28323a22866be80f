----------------------------- MODULE WorkerJobs -----------------------------
(***************************************************************************)
(* The jobs that the HTTP servers hand to the worker daemon: generating a  *)
(* flow with the AI model, and running the request of an API contract.     *)
(*                                                                         *)
(* A job has a row in PostgreSQL (ai_jobs, api_runs) that its client polls *)
(* and at most one message on the queue of its kind in RabbitMQ.  Whoever  *)
(* executes it, a consumer of a worker or, when there is no broker, the    *)
(* HTTP handler itself, goes through the same steps: mark the row, call    *)
(* the model or the target, save the outcome.  The errors of the saves are *)
(* ignored; a message is acknowledged, or put back, after the last step.   *)
(*                                                                         *)
(* What can go wrong is bounded: MaxErrors for calls of the model that     *)
(* fail, MaxFaults for a worker that dies, is told to stop or loses its    *)
(* channel, a publication or a save that is lost, a contract that is gone. *)
(***************************************************************************)
EXTENDS Naturals, Sequences, FiniteSets

CONSTANTS AiJobs,     \* the jobs of ai_jobs
          ApiRuns,    \* the jobs of api_runs
          Workers,    \* the worker daemons
          None,       \* no job
          MaxErrors,  \* bound on the calls of the model that fail
          MaxFaults   \* bound on the faults of the environment

Jobs == AiJobs \cup ApiRuns
Kinds == {"ai", "api"}
Kind(j) == IF j \in AiJobs THEN "ai" ELSE "api"

ASSUME JobsAssumption == /\ AiJobs \cap ApiRuns = {}
                         /\ None \notin Jobs
                         /\ Jobs \cap (Workers \X Kinds) = {}
                         /\ MaxErrors \in Nat /\ MaxFaults \in Nat

Consumers == Workers \X Kinds   \* the two listeners of each worker
Executors == Consumers \cup Jobs \* a job also names the HTTP handler of its request

VARIABLES row,       \* [Jobs -> [status, result]]: the rows the clients poll; a result is
                     \* the number of the call that gave it, 0 for none
          queue,     \* [Kinds -> Seq(Jobs)]: the messages that are ready
          task,      \* [Executors -> [job, at, call]]: what each executor is doing, and
                     \* the number of the call it has made for its job
          worker,    \* [Workers -> "up", "stopping", "down"]
          linked,    \* the workers whose channel is open
          broker,    \* the server's channel: "open" or "closed"
          gone,      \* the requests whose client has left: their context is cancelled
          answer,    \* [Jobs -> Nat]: the status of the HTTP answer, 0 before it
          polled,    \* [Jobs -> Nat]: the result that the client was shown last
          calls,     \* [Jobs -> Nat]: how often the model or the target was called
          slipped,   \* the jobs of which a publication, a save or a lookup failed unnoticed
          errors,    \* how many calls of the model failed
          faults     \* how many faults there were

vars == <<row, queue, task, worker, linked, broker, gone, answer, polled, calls, slipped, errors, faults>>

-----------------------------------------------------------------------------
Statuses == {"none", "pending", "processing", "completed", "failed", "succeeded", "blocked"}
Points == {"idle", "out", "taken", "started", "good", "bad", "done", "failed", "lost"}

Idle == [job |-> None, at |-> "idle", call |-> 0]
Out == [Idle EXCEPT !.at = "out"]
Queued(j) == \E i \in DOMAIN queue[Kind(j)] : queue[Kind(j)][i] = j
Executing(e, j) == task[e].job = j
Alive(e) == IF e \in Jobs THEN e \notin gone ELSE worker[e[1]] # "stopping"
Moves(e, at) == task' = [task EXCEPT ![e].at = at]

Fault == faults < MaxFaults /\ faults' = faults + 1

Init ==
    /\ row = [j \in Jobs |-> [status |-> "none", result |-> 0]]
    /\ queue = [k \in Kinds |-> <<>>]
    /\ task = [e \in Executors |-> Idle]
    /\ worker = [w \in Workers |-> "up"]
    /\ linked = Workers
    /\ broker = "open"
    /\ gone = {}
    /\ answer = [j \in Jobs |-> 0]
    /\ polled = [j \in Jobs |-> 0]
    /\ calls = [j \in Jobs |-> 0]
    /\ slipped = {}
    /\ errors = 0
    /\ faults = 0

-----------------------------------------------------------------------------
(* The HTTP handlers.                                                      *)

\* What a publication without confirmation may do: reach the queue, be lost with
\* the connection it was written to, or return an error on a closed channel.
Enqueued(j) == broker = "open" /\ queue' = [queue EXCEPT ![Kind(j)] = Append(@, j)] /\ UNCHANGED faults
Vanished(j) == broker = "open" /\ Fault /\ UNCHANGED queue
Refused(j)  == broker = "closed" /\ UNCHANGED <<queue, faults>>

\* POST /ai/generate-flow: ExecuteEnqueueAIFlow inserts the row before anything
\* else.  The job is published when the client asked for that; otherwise, and when
\* the publication returns an error, the handler executes it before it answers.
GenerateFlow(j) ==
    /\ j \in AiJobs /\ task[j] = Idle /\ answer[j] = 0
    /\ row' = [row EXCEPT ![j].status = "pending"]
    /\ \/ /\ \/ Enqueued(j) /\ UNCHANGED slipped
             \/ Vanished(j) /\ slipped' = slipped \cup {j}
          /\ answer' = [answer EXCEPT ![j] = 202]
          /\ UNCHANGED task
       \/ /\ Refused(j) \/ UNCHANGED <<queue, faults>>
          /\ task' = [task EXCEPT ![j] = [job |-> j, at |-> "taken", call |-> 0]]
          /\ UNCHANGED <<answer, slipped>>
    /\ UNCHANGED <<worker, linked, broker, gone, polled, calls, errors>>

\* Without its row an AI job is refused and leaves no trace.
GenerateFlowFails(j) ==
    /\ j \in AiJobs /\ task[j] = Idle /\ answer[j] = 0 /\ Fault
    /\ answer' = [answer EXCEPT ![j] = 500]
    /\ UNCHANGED <<row, queue, task, worker, linked, broker, gone, polled, calls, slipped, errors>>

\* POST /api-requests/:id/runs, asynchronous: the errors of the insertion of the
\* pending row and of the publication are ignored.
EnqueueRun(j) ==
    /\ j \in ApiRuns /\ task[j] = Idle /\ answer[j] = 0
    /\ row' \in {row, [row EXCEPT ![j].status = "pending"]}
    /\ \/ Enqueued(j) /\ UNCHANGED slipped
       \/ (Vanished(j) \/ Refused(j)) /\ slipped' = slipped \cup {j}
    /\ answer' = [answer EXCEPT ![j] = 202]
    /\ UNCHANGED <<task, worker, linked, broker, gone, polled, calls, errors>>

\* The same endpoint, synchronous: nothing is written before the call.
RunNow(j) ==
    /\ j \in ApiRuns /\ task[j] = Idle /\ answer[j] = 0
    /\ task' = [task EXCEPT ![j] = [job |-> j, at |-> "started", call |-> 0]]
    /\ UNCHANGED <<row, queue, worker, linked, broker, gone, answer, polled, calls, slipped, errors, faults>>

\* The end of a synchronous execution.
AnswerNow(j) ==
    /\ task[j].at \in {"done", "failed"}
    /\ task' = [task EXCEPT ![j] = Idle]
    /\ answer' = [answer EXCEPT ![j] = IF task[j].at = "done" THEN 200
                                       ELSE IF j \in AiJobs THEN 500 ELSE 400]
    /\ gone' = gone \ {j}
    /\ UNCHANGED <<row, queue, worker, linked, broker, polled, calls, slipped, errors, faults>>

\* The client of a request under way leaves: net/http cancels its context.
ClientLeaves(j) ==
    /\ task[j] # Idle /\ j \notin gone
    /\ gone' = gone \cup {j}
    /\ UNCHANGED <<row, queue, task, worker, linked, broker, answer, polled, calls, slipped, errors, faults>>

\* GET /ai/jobs/:id and GET /api-requests/:id/runs, by a client that was given the
\* identifier.
Poll(j) ==
    /\ row[j].status # "none" /\ answer[j] \in {200, 202}
    /\ polled' = [polled EXCEPT ![j] = row[j].result]
    /\ UNCHANGED <<row, queue, task, worker, linked, broker, gone, answer, calls, slipped, errors, faults>>

-----------------------------------------------------------------------------
(* The steps of an execution, in a worker or in a handler.                 *)

\* A statement under the context of the executor: it fails when the context is
\* cancelled and may fail otherwise.
Works(e) == Alive(e) /\ UNCHANGED faults
Breaks(e) == IF Alive(e) THEN Fault ELSE UNCHANGED faults

\* Mutation: the result column is always assigned.
UpdateJobStatusAssigning(j, status, result) == [status |-> status, result |-> result]

\* UPDATE ai_jobs: a result replaces the one of the row, no result leaves it.
UpdateJobStatus(j, status, result) ==
    [status |-> status, result |-> IF result # 0 THEN result ELSE row[j].result]

\* The AI job is marked as being processed; an error is ignored.
StartAi(e) ==
    /\ task[e].job \in AiJobs /\ task[e].at = "taken"
    /\ Moves(e, "started")
    /\ \/ Works(e) /\ row' = [row EXCEPT ![task[e].job] = UpdateJobStatus(task[e].job, "processing", 0)]
       \/ Breaks(e) /\ UNCHANGED row
    /\ UNCHANGED <<queue, worker, linked, broker, gone, answer, polled, calls, slipped, errors>>

\* The worker reads the contract and the environment of an API run again; when
\* one is gone, or the query fails, it returns before it has written anything.
StartApi(e) ==
    /\ task[e].job \in ApiRuns /\ task[e].at = "taken"
    /\ \/ Works(e) /\ Moves(e, "started") /\ UNCHANGED slipped
       \/ /\ Breaks(e) /\ Moves(e, "lost")
          /\ slipped' = slipped \cup {task[e].job}
    /\ UNCHANGED <<row, queue, worker, linked, broker, gone, answer, polled, calls, errors>>

\* CallGemini: no key is configured, the model does not answer within its time, or
\* with something that does not parse as a flow.
ModelFails == errors < MaxErrors /\ errors' = errors + 1

Calls(e, outcome) ==
    LET n == calls[task[e].job] + 1 IN
    /\ calls' = [calls EXCEPT ![task[e].job] = n]
    /\ task' = [task EXCEPT ![e] = [job |-> task[e].job, at |-> outcome, call |-> n]]

\* The call does not take the context of the executor.
CallAi(e) ==
    /\ task[e].job \in AiJobs /\ task[e].at = "started"
    /\ \/ Calls(e, "good") /\ UNCHANGED errors
       \/ Calls(e, "bad") /\ ModelFails
    /\ UNCHANGED <<row, queue, worker, linked, broker, gone, answer, polled, slipped, faults>>

\* APIRunner.Run gives a response only within the context; a refusal by its policy
\* and an error of the target are the same to the run.
Run(e) == {"bad"} \cup (IF Alive(e) THEN {"good"} ELSE {})

\* The target is called once.
CallApi(e) ==
    /\ task[e].job \in ApiRuns /\ task[e].at = "started"
    /\ \E outcome \in Run(e) : Calls(e, outcome)
    /\ UNCHANGED <<row, queue, worker, linked, broker, gone, answer, polled, slipped, errors, faults>>

\* A failed call of the model has no result to write; the upsert of an API run
\* replaces status and body by those of its own call, whatever the row held.
SavedRow(j, outcome, call) ==
    IF j \in AiJobs
    THEN IF outcome = "good" THEN UpdateJobStatus(j, "completed", call)
                             ELSE UpdateJobStatus(j, "failed", 0)
    ELSE [status |-> IF outcome = "good" THEN "succeeded" ELSE "blocked", result |-> call]

\* The outcome is written; an error is ignored.  The synchronous handler of an API
\* run writes without the context of the request.
Save(e) ==
    LET j == task[e].job IN
    /\ task[e].at \in {"good", "bad"}
    /\ Moves(e, IF task[e].at = "good" THEN "done" ELSE "failed")
    /\ \/ /\ Alive(e) \/ e \in ApiRuns
          /\ row' = [row EXCEPT ![j] = SavedRow(j, task[e].at, task[e].call)]
          /\ UNCHANGED <<slipped, faults>>
       \/ /\ IF e \in ApiRuns THEN Fault ELSE Breaks(e)
          /\ slipped' = slipped \cup {j}
          /\ UNCHANGED row
    /\ UNCHANGED <<queue, worker, linked, broker, gone, answer, polled, calls, errors>>

-----------------------------------------------------------------------------
(* The worker daemon.                                                      *)

Requeue(q, js) == [k \in Kinds |->
    LET back == {j \in js : Kind(j) = k} IN
    IF back = {} THEN q[k] ELSE <<CHOOSE j \in back : TRUE>> \o q[k]]

\* The broker gives the first message of the queue to a consumer that holds none.
\* A consumer that was told to stop may still pick it: its select is not ordered.
Deliver(e) ==
    /\ e \in Consumers /\ task[e].at = "idle"
    /\ e[1] \in linked /\ queue[e[2]] # <<>>
    /\ task' = [task EXCEPT ![e] = [job |-> Head(queue[e[2]]), at |-> "taken", call |-> 0]]
    /\ queue' = [queue EXCEPT ![e[2]] = Tail(@)]
    /\ UNCHANGED <<row, worker, linked, broker, gone, answer, polled, calls, slipped, errors, faults>>

\* Mutation: the error of an API run is returned to its consumer as well.
SettleRetrying(e) ==
    /\ e \in Consumers /\ task[e].at \in {"done", "failed", "lost"}
    /\ task' = [task EXCEPT ![e] = Idle]
    /\ queue' = IF task[e].at # "done" /\ e[1] \in linked THEN Requeue(queue, {task[e].job}) ELSE queue
    /\ UNCHANGED <<row, worker, linked, broker, gone, answer, polled, calls, slipped, errors, faults>>

\* Mutation: the consumer returns the error instead of going on.
SettleReturning(e) ==
    LET failed == e[2] = "ai" /\ task[e].at = "failed" IN
    /\ e \in Consumers /\ task[e].at \in {"done", "failed", "lost"}
    /\ task' = [task EXCEPT ![e] = IF failed THEN Out ELSE Idle]
    /\ queue' = IF failed /\ e[1] \in linked THEN Requeue(queue, {task[e].job}) ELSE queue
    /\ UNCHANGED <<row, worker, linked, broker, gone, answer, polled, calls, slipped, errors, faults>>

\* The message of a failed AI job goes back to the head of its queue; every other
\* one is acknowledged, that of an API run whatever became of it.  On a closed
\* channel neither has an effect.
Settle(e) ==
    LET failed == e[2] = "ai" /\ task[e].at = "failed" IN
    /\ e \in Consumers /\ task[e].at \in {"done", "failed", "lost"}
    /\ task' = [task EXCEPT ![e] = Idle]
    /\ queue' = IF failed /\ e[1] \in linked THEN Requeue(queue, {task[e].job}) ELSE queue
    /\ UNCHANGED <<row, worker, linked, broker, gone, answer, polled, calls, slipped, errors, faults>>

\* A consumer leaves its loop: the context is done, or the channel was closed.
LeaveLoop(e) ==
    /\ e \in Consumers /\ task[e].at = "idle"
    /\ worker[e[1]] = "stopping" \/ e[1] \notin linked
    /\ task' = [task EXCEPT ![e].at = "out"]
    /\ UNCHANGED <<row, queue, worker, linked, broker, gone, answer, polled, calls, slipped, errors, faults>>

\* SIGTERM: the context of both consumers, and of what they execute, is cancelled.
Terminate(w) ==
    /\ worker[w] = "up" /\ Fault
    /\ worker' = [worker EXCEPT ![w] = "stopping"]
    /\ UNCHANGED <<row, queue, task, linked, broker, gone, answer, polled, calls, slipped, errors>>

\* The broker returns the messages that the consumers of w have not settled.
HeldBy(w) == IF w \in linked THEN {task[<<w, k>>].job : k \in Kinds} \ {None} ELSE {}

\* The channel of a worker is closed.  Its executions go on; it does not reconnect.
ChannelCloses(w) ==
    /\ w \in linked /\ Fault
    /\ linked' = linked \ {w}
    /\ queue' = Requeue(queue, HeldBy(w))
    /\ UNCHANGED <<row, task, worker, broker, gone, answer, polled, calls, slipped, errors>>

\* Mutation: messages are acknowledged when they are delivered.
CrashAfterAutoAck(w) ==
    /\ worker[w] # "down" /\ Fault
    /\ worker' = [worker EXCEPT ![w] = "down"]
    /\ linked' = linked \ {w}
    /\ task' = [e \in Executors |-> IF e \in Consumers /\ e[1] = w THEN Out ELSE task[e]]
    /\ UNCHANGED <<row, queue, broker, gone, answer, polled, calls, slipped, errors>>

\* A worker process dies: its executions are gone with it.
Crash(w) ==
    /\ worker[w] # "down" /\ Fault
    /\ worker' = [worker EXCEPT ![w] = "down"]
    /\ linked' = linked \ {w}
    /\ queue' = Requeue(queue, HeldBy(w))
    /\ task' = [e \in Executors |-> IF e \in Consumers /\ e[1] = w THEN Out ELSE task[e]]
    /\ UNCHANGED <<row, broker, gone, answer, polled, calls, slipped, errors>>

\* main returns once both consumers have; a worker that lost its channel waits
\* for a signal with nothing to do.
Exit(w) ==
    /\ worker[w] = "stopping" /\ \A k \in Kinds : task[<<w, k>>].at = "out"
    /\ worker' = [worker EXCEPT ![w] = "down"]
    /\ linked' = linked \ {w}
    /\ UNCHANGED <<row, queue, task, broker, gone, answer, polled, calls, slipped, errors, faults>>

Restart(w) ==
    /\ worker[w] = "down"
    /\ worker' = [worker EXCEPT ![w] = "up"]
    /\ linked' = linked \cup {w}
    /\ task' = [e \in Executors |-> IF e \in Consumers /\ e[1] = w THEN Idle ELSE task[e]]
    /\ UNCHANGED <<row, queue, broker, gone, answer, polled, calls, slipped, errors, faults>>

\* The channel of the HTTP server is closed, for good.
ServerChannelCloses ==
    /\ broker = "open" /\ Fault
    /\ broker' = "closed"
    /\ UNCHANGED <<row, queue, task, worker, linked, gone, answer, polled, calls, slipped, errors>>

-----------------------------------------------------------------------------
Execution(e) == StartAi(e) \/ StartApi(e) \/ CallAi(e) \/ CallApi(e) \/ Save(e)

Next ==
    \/ \E j \in Jobs : \/ GenerateFlow(j) \/ GenerateFlowFails(j) \/ EnqueueRun(j) \/ RunNow(j)
                       \/ AnswerNow(j) \/ ClientLeaves(j) \/ Poll(j)
    \/ \E e \in Executors : Execution(e)
    \/ \E e \in Consumers : Deliver(e) \/ Settle(e) \/ LeaveLoop(e)
    \/ \E w \in Workers : Terminate(w) \/ ChannelCloses(w) \/ Crash(w) \/ Exit(w) \/ Restart(w)
    \/ ServerChannelCloses

\* An execution that has begun goes on, and an idle consumer takes the next message.
\* Nothing is assumed of clients, of operators who restart workers, or of faults.
Fairness ==
    /\ \A e \in Executors : WF_vars(Execution(e))
    /\ \A j \in Jobs : WF_vars(AnswerNow(j))
    /\ \A e \in Consumers : WF_vars(Deliver(e)) /\ WF_vars(Settle(e))

Spec == Init /\ [][Next]_vars /\ Fairness

-----------------------------------------------------------------------------
(* Properties.                                                             *)

TypeOK ==
    /\ row \in [Jobs -> [status : Statuses, result : Nat]]
    /\ queue \in [Kinds -> Seq(Jobs)]
    /\ task \in [Executors -> [job : Jobs \cup {None}, at : Points, call : Nat]]
    /\ worker \in [Workers -> {"up", "stopping", "down"}]
    /\ linked \in SUBSET Workers
    /\ broker \in {"open", "closed"}
    /\ gone \in SUBSET Jobs
    /\ answer \in [Jobs -> {0, 200, 202, 400, 500}]
    /\ polled \in [Jobs -> Nat]
    /\ calls \in [Jobs -> Nat]
    /\ slipped \in SUBSET Jobs
    /\ errors \in 0 .. MaxErrors
    /\ faults \in 0 .. MaxFaults

Ended(j) == row[j].result # 0

\* The consumers that hold the message of j: those whose channel is open.
Holders(j) == {e \in Consumers : e[1] \in linked /\ Executing(e, j)}

\* There is at most one message of a job, ready or held, however often workers
\* lose it; a job whose message is on its way was answered with 202.
OneMessage == \A j \in Jobs :
    /\ Cardinality({i \in DOMAIN queue[Kind(j)] : queue[Kind(j)][i] = j})
         + Cardinality(Holders(j)) <= 1
    /\ Queued(j) \/ Holders(j) # {} => answer[j] = 202

\* A job whose client was told 202 is not forgotten: until its row has an outcome
\* its message is queued or held by a consumer that can still settle it, or one of
\* the errors that the code ignores has happened to it.  And who was answered with a
\* result finds it in the row, with the same exception.
AcceptedIsKept ==
    /\ OneMessage
    /\ \A j \in Jobs : j \notin slipped =>
        /\ answer[j] = 202 /\ ~Ended(j) => Queued(j) \/ Holders(j) # {}
        /\ answer[j] = 200 => Ended(j)

\* The model and the targets are not called again without a cause: an AI job is called
\* once more at most than calls of the model failed and faults happened, and an API run,
\* whatever its target answers, is not sent a second time without a fault.
CallsHaveACause ==
    \A j \in Jobs : calls[j] <= 1 + faults + (IF j \in AiJobs THEN errors ELSE 0)

\* A client that was shown a result is shown one by every later poll, also when the job
\* is processed again and that time fails.  As long as there was no fault it is the same
\* one: a message that is delivered again, or an execution that goes on beside it, is
\* what writes another outcome over it, also "blocked" over "succeeded".
ShownResultKept == [][
    \A j \in Jobs : polled[j] # 0 => /\ polled'[j] # 0
                                     /\ polled'[j] # polled[j] => faults > 0]_vars

\* Once some worker stays up with its channel open, every job answered with 202
\* gets an outcome, unless one of the ignored errors has happened to it.
EveryAcceptedJobEnds ==
    <>[](\E w \in Workers : worker[w] = "up" /\ w \in linked) =>
        \A j \in Jobs : answer[j] = 202 ~> Ended(j) \/ j \in slipped

=============================================================================
