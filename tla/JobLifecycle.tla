----------------------------- MODULE JobLifecycle -----------------------------
(***************************************************************************)
(* The life of an agent job (agent/job.py and the job routes of            *)
(* agent/web.py).  A web process saves a row in sqlite and pushes an RQ    *)
(* job; a worker runs it, saving the row and one row per step; the web     *)
(* process merges the row with RQ's own status when press asks, and        *)
(* cancels or stops jobs on request.  Row and RQ status are two stores     *)
(* that no transaction spans, and every save() writes the whole row from   *)
(* the copy its process holds.                                             *)
(*                                                                         *)
(* RQ itself is external: its queue, its job status, its stop command and  *)
(* the cleanup of its registries are modelled by what the agent relies on. *)
(***************************************************************************)
EXTENDS Naturals, Sequences, FiniteSets, SequencesExt

CONSTANTS
    Jobs,        \* ids of the rows
    Workers,     \* RQ worker processes
    Requests,    \* POST /jobs/<id>/cancel requests
    NumSteps,    \* @step methods a job runs
    Faults,      \* kinds of failure that may happen
    MaxFaults,   \* bound on how many of them do
    NoJob        \* the job of an idle worker or request

ASSUME JobsAssumption ==
    /\ NumSteps \in Nat \ {0}
    /\ Faults \subseteq {"sqlite", "horse", "worker", "callback"}
    /\ MaxFaults \in Nat
    /\ NoJob \notin Jobs

VARIABLES
    row,         \* JobModel of each job: status, and whether start is set
    steps,       \* StepModel rows of each job: their status, in order
    rq,          \* RQ's status of each job
    queue,       \* RQ queue
    worker,      \* what each worker runs, and where it is in the wrapper
    request,     \* where each cancel request is, and the row it loaded
    stops,       \* stop commands published and not yet handled
    faults       \* failures so far

vars == <<row, steps, rq, queue, worker, request, stops, faults>>

Terminal  == {"Success", "Failure"}
RowStatus == {"None", "Pending", "Running"} \cup Terminal
Row       == [status : RowStatus, started : BOOLEAN]
NoRow     == [status |-> "None", started |-> FALSE]
RqStatus  == {"None", "QUEUED", "STARTED", "FINISHED", "FAILED", "STOPPED", "CANCELED"}
Idle      == [job |-> NoJob, at |-> "idle"]
NoRequest == [job |-> NoJob, at |-> "idle", row |-> NoRow]
Answered(j) == [job |-> j, at |-> "done", row |-> NoRow]

Fault(kind) ==
    /\ kind \in Faults
    /\ faults < MaxFaults
    /\ faults' = faults + 1

\* The job is in the hands of a worker; the job a worker runs.
Held(j) == \E w \in Workers : worker[w].job = j
JobOf(w) == worker[w].job

At(w, place) == worker[w].at = place
Goto(w, place) == worker' = [worker EXCEPT ![w].at = place]
Release(w) == worker' = [worker EXCEPT ![w] = Idle]

Save(j, status) == row' = [row EXCEPT ![j] = [status |-> status, started |-> TRUE]]
SetRq(j, status) == rq' = [rq EXCEPT ![j] = status]

Init ==
    /\ row = [j \in Jobs |-> NoRow]
    /\ steps = [j \in Jobs |-> <<>>]
    /\ rq = [j \in Jobs |-> "None"]
    /\ queue = <<>>
    /\ worker = [w \in Workers |-> Idle]
    /\ request = [c \in Requests |-> NoRequest]
    /\ stops = {}
    /\ faults = 0

-----------------------------------------------------------------------------
(* The web process accepts a job: job.wrapper outside a worker.            *)

\* job_record.enqueue saves the row.
EnqueueRow(j) ==
    /\ row[j] = NoRow
    /\ row' = [row EXCEPT ![j].status = "Pending"]
    /\ UNCHANGED <<steps, rq, queue, worker, request, stops, faults>>

\* Mutant of EnqueueCall: the RQ job may be stored again, as in a retry.
EnqueueCallAgain(j) ==
    /\ row[j].status = "Pending"
    /\ SetRq(j, "QUEUED")
    /\ queue' = Append(queue, j)
    /\ UNCHANGED <<row, steps, worker, request, stops, faults>>

\* enqueue_call stores the RQ job, which carries a pickled copy of the row.
EnqueueCall(j) ==
    /\ row[j].status = "Pending" /\ rq[j] = "None"
    /\ SetRq(j, "QUEUED")
    /\ queue' = Append(queue, j)
    /\ UNCHANGED <<row, steps, worker, request, stops, faults>>

-----------------------------------------------------------------------------
(* A worker runs the job: job.wrapper and step.wrapper inside RQ.          *)

\* RQ takes the job off the queue; its status changes only in the horse.
Pop(w) ==
    /\ At(w, "idle") /\ queue # <<>>
    /\ worker' = [worker EXCEPT ![w] = [job |-> Head(queue), at |-> "popped"]]
    /\ queue' = Tail(queue)
    /\ UNCHANGED <<row, steps, rq, request, stops, faults>>

Begin(w) ==
    /\ At(w, "popped")
    /\ SetRq(JobOf(w), "STARTED")
    /\ Goto(w, "begun")
    /\ UNCHANGED <<row, steps, queue, request, stops, faults>>

\* job_record.start, from the copy pickled at enqueue time.
StartRow(w) ==
    /\ At(w, "begun")
    /\ Save(JobOf(w), "Running")
    /\ Goto(w, "body")
    /\ UNCHANGED <<steps, rq, queue, request, stops, faults>>

\* step.wrapper saves the row of the step before it calls the method.
StartStep(w) ==
    /\ At(w, "body") /\ Len(steps[JobOf(w)]) < NumSteps
    /\ steps' = [steps EXCEPT ![JobOf(w)] = Append(@, "Running")]
    /\ Goto(w, "step")
    /\ UNCHANGED <<row, rq, queue, request, stops, faults>>

\* Mutant of EndStep: the exception of a step does not reach the job.
EndStepSwallowed(w) ==
    /\ At(w, "step")
    /\ \E status \in Terminal :
          /\ steps' = [steps EXCEPT ![JobOf(w)][Len(steps[JobOf(w)])] = status]
          /\ Goto(w, "body")
    /\ UNCHANGED <<row, rq, queue, request, stops, faults>>

\* The step returns or raises; a raising step makes the job raise.
EndStep(w) ==
    /\ At(w, "step")
    /\ \E status \in Terminal :
          /\ steps' = [steps EXCEPT ![JobOf(w)][Len(steps[JobOf(w)])] = status]
          /\ Goto(w, IF status = "Success" THEN "body" ELSE "raising")
    /\ UNCHANGED <<row, rq, queue, request, stops, faults>>

\* The code between two steps raises, or RQ's timeout does.
BodyRaises(w) ==
    /\ At(w, "body")
    /\ Goto(w, "raising")
    /\ UNCHANGED <<row, steps, rq, queue, request, stops, faults>>

SaveSuccess(w) ==
    /\ At(w, "body") /\ Len(steps[JobOf(w)]) = NumSteps
    /\ Save(JobOf(w), "Success")
    /\ Goto(w, "returned")
    /\ UNCHANGED <<steps, rq, queue, request, stops, faults>>

SaveFailure(w) ==
    /\ At(w, "raising")
    /\ Save(JobOf(w), "Failure")
    /\ Goto(w, "raised")
    /\ UNCHANGED <<steps, rq, queue, request, stops, faults>>

\* sqlite stays locked: start, success and failure of the job are saved
\* outside the try, those of a step inside the try of the job.
SaveRaises(w) ==
    /\ worker[w].at \in {"begun", "body", "step", "raising"}
    /\ Fault("sqlite")
    /\ Goto(w, IF At(w, "step") \/ (At(w, "body") /\ Len(steps[JobOf(w)]) < NumSteps)
               THEN "raising" ELSE "raised")
    /\ UNCHANGED <<row, steps, rq, queue, request, stops>>

\* RQ records the outcome and posts the callback to press; a callback that
\* raises turns a successful RQ job into a failed one.
Finish(w) ==
    /\ \/ At(w, "returned") /\ SetRq(JobOf(w), "FINISHED") /\ UNCHANGED faults
       \/ At(w, "returned") /\ SetRq(JobOf(w), "FAILED") /\ Fault("callback")
       \/ At(w, "raised") /\ SetRq(JobOf(w), "FAILED") /\ UNCHANGED faults
    /\ Release(w)
    /\ UNCHANGED <<row, steps, queue, request, stops>>

-----------------------------------------------------------------------------
(* Workers die.                                                            *)

InHorse(w) == worker[w].at \notin {"idle", "popped"}

\* The horse is killed, its worker survives and marks the job.
KillHorse(w) ==
    /\ InHorse(w)
    /\ Fault("horse")
    /\ SetRq(JobOf(w), "FAILED")
    /\ Release(w)
    /\ UNCHANGED <<row, steps, queue, request, stops>>

\* supervisor kills the whole group; a new worker takes its place.
KillWorker(w) ==
    /\ ~At(w, "idle")
    /\ Fault("worker")
    /\ Release(w)
    /\ UNCHANGED <<row, steps, rq, queue, request, stops>>

\* RQ's maintenance finds a started job that no worker runs.
CleanRegistry(j) ==
    /\ rq[j] = "STARTED" /\ ~Held(j)
    /\ SetRq(j, "FAILED")
    /\ UNCHANGED <<row, steps, queue, worker, request, stops, faults>>

-----------------------------------------------------------------------------
(* POST /jobs/<id>/cancel: Job(id), then cancel_or_stop.                   *)

\* Job(id) loads the row and the RQ job; without an RQ job the request fails.
\* Press may ask again for the same job.
LoadJob(c, j) ==
    /\ request[c] \in {NoRequest, Answered(j)} /\ rq[j] # "None"
    /\ request' = [request EXCEPT ![c] = [job |-> j, at |-> "loaded", row |-> row[j]]]
    /\ UNCHANGED <<row, steps, rq, queue, worker, stops, faults>>

Proceed(c, place) == request' = [request EXCEPT ![c].at = place]
Answer(c) == request' = [request EXCEPT ![c] = Answered(request[c].job)]

CheckStarted(c) ==
    /\ request[c].at = "loaded"
    /\ Proceed(c, IF rq[request[c].job] = "STARTED" THEN "stop" ELSE "cancel")
    /\ UNCHANGED <<row, steps, rq, queue, worker, stops, faults>>

\* send_stop_job_command raises when no worker runs the job.
SendStop(c) ==
    /\ request[c].at = "stop"
    /\ IF Held(request[c].job)
       THEN stops' = stops \cup {request[c].job} /\ Proceed(c, "stopping")
       ELSE UNCHANGED stops /\ Answer(c)
    /\ UNCHANGED <<row, steps, rq, queue, worker, faults>>

\* end() raises a TypeError when the loaded row has no start.
SaveStopped(c) ==
    /\ request[c].at = "stopping"
    /\ IF request[c].row.started THEN Save(request[c].job, "Failure") ELSE UNCHANGED row
    /\ Answer(c)
    /\ UNCHANGED <<steps, rq, queue, worker, stops, faults>>

\* RQ's cancel takes the job off the queue (LREM, once) and raises when done twice.
CancelRq(c) ==
    LET j == request[c].job IN
    /\ request[c].at = "cancel"
    /\ SetRq(j, "CANCELED")
    /\ IF rq[j] = "CANCELED"
       THEN UNCHANGED queue /\ Answer(c)
       ELSE queue' = RemoveFirst(queue, j) /\ Proceed(c, "canceling")
    /\ UNCHANGED <<row, steps, worker, stops, faults>>

\* The whole loaded row is saved, with the new status.
SaveCanceled(c) ==
    /\ request[c].at = "canceling"
    /\ row' = [row EXCEPT ![request[c].job] = [request[c].row EXCEPT !.status = "Failure"]]
    /\ Answer(c)
    /\ UNCHANGED <<steps, rq, queue, worker, stops, faults>>

\* A worker handles the stop command: it kills its horse if it runs the job.
HandleStop(j) ==
    /\ j \in stops
    /\ stops' = stops \ {j}
    /\ \/ \E w \in Workers :
             /\ JobOf(w) = j /\ InHorse(w)
             /\ SetRq(j, "STOPPED")
             /\ Release(w)
       \/ /\ ~Held(j)
          /\ UNCHANGED <<rq, worker>>
    /\ UNCHANGED <<row, steps, queue, request, faults>>

-----------------------------------------------------------------------------
WorkerStep(w) ==
    \/ Pop(w) \/ Begin(w) \/ StartRow(w) \/ StartStep(w) \/ EndStep(w)
    \/ BodyRaises(w) \/ SaveSuccess(w) \/ SaveFailure(w) \/ Finish(w)

RequestStep(c) ==
    \/ CheckStarted(c) \/ SendStop(c) \/ SaveStopped(c) \/ CancelRq(c) \/ SaveCanceled(c)

Next ==
    \/ \E j \in Jobs : EnqueueRow(j) \/ EnqueueCall(j) \/ CleanRegistry(j) \/ HandleStop(j)
    \/ \E w \in Workers : WorkerStep(w) \/ SaveRaises(w) \/ KillHorse(w) \/ KillWorker(w)
    \/ \E c \in Requests : RequestStep(c) \/ \E j \in Jobs : LoadJob(c, j)

\* Workers are restarted by supervisor, steps end, and RQ cleans its
\* registries.  The web process may die between the two writes of an enqueue.
Fairness ==
    /\ \A w \in Workers : WF_vars(WorkerStep(w))
    /\ \A j \in Jobs : WF_vars(CleanRegistry(j))

Spec == Init /\ [][Next]_vars
FairSpec == Spec /\ Fairness

-----------------------------------------------------------------------------
(* What press is told: get_status_from_rq and to_dict.                     *)

\* Mutant of StatusFromRq: the map of statuses has no entry for FAILED.
StatusFromRqIncomplete(j) ==
    CASE rq[j] = "QUEUED"   -> "Pending"
      [] rq[j] = "STARTED"  -> "Running"
      [] rq[j] = "FINISHED" -> "Success"
      [] rq[j] \in {"STOPPED", "CANCELED"} -> "Failure"
      [] OTHER -> "None"

StatusFromRq(j) ==
    CASE rq[j] = "QUEUED"   -> "Pending"
      [] rq[j] = "STARTED"  -> "Running"
      [] rq[j] = "FINISHED" -> "Success"
      [] rq[j] \in {"FAILED", "STOPPED", "CANCELED"} -> "Failure"
      [] OTHER -> "None"

\* Mutant of Reported: RQ always has the last word.
ReportedByRq(j) ==
    IF StatusFromRq(j) \in Terminal THEN StatusFromRq(j) ELSE row[j].status

Reported(j) ==
    IF row[j].status \notin Terminal /\ StatusFromRq(j) \in Terminal
    THEN StatusFromRq(j) ELSE row[j].status

\* Every store keeps its type, step rows included.
TypeOK ==
    /\ row \in [Jobs -> Row]
    /\ \A j \in Jobs : steps[j] \in BoundedSeq({"Running"} \cup Terminal, NumSteps)
    /\ rq \in [Jobs -> RqStatus]
    /\ \A i \in 1..Len(queue) : queue[i] \in Jobs
    /\ \A w \in Workers : worker[w] = Idle \/ JobOf(w) \in Jobs
    /\ \A c \in Requests : request[c] = NoRequest \/ request[c].job \in Jobs
    /\ stops \subseteq Jobs
    /\ faults \in 0..MaxFaults

\* A job that reads Success ran all its steps and none of them failed,
\* whatever was killed, canceled or saved from a stale copy.
ReportedSuccessMeansCompleted ==
    \A j \in Jobs : Reported(j) = "Success" =>
        steps[j] = [i \in 1..NumSteps |-> "Success"]

\* Nothing but a cancel request replaces a final status: no crash, no save of
\* a worker and no verdict of RQ does.
OnlyCancelRevokes ==
    [][\A j \in Jobs : Reported(j) \in Terminal /\ (\A c \in Requests : request[c].job # j)
            => Reported(j)' = Reported(j)]_vars

\* A job canceled before a worker took it never runs.
CanceledInQueueNeverRuns ==
    [][\A j \in Jobs : rq[j] = "CANCELED" /\ ~Held(j) => ~Held(j)']_vars

\* A job is in the queue or with one worker, never both and never twice, so
\* its steps run once.
RunsOnce ==
    \A j \in Jobs :
        Cardinality({i \in 1..Len(queue) : queue[i] = j})
            + Cardinality({w \in Workers : JobOf(w) = j}) <= 1

\* A job that a worker has begun ends up with a final status, also when its
\* horse or its worker dies, sqlite is locked or it is stopped.
BegunJobsAreReported ==
    \A j \in Jobs : rq[j] = "STARTED" ~> Reported(j) \in Terminal

\* RQ says QUEUED, and neither its queue nor a worker has the job.
Abandoned(j) == rq[j] = "QUEUED" /\ ~Held(j) /\ ~Contains(queue, j)

\* Every job that reaches the queue ends up with a final status, unless its
\* worker is killed between the queue and the horse.
QueuedJobsAreReported ==
    \A j \in Jobs : rq[j] = "QUEUED" ~> (Reported(j) \in Terminal \/ Abandoned(j))

\* A job is in one place, and every store keeps its type.
QueueIsSound == TypeOK /\ RunsOnce

\* What a cancel request may do: keep a job that waits from running, and be
\* the only reason why a final status is replaced.
CancelIsRespected == CanceledInQueueNeverRuns /\ OnlyCancelRevokes

\* Every job that a worker has begun, or that was only queued, is reported.
JobsAreReported == BegunJobsAreReported /\ QueuedJobsAreReported
=============================================================================
