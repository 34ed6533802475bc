-------------------------- MODULE NginxReloadManager --------------------------
(***************************************************************************)
(* The NGINX reload manager of the proxy (agent/nginx_reload_manager.py),  *)
(* together with the RQ jobs that ask it for a reload (agent/proxy.py,     *)
(* reload_nginx) and the way the web process reports the outcome           *)
(* (agent/web.py, to_dict).                                                *)
(*                                                                         *)
(* A request is one RQ job of the proxy: it changes the configuration      *)
(* directory under the proxy lock, then calls request_reload.  The manager *)
(* is one process running a state machine over two redis lists.  Every     *)
(* redis command and every external command is a step of its own, because  *)
(* a crash, an exception or another process can come between any two.      *)
(***************************************************************************)
EXTENDS Naturals, Sequences, FiniteSets, Functions

CONSTANTS
    Requests,        \* agent job ids, one per RQ job that reloads NGINX
    BatchSize,       \* NginxReloadManager.batch_size
    NumWorkers,      \* NGINX worker processes
    Faults,          \* the kinds of disruption that may happen
    MaxDisruptions   \* bound on how many of them do

ASSUME ConstantsAssumption ==
    /\ BatchSize \in Nat
    /\ NumWorkers \in Nat
    /\ Faults \subseteq {"job", "redis", "systemctl", "signal", "crash"}
    /\ MaxDisruptions \in Nat

VARIABLES
    applied,         \* requests whose change is in the configuration directory
    conf,            \* requests whose change is in the generated proxy.conf
    live,            \* requests whose change NGINX has loaded
    dying,           \* NGINX workers that are shutting down
    job,             \* progress of the RQ job of each request
    pending,         \* redis list PENDING_QUEUE
    processing,      \* redis list PROCESSING_QUEUE
    status,          \* redis key of each request, "None" when it is absent
    state,           \* self.state of the manager, "INIT" when it is not running
    step,            \* position inside the handler of the state
    fetched,         \* local job_ids of _dequeue_jobs
    jobIds,          \* self.job_ids
    marked,          \* how many of jobIds _update_status_and_cleanup has set
    error,           \* kind of self.error
    exitRequested,   \* self.exit_requested
    answered,        \* history: requests that were given a final status once
    disruptions      \* crashes, signals and failed commands so far

proxyVars   == <<applied, conf, live, dying>>
queueVars   == <<pending, processing>>
fields      == <<fetched, jobIds, marked, error, exitRequested>>
managerVars == <<state, step, fields>>
outside     == <<proxyVars, job, queueVars, status, answered>>

vars == <<outside, managerVars, disruptions>>

ReloadStatus  == {"None", "Queued", "Success", "Failure"}
FinalStatuses == {"Success", "Failure"}
JobProgress   == {"idle", "applied", "pushed", "queued", "done", "failed"}
ManagerState  == {"INIT", "FETCH_JOBS", "RELOAD_PENDING", "RELOAD_SUCCESS",
                  "RELOAD_FAILURE", "AUTO_FIX_CONFIG", "WAIT"}
Steps         == {"start", "trim", "move", "claim", "signal"}
Errors        == {"None", "text", "exception", "CalledProcessError"}

Shorter(m, n) == IF m < n THEN m ELSE n

\* lrange(list, 0, n): both ends are included.
LRange(list, n) == SubSeq(list, 1, Shorter(Len(list), n + 1))

\* ltrim(list, n, -1): drops the first n entries.
LTrim(list, n) == SubSeq(list, n + 1, Len(list))

\* Mutant of Outcome: the result of the reload is ignored.
OutcomeIgnored == "Success"

\* RELOAD_SUCCESS and RELOAD_FAILURE, with the status each of them writes.
Outcome == IF state = "RELOAD_SUCCESS" THEN "Success" ELSE "Failure"
Answering == state \in {"RELOAD_SUCCESS", "RELOAD_FAILURE"}

Init ==
    /\ applied = {} /\ conf = {} /\ live = {} /\ dying = 0
    /\ job = [r \in Requests |-> "idle"]
    /\ pending = <<>> /\ processing = <<>>
    /\ status = [r \in Requests |-> "None"]
    /\ state = "FETCH_JOBS" /\ step = "start"
    /\ fetched = <<>> /\ jobIds = <<>> /\ marked = 0
    /\ error = "None" /\ exitRequested = FALSE
    /\ answered = {} /\ disruptions = 0

Disrupted(fault) ==
    /\ fault \in Faults
    /\ disruptions < MaxDisruptions
    /\ disruptions' = disruptions + 1

-----------------------------------------------------------------------------
(* The RQ job of a request.                                                *)

\* The step that edits hosts or upstreams under proxy_config_modification_lock.
ApplyChange(r) ==
    /\ job[r] = "idle"
    /\ job' = [job EXCEPT ![r] = "applied"]
    /\ applied' = applied \cup {r}
    /\ UNCHANGED <<managerVars, queueVars, conf, live, dying, status, answered,
                   disruptions>>

\* request_reload, first command: rpush(PENDING_QUEUE, request_id).
PushRequest(r) ==
    /\ job[r] = "applied"
    /\ job' = [job EXCEPT ![r] = "pushed"]
    /\ pending' = Append(pending, r)
    /\ UNCHANGED <<managerVars, proxyVars, processing, status, answered, disruptions>>

\* Mutant of SetQueued: the request is pushed but no status is ever written.
SetQueuedForgotten(r) ==
    /\ job[r] = "pushed"
    /\ job' = [job EXCEPT ![r] = "queued"]
    /\ UNCHANGED <<managerVars, proxyVars, queueVars, status, answered, disruptions>>

\* request_reload, second command: set(status key, Queued).
SetQueued(r) ==
    /\ job[r] = "pushed"
    /\ job' = [job EXCEPT ![r] = "queued"]
    /\ status' = [status EXCEPT ![r] = "Queued"]
    /\ UNCHANGED <<managerVars, proxyVars, queueVars, answered, disruptions>>

\* The step and then the job are saved as Success.
FinishJob(r) ==
    /\ job[r] = "queued"
    /\ job' = [job EXCEPT ![r] = "done"]
    /\ UNCHANGED <<managerVars, proxyVars, queueVars, status, answered, disruptions>>

\* The worker is killed, or a redis command of request_reload raises.
FailJob(r) ==
    /\ job[r] \in {"applied", "pushed", "queued"}
    /\ Disrupted("job")
    /\ job' = [job EXCEPT ![r] = "failed"]
    /\ UNCHANGED <<managerVars, proxyVars, queueVars, status, answered>>

-----------------------------------------------------------------------------
(* The manager: FETCH_JOBS, which is _dequeue_jobs in four redis commands. *)

FetchPending ==
    /\ state = "FETCH_JOBS" /\ step = "start" /\ ~exitRequested
    /\ fetched' = LRange(pending, BatchSize)
    /\ step' = IF fetched' = <<>> THEN "claim" ELSE "trim"
    /\ UNCHANGED <<outside, state, jobIds, marked, error, exitRequested, disruptions>>

TrimPending ==
    /\ state = "FETCH_JOBS" /\ step = "trim"
    /\ pending' = LTrim(pending, Len(fetched))
    /\ step' = "move"
    /\ UNCHANGED <<fields, proxyVars, job, processing, status, state, answered,
                   disruptions>>

MoveToProcessing ==
    /\ state = "FETCH_JOBS" /\ step = "move"
    /\ processing' = processing \o fetched
    /\ step' = "claim"
    /\ UNCHANGED <<fields, proxyVars, job, pending, status, state, answered, disruptions>>

\* Mutant of Claimed: the jobs just moved, not the front of the list.
ClaimedAsFetched == fetched

\* What _dequeue_jobs returns.
Claimed == LRange(processing, BatchSize)

\* The clock decides whether a voluntary reload is due when there are no jobs.
ClaimJobs ==
    /\ state = "FETCH_JOBS" /\ step = "claim"
    /\ jobIds' = Claimed
    /\ \E isMandatoryReloadRequired \in BOOLEAN :
          state' = IF jobIds' # <<>> \/ isMandatoryReloadRequired
                   THEN "RELOAD_PENDING" ELSE "WAIT"
    /\ step' = "start"
    /\ fetched' = <<>>
    /\ UNCHANGED <<outside, marked, error, exitRequested, disruptions>>

-----------------------------------------------------------------------------
(* The manager: RELOAD_PENDING, _reload_nginx and AUTO_FIX_CONFIG.         *)

\* Mutant of ShouldSkip: compares with the absolute limit only.
ShouldSkipAtFour == dying >= 4

\* _should_skip_nginx_reload: the master process counts as an active worker.
ShouldSkip == dying >= NumWorkers + 1 \/ dying >= 4

\* Mutant of SkipReload: a skipped reload is answered as a successful one.
SkipReloadAsSuccess ==
    /\ state = "RELOAD_PENDING" /\ step = "start" /\ ~exitRequested
    /\ ShouldSkip
    /\ state' = "RELOAD_SUCCESS"
    /\ UNCHANGED <<outside, fields, step, disruptions>>

SkipReload ==
    /\ state = "RELOAD_PENDING" /\ step = "start" /\ ~exitRequested
    /\ ShouldSkip
    /\ state' = "WAIT"
    /\ UNCHANGED <<outside, fields, step, disruptions>>

\* A failing systemctl reads as "do not skip" and counts as a disruption.
MayReload ==
    /\ state = "RELOAD_PENDING" /\ step = "start" /\ ~exitRequested
    /\ IF ShouldSkip THEN Disrupted("systemctl") ELSE UNCHANGED disruptions

\* _generate_proxy_config reads the directory under the proxy lock.
GenerateConfig ==
    /\ MayReload
    /\ conf' = applied
    /\ step' = "signal"
    /\ UNCHANGED <<fields, queueVars, applied, live, dying, job, status, state, answered>>

GenerateConfigRaises ==
    /\ MayReload
    /\ error' = "exception"
    /\ state' = "AUTO_FIX_CONFIG"
    /\ UNCHANGED <<outside, step, fetched, jobIds, marked, exitRequested>>

\* nginx -s reload accepts the file: new workers start, the old ones drain.
ReloadSucceeds ==
    /\ state = "RELOAD_PENDING" /\ step = "signal"
    /\ live' = conf
    /\ dying' = dying + NumWorkers
    /\ state' = "RELOAD_SUCCESS" /\ step' = "start"
    /\ UNCHANGED <<fields, queueVars, applied, conf, job, status, answered, disruptions>>

\* Mutant of ReloadFails: stores the ReloadStatus where a ManagerState belongs.
ReloadFailsWithStatus ==
    /\ state = "RELOAD_PENDING" /\ step = "signal"
    /\ error' = "text"
    /\ state' = "Failure" /\ step' = "start"
    /\ UNCHANGED <<outside, fetched, jobIds, marked, exitRequested, disruptions>>

\* nginx -s reload rejects the file: self.error becomes the text of the error.
ReloadFails ==
    /\ state = "RELOAD_PENDING" /\ step = "signal"
    /\ error' = "text"
    /\ state' = "AUTO_FIX_CONFIG" /\ step' = "start"
    /\ UNCHANGED <<outside, fetched, jobIds, marked, exitRequested, disruptions>>

\* Mutant of AutoFixApplies: every failed reload is tried again.
AutoFixAlwaysApplies(fixed) == TRUE

\* isinstance(self.error, CalledProcessError), then a conflict was repaired.
AutoFixApplies(fixed) == error = "CalledProcessError" /\ fixed

AutoFixConfig ==
    /\ state = "AUTO_FIX_CONFIG" /\ ~exitRequested
    /\ \E fixed \in BOOLEAN :
          state' = IF AutoFixApplies(fixed) THEN "RELOAD_PENDING" ELSE "RELOAD_FAILURE"
    /\ UNCHANGED <<outside, fields, step, disruptions>>

-----------------------------------------------------------------------------
(* The manager: _update_status_and_cleanup, WAIT, and the end of a state.  *)

\* Mutant of BetweenHandlers: exit_requested is honoured anywhere.
BetweenAnySteps == TRUE

\* The loop of process_requests reads exit_requested only here.
BetweenHandlers == step = "start" /\ marked = 0

AllMarked == marked = Len(jobIds)

MarkNext ==
    /\ Answering /\ (exitRequested => marked > 0) /\ marked < Len(jobIds)
    /\ status' = [status EXCEPT ![jobIds[marked + 1]] = Outcome]
    /\ answered' = answered \cup {jobIds[marked + 1]}
    /\ marked' = marked + 1
    /\ UNCHANGED <<proxyVars, queueVars, job, state, step, fetched, jobIds, error,
                   exitRequested, disruptions>>

Cleanup ==
    /\ Answering /\ (exitRequested => marked > 0) /\ AllMarked
    /\ processing' = LTrim(processing, Len(jobIds))
    /\ marked' = 0
    /\ state' = "WAIT"
    /\ UNCHANGED <<proxyVars, job, pending, status, step, fetched, jobIds, error,
                   exitRequested, answered, disruptions>>

\* Sleeps for the rest of max_permissible_wait_time.
Wait ==
    /\ state = "WAIT" /\ ~exitRequested
    /\ state' = "FETCH_JOBS"
    /\ UNCHANGED <<outside, fields, step, disruptions>>

\* A redis command raises: process_requests catches it and goes to WAIT.
RedisCommandRaises ==
    /\ state = "FETCH_JOBS" \/ Answering
    /\ exitRequested => ~BetweenHandlers
    /\ Disrupted("redis")
    /\ state' = "WAIT" /\ step' = "start" /\ fetched' = <<>> /\ marked' = 0
    /\ UNCHANGED <<outside, jobIds, error, exitRequested>>

-----------------------------------------------------------------------------
(* Process control: exit_gracefully, kill, and supervisor's autorestart.   *)

ManagerStopped ==
    /\ state' = "INIT" /\ step' = "start"
    /\ fetched' = <<>> /\ jobIds' = <<>> /\ marked' = 0
    /\ error' = "None" /\ exitRequested' = FALSE

\* The first SIGTERM or SIGINT.
RequestExit ==
    /\ state # "INIT" /\ ~exitRequested
    /\ Disrupted("signal")
    /\ exitRequested' = TRUE
    /\ UNCHANGED <<outside, state, step, fetched, jobIds, marked, error>>

\* The loop of process_requests ends.
Exit ==
    /\ exitRequested /\ BetweenHandlers
    /\ ManagerStopped
    /\ UNCHANGED <<outside, disruptions>>

\* SIGKILL, or the exit(0) of a second signal.
Crash ==
    /\ state # "INIT"
    /\ Disrupted("crash")
    /\ ManagerStopped
    /\ UNCHANGED outside

\* supervisor starts the program again; process_requests resets its fields.
Start ==
    /\ state = "INIT"
    /\ state' = "FETCH_JOBS"
    /\ UNCHANGED <<outside, fields, step, disruptions>>

\* An old NGINX worker drains or reaches worker_shutdown_timeout.
WorkerExits ==
    /\ dying > 0
    /\ dying' = dying - 1
    /\ UNCHANGED <<managerVars, queueVars, applied, conf, live, job, status, answered,
                   disruptions>>

-----------------------------------------------------------------------------
JobStep(r) == PushRequest(r) \/ SetQueued(r) \/ FinishJob(r)

ManagerStep ==
    \/ FetchPending \/ TrimPending \/ MoveToProcessing \/ ClaimJobs
    \/ SkipReload \/ GenerateConfig \/ GenerateConfigRaises
    \/ ReloadSucceeds \/ ReloadFails \/ AutoFixConfig
    \/ MarkNext \/ Cleanup \/ Wait \/ Exit \/ Start

Disruption == RedisCommandRaises \/ RequestExit \/ Crash

Next ==
    \/ \E r \in Requests : ApplyChange(r) \/ JobStep(r) \/ FailJob(r)
    \/ ManagerStep
    \/ Disruption
    \/ WorkerExits

\* RQ workers and the manager are supervised processes that keep running, and
\* worker_shutdown_timeout ends every draining NGINX worker.  Nothing obliges
\* a request to be made or a command to fail.
Fairness ==
    /\ \A r \in Requests : WF_vars(JobStep(r))
    /\ WF_vars(ManagerStep)
    /\ WF_vars(WorkerExits)

Spec == Init /\ [][Next]_vars
FairSpec == Spec /\ Fairness

-----------------------------------------------------------------------------
(* Correctness.                                                            *)

\* Every variable keeps its type, at the granularity of redis commands.
TypeOK ==
    /\ applied \in SUBSET Requests
    /\ conf \in SUBSET Requests
    /\ live \in SUBSET Requests
    /\ dying \in Nat
    /\ job \in [Requests -> JobProgress]
    /\ pending \in Seq(Requests)
    /\ processing \in Seq(Requests)
    /\ status \in [Requests -> ReloadStatus]
    /\ state \in ManagerState
    /\ step \in Steps
    /\ fetched \in Seq(Requests)
    /\ jobIds \in Seq(Requests)
    /\ marked \in 0..Len(jobIds)
    /\ error \in Errors
    /\ exitRequested \in BOOLEAN
    /\ answered \in SUBSET Requests
    /\ disruptions \in 0..MaxDisruptions

\* A request reads Success only if NGINX has loaded a configuration generated
\* after the change of the request (request_reload, _reload_nginx and
\* _update_status_and_cleanup), whatever crashed in between.
SuccessMeansLive ==
    \A r \in Requests : status[r] = "Success" => r \in live

\* get_status with the default to_dict passes, and the job status it reports.
GetStatus(r, notFoundStatus) ==
    IF status[r] = "None" THEN notFoundStatus ELSE status[r]

ReportedStatus(r) ==
    CASE job[r] = "failed" -> "Failure"
      [] job[r] = "done"   -> IF GetStatus(r, "Success") = "Queued" THEN "Running"
                              ELSE GetStatus(r, "Success")
      [] OTHER             -> "Running"

\* The web process never reports a proxy job as Success before its change is
\* live, although a missing status key reads as Success (to_dict).
ReportedSuccessMeansLive ==
    \A r \in Requests : ReportedStatus(r) = "Success" => r \in live

\* While a reload is under way and being answered, self.job_ids is the front
\* of the processing list, so that the ltrim by count in
\* _update_status_and_cleanup drops the requests it answered and no others.
ClaimedJobsAreFront ==
    state \notin {"INIT", "FETCH_JOBS", "WAIT"} =>
        jobIds = SubSeq(processing, 1, Len(jobIds))

\* The requests the manager can still answer.
Tracked ==
    Range(pending) \cup Range(processing) \cup (IF step = "move" THEN Range(fetched) ELSE {})

\* A request leaves the queues unanswered only when a disruption hits the
\* window between the ltrim and the rpush of _dequeue_jobs.
LossOnlyInTheWindow ==
    [][\A r \in Tracked \ Tracked' :
          r \in answered \/ (step = "move" /\ disruptions' > disruptions)]_vars

\* A request is in at most one place of the two lists: none is reloaded and
\* counted twice by the ltrim of _update_status_and_cleanup.
NoDuplicateEntries ==
    /\ IsInjective(pending \o processing)
    /\ step = "move" => Range(fetched) \cap (Range(pending) \cup Range(processing)) = {}

\* Together: as long as the manager lives, a request is in one place until it
\* has its answer, through every step of the two lists.
RequestsAreKept == []NoDuplicateEntries /\ LossOnlyInTheWindow

\* _should_skip_nginx_reload lets at most one more generation of workers start
\* draining below its limit, but for the reloads it could not check.
DyingWorkersBounded ==
    dying <= Shorter(NumWorkers, 3) + NumWorkers * (1 + disruptions)

\* Requests that were pushed, are in neither list and got no answer.
Lost(r) == r \notin Tracked /\ r \notin answered

\* Every pushed request is answered, unless it was lost in the window: also
\* when the manager is stopped gracefully (exit_requested is honoured between
\* two handlers only), killed, or skips reloads while workers drain.
EveryRequestSettled ==
    \A r \in Requests : job[r] = "pushed" ~> (r \in answered \/ Lost(r))

\* The queues, the manager and its crashes are invisible to a client.
Service == INSTANCE ReloadService WITH answer <- status
ImplementsService == Service!ServiceSpec
=============================================================================
