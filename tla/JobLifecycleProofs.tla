-------------------------- MODULE JobLifecycleProofs --------------------------
(***************************************************************************)
(* Proofs about the life of jobs for any number of jobs, workers, steps    *)
(* and cancel requests, and any number and kind of failures.               *)
(***************************************************************************)
EXTENDS JobLifecycle, SequenceTheorems, FiniteSetTheorems, TLAPS

-----------------------------------------------------------------------------
(* The inductive invariant.                                                *)

WorkerPlaces ==
    {"idle", "popped", "begun", "body", "step", "raising", "returned", "raised"}
RequestPlaces ==
    {"idle", "loaded", "stop", "stopping", "cancel", "canceling", "done"}

Queued(j)    == \E i \in 1..Len(queue) : queue[i] = j
Untouched(j) == \A c \in Requests : request[c].job # j

\* The step rows of a job: none, all ended well, the last one running, all
\* NumSteps there.
Unstarted(j) == steps[j] = <<>>
AllWell(j)   == \A i \in 1..Len(steps[j]) : steps[j][i] = "Success"
LastRuns(j)  ==
    /\ Len(steps[j]) > 0 /\ steps[j][Len(steps[j])] = "Running"
    /\ \A i \in 1..Len(steps[j]) - 1 : steps[j][i] = "Success"
Completed(j) == AllWell(j) /\ Len(steps[j]) = NumSteps

WorkersOK ==
    /\ worker \in [Workers -> [job : Jobs \cup {NoJob}, at : WorkerPlaces]]
    /\ \A w \in Workers : JobOf(w) = NoJob <=> worker[w].at = "idle"

RequestsOK ==
    /\ request \in [Requests -> [job : Jobs \cup {NoJob}, at : RequestPlaces, row : Row]]
    /\ \A c \in Requests : /\ request[c].job = NoJob <=> request[c].at = "idle"
                           /\ request[c].at = "idle" => request[c] = NoRequest

StepsOK ==
    /\ steps \in [Jobs -> Seq({"Running"} \cup Terminal)]
    /\ \A j \in Jobs : Len(steps[j]) <= NumSteps

Types ==
    /\ row \in [Jobs -> Row] /\ rq \in [Jobs -> RqStatus] /\ StepsOK
    /\ queue \in Seq(Jobs) /\ WorkersOK /\ RequestsOK
    /\ stops \subseteq Jobs /\ faults \in 0..MaxFaults

\* A job is once in the queue, or with one worker.
OnePlace ==
    /\ \A i, k \in 1..Len(queue) : queue[i] = queue[k] => i = k
    /\ \A j \in Jobs : Queued(j) => ~Held(j)
    /\ \A v, w \in Workers : JobOf(v) = JobOf(w) /\ JobOf(v) # NoJob => v = w

\* What has not reached RQ has not run and cannot be canceled; what was
\* canceled has left the queue.
Stored ==
    /\ \A j \in Jobs :
          /\ rq[j] = "None" => /\ row[j].status \in {"None", "Pending"}
                               /\ ~Held(j) /\ ~Queued(j) /\ Untouched(j)
          /\ row[j].status = "None" => rq[j] = "None"
          /\ rq[j] = "CANCELED" => ~Queued(j)

\* The rows of the steps say where a job is, and Success is earned.
Earned ==
    /\ \A j \in Jobs : rq[j] = "None" \/ Queued(j) => Unstarted(j)
    /\ \A w \in Workers :
          /\ worker[w].at \in {"popped", "begun"} => Unstarted(JobOf(w))
          /\ worker[w].at = "body" => AllWell(JobOf(w))
          /\ worker[w].at = "step" => LastRuns(JobOf(w))
          /\ worker[w].at = "returned" => Completed(JobOf(w))
    /\ \A j \in Jobs : row[j].status = "Success" \/ rq[j] = "FINISHED" => Completed(j)

\* As long as no request is about a job, row and RQ agree on how far it is.
Undisturbed ==
    /\ \A j \in Jobs : Untouched(j) =>
          /\ rq[j] \notin {"CANCELED", "STOPPED"} /\ j \notin stops
          /\ Queued(j) => rq[j] = "QUEUED" /\ row[j].status = "Pending"
    /\ \A w \in Workers : JobOf(w) # NoJob /\ Untouched(JobOf(w)) =>
          /\ worker[w].at = "popped" => rq[JobOf(w)] = "QUEUED"
          /\ worker[w].at # "popped" => rq[JobOf(w)] = "STARTED"
          /\ worker[w].at \in {"popped", "begun", "body", "step", "raising"}
               => row[JobOf(w)].status \in {"Pending", "Running"}
          /\ worker[w].at = "returned" => row[JobOf(w)].status = "Success"

IInv ==
    /\ Types
    /\ OnePlace
    /\ Stored
    /\ Earned
    /\ Undisturbed

-----------------------------------------------------------------------------
(* Lemmas.                                                                 *)

\* A sequence of bounded length is a sequence.
LEMMA Bounded ==
    ASSUME NEW S, NEW n \in Nat, NEW s \in Seq(S), Len(s) <= n
    PROVE  s \in BoundedSeq(S, n)
<1>1. s \in [1..Len(s) -> S] /\ Len(s) \in 0..n
  BY LenProperties
<1> QED BY <1>1 DEF BoundedSeq, SeqOf

\* LREM takes one entry off a list without duplicates: what is left are the
\* other entries, in their order.
LEMMA RemoveOnce ==
    ASSUME NEW S, NEW s \in Seq(S), NEW e \in S,
           \A i, k \in 1..Len(s) : s[i] = s[k] => i = k
    PROVE  LET t == RemoveFirst(s, e) IN
           /\ t \in Seq(S)
           /\ \A i \in 1..Len(t) : t[i] # e /\ \E k \in 1..Len(s) : t[i] = s[k]
           /\ \A i, k \in 1..Len(t) : t[i] = t[k] => i = k
<1>0. Len(s) \in Nat /\ \A i \in 1..Len(s) : s[i] \in S
  BY LenProperties, ElementOfSeq
<1>1. CASE ~\E i \in 1..Len(s) : s[i] = e
  <2>1. RemoveFirst(s, e) = s
    BY <1>1 DEF RemoveFirst
  <2> QED BY <2>1, <1>1
<1>2. ASSUME NEW m \in 1..Len(s), s[m] = e PROVE
           LET t == RemoveFirst(s, e) IN
           /\ t \in Seq(S)
           /\ \A i \in 1..Len(t) : t[i] # e /\ \E k \in 1..Len(s) : t[i] = s[k]
           /\ \A i, k \in 1..Len(t) : t[i] = t[k] => i = k
  <2> DEFINE a == SubSeq(s, 1, m - 1)
             b == SubSeq(s, m + 1, Len(s))
  <2>1. {i \in 1..Len(s) : s[i] = e} = {m}
    BY <1>2
  <2>2. Min({m}) = m
    BY <1>0 DEF Min
  <2>3. SelectInSeq(s, LAMBDA v : v = e) = m
    BY <2>1, <2>2 DEF SelectInSeq
  <2>4. RemoveFirst(s, e) = a \o b
    BY <1>2, <2>3 DEF RemoveFirst, RemoveAt
  <2>5. a \in Seq(S) /\ Len(a) = m - 1 /\ \A i \in 1..m - 1 : a[i] = s[i]
    BY <1>0, SubSeqProperties
  <2>6. /\ b \in Seq(S) /\ Len(b) = Len(s) - m
        /\ \A i \in 1..Len(s) - m : b[i] = s[m + i]
    BY <1>0, SubSeqProperties
  <2> HIDE DEF a, b
  <2>7. /\ a \o b \in Seq(S) /\ Len(a \o b) = Len(s) - 1
        /\ \A i \in 1..Len(s) - 1 : (a \o b)[i] = s[IF i <= m - 1 THEN i ELSE i + 1]
    BY <1>0, <2>5, <2>6, ConcatProperties
  <2> DEFINE t == a \o b
  <2> HIDE DEF t
  <2> DEFINE at(i) == IF i <= m - 1 THEN i ELSE i + 1
  <2>8. \A i \in 1..Len(t) : at(i) \in 1..Len(s) /\ at(i) # m /\ t[i] = s[at(i)]
    BY <1>0, <2>7 DEF t
  <2>9. \A i \in 1..Len(t) : t[i] # e /\ \E k \in 1..Len(s) : t[i] = s[k]
    BY <1>2, <2>8
  <2>10. ASSUME NEW i \in 1..Len(t), NEW k \in 1..Len(t), t[i] = t[k] PROVE i = k
    <3>1. i \in Int /\ k \in Int
      BY <2>7 DEF t
    <3>2. at(i) = at(k)
      <4> HIDE DEF at
      <4> QED BY <2>8, <2>10
    <3> QED BY <3>1, <3>2
  <2> QED BY <2>4, <2>7, <2>9, <2>10 DEF t
<1> QED BY <1>1, <1>2



\* What the changes of a worker, of a row and of a request leave alone.
LEMMA GotoMoves ==
    ASSUME WorkersOK, NEW w \in Workers, NEW place \in WorkerPlaces \ {"idle"},
           JobOf(w) # NoJob, Goto(w, place)
    PROVE  /\ WorkersOK'
           /\ \A v \in Workers : worker'[v].job = worker[v].job
           /\ \A v \in Workers : worker'[v].at = IF v = w THEN place ELSE worker[v].at
           /\ \A k \in Jobs : Held(k)' <=> Held(k)
<1>1. worker' \in [Workers -> [job : Jobs \cup {NoJob}, at : WorkerPlaces]]
  BY DEF WorkersOK, Goto
<1>2. \A v \in Workers : /\ worker'[v].job = worker[v].job
                         /\ worker'[v].at = IF v = w THEN place ELSE worker[v].at
  BY DEF WorkersOK, Goto
<1> QED BY <1>1, <1>2 DEF Held, WorkersOK, JobOf

LEMMA ReleaseFrees ==
    ASSUME WorkersOK, OnePlace, NEW w \in Workers, JobOf(w) # NoJob, Release(w)
    PROVE  /\ WorkersOK'
           /\ \A v \in Workers : worker'[v].job = IF v = w THEN NoJob ELSE worker[v].job
           /\ \A v \in Workers : worker'[v].at = IF v = w THEN "idle" ELSE worker[v].at
           /\ \A k \in Jobs : Held(k)' <=> Held(k) /\ k # JobOf(w)
<1>1. worker' \in [Workers -> [job : Jobs \cup {NoJob}, at : WorkerPlaces]]
  BY DEF WorkersOK, Release, Idle, WorkerPlaces
<1>2. \A v \in Workers : /\ worker'[v].job = IF v = w THEN NoJob ELSE worker[v].job
                         /\ worker'[v].at = IF v = w THEN "idle" ELSE worker[v].at
  BY DEF WorkersOK, Release, Idle
<1>3. WorkersOK'
  BY <1>1, <1>2 DEF WorkersOK, JobOf
<1> QED BY <1>2, <1>3, JobsAssumption DEF Held, OnePlace, JobOf

LEMMA SaveKeeps ==
    ASSUME row \in [Jobs -> Row], NEW j \in Jobs, NEW status \in RowStatus, Save(j, status)
    PROVE  /\ row' \in [Jobs -> Row]
           /\ \A k \in Jobs : row'[k].status = IF k = j THEN status ELSE row[k].status
BY DEF Save, Row

LEMMA SetRqKeeps ==
    ASSUME rq \in [Jobs -> RqStatus], NEW j \in Jobs, NEW status \in RqStatus, SetRq(j, status)
    PROVE  /\ rq' \in [Jobs -> RqStatus]
           /\ \A k \in Jobs : rq'[k] = IF k = j THEN status ELSE rq[k]
BY DEF SetRq

\* A request keeps its job from one place to the next, and afterwards.
LEMMA RequestsKeepJobs ==
    ASSUME RequestsOK, NEW c \in Requests, request[c].job # NoJob,
           \/ Answer(c)
           \/ \E place \in RequestPlaces \ {"idle"} : Proceed(c, place)
    PROVE  RequestsOK' /\ \A k \in Jobs : Untouched(k)' <=> Untouched(k)
<1>1. CASE Answer(c)
  <2>1. request' \in [Requests -> [job : Jobs \cup {NoJob}, at : RequestPlaces, row : Row]]
    BY <1>1 DEF RequestsOK, Answer, Answered, RequestPlaces, NoRow, Row, RowStatus
  <2>2. \A d \in Requests : /\ request'[d].job = request[d].job
                            /\ d # c => request'[d] = request[d]
                            /\ d = c => request'[d].at = "done"
    BY <1>1 DEF RequestsOK, Answer, Answered
  <2> QED BY <2>1, <2>2 DEF RequestsOK, Untouched
<1>2. ASSUME NEW place \in RequestPlaces \ {"idle"}, Proceed(c, place)
      PROVE  RequestsOK' /\ \A k \in Jobs : Untouched(k)' <=> Untouched(k)
  <2>1. request' \in [Requests -> [job : Jobs \cup {NoJob}, at : RequestPlaces, row : Row]]
    BY <1>2 DEF RequestsOK, Proceed
  <2>2. \A d \in Requests : /\ request'[d].job = request[d].job
                            /\ d # c => request'[d] = request[d]
                            /\ d = c => request'[d].at = place
    BY <1>2 DEF RequestsOK, Proceed
  <2> QED BY <2>1, <2>2 DEF RequestsOK, Untouched
<1> QED BY <1>1, <1>2

\* The step rows of one job are replaced.
LEMMA StepsReplaced ==
    ASSUME StepsOK, NEW j \in Jobs, NEW t \in Seq({"Running"} \cup Terminal),
           Len(t) <= NumSteps, steps' = [steps EXCEPT ![j] = t]
    PROVE  /\ StepsOK' /\ steps'[j] = t
           /\ \A k \in Jobs \ {j} :
                 /\ Unstarted(k)' <=> Unstarted(k)
                 /\ AllWell(k)' <=> AllWell(k)
                 /\ LastRuns(k)' <=> LastRuns(k)
                 /\ Completed(k)' <=> Completed(k)
<1>1. steps' \in [Jobs -> Seq({"Running"} \cup Terminal)]
  BY DEF StepsOK
<1>2. steps'[j] = t /\ \A k \in Jobs \ {j} : steps'[k] = steps[k]
  BY DEF StepsOK
<1>3. StepsOK'
  BY <1>1, <1>2 DEF StepsOK
<1> QED BY <1>2, <1>3 DEF Unstarted, AllWell, LastRuns, Completed


LEMMA StepInvariant == IInv /\ [Next]_vars => IInv'
<1> SUFFICES ASSUME IInv, [Next]_vars PROVE IInv'
  OBVIOUS
<1> USE DEF IInv, JobOf
<1>1. ASSUME NEW j \in Jobs, EnqueueRow(j) PROVE IInv'
  <2> USE <1>1 DEF EnqueueRow
  <2>p. /\ row[j].status = "None" /\ rq[j] = "None" /\ Untouched(j)
        /\ ~Held(j) /\ ~Queued(j)
    BY DEF Stored, NoRow
  <2>r. /\ row' \in [Jobs -> Row]
        /\ \A k \in Jobs : row'[k].status = IF k = j THEN "Pending" ELSE row[k].status
    BY DEF Types, Row, RowStatus
  <2>u. /\ steps' = steps /\ rq' = rq /\ queue' = queue /\ worker' = worker
        /\ request' = request /\ stops' = stops
    OBVIOUS
  <2>f. \A k \in Jobs :
           /\ Queued(k)' <=> Queued(k)
           /\ Unstarted(k)' <=> Unstarted(k)
           /\ AllWell(k)' <=> AllWell(k)
           /\ LastRuns(k)' <=> LastRuns(k)
           /\ Completed(k)' <=> Completed(k)
           /\ Held(k)' <=> Held(k)
           /\ Untouched(k)' <=> Untouched(k)
    BY <2>u DEF Queued, Unstarted, AllWell, LastRuns, Completed, Held, Untouched
  <2>t. StepsOK' /\ WorkersOK' /\ RequestsOK'
    BY <2>u DEF Types, JobOf, StepsOK, WorkersOK, RequestsOK
  <2>1. Types'
    BY <2>p, <2>r, <2>u, <2>f, <2>t DEF Types
  <2>2. OnePlace'
    BY <2>p, <2>r, <2>u, <2>f, <2>t DEF OnePlace, Types
  <2>3. Stored'
    BY <2>p, <2>r, <2>u, <2>f, <2>t DEF Stored, Types
  <2>4. Earned'
    BY <2>p, <2>r, <2>u, <2>f, <2>t DEF Earned, WorkersOK, Types
  <2>5. Undisturbed'
    BY <2>p, <2>r, <2>u, <2>f, <2>t DEF Undisturbed, WorkersOK, Held, Types
  <2> QED BY <2>1, <2>2, <2>3, <2>4, <2>5
<1>2. ASSUME NEW j \in Jobs, EnqueueCall(j) PROVE IInv'
  <2> USE <1>2 DEF EnqueueCall
  <2>p. /\ row[j].status = "Pending" /\ rq[j] = "None" /\ Untouched(j)
        /\ ~Held(j) /\ ~Queued(j)
    BY DEF Stored
  <2>s. /\ rq' \in [Jobs -> RqStatus]
        /\ \A k \in Jobs : rq'[k] = IF k = j THEN "QUEUED" ELSE rq[k]
    BY SetRqKeeps DEF RqStatus, Types
  <2>q. /\ queue' \in Seq(Jobs) /\ Len(queue) \in Nat /\ Len(queue') = Len(queue) + 1
        /\ \A i \in 1..Len(queue') : queue'[i] = IF i = Len(queue) + 1 THEN j ELSE queue[i]
    BY AppendProperties, LenProperties DEF Types
  <2>k. \A k \in Jobs : Queued(k)' <=> Queued(k) \/ k = j
    BY <2>q DEF Queued
  <2>u. /\ row' = row /\ steps' = steps /\ worker' = worker /\ request' = request
        /\ stops' = stops
    OBVIOUS
  <2>f. \A k \in Jobs :
           /\ Unstarted(k)' <=> Unstarted(k)
           /\ AllWell(k)' <=> AllWell(k)
           /\ LastRuns(k)' <=> LastRuns(k)
           /\ Completed(k)' <=> Completed(k)
           /\ Held(k)' <=> Held(k)
           /\ Untouched(k)' <=> Untouched(k)
    BY <2>u DEF Unstarted, AllWell, LastRuns, Completed, Held, Untouched
  <2>t. StepsOK' /\ WorkersOK' /\ RequestsOK'
    BY <2>u DEF Types, JobOf, StepsOK, WorkersOK, RequestsOK
  <2>1. Types'
    BY <2>p, <2>s, <2>q, <2>k, <2>u, <2>f, <2>t DEF Types
  <2>2. OnePlace'
    <3>1. \A i, k \in 1..Len(queue)' : queue'[i] = queue'[k] => i = k
      BY <2>p, <2>q DEF OnePlace, Queued
    <3> QED BY <3>1, <2>p, <2>k, <2>u, <2>f DEF OnePlace
  <2>3. Stored'
    BY <2>p, <2>s, <2>q, <2>k, <2>u, <2>f, <2>t, JobsAssumption DEF Stored, Types
  <2>4. Earned'
    BY <2>p, <2>s, <2>q, <2>k, <2>u, <2>f, <2>t DEF Earned, WorkersOK, Types
  <2>5. Undisturbed'
    BY <2>p, <2>s, <2>q, <2>k, <2>u, <2>f, <2>t DEF Undisturbed, WorkersOK, Held, Types
  <2> QED BY <2>1, <2>2, <2>3, <2>4, <2>5
<1>3. ASSUME NEW j \in Jobs, CleanRegistry(j) PROVE IInv'
  <2> USE <1>3 DEF CleanRegistry
  <2>p. rq[j] = "STARTED" /\ ~Held(j)
    OBVIOUS
  <2>s. /\ rq' \in [Jobs -> RqStatus]
        /\ \A k \in Jobs : rq'[k] = IF k = j THEN "FAILED" ELSE rq[k]
    BY SetRqKeeps DEF RqStatus, Types
  <2>u. /\ row' = row /\ steps' = steps /\ queue' = queue /\ worker' = worker
        /\ request' = request /\ stops' = stops
    OBVIOUS
  <2>f. \A k \in Jobs :
           /\ Queued(k)' <=> Queued(k)
           /\ Unstarted(k)' <=> Unstarted(k)
           /\ AllWell(k)' <=> AllWell(k)
           /\ LastRuns(k)' <=> LastRuns(k)
           /\ Completed(k)' <=> Completed(k)
           /\ Held(k)' <=> Held(k)
           /\ Untouched(k)' <=> Untouched(k)
    BY <2>u DEF Queued, Unstarted, AllWell, LastRuns, Completed, Held, Untouched
  <2>t. StepsOK' /\ WorkersOK' /\ RequestsOK'
    BY <2>u DEF Types, JobOf, StepsOK, WorkersOK, RequestsOK
  <2>1. Types'
    BY <2>p, <2>s, <2>u, <2>f, <2>t DEF Types
  <2>2. OnePlace'
    BY <2>p, <2>s, <2>u, <2>f, <2>t DEF OnePlace, Types
  <2>3. Stored'
    BY <2>p, <2>s, <2>u, <2>f, <2>t DEF Stored, Types
  <2>4. Earned'
    BY <2>p, <2>s, <2>u, <2>f, <2>t DEF Earned, WorkersOK, Types
  <2>5. Undisturbed'
    BY <2>p, <2>s, <2>u, <2>f, <2>t DEF Undisturbed, WorkersOK, Held, Types
  <2> QED BY <2>1, <2>2, <2>3, <2>4, <2>5
<1>4. ASSUME NEW j \in Jobs, HandleStop(j) PROVE IInv'
  <2> USE <1>4 DEF HandleStop
  <2>1. CASE UNCHANGED <<rq, worker>>
    <3>u. /\ row' = row /\ steps' = steps /\ rq' = rq /\ queue' = queue
          /\ worker' = worker /\ request' = request /\ stops' \subseteq stops
      BY <2>1
    <3>f. \A k \in Jobs :
             /\ Queued(k)' <=> Queued(k)
             /\ Held(k)' <=> Held(k)
             /\ Untouched(k)' <=> Untouched(k)
             /\ Unstarted(k)' <=> Unstarted(k)
             /\ AllWell(k)' <=> AllWell(k)
             /\ LastRuns(k)' <=> LastRuns(k)
             /\ Completed(k)' <=> Completed(k)
      BY <3>u DEF Queued, Held, Untouched, Unstarted, AllWell, LastRuns, Completed
    <3>t. StepsOK' /\ WorkersOK' /\ RequestsOK'
      BY <3>u DEF Types, StepsOK, WorkersOK, RequestsOK
    <3>1. Types'
      BY <3>u, <3>t DEF Types
    <3>2. OnePlace'
      BY <3>u, <3>f DEF OnePlace
    <3>3. Stored'
      BY <3>u, <3>f DEF Stored
    <3>4. Earned'
      BY <3>u, <3>f, <3>t DEF Earned, WorkersOK, Types
    <3>5. Undisturbed'
      BY <3>u, <3>f, <3>t DEF Undisturbed, WorkersOK, Types
    <3> QED BY <3>1, <3>2, <3>3, <3>4, <3>5
  <2>2. ASSUME NEW w \in Workers, JobOf(w) = j, InHorse(w), SetRq(j, "STOPPED"), Release(w)
        PROVE IInv'
    <3> USE <2>2
    <3>j. /\ j # NoJob /\ ~Untouched(j) /\ rq[j] # "None" /\ ~Queued(j) /\ j \in stops
          /\ \A v \in Workers : JobOf(v) = j => v = w
      BY JobsAssumption DEF Types, WorkersOK, Held, OnePlace, Stored, Undisturbed
    <3>s. /\ rq' \in [Jobs -> RqStatus]
          /\ \A k \in Jobs : rq'[k] = IF k = j THEN "STOPPED" ELSE rq[k]
      BY <3>j, SetRqKeeps DEF RqStatus, Types
    <3>m. /\ WorkersOK'
          /\ \A v \in Workers : worker'[v].job = IF v = w THEN NoJob ELSE worker[v].job
          /\ \A v \in Workers : worker'[v].at = IF v = w THEN "idle" ELSE worker[v].at
          /\ \A k \in Jobs : Held(k)' <=> Held(k) /\ k # j
      BY <3>j, ReleaseFrees DEF Types
    <3>u. /\ row' = row /\ steps' = steps /\ queue' = queue
          /\ request' = request /\ stops' \subseteq stops
      OBVIOUS
    <3>f. \A k \in Jobs :
             /\ Queued(k)' <=> Queued(k)
             /\ Untouched(k)' <=> Untouched(k)
             /\ Unstarted(k)' <=> Unstarted(k)
             /\ AllWell(k)' <=> AllWell(k)
             /\ LastRuns(k)' <=> LastRuns(k)
             /\ Completed(k)' <=> Completed(k)
      BY <3>u DEF Queued, Untouched, Unstarted, AllWell, LastRuns, Completed
    <3>t. StepsOK' /\ RequestsOK'
      BY <3>u DEF Types, StepsOK, RequestsOK
    <3>1. Types'
      BY <3>s, <3>m, <3>u, <3>t DEF Types
    <3>2. OnePlace'
      BY <3>j, <3>m, <3>u, <3>f DEF OnePlace
    <3>3. Stored'
      BY <3>j, <3>s, <3>m, <3>u, <3>f DEF Stored
    <3>4. Earned'
      BY <3>j, <3>s, <3>m, <3>u, <3>f, <3>t DEF Earned, WorkersOK, Types
    <3>5. Undisturbed'
      BY <3>j, <3>s, <3>m, <3>u, <3>f, <3>t DEF Undisturbed, WorkersOK, Types
    <3> QED BY <3>1, <3>2, <3>3, <3>4, <3>5
  <2> QED BY <2>1, <2>2
<1>5. ASSUME NEW w \in Workers, Pop(w) PROVE IInv'
  <2> USE <1>5 DEF Pop, At
  <2>q. /\ queue \in Seq(Jobs) /\ queue # <<>> /\ Head(queue) \in Jobs /\ Head(queue) = queue[1]
        /\ queue' \in Seq(Jobs) /\ Len(queue) \in Nat /\ Len(queue) > 0 /\ Len(queue') = Len(queue) - 1
        /\ \A i \in 1..Len(queue') : queue'[i] = queue[i + 1]
    BY HeadTailProperties, EmptySeq, LenProperties DEF Types
  <2>k. \A k \in Jobs : Queued(k)' <=> Queued(k) /\ k # Head(queue)
    <3>1. ASSUME NEW k \in Jobs, Queued(k), k # Head(queue) PROVE Queued(k)'
      <4>1. PICK i \in 1..Len(queue) : queue[i] = k
        BY <3>1 DEF Queued
      <4>2. i # 1 /\ i - 1 \in 1..Len(queue') /\ queue'[i - 1] = k
        BY <2>q, <3>1, <4>1
      <4> QED BY <4>2 DEF Queued
    <3>2. ASSUME NEW k \in Jobs, Queued(k)' PROVE Queued(k) /\ k # Head(queue)
      <4>1. PICK i \in 1..Len(queue') : queue'[i] = k
        BY <3>2 DEF Queued
      <4>2. i + 1 \in 1..Len(queue) /\ queue[i + 1] = k /\ i + 1 # 1
        BY <2>q, <4>1
      <4> QED BY <2>q, <4>2 DEF Queued, OnePlace
    <3> QED BY <3>1, <3>2
  <2>p. /\ Queued(Head(queue)) /\ ~Held(Head(queue)) /\ JobOf(w) = NoJob
        /\ rq[Head(queue)] # "None" /\ rq[Head(queue)] # "CANCELED"
    BY <2>q DEF Queued, OnePlace, Types, At, Stored, WorkersOK
  <2>m. /\ WorkersOK'
        /\ \A v \in Workers : /\ worker'[v].job = IF v = w THEN Head(queue) ELSE worker[v].job
                              /\ worker'[v].at = IF v = w THEN "popped" ELSE worker[v].at
    BY <2>q, JobsAssumption DEF Types, WorkerPlaces, WorkersOK
  <2>h. \A k \in Jobs : Held(k)' <=> Held(k) \/ k = Head(queue)
    BY <2>m, <2>p, <2>q, JobsAssumption DEF Held, JobOf
  <2>u. row' = row /\ steps' = steps /\ rq' = rq /\ request' = request /\ stops' = stops
    OBVIOUS
  <2>f. \A k \in Jobs :
           /\ Unstarted(k)' <=> Unstarted(k)
           /\ AllWell(k)' <=> AllWell(k)
           /\ LastRuns(k)' <=> LastRuns(k)
           /\ Completed(k)' <=> Completed(k)
           /\ Untouched(k)' <=> Untouched(k)
    BY <2>u DEF Unstarted, AllWell, LastRuns, Completed, Untouched
  <2>t. StepsOK' /\ RequestsOK'
    BY <2>u DEF Types, JobOf, StepsOK, RequestsOK
  <2>1. Types'
    BY <2>q, <2>k, <2>p, <2>m, <2>h, <2>u, <2>f, <2>t DEF Types
  <2>2. OnePlace'
    BY <2>q, <2>k, <2>p, <2>m, <2>h, <2>u, <2>f, <2>t DEF OnePlace, Held, Types
  <2>3. Stored'
    BY <2>q, <2>k, <2>p, <2>m, <2>h, <2>u, <2>f, <2>t DEF Stored, Types
  <2>4. Earned'
    BY <2>q, <2>k, <2>p, <2>m, <2>h, <2>u, <2>f, <2>t DEF Earned, WorkersOK, Types
  <2>5. Undisturbed'
    BY <2>q, <2>k, <2>p, <2>m, <2>h, <2>u, <2>f, <2>t DEF Undisturbed, WorkersOK, Types
  <2> QED BY <2>1, <2>2, <2>3, <2>4, <2>5
<1>6. ASSUME NEW w \in Workers, Begin(w) PROVE IInv'
  <2> USE <1>6 DEF Begin, At
  <2>j. /\ JobOf(w) \in Jobs /\ JobOf(w) # NoJob /\ Held(JobOf(w))
        /\ \A v \in Workers : JobOf(v) = JobOf(w) => v = w
        /\ rq[JobOf(w)] # "None" /\ row[JobOf(w)].status # "None" /\ ~Queued(JobOf(w))
    BY DEF Types, WorkersOK, Held, OnePlace, Stored
  <2>s. /\ rq' \in [Jobs -> RqStatus]
        /\ \A k \in Jobs : rq'[k] = IF k = JobOf(w) THEN "STARTED" ELSE rq[k]
    BY <2>j, SetRqKeeps DEF RqStatus, Types
  <2>m. /\ WorkersOK'
        /\ \A v \in Workers : worker'[v].job = worker[v].job
        /\ \A v \in Workers : worker'[v].at = IF v = w THEN "begun" ELSE worker[v].at
        /\ \A k \in Jobs : Held(k)' <=> Held(k)
    BY <2>j, GotoMoves DEF WorkerPlaces, Types
  <2>u. /\ row' = row /\ steps' = steps /\ queue' = queue /\ request' = request
        /\ stops' = stops
    OBVIOUS
  <2>f. \A k \in Jobs :
           /\ Queued(k)' <=> Queued(k)
           /\ Unstarted(k)' <=> Unstarted(k)
           /\ AllWell(k)' <=> AllWell(k)
           /\ LastRuns(k)' <=> LastRuns(k)
           /\ Completed(k)' <=> Completed(k)
           /\ Untouched(k)' <=> Untouched(k)
    BY <2>u DEF Queued, Unstarted, AllWell, LastRuns, Completed, Untouched
  <2>t. StepsOK' /\ RequestsOK'
    BY <2>u DEF Types, JobOf, StepsOK, RequestsOK
  <2>1. Types'
    BY <2>j, <2>s, <2>m, <2>u, <2>f, <2>t DEF Types
  <2>2. OnePlace'
    BY <2>j, <2>s, <2>m, <2>u, <2>f, <2>t DEF OnePlace, Types
  <2>3. Stored'
    BY <2>j, <2>s, <2>m, <2>u, <2>f, <2>t DEF Stored, Types
  <2>4. Earned'
    BY <2>j, <2>s, <2>m, <2>u, <2>f, <2>t DEF Earned, WorkersOK, Types
  <2>5. Undisturbed'
    BY <2>j, <2>s, <2>m, <2>u, <2>f, <2>t DEF Undisturbed, WorkersOK, Types
  <2> QED BY <2>1, <2>2, <2>3, <2>4, <2>5
<1>7. ASSUME NEW w \in Workers, StartRow(w) PROVE IInv'
  <2> USE <1>7 DEF StartRow, At
  <2>j. /\ JobOf(w) \in Jobs /\ JobOf(w) # NoJob /\ Held(JobOf(w))
        /\ \A v \in Workers : JobOf(v) = JobOf(w) => v = w
        /\ rq[JobOf(w)] # "None" /\ row[JobOf(w)].status # "None" /\ ~Queued(JobOf(w))
    BY DEF Types, WorkersOK, Held, OnePlace, Stored
  <2>r. /\ row' \in [Jobs -> Row]
        /\ \A k \in Jobs : row'[k].status = IF k = JobOf(w) THEN "Running" ELSE row[k].status
    BY <2>j, SaveKeeps DEF Types, RowStatus
  <2>m. /\ WorkersOK'
        /\ \A v \in Workers : worker'[v].job = worker[v].job
        /\ \A v \in Workers : worker'[v].at = IF v = w THEN "body" ELSE worker[v].at
        /\ \A k \in Jobs : Held(k)' <=> Held(k)
    BY <2>j, GotoMoves DEF WorkerPlaces, Types
  <2>a. AllWell(JobOf(w))
    BY EmptySeq DEF Earned, Unstarted, AllWell
  <2>u. steps' = steps /\ rq' = rq /\ queue' = queue /\ request' = request /\ stops' = stops
    OBVIOUS
  <2>f. \A k \in Jobs :
           /\ Queued(k)' <=> Queued(k)
           /\ Unstarted(k)' <=> Unstarted(k)
           /\ AllWell(k)' <=> AllWell(k)
           /\ LastRuns(k)' <=> LastRuns(k)
           /\ Completed(k)' <=> Completed(k)
           /\ Untouched(k)' <=> Untouched(k)
    BY <2>u DEF Queued, Unstarted, AllWell, LastRuns, Completed, Untouched
  <2>t. StepsOK' /\ RequestsOK'
    BY <2>u DEF Types, JobOf, StepsOK, RequestsOK
  <2>1. Types'
    BY <2>j, <2>r, <2>m, <2>a, <2>u, <2>f, <2>t DEF Types
  <2>2. OnePlace'
    BY <2>j, <2>r, <2>m, <2>a, <2>u, <2>f, <2>t DEF OnePlace, Types
  <2>3. Stored'
    BY <2>j, <2>r, <2>m, <2>a, <2>u, <2>f, <2>t DEF Stored, Types
  <2>4. Earned'
    <3>1. \A k \in Jobs : rq'[k] = "None" \/ Queued(k)' => Unstarted(k)'
      BY <2>j, <2>r, <2>m, <2>a, <2>u, <2>f, <2>t DEF Earned
    <3>2. \A k \in Jobs : row'[k].status = "Success" \/ rq'[k] = "FINISHED" => Completed(k)'
      BY <2>j, <2>r, <2>m, <2>a, <2>u, <2>f, <2>t DEF Earned, Types
    <3>3. \A v \in Workers :
             /\ worker'[v].at \in {"popped", "begun"} => Unstarted(JobOf(v))'
             /\ worker'[v].at = "body" => AllWell(JobOf(v))'
             /\ worker'[v].at = "step" => LastRuns(JobOf(v))'
             /\ worker'[v].at = "returned" => Completed(JobOf(v))'
      BY <2>j, <2>r, <2>m, <2>a, <2>u, <2>f, <2>t DEF Earned, WorkersOK, Types
    <3> QED BY <3>1, <3>2, <3>3 DEF Earned
  <2>5. Undisturbed'
    <3>1. \A k \in Jobs : Untouched(k)' =>
             /\ rq'[k] \notin {"CANCELED", "STOPPED"} /\ k \notin stops'
             /\ Queued(k)' => rq'[k] = "QUEUED" /\ row'[k].status = "Pending"
      BY <2>j, <2>r, <2>m, <2>a, <2>u, <2>f, <2>t DEF Undisturbed
    <3>2. \A v \in Workers : JobOf(v) # NoJob /\ v # w => row'[JobOf(v)].status = row[JobOf(v)].status
      BY <2>j, <2>r, <2>m, <2>a, <2>u, <2>f, <2>t DEF WorkersOK, Types
    <3>3. \A v \in Workers : JobOf(v) # NoJob /\ Untouched(JobOf(v))' =>
             Untouched(JobOf(v))
      BY <2>j, <2>r, <2>m, <2>a, <2>u, <2>f, <2>t DEF WorkersOK, Types
    <3> QED BY <3>1, <3>2, <3>3, <2>j, <2>r, <2>m, <2>a, <2>u, <2>f, <2>t DEF Undisturbed
  <2> QED BY <2>1, <2>2, <2>3, <2>4, <2>5
<1>8. ASSUME NEW w \in Workers, StartStep(w) PROVE IInv'
  <2> USE <1>8 DEF StartStep, At
  <2>j. /\ JobOf(w) \in Jobs /\ JobOf(w) # NoJob /\ Held(JobOf(w))
        /\ \A v \in Workers : JobOf(v) = JobOf(w) => v = w
        /\ rq[JobOf(w)] # "None" /\ row[JobOf(w)].status # "None" /\ ~Queued(JobOf(w))
    BY DEF Types, WorkersOK, Held, OnePlace, Stored
  <2>m. /\ WorkersOK'
        /\ \A v \in Workers : worker'[v].job = worker[v].job
        /\ \A v \in Workers : worker'[v].at = IF v = w THEN "step" ELSE worker[v].at
        /\ \A k \in Jobs : Held(k)' <=> Held(k)
    BY <2>j, GotoMoves DEF WorkerPlaces, Types
  <2> DEFINE s == steps[JobOf(w)]
  <2>e. s \in Seq({"Running"} \cup Terminal) /\ Len(s) \in Nat /\ Len(s) <= NumSteps
    BY <2>j, LenProperties DEF Types, StepsOK
  <2>b. AllWell(JobOf(w)) /\ Len(s) < NumSteps
    BY DEF Earned
  <2> DEFINE t == Append(s, "Running")
  <2>a. /\ t \in Seq({"Running"} \cup Terminal) /\ Len(t) = Len(s) + 1
        /\ t[Len(t)] = "Running" /\ \A i \in 1..Len(t) - 1 : t[i] = s[i]
    BY <2>e, AppendProperties
  <2> HIDE DEF t
  <2>i. Len(t) <= NumSteps
    BY <2>a, <2>b, <2>e, JobsAssumption
  <2>s. /\ StepsOK' /\ steps'[JobOf(w)] = t
        /\ \A k \in Jobs \ {JobOf(w)} :
              /\ Unstarted(k)' <=> Unstarted(k)
              /\ AllWell(k)' <=> AllWell(k)
              /\ LastRuns(k)' <=> LastRuns(k)
              /\ Completed(k)' <=> Completed(k)
    BY <2>a, <2>i, <2>j, StepsReplaced DEF t, Types
  <2>c. \A k \in Jobs : k = JobOf(w) => ~Completed(k) /\ LastRuns(k)'
    BY <2>a, <2>b, <2>e, <2>s DEF Completed, LastRuns, AllWell
  <2>u. row' = row /\ rq' = rq /\ queue' = queue /\ request' = request /\ stops' = stops
    OBVIOUS
  <2>f. \A k \in Jobs :
           /\ Queued(k)' <=> Queued(k)
           /\ Untouched(k)' <=> Untouched(k)
    BY <2>u DEF Queued, Untouched
  <2>t. RequestsOK'
    BY <2>u DEF Types, JobOf, RequestsOK
  <2>1. Types'
    BY <2>j, <2>m, <2>e, <2>b, <2>a, <2>i, <2>s, <2>c, <2>u, <2>f, <2>t DEF Types
  <2>2. OnePlace'
    BY <2>j, <2>m, <2>e, <2>b, <2>a, <2>i, <2>s, <2>c, <2>u, <2>f, <2>t DEF OnePlace, Types
  <2>3. Stored'
    BY <2>j, <2>m, <2>e, <2>b, <2>a, <2>i, <2>s, <2>c, <2>u, <2>f, <2>t DEF Stored, Types
  <2>4. Earned'
    BY <2>j, <2>m, <2>e, <2>b, <2>a, <2>i, <2>s, <2>c, <2>u, <2>f, <2>t
       DEF Earned, WorkersOK, Types
  <2>5. Undisturbed'
    BY <2>j, <2>m, <2>e, <2>b, <2>a, <2>i, <2>s, <2>c, <2>u, <2>f, <2>t
       DEF Undisturbed, WorkersOK, Types
  <2> QED BY <2>1, <2>2, <2>3, <2>4, <2>5
<1>9. ASSUME NEW w \in Workers, EndStep(w) PROVE IInv'
  <2> USE <1>9 DEF EndStep, At
  <2>j. /\ JobOf(w) \in Jobs /\ JobOf(w) # NoJob /\ Held(JobOf(w))
        /\ \A v \in Workers : JobOf(v) = JobOf(w) => v = w
        /\ rq[JobOf(w)] # "None" /\ row[JobOf(w)].status # "None" /\ ~Queued(JobOf(w))
    BY DEF Types, WorkersOK, Held, OnePlace, Stored
  <2> DEFINE s == steps[JobOf(w)]
  <2>e. s \in Seq({"Running"} \cup Terminal) /\ Len(s) \in Nat /\ Len(s) <= NumSteps
    BY <2>j, LenProperties DEF Types, StepsOK
  <2>p. PICK status \in Terminal :
           /\ steps' = [steps EXCEPT ![JobOf(w)][Len(steps[JobOf(w)])] = status]
           /\ Goto(w, IF status = "Success" THEN "body" ELSE "raising")
    OBVIOUS
  <2>m. /\ WorkersOK'
        /\ \A v \in Workers : worker'[v].job = worker[v].job
        /\ \A v \in Workers : worker'[v].at = IF v # w THEN worker[v].at
                                              ELSE IF status = "Success" THEN "body" ELSE "raising"
        /\ \A k \in Jobs : Held(k)' <=> Held(k)
    BY <2>p, <2>j, GotoMoves DEF WorkerPlaces, Types
  <2>l. /\ LastRuns(JobOf(w)) /\ Len(s) \in 1..Len(s) /\ s[Len(s)] = "Running"
        /\ \A i \in 1..Len(s) - 1 : s[i] = "Success"
    BY <2>e DEF Earned, LastRuns
  <2> DEFINE t == [s EXCEPT ![Len(s)] = status]
  <2>a. /\ t \in Seq({"Running"} \cup Terminal) /\ Len(t) = Len(s)
        /\ \A i \in 1..Len(s) : t[i] = IF i = Len(s) THEN status ELSE s[i]
    BY <2>e, <2>l, ExceptSeq
  <2>r. steps' = [steps EXCEPT ![JobOf(w)] = t]
    BY <2>p, <2>j DEF Types, StepsOK
  <2> HIDE DEF t
  <2>s. /\ StepsOK' /\ steps'[JobOf(w)] = t
        /\ \A k \in Jobs \ {JobOf(w)} :
              /\ Unstarted(k)' <=> Unstarted(k)
              /\ AllWell(k)' <=> AllWell(k)
              /\ LastRuns(k)' <=> LastRuns(k)
              /\ Completed(k)' <=> Completed(k)
    BY <2>a, <2>e, <2>r, <2>j, StepsReplaced DEF Types
  <2>c. \A k \in Jobs : k = JobOf(w) => ~Completed(k) /\ (status = "Success" => AllWell(k)')
    BY <2>a, <2>e, <2>l, <2>s DEF Completed, AllWell
  <2>u. row' = row /\ rq' = rq /\ queue' = queue /\ request' = request /\ stops' = stops
    OBVIOUS
  <2>f. \A k \in Jobs :
           /\ Queued(k)' <=> Queued(k)
           /\ Untouched(k)' <=> Untouched(k)
    BY <2>u DEF Queued, Untouched
  <2>t. RequestsOK'
    BY <2>u DEF Types, JobOf, RequestsOK
  <2>1. Types'
    BY <2>j, <2>e, <2>p, <2>m, <2>l, <2>a, <2>r, <2>s, <2>c, <2>u, <2>f, <2>t DEF Types
  <2>2. OnePlace'
    BY <2>m, <2>u, <2>f DEF OnePlace
  <2>3. Stored'
    BY <2>j, <2>e, <2>p, <2>m, <2>l, <2>a, <2>r, <2>s, <2>c, <2>u, <2>f, <2>t
       DEF Stored, Types
  <2>4. Earned'
    BY <2>j, <2>e, <2>p, <2>m, <2>l, <2>a, <2>r, <2>s, <2>c, <2>u, <2>f, <2>t
       DEF Earned, WorkersOK, Types
  <2>5. Undisturbed'
    BY <2>j, <2>e, <2>p, <2>m, <2>l, <2>a, <2>r, <2>s, <2>c, <2>u, <2>f, <2>t
       DEF Undisturbed, WorkersOK, Types
  <2> QED BY <2>1, <2>2, <2>3, <2>4, <2>5
<1>10. ASSUME NEW w \in Workers, BodyRaises(w) PROVE IInv'
  <2> USE <1>10 DEF BodyRaises, At
  <2>j. /\ JobOf(w) \in Jobs /\ JobOf(w) # NoJob /\ Held(JobOf(w))
        /\ \A v \in Workers : JobOf(v) = JobOf(w) => v = w
        /\ rq[JobOf(w)] # "None" /\ row[JobOf(w)].status # "None" /\ ~Queued(JobOf(w))
    BY DEF Types, WorkersOK, Held, OnePlace, Stored
  <2>m. /\ WorkersOK'
        /\ \A v \in Workers : worker'[v].job = worker[v].job
        /\ \A v \in Workers : worker'[v].at = IF v = w THEN "raising" ELSE worker[v].at
        /\ \A k \in Jobs : Held(k)' <=> Held(k)
    BY <2>j, GotoMoves DEF WorkerPlaces, Types
  <2>u. /\ row' = row /\ steps' = steps /\ rq' = rq /\ queue' = queue
        /\ request' = request /\ stops' = stops
    OBVIOUS
  <2>f. \A k \in Jobs :
           /\ Queued(k)' <=> Queued(k)
           /\ Unstarted(k)' <=> Unstarted(k)
           /\ AllWell(k)' <=> AllWell(k)
           /\ LastRuns(k)' <=> LastRuns(k)
           /\ Completed(k)' <=> Completed(k)
           /\ Untouched(k)' <=> Untouched(k)
    BY <2>u DEF Queued, Unstarted, AllWell, LastRuns, Completed, Untouched
  <2>t. StepsOK' /\ RequestsOK'
    BY <2>u DEF Types, JobOf, StepsOK, RequestsOK
  <2>1. Types'
    BY <2>j, <2>m, <2>u, <2>f, <2>t DEF Types
  <2>2. OnePlace'
    BY <2>j, <2>m, <2>u, <2>f, <2>t DEF OnePlace, Types
  <2>3. Stored'
    BY <2>j, <2>m, <2>u, <2>f, <2>t DEF Stored, Types
  <2>4. Earned'
    BY <2>j, <2>m, <2>u, <2>f, <2>t DEF Earned, WorkersOK, Types
  <2>5. Undisturbed'
    BY <2>j, <2>m, <2>u, <2>f, <2>t DEF Undisturbed, WorkersOK, Types
  <2> QED BY <2>1, <2>2, <2>3, <2>4, <2>5
<1>11. ASSUME NEW w \in Workers, SaveSuccess(w) PROVE IInv'
  <2> USE <1>11 DEF SaveSuccess, At
  <2>j. /\ JobOf(w) \in Jobs /\ JobOf(w) # NoJob /\ Held(JobOf(w))
        /\ \A v \in Workers : JobOf(v) = JobOf(w) => v = w
        /\ rq[JobOf(w)] # "None" /\ row[JobOf(w)].status # "None" /\ ~Queued(JobOf(w))
    BY DEF Types, WorkersOK, Held, OnePlace, Stored
  <2>r. /\ row' \in [Jobs -> Row]
        /\ \A k \in Jobs : row'[k].status = IF k = JobOf(w) THEN "Success" ELSE row[k].status
    BY <2>j, SaveKeeps DEF Types, RowStatus, Terminal
  <2>m. /\ WorkersOK'
        /\ \A v \in Workers : worker'[v].job = worker[v].job
        /\ \A v \in Workers : worker'[v].at = IF v = w THEN "returned" ELSE worker[v].at
        /\ \A k \in Jobs : Held(k)' <=> Held(k)
    BY <2>j, GotoMoves DEF WorkerPlaces, Types
  <2>c. Completed(JobOf(w))
    BY DEF Earned, Completed
  <2>u. steps' = steps /\ rq' = rq /\ queue' = queue /\ request' = request /\ stops' = stops
    OBVIOUS
  <2>f. \A k \in Jobs :
           /\ Queued(k)' <=> Queued(k)
           /\ Unstarted(k)' <=> Unstarted(k)
           /\ AllWell(k)' <=> AllWell(k)
           /\ LastRuns(k)' <=> LastRuns(k)
           /\ Completed(k)' <=> Completed(k)
           /\ Untouched(k)' <=> Untouched(k)
    BY <2>u DEF Queued, Unstarted, AllWell, LastRuns, Completed, Untouched
  <2>t. StepsOK' /\ RequestsOK'
    BY <2>u DEF Types, JobOf, StepsOK, RequestsOK
  <2>1. Types'
    BY <2>j, <2>r, <2>m, <2>c, <2>u, <2>f, <2>t DEF Types
  <2>2. OnePlace'
    BY <2>j, <2>r, <2>m, <2>c, <2>u, <2>f, <2>t DEF OnePlace, Types
  <2>3. Stored'
    BY <2>j, <2>r, <2>m, <2>c, <2>u, <2>f, <2>t DEF Stored, Types
  <2>4. Earned'
    BY <2>j, <2>r, <2>m, <2>c, <2>u, <2>f, <2>t DEF Earned, WorkersOK, Types
  <2>5. Undisturbed'
    <3>1. \A k \in Jobs : Untouched(k)' =>
             /\ rq'[k] \notin {"CANCELED", "STOPPED"} /\ k \notin stops'
             /\ Queued(k)' => rq'[k] = "QUEUED" /\ row'[k].status = "Pending"
      BY <2>j, <2>r, <2>m, <2>c, <2>u, <2>f, <2>t DEF Undisturbed
    <3>2. \A v \in Workers : JobOf(v) # NoJob /\ v # w => row'[JobOf(v)].status = row[JobOf(v)].status
      BY <2>j, <2>r, <2>m, <2>c, <2>u, <2>f, <2>t DEF WorkersOK, Types
    <3> QED BY <2>j, <2>r, <2>m, <2>c, <2>u, <2>f, <2>t, <3>1, <3>2 DEF Undisturbed, WorkersOK, Types
  <2> QED BY <2>1, <2>2, <2>3, <2>4, <2>5
<1>12. ASSUME NEW w \in Workers, SaveFailure(w) PROVE IInv'
  <2> USE <1>12 DEF SaveFailure, At
  <2>j. /\ JobOf(w) \in Jobs /\ JobOf(w) # NoJob /\ Held(JobOf(w))
        /\ \A v \in Workers : JobOf(v) = JobOf(w) => v = w
        /\ rq[JobOf(w)] # "None" /\ row[JobOf(w)].status # "None" /\ ~Queued(JobOf(w))
    BY DEF Types, WorkersOK, Held, OnePlace, Stored
  <2>r. /\ row' \in [Jobs -> Row]
        /\ \A k \in Jobs : row'[k].status = IF k = JobOf(w) THEN "Failure" ELSE row[k].status
    BY <2>j, SaveKeeps DEF Types, RowStatus, Terminal
  <2>m. /\ WorkersOK'
        /\ \A v \in Workers : worker'[v].job = worker[v].job
        /\ \A v \in Workers : worker'[v].at = IF v = w THEN "raised" ELSE worker[v].at
        /\ \A k \in Jobs : Held(k)' <=> Held(k)
    BY <2>j, GotoMoves DEF WorkerPlaces, Types
  <2>u. steps' = steps /\ rq' = rq /\ queue' = queue /\ request' = request /\ stops' = stops
    OBVIOUS
  <2>f. \A k \in Jobs :
           /\ Queued(k)' <=> Queued(k)
           /\ Unstarted(k)' <=> Unstarted(k)
           /\ AllWell(k)' <=> AllWell(k)
           /\ LastRuns(k)' <=> LastRuns(k)
           /\ Completed(k)' <=> Completed(k)
           /\ Untouched(k)' <=> Untouched(k)
    BY <2>u DEF Queued, Unstarted, AllWell, LastRuns, Completed, Untouched
  <2>t. StepsOK' /\ RequestsOK'
    BY <2>u DEF Types, JobOf, StepsOK, RequestsOK
  <2>1. Types'
    BY <2>j, <2>r, <2>m, <2>u, <2>f, <2>t DEF Types
  <2>2. OnePlace'
    BY <2>j, <2>r, <2>m, <2>u, <2>f, <2>t DEF OnePlace, Types
  <2>3. Stored'
    BY <2>j, <2>r, <2>m, <2>u, <2>f, <2>t DEF Stored, Types
  <2>4. Earned'
    <3>1. \A k \in Jobs : rq'[k] = "None" \/ Queued(k)' => Unstarted(k)'
      BY <2>j, <2>r, <2>m, <2>u, <2>f, <2>t DEF Earned
    <3>2. \A k \in Jobs : row'[k].status = "Success" \/ rq'[k] = "FINISHED" => Completed(k)'
      BY <2>j, <2>r, <2>m, <2>u, <2>f, <2>t DEF Earned, Types
    <3>3. \A v \in Workers :
             /\ worker'[v].at \in {"popped", "begun"} => Unstarted(JobOf(v))'
             /\ worker'[v].at = "body" => AllWell(JobOf(v))'
             /\ worker'[v].at = "step" => LastRuns(JobOf(v))'
             /\ worker'[v].at = "returned" => Completed(JobOf(v))'
      BY <2>j, <2>r, <2>m, <2>u, <2>f, <2>t DEF Earned, WorkersOK, Types
    <3> QED BY <3>1, <3>2, <3>3 DEF Earned
  <2>5. Undisturbed'
    <3>1. \A k \in Jobs : Untouched(k)' =>
             /\ rq'[k] \notin {"CANCELED", "STOPPED"} /\ k \notin stops'
             /\ Queued(k)' => rq'[k] = "QUEUED" /\ row'[k].status = "Pending"
      BY <2>j, <2>r, <2>m, <2>u, <2>f, <2>t DEF Undisturbed
    <3>2. \A v \in Workers : JobOf(v) # NoJob /\ v # w => row'[JobOf(v)].status = row[JobOf(v)].status
      BY <2>j, <2>r, <2>m, <2>u, <2>f, <2>t DEF WorkersOK, Types
    <3>3. \A v \in Workers : JobOf(v) # NoJob /\ Untouched(JobOf(v))' =>
             Untouched(JobOf(v))
      BY <2>j, <2>r, <2>m, <2>u, <2>f, <2>t DEF WorkersOK, Types
    <3> QED BY <3>1, <3>2, <3>3, <2>j, <2>r, <2>m, <2>u, <2>f, <2>t DEF Undisturbed
  <2> QED BY <2>1, <2>2, <2>3, <2>4, <2>5
<1>13. ASSUME NEW w \in Workers, KillWorker(w) PROVE IInv'
  <2> USE <1>13 DEF KillWorker, At, Fault
  <2>j. /\ JobOf(w) \in Jobs /\ JobOf(w) # NoJob /\ Held(JobOf(w))
        /\ \A v \in Workers : JobOf(v) = JobOf(w) => v = w
        /\ rq[JobOf(w)] # "None" /\ row[JobOf(w)].status # "None" /\ ~Queued(JobOf(w))
    BY DEF Types, WorkersOK, Held, OnePlace, Stored
  <2>m. /\ WorkersOK'
        /\ \A v \in Workers : worker'[v].job = IF v = w THEN NoJob ELSE worker[v].job
        /\ \A v \in Workers : worker'[v].at = IF v = w THEN "idle" ELSE worker[v].at
        /\ \A k \in Jobs : Held(k)' <=> Held(k) /\ k # JobOf(w)
    BY <2>j, ReleaseFrees DEF Types
  <2>u. /\ row' = row /\ steps' = steps /\ rq' = rq /\ queue' = queue
        /\ request' = request /\ stops' = stops
    OBVIOUS
  <2>f. \A k \in Jobs :
           /\ Queued(k)' <=> Queued(k)
           /\ Unstarted(k)' <=> Unstarted(k)
           /\ AllWell(k)' <=> AllWell(k)
           /\ LastRuns(k)' <=> LastRuns(k)
           /\ Completed(k)' <=> Completed(k)
           /\ Untouched(k)' <=> Untouched(k)
    BY <2>u DEF Queued, Unstarted, AllWell, LastRuns, Completed, Untouched
  <2>t. StepsOK' /\ RequestsOK'
    BY <2>u DEF Types, JobOf, StepsOK, RequestsOK
  <2>1. Types'
    <3>1. faults' \in 0..MaxFaults
      BY JobsAssumption DEF Types
    <3> QED BY <3>1, <2>j, <2>m, <2>u, <2>f, <2>t DEF Types
  <2>2. OnePlace'
    BY <2>j, <2>m, <2>u, <2>f, <2>t DEF OnePlace, Types
  <2>3. Stored'
    BY <2>j, <2>m, <2>u, <2>f, <2>t DEF Stored, Types
  <2>4. Earned'
    BY <2>j, <2>m, <2>u, <2>f, <2>t DEF Earned, WorkersOK, Types
  <2>5. Undisturbed'
    BY <2>j, <2>m, <2>u, <2>f, <2>t DEF Undisturbed, WorkersOK, Types
  <2> QED BY <2>1, <2>2, <2>3, <2>4, <2>5
<1>14. ASSUME NEW w \in Workers, KillHorse(w) PROVE IInv'
  <2> USE <1>14 DEF KillHorse, Fault, InHorse
  <2>j. /\ JobOf(w) \in Jobs /\ JobOf(w) # NoJob /\ Held(JobOf(w))
        /\ \A v \in Workers : JobOf(v) = JobOf(w) => v = w
        /\ rq[JobOf(w)] # "None" /\ row[JobOf(w)].status # "None" /\ ~Queued(JobOf(w))
    BY DEF Types, WorkersOK, Held, InHorse, OnePlace, Stored
  <2>s. /\ rq' \in [Jobs -> RqStatus]
        /\ \A k \in Jobs : rq'[k] = IF k = JobOf(w) THEN "FAILED" ELSE rq[k]
    BY <2>j, SetRqKeeps DEF RqStatus, Types
  <2>m. /\ WorkersOK'
        /\ \A v \in Workers : worker'[v].job = IF v = w THEN NoJob ELSE worker[v].job
        /\ \A v \in Workers : worker'[v].at = IF v = w THEN "idle" ELSE worker[v].at
        /\ \A k \in Jobs : Held(k)' <=> Held(k) /\ k # JobOf(w)
    BY <2>j, ReleaseFrees DEF Types
  <2>u. /\ row' = row /\ steps' = steps /\ queue' = queue /\ request' = request
        /\ stops' = stops
    OBVIOUS
  <2>f. \A k \in Jobs :
           /\ Queued(k)' <=> Queued(k)
           /\ Unstarted(k)' <=> Unstarted(k)
           /\ AllWell(k)' <=> AllWell(k)
           /\ LastRuns(k)' <=> LastRuns(k)
           /\ Completed(k)' <=> Completed(k)
           /\ Untouched(k)' <=> Untouched(k)
    BY <2>u DEF Queued, Unstarted, AllWell, LastRuns, Completed, Untouched
  <2>t. StepsOK' /\ RequestsOK'
    BY <2>u DEF Types, JobOf, StepsOK, RequestsOK
  <2>1. Types'
    <3>1. faults' \in 0..MaxFaults
      BY JobsAssumption DEF Types
    <3> QED BY <3>1, <2>j, <2>s, <2>m, <2>u, <2>f, <2>t DEF Types
  <2>2. OnePlace'
    BY <2>j, <2>s, <2>m, <2>u, <2>f, <2>t DEF OnePlace, Types
  <2>3. Stored'
    BY <2>j, <2>s, <2>m, <2>u, <2>f, <2>t DEF Stored, Types
  <2>4. Earned'
    BY <2>j, <2>s, <2>m, <2>u, <2>f, <2>t DEF Earned, WorkersOK, Types
  <2>5. Undisturbed'
    BY <2>j, <2>s, <2>m, <2>u, <2>f, <2>t DEF Undisturbed, WorkersOK, Types
  <2> QED BY <2>1, <2>2, <2>3, <2>4, <2>5
<1>15. ASSUME NEW w \in Workers, SaveRaises(w) PROVE IInv'
  <2> USE <1>15 DEF SaveRaises, At, Fault
  <2>j. /\ JobOf(w) \in Jobs /\ JobOf(w) # NoJob /\ Held(JobOf(w))
        /\ \A v \in Workers : JobOf(v) = JobOf(w) => v = w
        /\ rq[JobOf(w)] # "None" /\ row[JobOf(w)].status # "None" /\ ~Queued(JobOf(w))
    BY DEF Types, WorkersOK, Held, OnePlace, Stored
  <2>p. PICK place \in {"raising", "raised"} :
           /\ worker[w].at # "body" => place = "raised" \/ place = "raising"
           /\ Goto(w, place)
           /\ place = "raising" => worker[w].at \in {"body", "step"}
    OBVIOUS
  <2>m. /\ WorkersOK'
        /\ \A v \in Workers : worker'[v].job = worker[v].job
        /\ \A v \in Workers : worker'[v].at = IF v = w THEN place ELSE worker[v].at
        /\ \A k \in Jobs : Held(k)' <=> Held(k)
    BY <2>p, <2>j, GotoMoves DEF WorkerPlaces, Types
  <2>u. /\ row' = row /\ steps' = steps /\ rq' = rq /\ queue' = queue
        /\ request' = request /\ stops' = stops
    OBVIOUS
  <2>f. \A k \in Jobs :
           /\ Queued(k)' <=> Queued(k)
           /\ Unstarted(k)' <=> Unstarted(k)
           /\ AllWell(k)' <=> AllWell(k)
           /\ LastRuns(k)' <=> LastRuns(k)
           /\ Completed(k)' <=> Completed(k)
           /\ Untouched(k)' <=> Untouched(k)
    BY <2>u DEF Queued, Unstarted, AllWell, LastRuns, Completed, Untouched
  <2>t. StepsOK' /\ RequestsOK'
    BY <2>u DEF Types, JobOf, StepsOK, RequestsOK
  <2>1. Types'
    <3>1. faults' \in 0..MaxFaults
      BY JobsAssumption DEF Types
    <3> QED BY <3>1, <2>j, <2>p, <2>m, <2>u, <2>f, <2>t DEF Types
  <2>2. OnePlace'
    BY <2>j, <2>p, <2>m, <2>u, <2>f, <2>t DEF OnePlace, Types
  <2>3. Stored'
    BY <2>j, <2>p, <2>m, <2>u, <2>f, <2>t DEF Stored, Types
  <2>4. Earned'
    BY <2>j, <2>p, <2>m, <2>u, <2>f, <2>t DEF Earned, WorkersOK, Types
  <2>5. Undisturbed'
    BY <2>j, <2>p, <2>m, <2>u, <2>f, <2>t DEF Undisturbed, WorkersOK, Types
  <2> QED BY <2>1, <2>2, <2>3, <2>4, <2>5
<1>16. ASSUME NEW w \in Workers, Finish(w) PROVE IInv'
  <2> USE <1>16 DEF Finish, At, Fault
  <2>j. /\ JobOf(w) \in Jobs /\ JobOf(w) # NoJob /\ Held(JobOf(w))
        /\ \A v \in Workers : JobOf(v) = JobOf(w) => v = w
        /\ rq[JobOf(w)] # "None" /\ row[JobOf(w)].status # "None" /\ ~Queued(JobOf(w))
    BY DEF Types, WorkersOK, Held, OnePlace, Stored
  <2>p. PICK status \in {"FINISHED", "FAILED"} :
           /\ SetRq(JobOf(w), status)
           /\ status = "FINISHED" => worker[w].at = "returned"
           /\ faults' \in 0..MaxFaults
    BY JobsAssumption DEF Types
  <2>c. status = "FINISHED" => Completed(JobOf(w))
    BY <2>p DEF Earned
  <2>s. /\ rq' \in [Jobs -> RqStatus]
        /\ \A k \in Jobs : rq'[k] = IF k = JobOf(w) THEN status ELSE rq[k]
    BY <2>j, <2>p, SetRqKeeps DEF RqStatus, Types
  <2>m. /\ WorkersOK'
        /\ \A v \in Workers : worker'[v].job = IF v = w THEN NoJob ELSE worker[v].job
        /\ \A v \in Workers : worker'[v].at = IF v = w THEN "idle" ELSE worker[v].at
        /\ \A k \in Jobs : Held(k)' <=> Held(k) /\ k # JobOf(w)
    BY <2>j, ReleaseFrees DEF Types
  <2>u. /\ row' = row /\ steps' = steps /\ queue' = queue /\ request' = request
        /\ stops' = stops
    OBVIOUS
  <2>f. \A k \in Jobs :
           /\ Queued(k)' <=> Queued(k)
           /\ Unstarted(k)' <=> Unstarted(k)
           /\ AllWell(k)' <=> AllWell(k)
           /\ LastRuns(k)' <=> LastRuns(k)
           /\ Completed(k)' <=> Completed(k)
           /\ Untouched(k)' <=> Untouched(k)
    BY <2>u DEF Queued, Unstarted, AllWell, LastRuns, Completed, Untouched
  <2>t. StepsOK' /\ RequestsOK'
    BY <2>u DEF Types, JobOf, StepsOK, RequestsOK
  <2>1. Types'
    BY <2>j, <2>p, <2>c, <2>s, <2>m, <2>u, <2>f, <2>t DEF Types
  <2>2. OnePlace'
    BY <2>j, <2>p, <2>c, <2>s, <2>m, <2>u, <2>f, <2>t DEF OnePlace, Types
  <2>3. Stored'
    BY <2>j, <2>p, <2>c, <2>s, <2>m, <2>u, <2>f, <2>t DEF Stored, Types
  <2>4. Earned'
    BY <2>j, <2>p, <2>c, <2>s, <2>m, <2>u, <2>f, <2>t DEF Earned, WorkersOK, Types
  <2>5. Undisturbed'
    BY <2>j, <2>p, <2>c, <2>s, <2>m, <2>u, <2>f, <2>t DEF Undisturbed, WorkersOK, Types
  <2> QED BY <2>1, <2>2, <2>3, <2>4, <2>5
<1>17. ASSUME NEW c \in Requests, NEW j \in Jobs, LoadJob(c, j) PROVE IInv'
  <2> USE <1>17 DEF LoadJob
  <2>p. rq[j] # "None" /\ row[j] \in Row
    BY DEF Types
  <2> DEFINE r == [job |-> j, at |-> "loaded", row |-> row[j]]
  <2>r. r \in [job : Jobs \cup {NoJob}, at : RequestPlaces, row : Row] /\ r.job = j /\ r.at = "loaded"
    BY <2>p DEF RequestPlaces
  <2> HIDE DEF r
  <2>s. /\ request' \in [Requests -> [job : Jobs \cup {NoJob}, at : RequestPlaces, row : Row]]
        /\ \A d \in Requests : request'[d] = IF d = c THEN r ELSE request[d]
    BY <2>r DEF Types, RequestsOK, r
  <2>m. RequestsOK'
    BY <2>r, <2>s, JobsAssumption DEF Types, RequestsOK
  <2>k. \A k \in Jobs : Untouched(k)' <=> Untouched(k) /\ k # j
    BY <2>r, <2>s, JobsAssumption DEF Untouched, Types, RequestsOK, NoRequest, Answered
  <2>u. /\ row' = row /\ steps' = steps /\ rq' = rq /\ queue' = queue
        /\ worker' = worker /\ stops' = stops
    OBVIOUS
  <2>f. \A k \in Jobs :
           /\ Queued(k)' <=> Queued(k)
           /\ Unstarted(k)' <=> Unstarted(k)
           /\ AllWell(k)' <=> AllWell(k)
           /\ LastRuns(k)' <=> LastRuns(k)
           /\ Completed(k)' <=> Completed(k)
           /\ Held(k)' <=> Held(k)
    BY <2>u DEF Queued, Unstarted, AllWell, LastRuns, Completed, Held
  <2>t. StepsOK' /\ WorkersOK'
    BY <2>u DEF Types, JobOf, StepsOK, WorkersOK
  <2>1. Types'
    BY <2>p, <2>r, <2>s, <2>m, <2>k, <2>u, <2>f, <2>t DEF Types
  <2>2. OnePlace'
    BY <2>p, <2>r, <2>s, <2>m, <2>k, <2>u, <2>f, <2>t DEF OnePlace, Types
  <2>3. Stored'
    BY <2>p, <2>r, <2>s, <2>m, <2>k, <2>u, <2>f, <2>t DEF Stored, Types
  <2>4. Earned'
    BY <2>p, <2>r, <2>s, <2>m, <2>k, <2>u, <2>f, <2>t DEF Earned, WorkersOK, Types
  <2>5. Undisturbed'
    BY <2>p, <2>r, <2>s, <2>m, <2>k, <2>u, <2>f, <2>t DEF Undisturbed, WorkersOK, Types
  <2> QED BY <2>1, <2>2, <2>3, <2>4, <2>5
<1>18. ASSUME NEW c \in Requests, CheckStarted(c) PROVE IInv'
  <2> USE <1>18 DEF CheckStarted
  <2>j. /\ request[c].job \in Jobs /\ request[c].job # NoJob
        /\ ~Untouched(request[c].job) /\ rq[request[c].job] # "None"
    BY JobsAssumption DEF Types, Untouched, RequestsOK, Stored
  <2>m. RequestsOK' /\ \A k \in Jobs : Untouched(k)' <=> Untouched(k)
    BY <2>j, RequestsKeepJobs DEF RequestPlaces, Types
  <2>u. /\ row' = row /\ steps' = steps /\ rq' = rq /\ queue' = queue
        /\ worker' = worker /\ stops' = stops
    OBVIOUS
  <2>f. \A k \in Jobs :
           /\ Queued(k)' <=> Queued(k)
           /\ Unstarted(k)' <=> Unstarted(k)
           /\ AllWell(k)' <=> AllWell(k)
           /\ LastRuns(k)' <=> LastRuns(k)
           /\ Completed(k)' <=> Completed(k)
           /\ Held(k)' <=> Held(k)
    BY <2>u DEF Queued, Unstarted, AllWell, LastRuns, Completed, Held
  <2>t. StepsOK' /\ WorkersOK'
    BY <2>u DEF Types, JobOf, StepsOK, WorkersOK
  <2>1. Types'
    BY <2>j, <2>m, <2>u, <2>f, <2>t DEF Types
  <2>2. OnePlace'
    BY <2>j, <2>m, <2>u, <2>f, <2>t DEF OnePlace, Types
  <2>3. Stored'
    BY <2>j, <2>m, <2>u, <2>f, <2>t DEF Stored, Types
  <2>4. Earned'
    BY <2>j, <2>m, <2>u, <2>f, <2>t DEF Earned, WorkersOK, Types
  <2>5. Undisturbed'
    BY <2>j, <2>m, <2>u, <2>f, <2>t DEF Undisturbed, WorkersOK, Types
  <2> QED BY <2>1, <2>2, <2>3, <2>4, <2>5
<1>19. ASSUME NEW c \in Requests, SendStop(c) PROVE IInv'
  <2> USE <1>19 DEF SendStop
  <2>j. /\ request[c].job \in Jobs /\ request[c].job # NoJob
        /\ ~Untouched(request[c].job) /\ rq[request[c].job] # "None"
    BY JobsAssumption DEF Types, Untouched, RequestsOK, Stored
  <2>m. RequestsOK' /\ \A k \in Jobs : Untouched(k)' <=> Untouched(k)
    BY <2>j, RequestsKeepJobs DEF RequestPlaces, Types
  <2>s. stops' \subseteq stops \cup {request[c].job}
    OBVIOUS
  <2>u. row' = row /\ steps' = steps /\ rq' = rq /\ queue' = queue /\ worker' = worker
    OBVIOUS
  <2>f. \A k \in Jobs :
           /\ Queued(k)' <=> Queued(k)
           /\ Unstarted(k)' <=> Unstarted(k)
           /\ AllWell(k)' <=> AllWell(k)
           /\ LastRuns(k)' <=> LastRuns(k)
           /\ Completed(k)' <=> Completed(k)
           /\ Held(k)' <=> Held(k)
    BY <2>u DEF Queued, Unstarted, AllWell, LastRuns, Completed, Held
  <2>t. StepsOK' /\ WorkersOK'
    BY <2>u DEF Types, JobOf, StepsOK, WorkersOK
  <2>1. Types'
    BY <2>j, <2>m, <2>s, <2>u, <2>f, <2>t DEF Types
  <2>2. OnePlace'
    BY <2>j, <2>m, <2>s, <2>u, <2>f, <2>t DEF OnePlace, Types
  <2>3. Stored'
    BY <2>j, <2>m, <2>s, <2>u, <2>f, <2>t DEF Stored, Types
  <2>4. Earned'
    BY <2>j, <2>m, <2>s, <2>u, <2>f, <2>t DEF Earned, WorkersOK, Types
  <2>5. Undisturbed'
    BY <2>j, <2>m, <2>s, <2>u, <2>f, <2>t DEF Undisturbed, WorkersOK, Types
  <2> QED BY <2>1, <2>2, <2>3, <2>4, <2>5
<1>20. ASSUME NEW c \in Requests, SaveStopped(c) PROVE IInv'
  <2> USE <1>20 DEF SaveStopped
  <2>j. /\ request[c].job \in Jobs /\ request[c].job # NoJob
        /\ ~Untouched(request[c].job) /\ rq[request[c].job] # "None"
    BY JobsAssumption DEF Types, Untouched, RequestsOK, Stored
  <2>m. RequestsOK' /\ \A k \in Jobs : Untouched(k)' <=> Untouched(k)
    BY <2>j, RequestsKeepJobs DEF RequestPlaces, Types
  <2>r. /\ row' \in [Jobs -> Row]
        /\ \A k \in Jobs : /\ Untouched(k) => row'[k].status = row[k].status
                           /\ row'[k].status \in {row[k].status, "Failure"}
                           /\ rq[k] = "None" => row'[k].status = row[k].status
    BY <2>j, SaveKeeps DEF Types, RowStatus, Terminal
  <2>u. steps' = steps /\ rq' = rq /\ queue' = queue /\ worker' = worker /\ stops' = stops
    OBVIOUS
  <2>f. \A k \in Jobs :
           /\ Queued(k)' <=> Queued(k)
           /\ Unstarted(k)' <=> Unstarted(k)
           /\ AllWell(k)' <=> AllWell(k)
           /\ LastRuns(k)' <=> LastRuns(k)
           /\ Completed(k)' <=> Completed(k)
           /\ Held(k)' <=> Held(k)
    BY <2>u DEF Queued, Unstarted, AllWell, LastRuns, Completed, Held
  <2>t. StepsOK' /\ WorkersOK'
    BY <2>u DEF Types, JobOf, StepsOK, WorkersOK
  <2>1. Types'
    BY <2>j, <2>m, <2>r, <2>u, <2>f, <2>t DEF Types
  <2>2. OnePlace'
    BY <2>j, <2>m, <2>r, <2>u, <2>f, <2>t DEF OnePlace, Types
  <2>3. Stored'
    BY <2>j, <2>m, <2>r, <2>u, <2>f, <2>t DEF Stored, Types
  <2>4. Earned'
    BY <2>j, <2>m, <2>r, <2>u, <2>f, <2>t DEF Earned, WorkersOK, Types
  <2>5. Undisturbed'
    BY <2>j, <2>m, <2>r, <2>u, <2>f, <2>t DEF Undisturbed, WorkersOK, Types
  <2> QED BY <2>1, <2>2, <2>3, <2>4, <2>5
<1>21. ASSUME NEW c \in Requests, SaveCanceled(c) PROVE IInv'
  <2> USE <1>21 DEF SaveCanceled
  <2>j. /\ request[c].job \in Jobs /\ request[c].job # NoJob
        /\ ~Untouched(request[c].job) /\ rq[request[c].job] # "None"
    BY JobsAssumption DEF Types, Untouched, RequestsOK, Stored
  <2>m. RequestsOK' /\ \A k \in Jobs : Untouched(k)' <=> Untouched(k)
    BY <2>j, RequestsKeepJobs DEF RequestPlaces, Types
  <2>r. /\ row' \in [Jobs -> Row]
        /\ \A k \in Jobs : row'[k].status = IF k = request[c].job THEN "Failure" ELSE row[k].status
    BY <2>j DEF Types, RequestsOK, Row, RowStatus, Terminal
  <2>u. steps' = steps /\ rq' = rq /\ queue' = queue /\ worker' = worker /\ stops' = stops
    OBVIOUS
  <2>f. \A k \in Jobs :
           /\ Queued(k)' <=> Queued(k)
           /\ Unstarted(k)' <=> Unstarted(k)
           /\ AllWell(k)' <=> AllWell(k)
           /\ LastRuns(k)' <=> LastRuns(k)
           /\ Completed(k)' <=> Completed(k)
           /\ Held(k)' <=> Held(k)
    BY <2>u DEF Queued, Unstarted, AllWell, LastRuns, Completed, Held
  <2>t. StepsOK' /\ WorkersOK'
    BY <2>u DEF Types, JobOf, StepsOK, WorkersOK
  <2>1. Types'
    BY <2>j, <2>m, <2>r, <2>u, <2>f, <2>t DEF Types
  <2>2. OnePlace'
    BY <2>j, <2>m, <2>r, <2>u, <2>f, <2>t DEF OnePlace, Types
  <2>3. Stored'
    BY <2>j, <2>m, <2>r, <2>u, <2>f, <2>t DEF Stored, Types
  <2>4. Earned'
    BY <2>j, <2>m, <2>r, <2>u, <2>f, <2>t DEF Earned, WorkersOK, Types
  <2>5. Undisturbed'
    BY <2>j, <2>m, <2>r, <2>u, <2>f, <2>t DEF Undisturbed, WorkersOK, Types
  <2> QED BY <2>1, <2>2, <2>3, <2>4, <2>5
<1>22. ASSUME NEW c \in Requests, CancelRq(c) PROVE IInv'
  <2> USE <1>22 DEF CancelRq
  <2>j. /\ request[c].job \in Jobs /\ request[c].job # NoJob
        /\ ~Untouched(request[c].job) /\ rq[request[c].job] # "None"
    BY JobsAssumption DEF Types, Untouched, RequestsOK, Stored
  <2>m. RequestsOK' /\ \A k \in Jobs : Untouched(k)' <=> Untouched(k)
    BY <2>j, RequestsKeepJobs DEF RequestPlaces, Types
  <2>s. /\ rq' \in [Jobs -> RqStatus]
        /\ \A k \in Jobs : rq'[k] = IF k = request[c].job THEN "CANCELED" ELSE rq[k]
    BY <2>j, SetRqKeeps DEF RqStatus, Types
  <2>q. /\ queue' \in Seq(Jobs) 
        /\ \A k \in Jobs : k = request[c].job => ~Queued(k)'
        /\ \A i, k \in 1..Len(queue') : queue'[i] = queue'[k] => i = k
        /\ \A k \in Jobs : Queued(k)' => Queued(k)
    <3>1. CASE rq[request[c].job] = "CANCELED"
      <4>1. queue' = queue /\ ~Queued(request[c].job)
        BY <2>j, <3>1 DEF Stored
      <4> QED BY <4>1 DEF Queued, OnePlace, Types
    <3>2. CASE rq[request[c].job] # "CANCELED"
      <4>1. queue' = RemoveFirst(queue, request[c].job)
        BY <3>2
      <4>2. queue \in Seq(Jobs) /\ \A i, k \in 1..Len(queue) : queue[i] = queue[k] => i = k
        BY DEF Types, OnePlace
      <4>3. /\ queue' \in Seq(Jobs)
            /\ \A i \in 1..Len(queue') : /\ queue'[i] # request[c].job
                                        /\ \E k \in 1..Len(queue) : queue'[i] = queue[k]
            /\ \A i, k \in 1..Len(queue') : queue'[i] = queue'[k] => i = k
        BY <2>j, <4>1, <4>2, RemoveOnce
      <4> QED BY <4>3 DEF Queued
    <3> QED BY <3>1, <3>2
  <2>u. row' = row /\ steps' = steps /\ worker' = worker /\ stops' = stops
    OBVIOUS
  <2>f. \A k \in Jobs :
           /\ Unstarted(k)' <=> Unstarted(k)
           /\ AllWell(k)' <=> AllWell(k)
           /\ LastRuns(k)' <=> LastRuns(k)
           /\ Completed(k)' <=> Completed(k)
           /\ Held(k)' <=> Held(k)
    BY <2>u DEF Unstarted, AllWell, LastRuns, Completed, Held
  <2>t. StepsOK' /\ WorkersOK'
    BY <2>u DEF Types, JobOf, StepsOK, WorkersOK
  <2>1. Types'
    BY <2>j, <2>m, <2>s, <2>q, <2>u, <2>f, <2>t DEF Types
  <2>2. OnePlace'
    BY <2>j, <2>m, <2>s, <2>q, <2>u, <2>f, <2>t DEF OnePlace, Types
  <2>3. Stored'
    BY <2>j, <2>m, <2>s, <2>q, <2>u, <2>f, <2>t DEF Stored, Types
  <2>4. Earned'
    BY <2>j, <2>m, <2>s, <2>q, <2>u, <2>f, <2>t DEF Earned, WorkersOK, Types
  <2>5. Undisturbed'
    BY <2>j, <2>m, <2>s, <2>q, <2>u, <2>f, <2>t DEF Undisturbed, WorkersOK, Types
  <2> QED BY <2>1, <2>2, <2>3, <2>4, <2>5
<1>23. CASE UNCHANGED vars
  <2>1. row' = row /\ steps' = steps /\ rq' = rq /\ queue' = queue /\ worker' = worker
        /\ request' = request /\ stops' = stops /\ faults' = faults
    BY <1>23 DEF vars
  <2> QED BY <2>1 DEF Types, OnePlace, Stored, Earned, Undisturbed, StepsOK, WorkersOK, RequestsOK,
                      Queued, Held, Untouched, Unstarted, AllWell, LastRuns, Completed
<1> QED BY <1>1, <1>2, <1>3, <1>4, <1>5, <1>6, <1>7, <1>8, <1>9, <1>10, <1>11,
       <1>12, <1>13, <1>14, <1>15, <1>16, <1>17, <1>18, <1>19, <1>20, <1>21, <1>22, <1>23
     DEF Next, WorkerStep, RequestStep

LEMMA InitInvariant == Init => IInv
<1> SUFFICES ASSUME Init PROVE IInv
  OBVIOUS
<1> USE JobsAssumption DEF Init, Idle, NoRequest, NoRow
<1>1. /\ queue \in Seq(Jobs) /\ Len(queue) = 0
      /\ \A j \in Jobs : steps[j] \in Seq({"Running"} \cup Terminal) /\ Len(steps[j]) = 0
  BY EmptySeq
<1>2. \A j \in Jobs : ~Queued(j) /\ ~Held(j) /\ Untouched(j) /\ Unstarted(j)
  BY <1>1 DEF Queued, Held, Untouched, Unstarted
<1>3. StepsOK
  BY <1>1 DEF StepsOK
<1>4. WorkersOK
  BY DEF WorkersOK, WorkerPlaces, JobOf
<1>5. RequestsOK
  BY DEF RequestsOK, RequestPlaces, Row, RowStatus
<1>6. Types
  BY <1>1, <1>3, <1>4, <1>5 DEF Types, Row, RowStatus, RqStatus
<1>7. OnePlace
  BY <1>1, <1>2 DEF OnePlace, JobOf
<1>8. Stored /\ Earned /\ Undisturbed
  BY <1>2 DEF Stored, Earned, Undisturbed, JobOf
<1> QED BY <1>6, <1>7, <1>8 DEF IInv

LEMMA Invariant == Spec => []IInv
BY InitInvariant, StepInvariant, PTL DEF Spec

-----------------------------------------------------------------------------
(* What the invariant is for.                                              *)

\* What press reads as Success was earned: every step of the job has a row
\* and none of them failed (StatusFromRq, to_dict).
THEOREM SuccessIsEarned == Spec => []ReportedSuccessMeansCompleted
<1>1. IInv => ReportedSuccessMeansCompleted
  <2> SUFFICES ASSUME IInv, NEW j \in Jobs, Reported(j) = "Success"
               PROVE  steps[j] = [i \in 1..NumSteps |-> "Success"]
    BY DEF ReportedSuccessMeansCompleted
  <2>1. row[j].status = "Success" \/ rq[j] = "FINISHED"
    BY DEF Reported, StatusFromRq, Terminal
  <2>2. Completed(j)
    BY <2>1 DEF IInv, Earned
  <2>3. steps[j] \in Seq({"Running"} \cup Terminal)
    BY DEF IInv, Types, StepsOK
  <2>4. steps[j] = [i \in 1..Len(steps[j]) |-> steps[j][i]]
    BY <2>3
  <2> QED BY <2>2, <2>4 DEF Completed, AllWell
<1> QED BY <1>1, Invariant, PTL

\* A set without two different elements has at most one.
LEMMA AtMostOne ==
    ASSUME NEW S, \A x, y \in S : x = y
    PROVE  Cardinality(S) \in {0, 1} /\ (S = {} => Cardinality(S) = 0)
<1>1. CASE S = {}
  BY <1>1, FS_EmptySet
<1>2. ASSUME NEW x \in S PROVE S = {x} /\ Cardinality(S) = 1
  <2>1. S = {x}
    BY <1>2
  <2> QED BY <2>1, FS_Singleton
<1> QED BY <1>1, <1>2

\* A job waits once in RQ's queue or is with one worker, and every store
\* keeps its type, whatever fails and whoever cancels.
THEOREM JobsRunOnce == Spec => []QueueIsSound
<1>1. IInv => TypeOK
  <2> SUFFICES ASSUME IInv PROVE TypeOK
    OBVIOUS
  <2> USE DEF IInv, Types, JobOf
  <2>1. \A j \in Jobs : steps[j] \in BoundedSeq({"Running"} \cup Terminal, NumSteps)
    BY Bounded, JobsAssumption DEF StepsOK
  <2>2. \A i \in 1..Len(queue) : queue[i] \in Jobs
    BY ElementOfSeq
  <2>3. \A w \in Workers : worker[w] = Idle \/ JobOf(w) \in Jobs
    BY DEF WorkersOK, Idle
  <2>4. \A c \in Requests : request[c] = NoRequest \/ request[c].job \in Jobs
    BY DEF RequestsOK
  <2> QED BY <2>1, <2>2, <2>3, <2>4 DEF TypeOK
<1>2. IInv => RunsOnce
  <2> SUFFICES ASSUME IInv, NEW j \in Jobs
               PROVE  Cardinality({i \in 1..Len(queue) : queue[i] = j})
                          + Cardinality({w \in Workers : JobOf(w) = j}) <= 1
    BY DEF RunsOnce
  <2> DEFINE Q == {i \in 1..Len(queue) : queue[i] = j}
             R == {w \in Workers : JobOf(w) = j}
  <2>1. \A i, k \in Q : i = k
    BY DEF IInv, OnePlace
  <2>2. \A v, w \in R : v = w
    BY JobsAssumption DEF IInv, OnePlace
  <2>3. Q = {} \/ R = {}
    BY DEF IInv, OnePlace, Queued, Held, JobOf
  <2> HIDE DEF Q, R
  <2>4. Cardinality(Q) + Cardinality(R) <= 1
    BY <2>1, <2>2, <2>3, AtMostOne
  <2> QED BY <2>4 DEF Q, R
<1>3. IInv => QueueIsSound
  BY <1>1, <1>2 DEF QueueIsSound
<1> QED BY <1>3, Invariant, PTL

\* A worker gets a job from the queue and nowhere else.
LEMMA TakenFromQueue ==
    ASSUME IInv, [Next]_vars, NEW j \in Jobs, ~Held(j), ~Queued(j)
    PROVE  ~Held(j)'
<1> USE DEF JobOf
<1>1. ASSUME NEW w \in Workers, Pop(w) PROVE ~Held(j)'
  <2>1. queue \in Seq(Jobs) /\ queue # <<>>
    BY <1>1 DEF Pop, IInv, Types
  <2>2. Len(queue) \in Nat /\ 1 \in 1..Len(queue) /\ Head(queue) = queue[1]
    BY <2>1, EmptySeq, LenProperties, HeadTailProperties
  <2>3. \A v \in Workers : worker'[v].job = IF v = w THEN Head(queue) ELSE worker[v].job
    BY <1>1 DEF Pop, IInv, Types, WorkersOK
  <2> QED BY <2>2, <2>3 DEF Held, Queued
<1>2. ASSUME \A v \in Workers : worker'[v].job \in {worker[v].job, NoJob} PROVE ~Held(j)'
  BY <1>2, JobsAssumption DEF Held
<1>3. ASSUME worker' = worker PROVE ~Held(j)'
  BY <1>3, <1>2
<1>4. ASSUME NEW w \in Workers, NEW place, Goto(w, place) PROVE ~Held(j)'
  BY <1>4, <1>2 DEF Goto, IInv, Types, WorkersOK
<1>5. ASSUME NEW w \in Workers, Release(w) PROVE ~Held(j)'
  BY <1>5, <1>2 DEF Release, Idle, IInv, Types, WorkersOK
<1>6. ASSUME NEW w \in Workers, WorkerStep(w) \/ SaveRaises(w) \/ KillHorse(w) \/ KillWorker(w)
      PROVE  ~Held(j)'
  BY <1>6, <1>1, <1>4, <1>5
     DEF WorkerStep, Begin, StartRow, StartStep, EndStep, BodyRaises, SaveSuccess, SaveFailure,
         Finish, SaveRaises, KillHorse, KillWorker
<1>7. ASSUME NEW k \in Jobs, EnqueueRow(k) \/ EnqueueCall(k) \/ CleanRegistry(k) \/ HandleStop(k)
      PROVE  ~Held(j)'
  BY <1>7, <1>3, <1>5 DEF EnqueueRow, EnqueueCall, CleanRegistry, HandleStop
<1>8. ASSUME NEW c \in Requests, RequestStep(c) \/ \E k \in Jobs : LoadJob(c, k)
      PROVE  ~Held(j)'
  BY <1>8, <1>3
     DEF RequestStep, CheckStarted, SendStop, SaveStopped, CancelRq, SaveCanceled, LoadJob
<1>9. CASE UNCHANGED vars
  BY <1>9, <1>3 DEF vars
<1> QED BY <1>6, <1>7, <1>8, <1>9 DEF Next

\* What the row and RQ say of a job that no request is about stays, once it
\* is final.
LEMMA FinalStays ==
    ASSUME IInv, [Next]_vars, NEW j \in Jobs, Untouched(j)
    PROVE  /\ row[j].status \in Terminal => row'[j].status = row[j].status
           /\ row[j].status \notin Terminal /\ rq[j] \in {"FINISHED", "FAILED"} =>
                 row'[j].status = row[j].status /\ rq'[j] = rq[j]
<1> DEFINE Goal ==
        /\ row[j].status \in Terminal => row'[j].status = row[j].status
        /\ row[j].status \notin Terminal /\ rq[j] \in {"FINISHED", "FAILED"} =>
              row'[j].status = row[j].status /\ rq'[j] = rq[j]
<1> USE DEF IInv, Types, JobOf, Terminal
<1>1. ASSUME row' = row \/ \E k \in Jobs \ {j} : \E r : row' = [row EXCEPT ![k] = r],
             rq' = rq \/ \E k \in Jobs \ {j} : \E s : rq' = [rq EXCEPT ![k] = s]
      PROVE  Goal
  BY <1>1
<1>2. ASSUME NEW w \in Workers, JobOf(w) # j, JobOf(w) # NoJob,
             WorkerStep(w) \/ SaveRaises(w) \/ KillHorse(w) \/ KillWorker(w)
      PROVE  Goal
  BY <1>1, <1>2
     DEF WorkerStep, Pop, Begin, StartRow, StartStep, EndStep, BodyRaises, SaveSuccess, SaveFailure,
         Finish, SaveRaises, KillHorse, KillWorker, Save, SetRq, WorkersOK
<1>3. ASSUME NEW w \in Workers, JobOf(w) = j, ~Pop(w),
             WorkerStep(w) \/ SaveRaises(w) \/ KillHorse(w) \/ KillWorker(w)
      PROVE  Goal
  <2>1. j # NoJob /\ worker[w].at # "idle"
    BY <1>3, JobsAssumption DEF WorkersOK
  <2>2. /\ rq[j] \in {"QUEUED", "STARTED"}
        /\ row[j].status \in Terminal => worker[w].at \in {"returned", "raised"}
    BY <1>3, <2>1 DEF Undisturbed, WorkersOK, WorkerPlaces
  <2>3. row' = row \/ worker[w].at \in {"begun", "body", "raising"}
    BY <1>3
       DEF WorkerStep, Begin, StartRow, StartStep, EndStep, BodyRaises, SaveSuccess, SaveFailure,
           Finish, SaveRaises, KillHorse, KillWorker, At
  <2> QED BY <2>2, <2>3
<1>4. ASSUME NEW w \in Workers, Pop(w) PROVE Goal
  BY <1>1, <1>4 DEF Pop
<1>5. ASSUME NEW k \in Jobs, EnqueueRow(k) \/ EnqueueCall(k) \/ CleanRegistry(k) \/ HandleStop(k)
      PROVE  Goal
  <2>1. CASE k # j
    <3>1. EnqueueRow(k) => Goal
      BY <1>1, <2>1 DEF EnqueueRow
    <3>2. EnqueueCall(k) \/ CleanRegistry(k) \/ HandleStop(k) => Goal
      BY <1>1, <2>1 DEF EnqueueCall, CleanRegistry, HandleStop, SetRq
    <3> QED BY <1>5, <3>1, <3>2
  <2>2. CASE k = j
    <3>1. EnqueueRow(j) => Goal
      BY DEF EnqueueRow, NoRow, Stored
    <3>2. EnqueueCall(j) \/ CleanRegistry(j) => Goal
      BY DEF EnqueueCall, CleanRegistry
    <3>3. ~HandleStop(j)
      BY DEF HandleStop, Undisturbed
    <3> QED BY <1>5, <2>2, <3>1, <3>2, <3>3
  <2> QED BY <2>1, <2>2
<1>6. ASSUME NEW c \in Requests, RequestStep(c) \/ \E k \in Jobs : LoadJob(c, k) PROVE Goal
  <2>1. request[c].job # j /\ request[c].job \in Jobs \cup {NoJob}
    BY DEF Untouched, RequestsOK
  <2>2. CASE request[c].job = NoJob
    BY <1>1, <1>6, <2>2
       DEF RequestStep, CheckStarted, SendStop, SaveStopped, CancelRq, SaveCanceled, LoadJob, RequestsOK
  <2>3. CASE request[c].job \in Jobs
    BY <1>1, <1>6, <2>1, <2>3
       DEF RequestStep, CheckStarted, SendStop, SaveStopped, CancelRq, SaveCanceled, LoadJob,
           Save, SetRq
  <2> QED BY <2>1, <2>2, <2>3
<1>7. CASE UNCHANGED vars
  BY <1>1, <1>7 DEF vars
<1> QED
  <2>1. ASSUME NEW w \in Workers, WorkerStep(w) \/ SaveRaises(w) \/ KillHorse(w) \/ KillWorker(w)
        PROVE  Goal
    <3>1. Pop(w) \/ worker[w].at # "idle"
      BY <2>1
         DEF WorkerStep, Begin, StartRow, StartStep, EndStep, BodyRaises, SaveSuccess, SaveFailure,
             Finish, SaveRaises, KillHorse, KillWorker, At, InHorse
    <3>2. worker[w].at # "idle" => JobOf(w) # NoJob
      BY DEF WorkersOK
    <3>3. Pop(w) => Goal
      BY <1>4
    <3> QED BY <1>2, <1>3, <2>1, <3>1, <3>2, <3>3
  <2> QED BY <2>1, <1>5, <1>6, <1>7 DEF Next

\* A cancel request keeps a job that waits from running, and nothing else
\* replaces a final status: no crash, no save of a worker from its copy of
\* the row and no verdict of RQ does (cancel_or_stop, get_status_from_rq).
THEOREM CancelsAreRespected == Spec => CancelIsRespected
<1>1. ASSUME IInv, [Next]_vars, NEW j \in Jobs, rq[j] = "CANCELED", ~Held(j)
      PROVE  ~Held(j)'
  BY <1>1, TakenFromQueue DEF IInv, Stored
<1>2. ASSUME IInv, [Next]_vars, NEW j \in Jobs, Reported(j) \in Terminal,
             \A c \in Requests : request[c].job # j
      PROVE  Reported(j)' = Reported(j)
  <2>1. Untouched(j) /\ rq[j] \notin {"CANCELED", "STOPPED"}
    BY <1>2 DEF Untouched, IInv, Undisturbed
  <2>2. /\ row[j].status \in Terminal => row'[j].status = row[j].status
        /\ row[j].status \notin Terminal /\ rq[j] \in {"FINISHED", "FAILED"} =>
              row'[j].status = row[j].status /\ rq'[j] = rq[j]
    BY <1>2, <2>1, FinalStays
  <2>3. CASE row[j].status \in Terminal
    BY <2>2, <2>3 DEF Reported
  <2>4. CASE row[j].status \notin Terminal
    <3>1. StatusFromRq(j) \in Terminal
      BY <1>2, <2>4 DEF Reported
    <3>2. rq[j] \in {"FINISHED", "FAILED"}
      BY <2>1, <3>1 DEF StatusFromRq, Terminal
    <3>3. row'[j].status = row[j].status /\ rq'[j] = rq[j]
      BY <2>2, <2>4, <3>2
    <3> QED BY <3>3 DEF Reported, StatusFromRq
  <2> QED BY <2>3, <2>4
<1>3. ASSUME IInv, [Next]_vars
      PROVE  /\ \A j \in Jobs : rq[j] = "CANCELED" /\ ~Held(j) => ~Held(j)'
             /\ \A j \in Jobs : Reported(j) \in Terminal /\ (\A c \in Requests : request[c].job # j)
                    => Reported(j)' = Reported(j)
  BY <1>3, <1>1, <1>2
<1>4. Spec => CanceledInQueueNeverRuns
  BY <1>3, Invariant, PTL DEF Spec, CanceledInQueueNeverRuns
<1>5. Spec => OnlyCancelRevokes
  BY <1>3, Invariant, PTL DEF Spec, OnlyCancelRevokes
<1> QED BY <1>4, <1>5 DEF CancelIsRespected
=============================================================================
