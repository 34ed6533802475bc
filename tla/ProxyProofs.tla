----------------------------- MODULE ProxyProofs -----------------------------
(***************************************************************************)
(* Proofs about a proxy server.  The first part is about the reload        *)
(* manager, for any set of requests, batch size, number of NGINX workers,  *)
(* and any number and kind of disruptions.  The second is about the jobs   *)
(* on the configuration directory with the manager's loads beside them,    *)
(* for any set of upstreams and jobs, any kinds of jobs, and any number of *)
(* failures.                                                               *)
(***************************************************************************)
EXTENDS NginxReloadManager, ProxyReload,
        SequenceTheorems, FiniteSetTheorems, TLAPS

\* lrange returns a front of the list.
LEMMA LRangeFront ==
    ASSUME NEW S, NEW list \in Seq(S), NEW n \in Nat
    PROVE  /\ LRange(list, n) \in Seq(S)
           /\ LRange(list, n) = SubSeq(list, 1, Len(LRange(list, n)))
<1> DEFINE k == Shorter(Len(list), n + 1)
<1>1. k \in Nat /\ k <= Len(list)
  BY LenProperties DEF Shorter
<1>2. \A i \in 1..k : list[i] \in S
  BY <1>1, ElementOfSeq, LenProperties
<1>3. SubSeq(list, 1, k) \in Seq(S) /\ Len(SubSeq(list, 1, k)) = k
  <2> HIDE DEF k
  <2> QED BY <1>1, <1>2, SubSeqProperties
<1> QED BY <1>3 DEF LRange

\* ltrim keeps entries of the list only.
LEMMA LTrimType ==
    ASSUME NEW S, NEW list \in Seq(S), NEW n \in Nat
    PROVE  LTrim(list, n) \in Seq(S)
<1>1. \A i \in n + 1 .. Len(list) : list[i] \in S
  BY ElementOfSeq, LenProperties
<1>2. Len(list) \in Int /\ n + 1 \in Int
  BY LenProperties
<1> QED BY <1>1, <1>2, SubSeqProperties DEF LTrim

\* Concatenation and append stay within the element set.
LEMMA GrowType ==
    ASSUME NEW S, NEW s \in Seq(S), NEW t \in Seq(S), NEW e \in S
    PROVE  s \o t \in Seq(S) /\ Append(s, e) \in Seq(S)
BY ConcatProperties, AppendProperties

-----------------------------------------------------------------------------
(* The inductive invariant.                                                *)

\* Where the manager is inside a handler, and what its locals hold there.
Position ==
    /\ ~Answering => marked = 0
    /\ step = "signal" => state = "RELOAD_PENDING"
    /\ step \in {"trim", "move", "claim"} => state = "FETCH_JOBS"

\* Only changes that were made are queued, generated or loaded, and the
\* requests being answered with Success are among those loaded.
ChangesFlow ==
    /\ \A r \in Requests : job[r] = "idle" <=> r \notin applied
    /\ live \subseteq conf
    /\ conf \subseteq applied
    /\ pending \in Seq(applied)
    /\ processing \in Seq(applied)
    /\ fetched \in Seq(applied)
    /\ jobIds \in Seq(applied)
    /\ step = "signal" => jobIds \in Seq(conf)
    /\ state = "RELOAD_SUCCESS" => jobIds \in Seq(live)

\* The status key exists before the job of the request is reported done.
StatusWritten ==
    \A r \in Requests : job[r] \in {"queued", "done"} => status[r] # "None"

IInv ==
    /\ TypeOK
    /\ Position
    /\ ChangesFlow
    /\ StatusWritten
    /\ SuccessMeansLive
    /\ ClaimedJobsAreFront

LEMMA InitInvariant == Init => IInv
<1> SUFFICES ASSUME Init PROVE IInv
  OBVIOUS
<1> USE DEF Init
<1>1. \A S : <<>> \in Seq(S) /\ Len(<<>>) = 0
  BY EmptySeq
<1>2. TypeOK
  <2>1. disruptions \in 0..MaxDisruptions
    BY ConstantsAssumption
  <2>2. job \in [Requests -> JobProgress] /\ status \in [Requests -> ReloadStatus]
    BY DEF JobProgress, ReloadStatus
  <2>3. pending \in Seq(Requests) /\ marked \in 0..Len(jobIds)
    BY <1>1
  <2>4. fetched \in Seq(Requests) /\ jobIds \in Seq(Requests) /\ processing \in Seq(Requests)
    BY <1>1
  <2>5. state \in ManagerState /\ step \in Steps /\ error \in Errors /\ dying \in Nat
    BY DEF ManagerState, Steps, Errors
  <2> QED BY <2>1, <2>2, <2>3, <2>4, <2>5 DEF TypeOK
<1>3. Position
  BY DEF Position
<1>4. ChangesFlow
  BY <1>1 DEF ChangesFlow
<1>5. StatusWritten /\ SuccessMeansLive
  BY DEF StatusWritten, SuccessMeansLive
<1>6. ClaimedJobsAreFront
  BY DEF ClaimedJobsAreFront
<1> QED BY <1>2, <1>3, <1>4, <1>5, <1>6 DEF IInv

LEMMA StepInvariant == IInv /\ [Next]_vars => IInv'
<1> SUFFICES ASSUME IInv, [Next]_vars PROVE IInv'
  OBVIOUS
<1>1. ASSUME NEW r \in Requests, ApplyChange(r) PROVE IInv'
  <2>g. \A s : s \in Seq(applied) => s \in Seq(applied')
    BY <1>1, SeqMonotonic DEF ApplyChange
  <2>1. TypeOK'
    BY <1>1 DEF IInv, ApplyChange, managerVars, queueVars, fields, TypeOK, JobProgress,
       ReloadStatus, ManagerState, Steps, Errors
  <2>2. ChangesFlow'
    BY <1>1, <2>g DEF IInv, ApplyChange, managerVars, queueVars, fields, ChangesFlow,
       TypeOK
  <2>3. StatusWritten'
    BY <1>1 DEF IInv, ApplyChange, managerVars, queueVars, fields, StatusWritten, TypeOK
  <2>4. Position' /\ SuccessMeansLive' /\ ClaimedJobsAreFront'
    BY <1>1 DEF IInv, ApplyChange, managerVars, queueVars, fields, Position, Answering,
       SuccessMeansLive, ChangesFlow, ClaimedJobsAreFront
  <2> QED BY <2>1, <2>2, <2>3, <2>4 DEF IInv
<1>2. ASSUME NEW r \in Requests, PushRequest(r) PROVE IInv'
  <2>g. Append(pending, r) \in Seq(Requests) /\ Append(pending, r) \in Seq(applied)
    BY <1>2, AppendProperties DEF PushRequest, IInv, TypeOK, ChangesFlow
  <2>1. TypeOK'
    BY <1>2, <2>g DEF IInv, PushRequest, managerVars, proxyVars, fields, TypeOK,
       JobProgress, ReloadStatus, ManagerState, Steps, Errors
  <2>2. ChangesFlow'
    BY <1>2, <2>g DEF IInv, PushRequest, managerVars, proxyVars, fields, ChangesFlow,
       TypeOK
  <2>3. StatusWritten'
    BY <1>2 DEF IInv, PushRequest, managerVars, proxyVars, fields, StatusWritten, TypeOK
  <2>4. Position' /\ SuccessMeansLive' /\ ClaimedJobsAreFront'
    BY <1>2 DEF IInv, PushRequest, managerVars, proxyVars, fields, Position, Answering,
       SuccessMeansLive, ChangesFlow, ClaimedJobsAreFront
  <2> QED BY <2>1, <2>2, <2>3, <2>4 DEF IInv
<1>3. ASSUME NEW r \in Requests, SetQueued(r) PROVE IInv'
  <2>1. TypeOK'
    BY <1>3 DEF IInv, SetQueued, managerVars, proxyVars, queueVars, fields, TypeOK,
       JobProgress, ReloadStatus, ManagerState, Steps, Errors
  <2>2. ChangesFlow'
    BY <1>3 DEF IInv, SetQueued, managerVars, proxyVars, queueVars, fields, ChangesFlow,
       TypeOK
  <2>3. StatusWritten'
    BY <1>3 DEF IInv, SetQueued, managerVars, proxyVars, queueVars, fields,
       StatusWritten, TypeOK
  <2>4. SuccessMeansLive'
    BY <1>3 DEF IInv, SetQueued, managerVars, proxyVars, queueVars, fields,
       SuccessMeansLive, ChangesFlow, TypeOK
  <2>5. Position' /\ ClaimedJobsAreFront'
    BY <1>3 DEF IInv, SetQueued, managerVars, proxyVars, queueVars, fields, Position,
       Answering, ClaimedJobsAreFront
  <2> QED BY <2>1, <2>2, <2>3, <2>4, <2>5 DEF IInv
<1>4. ASSUME NEW r \in Requests, FinishJob(r) PROVE IInv'
  <2>1. TypeOK'
    BY <1>4 DEF IInv, FinishJob, managerVars, proxyVars, queueVars, fields, TypeOK,
       JobProgress, ReloadStatus, ManagerState, Steps, Errors
  <2>2. ChangesFlow'
    BY <1>4 DEF IInv, FinishJob, managerVars, proxyVars, queueVars, fields, ChangesFlow,
       TypeOK
  <2>3. StatusWritten'
    BY <1>4 DEF IInv, FinishJob, managerVars, proxyVars, queueVars, fields,
       StatusWritten, TypeOK
  <2>4. Position' /\ SuccessMeansLive' /\ ClaimedJobsAreFront'
    BY <1>4 DEF IInv, FinishJob, managerVars, proxyVars, queueVars, fields, Position,
       Answering, SuccessMeansLive, ChangesFlow, ClaimedJobsAreFront
  <2> QED BY <2>1, <2>2, <2>3, <2>4 DEF IInv
<1>5. ASSUME NEW r \in Requests, FailJob(r) PROVE IInv'
  <2>d. disruptions' \in 0..MaxDisruptions
    BY <1>5, ConstantsAssumption DEF FailJob, Disrupted, IInv, TypeOK
  <2>1. TypeOK'
    BY <1>5, <2>d DEF IInv, FailJob, managerVars, proxyVars, queueVars, fields, TypeOK,
       JobProgress, ReloadStatus, ManagerState, Steps, Errors
  <2>2. ChangesFlow'
    BY <1>5 DEF IInv, FailJob, managerVars, proxyVars, queueVars, fields, ChangesFlow,
       TypeOK
  <2>3. StatusWritten'
    BY <1>5 DEF IInv, FailJob, managerVars, proxyVars, queueVars, fields, StatusWritten,
       TypeOK
  <2>4. Position' /\ SuccessMeansLive' /\ ClaimedJobsAreFront'
    BY <1>5 DEF IInv, FailJob, managerVars, proxyVars, queueVars, fields, Position,
       Answering, SuccessMeansLive, ChangesFlow, ClaimedJobsAreFront
  <2> QED BY <2>1, <2>2, <2>3, <2>4 DEF IInv
<1>6. CASE FetchPending
  <2>g. LRange(pending, BatchSize) \in Seq(Requests) /\ LRange(pending, BatchSize) \in Seq(applied)
    BY LRangeFront, ConstantsAssumption DEF IInv, TypeOK, ChangesFlow
  <2>1. TypeOK'
    BY <1>6, <2>g DEF IInv, FetchPending, outside, proxyVars, queueVars, TypeOK,
       JobProgress, ReloadStatus, ManagerState, Steps, Errors
  <2>2. Position'
    BY <1>6 DEF IInv, FetchPending, outside, proxyVars, queueVars, Position, Answering
  <2>3. ChangesFlow'
    BY <1>6, <2>g DEF IInv, FetchPending, outside, proxyVars, queueVars, ChangesFlow,
       TypeOK
  <2>4. StatusWritten' /\ SuccessMeansLive' /\ ClaimedJobsAreFront'
    BY <1>6 DEF IInv, FetchPending, outside, proxyVars, queueVars, StatusWritten,
       SuccessMeansLive, ChangesFlow, ClaimedJobsAreFront, Answering, Position
  <2> QED BY <2>1, <2>2, <2>3, <2>4 DEF IInv
<1>7. CASE TrimPending
  <2>g. LTrim(pending, Len(fetched)) \in Seq(Requests) /\ LTrim(pending, Len(fetched)) \in Seq(applied)
    BY LTrimType, LenProperties DEF IInv, TypeOK, ChangesFlow
  <2>1. TypeOK'
    BY <1>7, <2>g DEF IInv, TrimPending, fields, proxyVars, TypeOK, JobProgress,
       ReloadStatus, ManagerState, Steps, Errors
  <2>2. Position'
    BY <1>7 DEF IInv, TrimPending, fields, proxyVars, Position, Answering
  <2>3. ChangesFlow'
    BY <1>7, <2>g DEF IInv, TrimPending, fields, proxyVars, ChangesFlow, TypeOK
  <2>4. StatusWritten' /\ SuccessMeansLive' /\ ClaimedJobsAreFront'
    BY <1>7 DEF IInv, TrimPending, fields, proxyVars, StatusWritten, SuccessMeansLive,
       ChangesFlow, ClaimedJobsAreFront, Answering, Position
  <2> QED BY <2>1, <2>2, <2>3, <2>4 DEF IInv
<1>8. CASE MoveToProcessing
  <2>g. processing \o fetched \in Seq(Requests) /\ processing \o fetched \in Seq(applied)
    BY ConcatProperties DEF IInv, TypeOK, ChangesFlow
  <2>1. TypeOK'
    BY <1>8, <2>g DEF IInv, MoveToProcessing, fields, proxyVars, TypeOK, JobProgress,
       ReloadStatus, ManagerState, Steps, Errors
  <2>2. Position'
    BY <1>8 DEF IInv, MoveToProcessing, fields, proxyVars, Position, Answering
  <2>3. ChangesFlow'
    BY <1>8, <2>g DEF IInv, MoveToProcessing, fields, proxyVars, ChangesFlow, TypeOK
  <2>4. ClaimedJobsAreFront'
    BY <1>8 DEF IInv, MoveToProcessing, fields, proxyVars, ClaimedJobsAreFront,
       Answering, Position
  <2>5. StatusWritten' /\ SuccessMeansLive'
    BY <1>8 DEF IInv, MoveToProcessing, fields, proxyVars, StatusWritten,
       SuccessMeansLive, ChangesFlow
  <2> QED BY <2>1, <2>2, <2>3, <2>4, <2>5 DEF IInv
<1>9. CASE ClaimJobs
  <2>e. <<>> \in Seq(Requests) /\ <<>> \in Seq(applied)
    BY EmptySeq
  <2>g. /\ LRange(processing, BatchSize) \in Seq(Requests) /\ LRange(processing, BatchSize) \in Seq(applied)
       /\ LRange(processing, BatchSize) = SubSeq(processing, 1, Len(LRange(processing, BatchSize)))
    BY LRangeFront, ConstantsAssumption DEF Claimed, IInv, TypeOK, ChangesFlow
  <2>m. marked = 0 /\ 0 \in 0..Len(jobIds')
    BY <1>9, <2>g, LenProperties DEF ClaimJobs, Claimed, IInv, Position, Answering
  <2>1. TypeOK'
    BY <1>9, <2>e, <2>g, <2>m DEF IInv, ClaimJobs, Claimed, outside, proxyVars,
       queueVars, TypeOK, JobProgress, ReloadStatus, ManagerState, Steps, Errors
  <2>2. Position'
    BY <1>9, <2>m DEF IInv, ClaimJobs, Claimed, outside, proxyVars, queueVars, Position,
       Answering
  <2>3. ChangesFlow'
    BY <1>9, <2>e, <2>g DEF IInv, ClaimJobs, Claimed, outside, proxyVars, queueVars,
       ChangesFlow, TypeOK
  <2>4. ClaimedJobsAreFront'
    BY <1>9, <2>g DEF IInv, ClaimJobs, Claimed, outside, proxyVars, queueVars,
       ClaimedJobsAreFront, Answering, Position
  <2>5. StatusWritten' /\ SuccessMeansLive'
    BY <1>9 DEF IInv, ClaimJobs, Claimed, outside, proxyVars, queueVars, StatusWritten,
       SuccessMeansLive, ChangesFlow
  <2> QED BY <2>1, <2>2, <2>3, <2>4, <2>5 DEF IInv
<1>10. CASE SkipReload
  <2>1. TypeOK'
    BY <1>10 DEF IInv, SkipReload, outside, fields, proxyVars, queueVars, TypeOK,
       JobProgress, ReloadStatus, ManagerState, Steps, Errors
  <2>2. Position'
    BY <1>10 DEF IInv, SkipReload, outside, fields, proxyVars, queueVars, Position,
       Answering
  <2>3. ChangesFlow' /\ StatusWritten' /\ SuccessMeansLive' /\ ClaimedJobsAreFront'
    BY <1>10 DEF IInv, SkipReload, outside, fields, proxyVars, queueVars, ChangesFlow,
       StatusWritten, SuccessMeansLive, ClaimedJobsAreFront, Answering, Position
  <2> QED BY <2>1, <2>2, <2>3 DEF IInv
<1>11. CASE GenerateConfig
  <2>d. disruptions' \in 0..MaxDisruptions
    BY <1>11, ConstantsAssumption DEF GenerateConfig, MayReload, Disrupted, IInv, TypeOK
  <2>1. TypeOK'
    BY <1>11, <2>d DEF IInv, GenerateConfig, MayReload, fields, queueVars, TypeOK,
       JobProgress, ReloadStatus, ManagerState, Steps, Errors
  <2>2. Position'
    BY <1>11 DEF IInv, GenerateConfig, MayReload, fields, queueVars, Position, Answering
  <2>3. ChangesFlow'
    BY <1>11 DEF IInv, GenerateConfig, MayReload, fields, queueVars, ChangesFlow, TypeOK
  <2>4. StatusWritten' /\ SuccessMeansLive' /\ ClaimedJobsAreFront'
    BY <1>11 DEF IInv, GenerateConfig, MayReload, fields, queueVars, StatusWritten,
       SuccessMeansLive, ChangesFlow, ClaimedJobsAreFront, Answering, Position
  <2> QED BY <2>1, <2>2, <2>3, <2>4 DEF IInv
<1>12. CASE GenerateConfigRaises
  <2>d. disruptions' \in 0..MaxDisruptions
    BY <1>12, ConstantsAssumption DEF GenerateConfigRaises, MayReload, Disrupted, IInv,
       TypeOK
  <2>1. TypeOK'
    BY <1>12, <2>d DEF IInv, GenerateConfigRaises, MayReload, outside, proxyVars,
       queueVars, TypeOK, JobProgress, ReloadStatus, ManagerState, Steps, Errors
  <2>2. Position'
    BY <1>12 DEF IInv, GenerateConfigRaises, MayReload, outside, proxyVars, queueVars,
       Position, Answering
  <2>3. ChangesFlow'
    BY <1>12 DEF IInv, GenerateConfigRaises, MayReload, outside, proxyVars, queueVars,
       ChangesFlow, TypeOK
  <2>4. StatusWritten' /\ SuccessMeansLive' /\ ClaimedJobsAreFront'
    BY <1>12 DEF IInv, GenerateConfigRaises, MayReload, outside, proxyVars, queueVars,
       StatusWritten, SuccessMeansLive, ChangesFlow, ClaimedJobsAreFront, Answering,
       Position
  <2> QED BY <2>1, <2>2, <2>3, <2>4 DEF IInv
<1>13. CASE ReloadSucceeds
  <2>d. dying + NumWorkers \in Nat
    BY ConstantsAssumption DEF IInv, TypeOK
  <2>1. TypeOK'
    BY <1>13, <2>d DEF IInv, ReloadSucceeds, fields, queueVars, TypeOK, JobProgress,
       ReloadStatus, ManagerState, Steps, Errors
  <2>2. Position'
    BY <1>13 DEF IInv, ReloadSucceeds, fields, queueVars, Position, Answering
  <2>3. ChangesFlow'
    BY <1>13 DEF IInv, ReloadSucceeds, fields, queueVars, ChangesFlow, TypeOK
  <2>4. SuccessMeansLive'
    BY <1>13 DEF IInv, ReloadSucceeds, fields, queueVars, SuccessMeansLive, ChangesFlow,
       TypeOK
  <2>5. StatusWritten' /\ ClaimedJobsAreFront'
    BY <1>13 DEF IInv, ReloadSucceeds, fields, queueVars, StatusWritten,
       ClaimedJobsAreFront, Answering, Position
  <2> QED BY <2>1, <2>2, <2>3, <2>4, <2>5 DEF IInv
<1>14. CASE ReloadFails
  <2>1. TypeOK'
    BY <1>14 DEF IInv, ReloadFails, outside, proxyVars, queueVars, TypeOK, JobProgress,
       ReloadStatus, ManagerState, Steps, Errors
  <2>2. Position'
    BY <1>14 DEF IInv, ReloadFails, outside, proxyVars, queueVars, Position, Answering
  <2>3. ChangesFlow'
    BY <1>14 DEF IInv, ReloadFails, outside, proxyVars, queueVars, ChangesFlow, TypeOK
  <2>4. StatusWritten' /\ SuccessMeansLive' /\ ClaimedJobsAreFront'
    BY <1>14 DEF IInv, ReloadFails, outside, proxyVars, queueVars, StatusWritten,
       SuccessMeansLive, ChangesFlow, ClaimedJobsAreFront, Answering, Position
  <2> QED BY <2>1, <2>2, <2>3, <2>4 DEF IInv
<1>15. CASE AutoFixConfig
  <2>1. TypeOK'
    BY <1>15 DEF IInv, AutoFixConfig, AutoFixApplies, outside, fields, proxyVars,
       queueVars, TypeOK, JobProgress, ReloadStatus, ManagerState, Steps, Errors
  <2>2. Position'
    BY <1>15 DEF IInv, AutoFixConfig, AutoFixApplies, outside, fields, proxyVars,
       queueVars, Position, Answering
  <2>3. ChangesFlow'
    BY <1>15 DEF IInv, AutoFixConfig, AutoFixApplies, outside, fields, proxyVars,
       queueVars, ChangesFlow, TypeOK
  <2>4. StatusWritten' /\ SuccessMeansLive' /\ ClaimedJobsAreFront'
    BY <1>15 DEF IInv, AutoFixConfig, AutoFixApplies, outside, fields, proxyVars,
       queueVars, StatusWritten, SuccessMeansLive, ChangesFlow, ClaimedJobsAreFront,
       Answering, Position
  <2> QED BY <2>1, <2>2, <2>3, <2>4 DEF IInv
<1>16. CASE MarkNext
  <2>g. jobIds[marked + 1] \in Requests /\ (state = "RELOAD_SUCCESS" => jobIds[marked + 1] \in live)
    BY <1>16, ElementOfSeq, LenProperties DEF MarkNext, IInv, TypeOK, ChangesFlow
  <2>n. marked + 1 \in 0..Len(jobIds)
    BY <1>16, LenProperties DEF MarkNext, IInv, TypeOK
  <2>o. Outcome \in {"Success", "Failure"} /\ (Outcome = "Success" => state = "RELOAD_SUCCESS")
    BY DEF Outcome
  <2>1. TypeOK'
    BY <1>16, <2>g, <2>n, <2>o DEF IInv, MarkNext, proxyVars, queueVars, TypeOK,
       JobProgress, ReloadStatus, ManagerState, Steps, Errors
  <2>2. StatusWritten'
    BY <1>16, <2>g, <2>o DEF IInv, MarkNext, proxyVars, queueVars, StatusWritten, TypeOK
  <2>3. SuccessMeansLive'
    BY <1>16, <2>g, <2>o DEF IInv, MarkNext, proxyVars, queueVars, SuccessMeansLive,
       ChangesFlow, TypeOK
  <2>4. Position' /\ ChangesFlow' /\ ClaimedJobsAreFront'
    BY <1>16 DEF IInv, MarkNext, proxyVars, queueVars, Position, Answering, ChangesFlow,
       ClaimedJobsAreFront
  <2> QED BY <2>1, <2>2, <2>3, <2>4 DEF IInv
<1>17. CASE Cleanup
  <2>g. LTrim(processing, Len(jobIds)) \in Seq(Requests) /\ LTrim(processing, Len(jobIds)) \in Seq(applied)
    BY LTrimType, LenProperties DEF IInv, TypeOK, ChangesFlow
  <2>n. 0 \in 0..Len(jobIds)
    BY LenProperties DEF IInv, TypeOK
  <2>1. TypeOK'
    BY <1>17, <2>g, <2>n DEF IInv, Cleanup, AllMarked, proxyVars, TypeOK, JobProgress,
       ReloadStatus, ManagerState, Steps, Errors
  <2>2. Position'
    BY <1>17 DEF IInv, Cleanup, AllMarked, proxyVars, Position, Answering
  <2>3. ChangesFlow'
    BY <1>17, <2>g DEF IInv, Cleanup, AllMarked, proxyVars, ChangesFlow, TypeOK
  <2>4. ClaimedJobsAreFront'
    BY <1>17 DEF IInv, Cleanup, AllMarked, proxyVars, ClaimedJobsAreFront, Answering,
       Position
  <2>5. StatusWritten' /\ SuccessMeansLive'
    BY <1>17 DEF IInv, Cleanup, AllMarked, proxyVars, StatusWritten, SuccessMeansLive,
       ChangesFlow
  <2> QED BY <2>1, <2>2, <2>3, <2>4, <2>5 DEF IInv
<1>18. CASE Wait
  <2>1. TypeOK'
    BY <1>18 DEF IInv, Wait, outside, fields, proxyVars, queueVars, TypeOK, JobProgress,
       ReloadStatus, ManagerState, Steps, Errors
  <2>2. Position'
    BY <1>18 DEF IInv, Wait, outside, fields, proxyVars, queueVars, Position, Answering
  <2>3. ChangesFlow' /\ StatusWritten' /\ SuccessMeansLive' /\ ClaimedJobsAreFront'
    BY <1>18 DEF IInv, Wait, outside, fields, proxyVars, queueVars, ChangesFlow,
       StatusWritten, SuccessMeansLive, ClaimedJobsAreFront, Answering, Position
  <2> QED BY <2>1, <2>2, <2>3 DEF IInv
<1>19. CASE RedisCommandRaises
  <2>e. <<>> \in Seq(Requests) /\ <<>> \in Seq(applied)
    BY EmptySeq
  <2>n. 0 \in 0..Len(jobIds)
    BY LenProperties DEF IInv, TypeOK
  <2>d. disruptions' \in 0..MaxDisruptions
    BY <1>19, ConstantsAssumption DEF RedisCommandRaises, Disrupted, IInv, TypeOK
  <2>1. TypeOK'
    BY <1>19, <2>e, <2>n, <2>d DEF IInv, RedisCommandRaises, outside, proxyVars,
       queueVars, TypeOK, JobProgress, ReloadStatus, ManagerState, Steps, Errors
  <2>2. Position'
    BY <1>19 DEF IInv, RedisCommandRaises, outside, proxyVars, queueVars, Position,
       Answering
  <2>3. ChangesFlow'
    BY <1>19, <2>e DEF IInv, RedisCommandRaises, outside, proxyVars, queueVars,
       ChangesFlow, TypeOK
  <2>4. StatusWritten' /\ SuccessMeansLive' /\ ClaimedJobsAreFront'
    BY <1>19 DEF IInv, RedisCommandRaises, outside, proxyVars, queueVars, StatusWritten,
       SuccessMeansLive, ChangesFlow, ClaimedJobsAreFront, Answering, Position
  <2> QED BY <2>1, <2>2, <2>3, <2>4 DEF IInv
<1>20. CASE RequestExit
  <2>d. disruptions' \in 0..MaxDisruptions
    BY <1>20, ConstantsAssumption DEF RequestExit, Disrupted, IInv, TypeOK
  <2>1. TypeOK'
    BY <1>20, <2>d DEF IInv, RequestExit, outside, proxyVars, queueVars, TypeOK,
       JobProgress, ReloadStatus, ManagerState, Steps, Errors
  <2>2. Position' /\ ChangesFlow' /\ StatusWritten' /\ SuccessMeansLive' /\ ClaimedJobsAreFront'
    BY <1>20 DEF IInv, RequestExit, outside, proxyVars, queueVars, Position, Answering,
       ChangesFlow, StatusWritten, SuccessMeansLive, ClaimedJobsAreFront
  <2> QED BY <2>1, <2>2 DEF IInv
<1>21. CASE Exit
  <2>e. <<>> \in Seq(Requests) /\ <<>> \in Seq(applied) /\ 0 \in 0..Len(<<>>)
    BY EmptySeq
  <2>1. TypeOK'
    BY <1>21, <2>e DEF IInv, Exit, BetweenHandlers, ManagerStopped, outside, proxyVars,
       queueVars, TypeOK, JobProgress, ReloadStatus, ManagerState, Steps, Errors
  <2>2. Position'
    BY <1>21 DEF IInv, Exit, BetweenHandlers, ManagerStopped, outside, proxyVars,
       queueVars, Position, Answering
  <2>3. ChangesFlow'
    BY <1>21, <2>e DEF IInv, Exit, BetweenHandlers, ManagerStopped, outside, proxyVars,
       queueVars, ChangesFlow, TypeOK
  <2>4. ClaimedJobsAreFront'
    BY <1>21 DEF IInv, Exit, BetweenHandlers, ManagerStopped, outside, proxyVars,
       queueVars, ClaimedJobsAreFront, Answering, Position
  <2>5. StatusWritten' /\ SuccessMeansLive'
    BY <1>21 DEF IInv, Exit, BetweenHandlers, ManagerStopped, outside, proxyVars,
       queueVars, StatusWritten, SuccessMeansLive, ChangesFlow
  <2> QED BY <2>1, <2>2, <2>3, <2>4, <2>5 DEF IInv
<1>22. CASE Crash
  <2>e. <<>> \in Seq(Requests) /\ <<>> \in Seq(applied) /\ 0 \in 0..Len(<<>>)
    BY EmptySeq
  <2>d. disruptions' \in 0..MaxDisruptions
    BY <1>22, ConstantsAssumption DEF Crash, Disrupted, IInv, TypeOK
  <2>1. TypeOK'
    BY <1>22, <2>e, <2>d DEF IInv, Crash, ManagerStopped, outside, proxyVars, queueVars,
       TypeOK, JobProgress, ReloadStatus, ManagerState, Steps, Errors
  <2>2. Position'
    BY <1>22 DEF IInv, Crash, ManagerStopped, outside, proxyVars, queueVars, Position,
       Answering
  <2>3. ChangesFlow'
    BY <1>22, <2>e DEF IInv, Crash, ManagerStopped, outside, proxyVars, queueVars,
       ChangesFlow, TypeOK
  <2>4. ClaimedJobsAreFront'
    BY <1>22 DEF IInv, Crash, ManagerStopped, outside, proxyVars, queueVars,
       ClaimedJobsAreFront, Answering, Position
  <2>5. StatusWritten' /\ SuccessMeansLive'
    BY <1>22 DEF IInv, Crash, ManagerStopped, outside, proxyVars, queueVars,
       StatusWritten, SuccessMeansLive, ChangesFlow
  <2> QED BY <2>1, <2>2, <2>3, <2>4, <2>5 DEF IInv
<1>23. CASE Start
  <2>1. TypeOK'
    BY <1>23 DEF IInv, Start, outside, fields, proxyVars, queueVars, TypeOK,
       JobProgress, ReloadStatus, ManagerState, Steps, Errors
  <2>2. Position'
    BY <1>23 DEF IInv, Start, outside, fields, proxyVars, queueVars, Position, Answering
  <2>3. ChangesFlow' /\ StatusWritten' /\ SuccessMeansLive' /\ ClaimedJobsAreFront'
    BY <1>23 DEF IInv, Start, outside, fields, proxyVars, queueVars, ChangesFlow,
       StatusWritten, SuccessMeansLive, ClaimedJobsAreFront, Answering, Position
  <2> QED BY <2>1, <2>2, <2>3 DEF IInv
<1>24. CASE WorkerExits
  <2>1. TypeOK'
    BY <1>24 DEF IInv, WorkerExits, managerVars, queueVars, fields, TypeOK, JobProgress,
       ReloadStatus, ManagerState, Steps, Errors
  <2>2. Position' /\ ChangesFlow' /\ StatusWritten' /\ SuccessMeansLive' /\ ClaimedJobsAreFront'
    BY <1>24 DEF IInv, WorkerExits, managerVars, queueVars, fields, Position, Answering,
       ChangesFlow, StatusWritten, SuccessMeansLive, ClaimedJobsAreFront
  <2> QED BY <2>1, <2>2 DEF IInv
<1>25. CASE UNCHANGED vars
  BY <1>25 DEF vars, outside, fields, proxyVars, queueVars, managerVars, IInv, TypeOK,
     Position, ChangesFlow, StatusWritten, SuccessMeansLive, ClaimedJobsAreFront,
     Answering
<1> QED
  BY <1>1, <1>2, <1>3, <1>4, <1>5, <1>6, <1>7, <1>8, <1>9, <1>10, <1>11, <1>12, <1>13,
     <1>14, <1>15, <1>16, <1>17, <1>18, <1>19, <1>20, <1>21, <1>22, <1>23, <1>24, <1>25
  DEF Next, JobStep, ManagerStep, Disruption

-----------------------------------------------------------------------------
(* The two lists and the draining workers, on top of IInv.                 *)

Once(s)     == \A i, j \in 1..Len(s) : s[i] = s[j] => i = j
Apart(s, t) == \A i \in 1..Len(s), j \in 1..Len(t) : s[i] # t[j]
Pushed(s)   == \A i \in 1..Len(s) : job[s[i]] \notin {"idle", "applied"}

\* A request that was pushed is at one place of one list, also on its way from
\* the one to the other; what _dequeue_jobs will drop from the first is still
\* its front, whatever was pushed behind it.
InOnePlace ==
    /\ Once(pending) /\ Once(processing) /\ Apart(pending, processing)
    /\ Pushed(pending) /\ Pushed(processing)
    /\ step = "trim" => /\ Len(fetched) <= Len(pending)
                        /\ \A i \in 1..Len(fetched) : fetched[i] = pending[i]
    /\ step = "move" => /\ Once(fetched) /\ Pushed(fetched)
                        /\ Apart(fetched, pending) /\ Apart(fetched, processing)

\* The requests that _update_status_and_cleanup has gone through.
AnsweredSoFar == \A i \in 1..marked : jobIds[i] \in answered

\* A reload that is about to be signalled was allowed when fewer workers drained.
Draining ==
    /\ DyingWorkersBounded
    /\ step = "signal" => dying <= Shorter(NumWorkers, 3) + NumWorkers * disruptions

QueueInv == InOnePlace /\ AnsweredSoFar /\ Draining

\* The entries of what lrange returns and of what ltrim leaves.
LEMMA Entries ==
    ASSUME NEW S, NEW list \in Seq(S), NEW n \in Nat
    PROVE  /\ Len(LRange(list, n)) \in Nat /\ Len(LRange(list, n)) <= Len(list)
           /\ \A i \in 1..Len(LRange(list, n)) : LRange(list, n)[i] = list[i]
           /\ Len(LTrim(list, n)) = IF n <= Len(list) THEN Len(list) - n ELSE 0
           /\ \A i \in 1..Len(LTrim(list, n)) :
                 i + n \in 1..Len(list) /\ LTrim(list, n)[i] = list[i + n]
<1>1. Len(list) \in Nat /\ \A i \in 1..Len(list) : list[i] \in S
  BY ElementOfSeq, LenProperties
<1>2. /\ Len(LRange(list, n)) \in Nat /\ Len(LRange(list, n)) <= Len(list)
      /\ \A i \in 1..Len(LRange(list, n)) : LRange(list, n)[i] = list[i]
  <2> DEFINE k == Shorter(Len(list), n + 1)
  <2>1. k \in Nat /\ k <= Len(list)
    BY <1>1 DEF Shorter
  <2> HIDE DEF k
  <2>2. Len(SubSeq(list, 1, k)) = k /\ \A i \in 1..k : SubSeq(list, 1, k)[i] = list[i]
    <3>1. \A i \in 1..k : list[i] \in S
      BY <1>1, <2>1
    <3>2. /\ Len(SubSeq(list, 1, k)) = IF 1 <= k THEN k - 1 + 1 ELSE 0
          /\ \A i \in 1..k - 1 + 1 : SubSeq(list, 1, k)[i] = list[1 + i - 1]
      BY <2>1, <3>1, SubSeqProperties
    <3> QED BY <2>1, <3>2
  <2> QED BY <2>1, <2>2 DEF LRange, k
<1>3. /\ Len(LTrim(list, n)) = IF n <= Len(list) THEN Len(list) - n ELSE 0
      /\ \A i \in 1..Len(LTrim(list, n)) :
            i + n \in 1..Len(list) /\ LTrim(list, n)[i] = list[i + n]
  <2>1. \A i \in n + 1 .. Len(list) : list[i] \in S
    BY <1>1
  <2>2. /\ Len(LTrim(list, n)) = IF n + 1 <= Len(list) THEN Len(list) - (n + 1) + 1 ELSE 0
        /\ \A i \in 1..Len(list) - (n + 1) + 1 :
              LTrim(list, n)[i] = list[(n + 1) + i - 1]
    BY <1>1, <2>1, SubSeqProperties DEF LTrim
  <2>3. ASSUME NEW i \in 1..Len(LTrim(list, n))
        PROVE  i + n \in 1..Len(list) /\ LTrim(list, n)[i] = list[i + n]
    <3>1. i \in 1..Len(list) - (n + 1) + 1 /\ i + n \in 1..Len(list)
      BY <1>1, <2>2
    <3>2. LTrim(list, n)[i] = list[(n + 1) + i - 1] /\ (n + 1) + i - 1 = i + n
      BY <2>2, <3>1
    <3> QED BY <3>1, <3>2
  <2> QED BY <1>1, <2>2, <2>3
<1> QED BY <1>2, <1>3

\* The entries of two lists one after the other.
LEMMA Joined ==
    ASSUME NEW S, NEW s \in Seq(S), NEW t \in Seq(S)
    PROVE  /\ Len(s) \in Nat /\ Len(t) \in Nat /\ Len(s \o t) = Len(s) + Len(t)
           /\ \A i \in 1..Len(s \o t) :
                 \/ i \in 1..Len(s) /\ (s \o t)[i] = s[i]
                 \/ i - Len(s) \in 1..Len(t) /\ (s \o t)[i] = t[i - Len(s)]
           /\ \A i \in 1..Len(s) : i \in 1..Len(s \o t) /\ (s \o t)[i] = s[i]
           /\ \A j \in 1..Len(t) : j + Len(s) \in 1..Len(s \o t) /\ (s \o t)[j + Len(s)] = t[j]
<1> DEFINE st == s \o t
<1>1. Len(s) \in Nat /\ Len(t) \in Nat
  BY LenProperties
<1>2. /\ Len(st) = Len(s) + Len(t)
      /\ \A i \in 1..Len(s) + Len(t) : st[i] = IF i <= Len(s) THEN s[i] ELSE t[i - Len(s)]
  BY ConcatProperties
<1> HIDE DEF st
<1>3. ASSUME NEW i \in 1..Len(st)
      PROVE  \/ i \in 1..Len(s) /\ st[i] = s[i]
             \/ i - Len(s) \in 1..Len(t) /\ st[i] = t[i - Len(s)]
  <2>1. CASE i <= Len(s)
    BY <1>1, <1>2, <2>1
  <2>2. CASE ~ (i <= Len(s))
    <3>1. i - Len(s) \in 1..Len(t)
      BY <1>1, <1>2, <2>2
    <3> QED BY <1>1, <1>2, <2>2, <3>1
  <2> QED BY <2>1, <2>2
<1>4. ASSUME NEW i \in 1..Len(s) PROVE i \in 1..Len(st) /\ st[i] = s[i]
  BY <1>1, <1>2
<1>5. ASSUME NEW j \in 1..Len(t) PROVE j + Len(s) \in 1..Len(st) /\ st[j + Len(s)] = t[j]
  <2>1. j + Len(s) \in 1..Len(s) + Len(t) /\ ~ (j + Len(s) <= Len(s)) /\ (j + Len(s)) - Len(s) = j
    BY <1>1
  <2>2. st[j + Len(s)] = t[(j + Len(s)) - Len(s)]
    BY <1>2, <2>1
  <2>3. st[j + Len(s)] = t[j]
    BY <2>1, <2>2
  <2> QED BY <1>2, <2>1, <2>3
<1> QED BY <1>1, <1>2, <1>3, <1>4, <1>5 DEF st

\* Two lists without duplicates that have nothing in common make one.
LEMMA JoinedOnce ==
    ASSUME NEW S, NEW s \in Seq(S), NEW t \in Seq(S), Once(s), Once(t), Apart(s, t)
    PROVE  Once(s \o t)
<1> DEFINE st == s \o t
<1>1. /\ Len(s) \in Nat /\ Len(t) \in Nat
      /\ \A i \in 1..Len(st) : \/ i \in 1..Len(s) /\ st[i] = s[i]
                               \/ i - Len(s) \in 1..Len(t) /\ st[i] = t[i - Len(s)]
  BY Joined
<1>2. \A i \in 1..Len(st) : i \in Int
  OBVIOUS
<1> HIDE DEF st
<1> SUFFICES ASSUME NEW i \in 1..Len(st), NEW j \in 1..Len(st), st[i] = st[j] PROVE i = j
  BY DEF Once, st
<1>3. CASE st[i] = s[i] /\ i \in 1..Len(s) /\ st[j] = s[j] /\ j \in 1..Len(s)
  BY <1>3 DEF Once
<1>4. CASE st[i] = t[i - Len(s)] /\ i - Len(s) \in 1..Len(t)
           /\ st[j] = t[j - Len(s)] /\ j - Len(s) \in 1..Len(t)
  <2>1. i - Len(s) = j - Len(s)
    BY <1>4 DEF Once
  <2> QED BY <1>1, <1>2, <2>1
<1>5. CASE st[i] = s[i] /\ i \in 1..Len(s)
           /\ st[j] = t[j - Len(s)] /\ j - Len(s) \in 1..Len(t)
  BY <1>5 DEF Apart
<1>6. CASE st[i] = t[i - Len(s)] /\ i - Len(s) \in 1..Len(t)
           /\ st[j] = s[j] /\ j \in 1..Len(s)
  BY <1>6 DEF Apart
<1> QED BY <1>1, <1>3, <1>4, <1>5, <1>6

\* What a list holds.
LEMMA Holds ==
    ASSUME NEW S, NEW s \in Seq(S), NEW x
    PROVE  x \in Range(s) <=> \E i \in 1..Len(s) : s[i] = x
<1>1. DOMAIN s = 1..Len(s)
  BY LenProperties
<1> QED BY <1>1 DEF Range

\* A step that leaves the two lists alone and takes nothing off the first.
LEMMA ListsKept ==
    ASSUME TypeOK, InOnePlace, UNCHANGED <<pending, processing>>,
           \A r \in Requests : job'[r] \in {"idle", "applied"} => job[r] \in {"idle", "applied"},
           step' \notin {"trim", "move"} \/ UNCHANGED <<step, fetched>>
    PROVE  InOnePlace'
<1>1. \A s \in Seq(Requests) : Pushed(s) => Pushed(s)'
  BY ElementOfSeq DEF Pushed
<1> QED BY <1>1 DEF InOnePlace, TypeOK, Once, Apart, Pushed

LEMMA InitQueues == Init => QueueInv
<1> SUFFICES ASSUME Init PROVE QueueInv
  OBVIOUS
<1>1. /\ pending = <<>> /\ processing = <<>> /\ Len(<<>>) = 0 /\ 1..0 = {}
      /\ step = "start" /\ marked = 0 /\ dying = 0 /\ disruptions = 0
  BY DEF Init
<1>2. InOnePlace /\ AnsweredSoFar
  BY <1>1 DEF InOnePlace, AnsweredSoFar, Once, Apart, Pushed
<1>3. Draining
  BY <1>1, ConstantsAssumption DEF Draining, DyingWorkersBounded, Shorter
<1> QED BY <1>2, <1>3 DEF QueueInv

\* Every command on a list keeps each request in one place.
LEMMA StepInOnePlace ==
    ASSUME IInv, InOnePlace, [Next]_vars
    PROVE  InOnePlace'
<1>1. /\ TypeOK /\ pending \in Seq(Requests) /\ processing \in Seq(Requests)
      /\ fetched \in Seq(Requests)
      /\ Len(pending) \in Nat /\ Len(processing) \in Nat /\ Len(fetched) \in Nat
      /\ job \in [Requests -> JobProgress] /\ BatchSize \in Nat
  BY LenProperties, ConstantsAssumption DEF IInv, TypeOK
<1>2. ASSUME NEW r \in Requests, ApplyChange(r) \/ SetQueued(r) \/ FinishJob(r) \/ FailJob(r)
      PROVE  InOnePlace'
  <2>1. UNCHANGED <<pending, processing, step, fetched>>
    BY <1>2 DEF ApplyChange, SetQueued, FinishJob, FailJob, managerVars, queueVars, fields
  <2>2. \A q \in Requests : job'[q] \in {"idle", "applied"} => job[q] \in {"idle", "applied"}
    BY <1>1, <1>2 DEF ApplyChange, SetQueued, FinishJob, FailJob
  <2> QED BY <1>1, <2>1, <2>2, ListsKept
<1>3. ASSUME NEW r \in Requests, PushRequest(r) PROVE InOnePlace'
  <2>1. /\ job[r] = "applied" /\ job' = [job EXCEPT ![r] = "pushed"]
        /\ pending' = Append(pending, r)
        /\ UNCHANGED <<processing, step, fetched>>
    BY <1>3 DEF PushRequest, managerVars, fields
  <2>2. /\ Len(pending') = Len(pending) + 1
        /\ \A i \in 1..Len(pending) : pending'[i] = pending[i]
        /\ pending'[Len(pending) + 1] = r
    BY <1>1, <2>1, AppendProperties
  <2>3. \A i \in 1..Len(pending') :
           \/ i \in 1..Len(pending) /\ pending'[i] = pending[i]
           \/ i = Len(pending) + 1 /\ pending'[i] = r
    BY <1>1, <2>2
  <2>4. \A s \in Seq(Requests) : Pushed(s) => Pushed(s)' /\ \A i \in 1..Len(s) : s[i] # r
    BY <1>1, <2>1, ElementOfSeq DEF Pushed
  <2>5. Pushed(pending) /\ Pushed(processing) /\ Once(pending) /\ Apart(pending, processing)
    BY DEF InOnePlace
  <2>6. \A i \in 1..Len(pending) : pending[i] # r
    BY <1>1, <2>4, <2>5
  <2>7. Once(pending')
    BY <2>3, <2>5, <2>6 DEF Once
  <2>8. Pushed(pending)'
    <3>1. \A i \in 1..Len(pending) : pending[i] \in Requests /\ pending[i] # r
      BY <1>1, <2>6, ElementOfSeq
    <3>2. \A q \in Requests \ {r} : job'[q] = job[q]
      BY <1>1, <2>1
    <3>3. job'[r] = "pushed"
      BY <1>1, <2>1
    <3> QED BY <2>3, <2>5, <3>1, <3>2, <3>3 DEF Pushed
  <2>9. Apart(pending', processing)
    BY <1>1, <2>3, <2>4, <2>5 DEF Apart
  <2>10. Pushed(processing)' /\ Once(processing)'
    BY <1>1, <2>1, <2>4 DEF InOnePlace, Once
  <2>11. ASSUME step = "trim"
         PROVE  Len(fetched) <= Len(pending') /\ \A i \in 1..Len(fetched) : fetched[i] = pending'[i]
    <3>1. Len(fetched) <= Len(pending) /\ \A i \in 1..Len(fetched) : fetched[i] = pending[i]
      BY <2>11 DEF InOnePlace
    <3>2. \A i \in 1..Len(fetched) : i \in 1..Len(pending)
      BY <1>1, <3>1
    <3> QED BY <1>1, <2>2, <3>1, <3>2
  <2>12. ASSUME step = "move"
         PROVE  Once(fetched) /\ Pushed(fetched)' /\ Apart(fetched, pending')
                /\ Apart(fetched, processing)
    <3>1. Once(fetched) /\ Pushed(fetched) /\ Apart(fetched, pending) /\ Apart(fetched, processing)
      BY <2>12 DEF InOnePlace
    <3>2. Pushed(fetched)' /\ \A i \in 1..Len(fetched) : fetched[i] # r
      BY <1>1, <2>1, <2>4, <3>1
    <3>3. Apart(fetched, pending')
      BY <2>3, <3>1, <3>2 DEF Apart
    <3> QED BY <3>1, <3>2, <3>3
  <2> QED BY <2>1, <2>7, <2>8, <2>9, <2>10, <2>11, <2>12 DEF InOnePlace, Once, Apart
<1>4. CASE FetchPending
  <2>1. /\ fetched' = LRange(pending, BatchSize) /\ step' \in {"claim", "trim"}
        /\ UNCHANGED <<pending, processing, job>>
    BY <1>4 DEF FetchPending, outside, queueVars
  <2>2. Len(fetched') <= Len(pending) /\ \A i \in 1..Len(fetched') : fetched'[i] = pending[i]
    BY <1>1, <2>1, Entries
  <2> QED BY <2>1, <2>2 DEF InOnePlace, Once, Apart, Pushed
<1>5. CASE TrimPending
  <2>1. /\ step = "trim" /\ step' = "move" /\ pending' = LTrim(pending, Len(fetched))
        /\ UNCHANGED <<processing, fetched, job>>
    BY <1>5 DEF TrimPending, fields
  <2>2. /\ Len(fetched) <= Len(pending) /\ \A i \in 1..Len(fetched) : fetched[i] = pending[i]
        /\ Once(pending) /\ Pushed(pending) /\ Apart(pending, processing)
    BY <2>1 DEF InOnePlace
  <2>3. \A i \in 1..Len(fetched) : i \in 1..Len(pending)
    BY <1>1, <2>2
  <2>4. \A i \in 1..Len(pending') :
           /\ i + Len(fetched) \in 1..Len(pending) /\ pending'[i] = pending[i + Len(fetched)]
           /\ i \in Int /\ i > 0
    BY <1>1, <2>1, Entries
  <2>5. Once(pending')
    <3> SUFFICES ASSUME NEW i \in 1..Len(pending'), NEW j \in 1..Len(pending'),
                        pending'[i] = pending'[j]
                 PROVE  i = j
      BY DEF Once
    <3>1. i + Len(fetched) = j + Len(fetched) /\ i \in Int /\ j \in Int
      BY <2>2, <2>4 DEF Once
    <3> QED BY <1>1, <3>1
  <2>6. Pushed(pending)' /\ Apart(pending', processing)
    <3>1. ASSUME NEW i \in 1..Len(pending')
          PROVE  /\ job'[pending'[i]] \notin {"idle", "applied"}
                 /\ \A k \in 1..Len(processing) : pending'[i] # processing[k]
      <4>1. i + Len(fetched) \in 1..Len(pending) /\ pending'[i] = pending[i + Len(fetched)]
        BY <2>4, <3>1
      <4> QED BY <2>1, <2>2, <4>1 DEF Pushed, Apart
    <3> QED BY <3>1 DEF Pushed, Apart
  <2>7. Once(fetched) /\ Pushed(fetched) /\ Apart(fetched, processing)
    BY <2>2, <2>3 DEF Once, Pushed, Apart
  <2>8. Apart(fetched, pending')
    <3> SUFFICES ASSUME NEW i \in 1..Len(fetched), NEW j \in 1..Len(pending'),
                        fetched[i] = pending'[j]
                 PROVE  FALSE
      BY DEF Apart
    <3>1. i = j + Len(fetched) /\ j \in Int /\ j > 0 /\ i \in Int /\ i <= Len(fetched)
      BY <2>2, <2>3, <2>4 DEF Once
    <3> QED BY <1>1, <3>1
  <2> QED BY <2>1, <2>5, <2>6, <2>7, <2>8 DEF InOnePlace, Once, Apart, Pushed
<1>6. CASE MoveToProcessing
  <2>1. /\ step = "move" /\ step' = "claim" /\ processing' = processing \o fetched
        /\ UNCHANGED <<pending, job>>
    BY <1>6 DEF MoveToProcessing
  <2>2. /\ Once(fetched) /\ Pushed(fetched) /\ Apart(fetched, pending)
        /\ Apart(fetched, processing) /\ Once(processing) /\ Pushed(processing)
        /\ Apart(pending, processing) /\ Once(pending) /\ Pushed(pending)
    BY <2>1 DEF InOnePlace
  <2>3. Apart(processing, fetched)
    BY <2>2 DEF Apart
  <2>4. Once(processing')
    BY <1>1, <2>1, <2>2, <2>3, JoinedOnce
  <2>5. \A i \in 1..Len(processing') :
           \/ \E k \in 1..Len(processing) : processing'[i] = processing[k]
           \/ \E k \in 1..Len(fetched) : processing'[i] = fetched[k]
    BY <1>1, <2>1, Joined
  <2>6. Pushed(processing)'
    <3>1. \A i \in 1..Len(processing') : job[processing'[i]] \notin {"idle", "applied"}
      BY <2>2, <2>5 DEF Pushed
    <3> QED BY <2>1, <3>1 DEF Pushed
  <2>7. Apart(pending, processing')
    <3> SUFFICES ASSUME NEW i \in 1..Len(pending), NEW j \in 1..Len(processing')
                 PROVE  pending[i] # processing'[j]
      BY DEF Apart
    <3> QED BY <2>2, <2>5 DEF Apart
  <2> QED BY <2>1, <2>2, <2>4, <2>6, <2>7 DEF InOnePlace, Once, Apart, Pushed
<1>7. CASE Cleanup
  <2>1. /\ processing' = LTrim(processing, Len(jobIds)) /\ jobIds \in Seq(Requests)
        /\ UNCHANGED <<pending, job, step, fetched>>
    BY <1>1, <1>7 DEF Cleanup, TypeOK
  <2>2. Len(jobIds) \in Nat
    BY <2>1, LenProperties
  <2>3. \A i \in 1..Len(processing') :
           i + Len(jobIds) \in 1..Len(processing) /\ processing'[i] = processing[i + Len(jobIds)]
    <3> DEFINE rest == LTrim(processing, Len(jobIds))
    <3>1. \A i \in 1..Len(rest) :
             i + Len(jobIds) \in 1..Len(processing) /\ rest[i] = processing[i + Len(jobIds)]
      BY <1>1, <2>2, Entries
    <3>2. processing' = rest
      BY <2>1
    <3> HIDE DEF rest
    <3> QED BY <3>1, <3>2
  <2>4. Once(processing')
    <3> SUFFICES ASSUME NEW i \in 1..Len(processing'), NEW j \in 1..Len(processing'),
                        processing'[i] = processing'[j]
                 PROVE  i = j
      BY DEF Once
    <3>1. i + Len(jobIds) = j + Len(jobIds)
      BY <2>3 DEF InOnePlace, Once
    <3> QED BY <2>2, <3>1
  <2>5. step \notin {"trim", "move"}
    BY <1>7 DEF Cleanup, IInv, Position, Answering
  <2>6. Pushed(processing)' /\ Apart(pending, processing')
    BY <2>1, <2>3 DEF InOnePlace, Pushed, Apart
  <2> QED BY <2>1, <2>4, <2>5, <2>6 DEF InOnePlace, Once, Apart, Pushed
<1>8. CASE \/ ClaimJobs \/ SkipReload \/ GenerateConfig \/ GenerateConfigRaises
           \/ ReloadSucceeds \/ ReloadFails \/ AutoFixConfig \/ MarkNext \/ Wait \/ Exit
           \/ Start \/ Disruption \/ WorkerExits \/ UNCHANGED vars
  <2>1. UNCHANGED <<pending, processing, job>>
    BY <1>8
    DEF ClaimJobs, SkipReload, GenerateConfig, GenerateConfigRaises, ReloadSucceeds,
        ReloadFails, AutoFixConfig, MarkNext, Wait, Exit, Start, Disruption,
        RedisCommandRaises, RequestExit, Crash, WorkerExits, vars, outside, queueVars
  <2>2. step' \in {"start", "signal"} \/ UNCHANGED <<step, fetched>>
    BY <1>8
    DEF ClaimJobs, SkipReload, GenerateConfig, GenerateConfigRaises, ReloadSucceeds,
        ReloadFails, AutoFixConfig, MarkNext, Wait, Exit, Start, Disruption, MayReload,
        RedisCommandRaises, RequestExit, Crash, WorkerExits, vars, fields, managerVars,
        ManagerStopped
  <2> QED BY <1>1, <2>1, <2>2, ListsKept
<1> QED BY <1>2, <1>3, <1>4, <1>5, <1>6, <1>7, <1>8
        DEF Next, JobStep, ManagerStep

\* A request is marked only when it is answered.
LEMMA StepAnswered ==
    ASSUME IInv, AnsweredSoFar, [Next]_vars
    PROVE  AnsweredSoFar'
<1>1. jobIds \in Seq(Requests) /\ marked \in Nat /\ Len(jobIds) \in Nat /\ marked <= Len(jobIds)
  BY LenProperties DEF IInv, TypeOK
<1>2. CASE MarkNext
  <2>1. \A i \in 1..marked' : i \in 1..marked \/ i = marked + 1
    BY <1>1, <1>2 DEF MarkNext
  <2> QED BY <1>2, <2>1 DEF MarkNext, AnsweredSoFar
<1>3. CASE marked' = 0
  BY <1>3 DEF AnsweredSoFar
<1>4. CASE UNCHANGED <<marked, jobIds, answered>>
  BY <1>4 DEF AnsweredSoFar
<1>5. CASE ClaimJobs
  <2>1. marked' = 0
    BY <1>5 DEF ClaimJobs, IInv, Position, Answering
  <2> QED BY <1>3, <2>1
<1>6. MarkNext \/ ClaimJobs \/ marked' = 0 \/ UNCHANGED <<marked, jobIds, answered>>
  <2>1. ASSUME NEW r \in Requests, ApplyChange(r) \/ JobStep(r) \/ FailJob(r)
        PROVE  UNCHANGED <<marked, jobIds, answered>>
    BY <2>1
    DEF ApplyChange, JobStep, PushRequest, SetQueued, FinishJob, FailJob, managerVars, fields
  <2>2. CASE \/ FetchPending \/ TrimPending \/ MoveToProcessing \/ SkipReload \/ GenerateConfig
             \/ GenerateConfigRaises \/ ReloadSucceeds \/ ReloadFails \/ AutoFixConfig
             \/ Wait \/ Start \/ RequestExit \/ WorkerExits \/ UNCHANGED vars
    BY <2>2
    DEF FetchPending, TrimPending, MoveToProcessing, SkipReload, GenerateConfig,
        GenerateConfigRaises, ReloadSucceeds, ReloadFails, AutoFixConfig, Wait, Start,
        RequestExit, WorkerExits, vars, outside, managerVars, fields
  <2>3. CASE Cleanup \/ Exit \/ Crash \/ RedisCommandRaises
    BY <2>3 DEF Cleanup, Exit, Crash, RedisCommandRaises, ManagerStopped
  <2> QED BY <2>1, <2>2, <2>3 DEF Next, ManagerStep, Disruption
<1> QED BY <1>2, <1>3, <1>4, <1>5, <1>6

\* One more reload has one more generation of workers draining, and one more
\* disruption allows one more of them.
LEMMA OneMore ==
    ASSUME NEW n \in Nat
    PROVE  NumWorkers * (n + 1) = NumWorkers * n + NumWorkers /\ NumWorkers * n \in Nat
BY ConstantsAssumption

LEMMA StepDraining ==
    ASSUME IInv, Draining, [Next]_vars
    PROVE  Draining'
<1> DEFINE S == Shorter(NumWorkers, 3)
           W(n) == NumWorkers * n
<1>1. /\ S \in Nat /\ NumWorkers \in Nat /\ dying \in Nat /\ disruptions \in Nat
      /\ W(disruptions) \in Nat /\ W(1 + disruptions) = W(disruptions) + NumWorkers
      /\ W(disruptions + 1) = W(disruptions) + NumWorkers
      /\ W(1 + (disruptions + 1)) = W(disruptions) + NumWorkers + NumWorkers
  <2>1. NumWorkers \in Nat /\ dying \in Nat /\ disruptions \in Nat /\ S \in Nat
    BY ConstantsAssumption DEF IInv, TypeOK, Shorter
  <2>2. /\ W(disruptions) \in Nat
        /\ W(disruptions + 1) = W(disruptions) + NumWorkers
        /\ W((disruptions + 1) + 1) = W(disruptions + 1) + NumWorkers
    <3> HIDE DEF S
    <3>1. disruptions + 1 \in Nat
      BY <2>1
    <3> QED BY <2>1, <3>1, OneMore
  <2>3. 1 + disruptions = disruptions + 1 /\ 1 + (disruptions + 1) = (disruptions + 1) + 1
    BY <2>1
  <2> HIDE DEF S, W
  <2> QED BY <2>1, <2>2, <2>3
<1>2. Draining <=> /\ dying <= S + W(1 + disruptions)
                   /\ step = "signal" => dying <= S + W(disruptions)
  BY DEF Draining, DyingWorkersBounded
<1>3. Draining' <=> /\ dying' <= S + W(1 + disruptions')
                    /\ step' = "signal" => dying' <= S + W(disruptions')
  BY DEF Draining, DyingWorkersBounded
<1>4. ~ShouldSkip => dying <= S
  BY <1>1 DEF ShouldSkip, Shorter
<1> HIDE DEF S, W
<1>5. CASE GenerateConfig
  <2>1. dying' = dying /\ IF ShouldSkip THEN disruptions' = disruptions + 1
                                        ELSE disruptions' = disruptions
    BY <1>5 DEF GenerateConfig, MayReload, Disrupted
  <2>2. dying' <= S + W(disruptions')
    BY <1>1, <1>2, <1>4, <2>1
  <2>3. dying' <= S + W(1 + disruptions')
    BY <1>1, <2>1, <2>2
  <2> QED BY <1>3, <2>2, <2>3
<1>6. CASE ReloadSucceeds
  BY <1>1, <1>2, <1>3, <1>6 DEF ReloadSucceeds
<1>7. CASE /\ dying' <= dying /\ dying' \in Nat /\ (step' # "signal" \/ step' = step)
           /\ disruptions' = disruptions \/ disruptions' = disruptions + 1
  BY <1>1, <1>2, <1>3, <1>7
<1>8. GenerateConfig \/ ReloadSucceeds
      \/ /\ dying' <= dying /\ dying' \in Nat /\ (step' # "signal" \/ step' = step)
         /\ disruptions' = disruptions \/ disruptions' = disruptions + 1
  <2>1. ASSUME NEW r \in Requests, ApplyChange(r) \/ JobStep(r) \/ FailJob(r)
        PROVE  /\ dying' = dying /\ step' = step
               /\ disruptions' = disruptions \/ disruptions' = disruptions + 1
    BY <2>1
    DEF ApplyChange, JobStep, PushRequest, SetQueued, FinishJob, FailJob, Disrupted,
        managerVars, proxyVars
  <2>2. CASE \/ FetchPending \/ TrimPending \/ MoveToProcessing \/ ClaimJobs \/ SkipReload
             \/ ReloadFails \/ AutoFixConfig \/ MarkNext \/ Cleanup \/ Wait \/ Exit \/ Start
             \/ UNCHANGED vars
    <3>1. dying' = dying /\ disruptions' = disruptions
      BY <2>2
      DEF FetchPending, TrimPending, MoveToProcessing, ClaimJobs, SkipReload, ReloadFails,
          AutoFixConfig, MarkNext, Cleanup, Wait, Exit, Start, vars, outside, proxyVars
    <3>2. step' # "signal" \/ step' = step
      BY <2>2
      DEF FetchPending, TrimPending, MoveToProcessing, ClaimJobs, SkipReload, ReloadFails,
          AutoFixConfig, MarkNext, Cleanup, Wait, Exit, Start, vars, managerVars,
          ManagerStopped
    <3> QED BY <1>1, <3>1, <3>2
  <2>3. CASE GenerateConfigRaises \/ Disruption
    <3>1. /\ dying' = dying /\ (step' # "signal" \/ step' = step)
          /\ disruptions' = disruptions \/ disruptions' = disruptions + 1
      BY <2>3
      DEF GenerateConfigRaises, MayReload, Disruption, RedisCommandRaises, RequestExit, Crash,
          ManagerStopped, Disrupted, outside, proxyVars
    <3> QED BY <1>1, <3>1
  <2>4. CASE WorkerExits
    BY <1>1, <2>4 DEF WorkerExits, managerVars
  <2> QED BY <1>1, <2>1, <2>2, <2>3, <2>4 DEF Next, ManagerStep
<1> QED BY <1>5, <1>6, <1>7, <1>8

-----------------------------------------------------------------------------
(* The theorems.                                                           *)

LEMMA Invariance == Spec => []IInv
<1>1. Init => IInv
  BY InitInvariant
<1>2. IInv /\ [Next]_vars => IInv'
  BY StepInvariant
<1> QED BY <1>1, <1>2, PTL DEF Spec

LEMMA QueueInvariance == Spec => []QueueInv
<1>1. IInv /\ QueueInv /\ [Next]_vars => QueueInv'
  BY StepInOnePlace, StepAnswered, StepDraining DEF QueueInv
<1> QED BY <1>1, InitQueues, Invariance, PTL DEF Spec

\* Type correctness, whatever is disrupted.
THEOREM TypeCorrect == Spec => []TypeOK
<1>1. IInv => TypeOK
  BY DEF IInv
<1> QED BY <1>1, Invariance, PTL

\* A status key reads Success only when NGINX has loaded the change of its
\* request, whatever crashes, signals or redis errors hit the manager or the
\* workers, and for any batch size.
THEOREM SuccessIsLive == Spec => []SuccessMeansLive
<1>1. IInv => SuccessMeansLive
  BY DEF IInv
<1> QED BY <1>1, Invariance, PTL

\* The trim by count at the end of a batch drops exactly the claimed jobs.
THEOREM ClaimIsFront == Spec => []ClaimedJobsAreFront
<1>1. IInv => ClaimedJobsAreFront
  BY DEF IInv
<1> QED BY <1>1, Invariance, PTL

\* The web process reports a proxy job as Success only when its change is
\* live, although it reads a missing status key as Success.
THEOREM ReportIsTrue == Spec => []ReportedSuccessMeansLive
<1>1. IInv => ReportedSuccessMeansLive
  <2> SUFFICES ASSUME IInv, NEW r \in Requests, ReportedStatus(r) = "Success"
               PROVE  r \in live
    BY DEF ReportedSuccessMeansLive
  <2>1. job[r] = "done"
    BY DEF ReportedStatus, IInv, TypeOK, JobProgress
  <2>2. status[r] # "None"
    BY <2>1 DEF IInv, StatusWritten
  <2>3. status[r] = "Success"
    BY <2>1, <2>2 DEF ReportedStatus, GetStatus
  <2> QED BY <2>3 DEF IInv, SuccessMeansLive
<1> QED BY <1>1, Invariance, PTL

\* At most one more generation of workers starts to drain below the limit of
\* _should_skip_nginx_reload, but for the reloads it could not check, for any
\* number of workers and of failures.
THEOREM DyingIsBounded == Spec => []DyingWorkersBounded
<1>1. QueueInv => DyingWorkersBounded
  BY DEF QueueInv, Draining
<1> QED BY <1>1, QueueInvariance, PTL

\* A request that leaves the two lists was answered, or a disruption hit the
\* window of _dequeue_jobs.
LEMMA LossNeedsDisruption ==
    ASSUME IInv, QueueInv, [Next]_vars, NEW r, r \in Tracked, r \notin Tracked'
    PROVE  r \in answered \/ (step = "move" /\ disruptions' > disruptions)
<1>1. /\ pending \in Seq(Requests) /\ processing \in Seq(Requests)
      /\ fetched \in Seq(Requests) /\ jobIds \in Seq(Requests)
      /\ Len(pending) \in Nat /\ Len(processing) \in Nat /\ Len(fetched) \in Nat
      /\ Len(jobIds) \in Nat /\ BatchSize \in Nat /\ disruptions \in Nat
  BY LenProperties, ConstantsAssumption DEF IInv, TypeOK
<1>2. ASSUME NEW s \in Seq(Requests), NEW i \in 1..Len(s) PROVE s[i] \in Range(s)
  BY Holds
<1>3. CASE \E q \in Requests : PushRequest(q)
  <2>1. PICK q \in Requests : PushRequest(q)
    BY <1>3
  <2>2. pending' = Append(pending, q) /\ UNCHANGED <<processing, step, fetched>>
    BY <2>1 DEF PushRequest, managerVars, fields
  <2>3. pending' \in Seq(Requests) /\ Len(pending') = Len(pending) + 1
        /\ \A i \in 1..Len(pending) : pending'[i] = pending[i]
    BY <1>1, <2>2, AppendProperties
  <2>4. Range(pending) \subseteq Range(pending')
    <3> SUFFICES ASSUME NEW x \in Range(pending) PROVE x \in Range(pending')
      OBVIOUS
    <3>1. PICK i \in 1..Len(pending) : pending[i] = x
      BY <1>1, Holds
    <3>2. i \in 1..Len(pending') /\ pending'[i] = x
      BY <1>1, <2>3, <3>1
    <3> QED BY <2>3, <3>2, Holds
  <2> QED BY <2>2, <2>4 DEF Tracked
<1>4. CASE TrimPending
  <2>1. /\ step = "trim" /\ step' = "move" /\ pending' = LTrim(pending, Len(fetched))
        /\ UNCHANGED <<processing, fetched>>
    BY <1>4 DEF TrimPending, fields
  <2>2. Len(fetched) <= Len(pending) /\ \A i \in 1..Len(fetched) : fetched[i] = pending[i]
    BY <2>1 DEF QueueInv, InOnePlace
  <2>3. pending' \in Seq(Requests)
    BY <1>1, <2>1, LTrimType
  <2>4. Range(pending) \subseteq Range(pending') \cup Range(fetched)
    <3> SUFFICES ASSUME NEW x \in Range(pending)
                 PROVE  x \in Range(pending') \/ x \in Range(fetched)
      OBVIOUS
    <3>1. PICK i \in 1..Len(pending) : pending[i] = x
      BY <1>1, Holds
    <3>2. CASE i <= Len(fetched)
      <4>1. i \in 1..Len(fetched) /\ fetched[i] = x
        BY <1>1, <2>2, <3>1, <3>2
      <4> QED BY <1>1, <4>1, Holds
    <3>3. CASE i > Len(fetched)
      <4>1. i - Len(fetched) \in 1..Len(pending') /\ (i - Len(fetched)) + Len(fetched) = i
        BY <1>1, <2>1, <2>2, <3>3, Entries
      <4>2. pending'[i - Len(fetched)] = pending[(i - Len(fetched)) + Len(fetched)]
        <5>1. \A k \in 1..Len(pending') : pending'[k] = pending[k + Len(fetched)]
          BY <1>1, <2>1, Entries
        <5> QED BY <4>1, <5>1
      <4>3. pending'[i - Len(fetched)] = x
        BY <3>1, <4>1, <4>2
      <4> QED BY <2>3, <4>1, <4>3, Holds
    <3> QED BY <1>1, <3>2, <3>3
  <2> QED BY <2>1, <2>4 DEF Tracked
<1>5. CASE MoveToProcessing
  <2>1. processing' = processing \o fetched /\ step = "move" /\ UNCHANGED pending
    BY <1>5 DEF MoveToProcessing
  <2>2. Range(processing) \cup Range(fetched) \subseteq Range(processing')
    <3>1. processing' \in Seq(Requests)
      BY <1>1, <2>1, ConcatProperties
    <3>2. ASSUME NEW x \in Range(processing) PROVE x \in Range(processing')
      <4>1. PICK i \in 1..Len(processing) : processing[i] = x
        BY <1>1, Holds
      <4>2. i \in 1..Len(processing') /\ processing'[i] = x
        BY <1>1, <2>1, <4>1, Joined
      <4> QED BY <3>1, <4>2, Holds
    <3>3. ASSUME NEW x \in Range(fetched) PROVE x \in Range(processing')
      <4>1. PICK i \in 1..Len(fetched) : fetched[i] = x
        BY <1>1, Holds
      <4> DEFINE both == processing \o fetched
      <4>2. i + Len(processing) \in 1..Len(both) /\ both[i + Len(processing)] = fetched[i]
        BY <1>1, <4>1, Joined
      <4>3. processing' = both
        BY <2>1
      <4> HIDE DEF both
      <4>4. i + Len(processing) \in 1..Len(processing') /\ processing'[i + Len(processing)] = x
        BY <4>1, <4>2, <4>3
      <4> QED BY <3>1, <4>4, Holds
    <3> QED BY <3>2, <3>3
  <2> QED BY <2>1, <2>2 DEF Tracked
<1>6. CASE Cleanup
  <2>1. /\ processing' = LTrim(processing, Len(jobIds)) /\ marked = Len(jobIds)
        /\ UNCHANGED <<pending, step, fetched>> /\ Answering
    BY <1>6 DEF Cleanup, AllMarked
  <2>2. jobIds = SubSeq(processing, 1, Len(jobIds))
    BY <2>1 DEF IInv, ClaimedJobsAreFront, Answering
  <2>3. processing' \in Seq(Requests)
    BY <1>1, <2>1, LTrimType
  <2>4. ASSUME NEW x \in Range(processing) PROVE x \in answered \/ x \in Range(processing')
    <3>1. PICK i \in 1..Len(processing) : processing[i] = x
      BY <1>1, Holds
    <3>2. CASE i <= Len(jobIds)
      <4>1. i \in 1..Len(jobIds) /\ jobIds[i] \in answered
        BY <1>1, <2>1, <3>2 DEF QueueInv, AnsweredSoFar
      <4>2. SubSeq(processing, 1, Len(jobIds))[i] = processing[i]
        BY <1>1, <4>1
      <4> QED BY <2>2, <3>1, <4>1, <4>2
    <3>3. CASE i > Len(jobIds)
      <4>1. i - Len(jobIds) \in 1..Len(processing') /\ (i - Len(jobIds)) + Len(jobIds) = i
        BY <1>1, <2>1, <3>3, Entries
      <4>2. processing'[i - Len(jobIds)] = processing[(i - Len(jobIds)) + Len(jobIds)]
        <5> DEFINE rest == LTrim(processing, Len(jobIds))
        <5>1. processing \in Seq(Requests) /\ Len(jobIds) \in Nat
          BY <1>1
        <5>2. \A k \in 1..Len(rest) : rest[k] = processing[k + Len(jobIds)]
          BY <5>1, Entries
        <5>3. processing' = rest
          BY <2>1
        <5> HIDE DEF rest
        <5> QED BY <4>1, <5>2, <5>3
      <4>3. processing'[i - Len(jobIds)] = x
        BY <3>1, <4>1, <4>2
      <4> QED BY <2>3, <4>1, <4>3, Holds
    <3> QED BY <1>1, <3>2, <3>3
  <2> QED BY <2>1, <2>4 DEF Tracked
<1>7. CASE RedisCommandRaises \/ Crash
  <2>1. UNCHANGED <<pending, processing>> /\ disruptions' = disruptions + 1
    BY <1>7 DEF RedisCommandRaises, Crash, Disrupted, outside, queueVars
  <2>2. step = "move"
    BY <2>1 DEF Tracked
  <2> QED BY <1>1, <2>1, <2>2
<1>8. CASE Exit
  BY <1>8 DEF Exit, BetweenHandlers, outside, queueVars, Tracked
<1>9. CASE ClaimJobs
  BY <1>9 DEF ClaimJobs, outside, queueVars, Tracked
<1>10. CASE \/ \E q \in Requests : ApplyChange(q) \/ SetQueued(q) \/ FinishJob(q) \/ FailJob(q)
            \/ SkipReload \/ GenerateConfigRaises \/ AutoFixConfig \/ MarkNext \/ Wait
            \/ Start \/ RequestExit \/ WorkerExits \/ UNCHANGED vars
  <2>1. UNCHANGED <<pending, processing, step, fetched>>
    BY <1>10
    DEF ApplyChange, SetQueued, FinishJob, FailJob, SkipReload, GenerateConfigRaises,
        AutoFixConfig, MarkNext, Wait, Start, RequestExit, WorkerExits, vars, outside,
        managerVars, fields, queueVars
  <2> QED BY <2>1 DEF Tracked
<1>11. CASE FetchPending \/ GenerateConfig \/ ReloadSucceeds \/ ReloadFails
  <2>1. UNCHANGED <<pending, processing>> /\ step # "move"
    BY <1>11
    DEF FetchPending, GenerateConfig, MayReload, ReloadSucceeds, ReloadFails, outside,
        queueVars, IInv, Position
  <2> QED BY <2>1 DEF Tracked
<1> QED BY <1>3, <1>4, <1>5, <1>6, <1>7, <1>8, <1>9, <1>10, <1>11
        DEF Next, JobStep, ManagerStep, Disruption

\* No request is in the two lists twice, and none leaves them unanswered unless
\* a disruption hits the window between the ltrim and the rpush of
\* _dequeue_jobs, for any requests, batch size and disruptions.
THEOREM RequestsStay == Spec => RequestsAreKept
<1>1. IInv /\ QueueInv => NoDuplicateEntries
  <2> SUFFICES ASSUME IInv, QueueInv PROVE NoDuplicateEntries
    OBVIOUS
  <2>1. /\ pending \in Seq(Requests) /\ processing \in Seq(Requests)
        /\ fetched \in Seq(Requests) /\ InOnePlace
    BY DEF IInv, TypeOK, QueueInv
  <2>2. Once(pending \o processing)
    BY <2>1, JoinedOnce DEF InOnePlace
  <2>3. IsInjective(pending \o processing)
    <3>1. pending \o processing \in Seq(Requests)
      BY <2>1, ConcatProperties
    <3>2. DOMAIN (pending \o processing) = 1..Len(pending \o processing)
      BY <3>1, LenProperties
    <3> QED BY <2>2, <3>2 DEF Once, IsInjective
  <2>4. ASSUME step = "move", NEW x \in Range(fetched)
        PROVE  x \notin Range(pending) /\ x \notin Range(processing)
    <3>1. Apart(fetched, pending) /\ Apart(fetched, processing)
      BY <2>1, <2>4 DEF InOnePlace
    <3>2. PICK i \in 1..Len(fetched) : fetched[i] = x
      BY <2>1, <2>4, Holds
    <3>3. ASSUME x \in Range(pending) PROVE FALSE
      <4>1. PICK k \in 1..Len(pending) : pending[k] = x
        BY <2>1, <3>3, Holds
      <4> QED BY <3>1, <3>2, <4>1 DEF Apart
    <3>4. ASSUME x \in Range(processing) PROVE FALSE
      <4>1. PICK k \in 1..Len(processing) : processing[k] = x
        BY <2>1, <3>4, Holds
      <4> QED BY <3>1, <3>2, <4>1 DEF Apart
    <3> QED BY <3>3, <3>4
  <2> QED BY <2>3, <2>4 DEF NoDuplicateEntries
<1>2. IInv /\ QueueInv /\ [Next]_vars =>
         [\A r \in Tracked \ Tracked' :
             r \in answered \/ (step = "move" /\ disruptions' > disruptions)]_vars
  BY LossNeedsDisruption
<1> QED BY <1>1, <1>2, Invariance, QueueInvariance, PTL
        DEF Spec, RequestsAreKept, LossOnlyInTheWindow

\* The manager implements ReloadService: seen through the configuration
\* directory, the loaded configuration and the status keys, every redis
\* command, reload, crash and restart is one of its steps or changes nothing.
THEOREM Refinement == Spec => ImplementsService
<1>1. Init => Service!ServiceInit
  BY DEF Init, Service!ServiceInit
<1>2. IInv /\ [Next]_vars => [Service!ServiceNext]_(Service!serviceVars)
  <2> SUFFICES ASSUME IInv, [Next]_vars
               PROVE  Service!ServiceNext \/ UNCHANGED <<applied, live, status>>
    BY DEF Service!serviceVars
  <2>1. ASSUME NEW r \in Requests, ApplyChange(r) PROVE Service!ServiceNext
    <3>1. r \notin applied
      BY <2>1 DEF ApplyChange, IInv, ChangesFlow
    <3>2. Service!Apply(r)
      BY <2>1, <3>1 DEF ApplyChange, Service!Apply
    <3> QED BY <3>2 DEF Service!ServiceNext
  <2>2. ASSUME NEW r \in Requests, SetQueued(r) PROVE Service!ServiceNext
    <3>1. r \in applied
      BY <2>2 DEF SetQueued, IInv, ChangesFlow
    <3>2. Service!Acknowledge(r)
      BY <2>2, <3>1 DEF SetQueued, proxyVars, Service!Acknowledge
    <3> QED BY <3>2 DEF Service!ServiceNext
  <2>3. CASE ReloadSucceeds
    <3>1. live \subseteq conf /\ conf \subseteq applied /\ conf \in SUBSET Requests
      BY DEF IInv, ChangesFlow, TypeOK
    <3>2. Service!Load(conf)
      BY <2>3, <3>1 DEF ReloadSucceeds, Service!Load
    <3> QED BY <3>1, <3>2 DEF Service!ServiceNext
  <2>4. CASE MarkNext
    <3> DEFINE r == jobIds[marked + 1]
    <3>1. r \in Requests /\ r \in applied
      BY <2>4, ElementOfSeq, LenProperties DEF MarkNext, IInv, TypeOK, ChangesFlow
    <3>2. Outcome = "Success" => r \in live
      BY <2>4, ElementOfSeq, LenProperties
      DEF MarkNext, IInv, TypeOK, ChangesFlow, Outcome
    <3>3. Service!Answer(r, Outcome)
      BY <2>4, <3>1, <3>2 DEF MarkNext, proxyVars, Service!Answer
    <3>4. Outcome \in {"Success", "Failure"}
      BY DEF Outcome
    <3> QED BY <3>1, <3>3, <3>4 DEF Service!ServiceNext
  <2>5. ASSUME NEW r \in Requests, PushRequest(r) PROVE UNCHANGED <<applied, live, status>>
    BY <2>5 DEF PushRequest, outside, proxyVars
  <2>6. ASSUME NEW r \in Requests, FinishJob(r) PROVE UNCHANGED <<applied, live, status>>
    BY <2>6 DEF FinishJob, outside, proxyVars
  <2>7. ASSUME NEW r \in Requests, FailJob(r) PROVE UNCHANGED <<applied, live, status>>
    BY <2>7 DEF FailJob, outside, proxyVars
  <2>8. CASE FetchPending
    BY <2>8 DEF FetchPending, outside, proxyVars
  <2>9. CASE TrimPending
    BY <2>9 DEF TrimPending, outside, proxyVars
  <2>10. CASE MoveToProcessing
    BY <2>10 DEF MoveToProcessing, outside, proxyVars
  <2>11. CASE ClaimJobs
    BY <2>11 DEF ClaimJobs, outside, proxyVars
  <2>12. CASE SkipReload
    BY <2>12 DEF SkipReload, outside, proxyVars
  <2>13. CASE GenerateConfig
    BY <2>13 DEF GenerateConfig, outside, proxyVars
  <2>14. CASE GenerateConfigRaises
    BY <2>14 DEF GenerateConfigRaises, outside, proxyVars
  <2>15. CASE ReloadFails
    BY <2>15 DEF ReloadFails, outside, proxyVars
  <2>16. CASE AutoFixConfig
    BY <2>16 DEF AutoFixConfig, outside, proxyVars
  <2>17. CASE Cleanup
    BY <2>17 DEF Cleanup, outside, proxyVars
  <2>18. CASE Wait
    BY <2>18 DEF Wait, outside, proxyVars
  <2>19. CASE RedisCommandRaises
    BY <2>19 DEF RedisCommandRaises, outside, proxyVars
  <2>20. CASE RequestExit
    BY <2>20 DEF RequestExit, outside, proxyVars
  <2>21. CASE Exit
    BY <2>21 DEF Exit, outside, proxyVars
  <2>22. CASE Crash
    BY <2>22 DEF Crash, outside, proxyVars
  <2>23. CASE Start
    BY <2>23 DEF Start, outside, proxyVars
  <2>24. CASE WorkerExits
    BY <2>24 DEF WorkerExits, outside, proxyVars
  <2>25. CASE UNCHANGED vars
    BY <2>25 DEF vars, outside, proxyVars
  <2> QED
    BY <2>1, <2>2, <2>3, <2>4, <2>5, <2>6, <2>7, <2>8, <2>9, <2>10, <2>11, <2>12, <2>13,
       <2>14, <2>15, <2>16, <2>17, <2>18, <2>19, <2>20, <2>21, <2>22, <2>23, <2>24,
       <2>25
    DEF Next, JobStep, ManagerStep, Disruption
<1> QED BY <1>1, <1>2, Invariance, PTL DEF Spec, ImplementsService, Service!ServiceSpec

-----------------------------------------------------------------------------
(***************************************************************************)
(* The configuration directory and its loads.                              *)
(***************************************************************************)

(***************************************************************************)
(* The inductive invariant.                                                *)
(***************************************************************************)

Files == {"map", "redirect"}
Early == {"acquire", "scan", "unlink"}
Put   == {"touch", "renameFile"}
Late  == {"renameHostDir", "blank", "rename"}

\* The steps that a job of some kind may have before it.
StepsOf(kind) ==
    {<<"acquire">>, <<"release">>} \cup
    CASE kind = "addSite" -> {<<"scan">>} \cup ({"unlink", "touch"} \X Upstreams \X {Site})
      [] kind = "removeSite" -> {"unlink"} \X Upstreams \X {Site}
      [] kind = "updateStatus" -> {"status"} \X Upstreams \X {Site} \X Statuses
      [] kind = "addUpstream" -> {"mkdir"} \X Upstreams
      [] kind = "renameUpstream" -> {"move"} \X Upstreams \X Upstreams
      [] kind = "renameSite" ->
           {<<"scan">>, <<"renameFile", Home, Site, NewName>>, <<"renameHostDir", Site, NewName>>}
           \cup ({"unlink"} \X Upstreams \X {NewName})
           \cup ({"blank"} \X Files \X {Domain, NewName})
           \cup ({"rename"} \X Files \X {Domain, NewName} \X {Site} \X {NewName})
      [] kind = "addHost" ->
           ({"truncate"} \X {"map"} \X {Site, Domain})
           \cup ({"write"} \X {"map"} \X {Site, Domain} \X {Site})
      [] kind = "removeHost" -> {"rmtree"} \X {Site, Domain}
      [] kind = "redirects" ->
           ({"removeRedirect"} \X {Site, Domain})
           \cup ({"load", "truncate"} \X {"redirect"} \X {Site, Domain})
           \cup {<<"write", "redirect", Site, Domain>>, <<"write", "redirect", Domain, Site>>}
      [] kind = "removeRedirect" -> {"removeRedirect"} \X {Site, Domain}
      [] kind = "scale" ->
           {<<"softAcquire">>, <<"softRelease">>}
           \cup ({"scale"} \X Upstreams \X {"primary", "scaled"})
      [] OTHER -> {}

\* Each step a is followed at once by a step b, which does not come otherwise.
Followed(t, a, b) ==
    \A i \in 1..Len(t) :
        /\ t[i][1] = a => i + 1 \in 1..Len(t) /\ t[i + 1][1] = b
        /\ i + 1 \in 1..Len(t) /\ t[i + 1][1] = b => t[i][1] = a

\* ... which is about the same file.
SameFile(t, a) ==
    \A i \in 1..Len(t) : t[i][1] = a => t[i + 1][2] = t[i][2] /\ t[i + 1][3] = t[i][3]

\* A step of A is followed sooner or later by one of B.
Toward(t, A, B) ==
    \A i \in 1..Len(t) : t[i][1] \in A => \E k \in 1..Len(t) : i < k /\ t[k][1] \in B

\* After a step of A comes none of B.
NeverAfter(t, A, B) ==
    \A i, k \in 1..Len(t) : i < k /\ t[i][1] \in A => t[k][1] \notin B

Orderly(kind, t) ==
    /\ \A i \in 1..Len(t) : t[i][1] = "release" <=> i = Len(t)
    /\ \A i \in 1..Len(t) : t[i][1] = "acquire" => i = 1
    /\ Followed(t, "truncate", "write") /\ SameFile(t, "truncate")
    /\ Followed(t, "blank", "rename") /\ SameFile(t, "blank")
    /\ Followed(t, "softAcquire", "scale") /\ Followed(t, "scale", "softRelease")
    /\ kind \in {"addSite", "renameSite"} =>
          /\ Toward(t, Early, Put)
          /\ NeverAfter(t, Put, Early \cup Put)
    /\ kind = "renameSite" =>
          /\ Toward(t, Early \cup Put, {"renameHostDir"})
          /\ NeverAfter(t, Late, Early \cup Put \cup {"renameHostDir"})
          /\ \A i \in 1..Len(t) : t[i][1] \in Early \cup Put \cup {"renameHostDir"} =>
                \E k \in 1..Len(t) : i < k /\ t[k] = <<"blank", "map", Domain>>
    /\ kind = "redirects" => NeverAfter(t, {"write"}, {"write", "removeRedirect"})

At(j, A) == todo[j] # <<>> /\ Head(todo[j])[1] \in A
Left(j) == ToSet(todo[j])
Ahead(j, A) == \E x \in Left(j) : x[1] \in A
UnlinkDue(j, w) == \E x \in Left(j) : x[1] = "unlink" /\ x[2] = w
MapDue(j) == \E x \in Left(j) : x[1] \in {"blank", "rename"} /\ x[2] = "map" /\ x[3] = Domain
ClearDue(j, h) == \E x \in Left(j) : x[1] = "removeRedirect" /\ x[2] = h
Target(j) == IF Kind(j) = "renameSite" THEN NewName ELSE Site

Shape(j) ==
    /\ operation[j] = <<>> \/ operation[j] \in Operations
    /\ result[j] = "idle" <=> operation[j] = <<>>
    /\ Busy(j) <=> todo[j] # <<>>
    /\ todo[j] \in Seq(StepsOf(Kind(j)))
    /\ Orderly(Kind(j), todo[j])

\* The flock is with the job that is past its first step, and the lock file
\* with the one that is between the two steps that make and remove it.
LockDiscipline(j) ==
    /\ lock = j <=> todo[j] # <<>> /\ ~At(j, {"acquire"})
    /\ At(j, {"acquire"}) => todo[j] = Handler(operation[j])
    /\ softLock = j <=> At(j, {"scale", "softRelease"})

OneRename == \A j, k \in Jobs : Kind(j) = "renameSite" /\ Kind(k) = "renameSite" => j = k

JobsSound ==
    /\ operation \in [Jobs -> Operations \cup {<<>>}]
    /\ DOMAIN todo = Jobs
    /\ result \in [Jobs -> {"idle", "running", "retrying", "done", "failed"}]
    /\ lock \in Jobs \cup {None} /\ softLock \in Jobs \cup {None, "stale"}
    /\ faults \in Nat
    /\ OneRename
    /\ \A j \in Jobs : Shape(j) /\ LockDiscipline(j)

Some(kind) == \E j \in Jobs : Kind(j) = kind
Sites == UpstreamsOf(Site) \cup UpstreamsOf(NewName)

NoConflict ==
    Some("updateStatus") \/ \A n \in Names : \A u, v \in UpstreamsOf(n) : u = v

Cleared(j) ==
    lock = j /\ Kind(j) \in {"addSite", "renameSite"} /\ Ahead(j, Put) =>
        \A w \in UpstreamsOf(Target(j)) : UnlinkDue(j, w)

Adding(j) ==
    /\ Kind(j) \in {"addSite", "renameSite"}
    /\ result[j] = "failed" \/ (Ahead(j, Put) /\ (result[j] = "retrying" \/ lock = j))

Kept == nested = {} /\ ~Some("removeSite") /\ Sites = {} => \E j \in Jobs : Adding(j)

\* Routes.
RenamedFile(j) ==
    lock = j /\ Kind(j) = "renameSite" /\ ~Ahead(j, {"acquire", "renameFile"}) => UpstreamsOf(NewName) # {}

OldRoute(j) ==
    /\ Kind(j) \in {"addSite", "renameSite"}
    /\ result[j] = "failed" \/ Ahead(j, Put) \/ (Kind(j) = "renameSite" /\ MapDue(j))

NewRoute(j) == Kind(j) = "renameSite" /\ (result[j] = "failed" \/ Ahead(j, Put))

Routes ==
    \/ Some("addHost")
    \/ /\ \A h \in Names : h # Domain => map[h] = {}
       /\ map[Domain] \subseteq {<<Domain, Site>>} \/ map[Domain] \subseteq {<<Domain, NewName>>}
       /\ nested = {} /\ ~Some("removeSite") =>
            /\ /\ <<Domain, Site>> \in map[Domain]
               /\ <<"map", Domain>> \notin torn
               /\ UpstreamsOf(Site) = {}
               => \E j \in Jobs : OldRoute(j)
            /\ /\ <<Domain, NewName>> \in map[Domain]
               /\ UpstreamsOf(NewName) = {}
               => \E j \in Jobs : NewRoute(j)

\* Without failures.
Whole ==
    faults = 0 =>
        /\ softLock # "stale"
        /\ \/ torn = {}
           \/ \E j \in Jobs : /\ lock = j /\ At(j, {"write", "rename"})
                              /\ torn = {<<Head(todo[j])[2], Head(todo[j])[3]>>}

Redirected ==
    /\ redirect[Site] \subseteq {<<Site, Domain>>}
    /\ redirect[Domain] \subseteq {<<Domain, Site>>, <<Domain, NewName>>}
    /\ redirect[NewName] \subseteq {<<Site, Domain>>, <<NewName, Domain>>}
    /\ \A h \in Names \ {Site, Domain, NewName} : redirect[h] = {}
    /\ ~(<<Site, Domain>> \in redirect[Site] /\ <<Domain, Site>> \in redirect[Domain])

\* The directory of a file that is written is there.
Writing(j) == lock = j /\ At(j, {"write"}) => Head(todo[j])[3] \in hostDirs

Turned(j) ==
    lock = j => \A x \in Left(j) : x[1] = "write" /\ x[2] = "redirect" =>
                    redirect[x[4]] = {} \/ ClearDue(j, x[4])

Past(j, what) == /\ Kind(j) = "renameSite" /\ result[j] \notin {"idle", "failed"}
                 /\ ~Ahead(j, {what})

FileRenamed == faults = 0 =>
    \A u \in Upstreams : Present(u, NewName) => \E j \in Jobs : Past(j, "renameFile")

HostRenamed == faults = 0 =>
    /\ NewName \in hostDirs \/ <<Domain, NewName>> \in redirect[Domain] =>
          \E j \in Jobs : Past(j, "renameHostDir")
    /\ (\E j \in Jobs : lock = j /\ Kind(j) = "renameSite") /\ redirect[NewName] # {} => redirect[Domain] = {}
    /\ <<Domain, NewName>> \in redirect[Domain] => redirect[NewName] = {}

Untouched ==
    faults = 0 /\ nested = {} /\ ~Some("removeSite") /\ Sites = {} =>
        \E j \in Jobs : Kind(j) = "addSite" /\ lock = j /\ Ahead(j, Put)

UpstreamTypes ==
    /\ dirs \subseteq Upstreams /\ nested \subseteq dirs \X Upstreams
    /\ site \in [Upstreams -> [Names -> Statuses \cup {"absent"}]]
    /\ \A u \in Upstreams \ dirs, n \in Names : ~Present(u, n)

UpstreamsSound ==
    /\ NoConflict /\ Kept /\ FileRenamed /\ Untouched
    /\ \A j \in Jobs : Cleared(j) /\ RenamedFile(j)

HostTypes ==
    /\ hostDirs \subseteq Names
    /\ map \in [Names -> SUBSET (Names \X Names)]
    /\ redirect \in [Names -> SUBSET (Names \X Names)]
    /\ \A h \in Names \ hostDirs : Empty(h)
    /\ torn \subseteq Files \X hostDirs

HostsSound ==
    /\ Whole /\ Redirected /\ HostRenamed
    /\ \A j \in Jobs : Writing(j) /\ Turned(j)

IInvProxy ==
    /\ JobsSound /\ scaled \subseteq Upstreams
    /\ UpstreamTypes /\ UpstreamsSound
    /\ HostTypes /\ HostsSound /\ Routes

(***************************************************************************)
(* Steps.                                                                  *)
(***************************************************************************)

StepNames ==
    {"acquire", "release", "scan", "unlink", "touch", "status", "mkdir", "move", "renameFile",
     "truncate", "write", "load", "rmtree", "removeRedirect", "renameHostDir", "blank", "rename",
     "softAcquire", "scale", "softRelease"}

\* What a step of a job of some kind has for arguments.
ItemIs(kind, x) ==
    /\ x[1] \in StepNames
    /\ x[1] = "acquire" => x = <<"acquire">>
    /\ x[1] = "release" => x = <<"release">>
    /\ x[1] = "scan" => kind \in {"addSite", "renameSite"}
    /\ x[1] = "unlink" =>
         /\ x[2] \in Upstreams
         /\ \/ kind \in {"addSite", "removeSite"} /\ x[3] = Site
            \/ kind = "renameSite" /\ x[3] = NewName
    /\ x[1] = "touch" => kind = "addSite" /\ x[2] \in Upstreams /\ x[3] = Site
    /\ x[1] = "status" =>
         kind = "updateStatus" /\ x[2] \in Upstreams /\ x[3] = Site /\ x[4] \in Statuses
    /\ x[1] = "mkdir" => kind = "addUpstream" /\ x[2] \in Upstreams
    /\ x[1] = "move" => kind = "renameUpstream" /\ x[2] \in Upstreams /\ x[3] \in Upstreams
    /\ x[1] = "renameFile" =>
         kind = "renameSite" /\ x[2] = Home /\ x[3] = Site /\ x[4] = NewName
    /\ x[1] = "renameHostDir" => kind = "renameSite" /\ x[2] = Site /\ x[3] = NewName
    /\ x[1] = "blank" => kind = "renameSite" /\ x[2] \in Files /\ x[3] \in {Domain, NewName}
    /\ x[1] = "rename" => /\ kind = "renameSite" /\ x[2] \in Files /\ x[3] \in {Domain, NewName}
                          /\ x[4] = Site /\ x[5] = NewName
    /\ x[1] = "truncate" =>
         /\ (kind = "addHost" /\ x[2] = "map") \/ (kind = "redirects" /\ x[2] = "redirect")
         /\ x[3] \in {Site, Domain}
    /\ x[1] = "write" =>
         /\ x[3] \in {Site, Domain}
         /\ \/ kind = "addHost" /\ x[2] = "map" /\ x[4] = Site
            \/ /\ kind = "redirects" /\ x[2] = "redirect"
               /\ x[4] = IF x[3] = Site THEN Domain ELSE Site
    /\ x[1] = "load" => kind = "redirects" /\ x[2] = "redirect" /\ x[3] \in {Site, Domain}
    /\ x[1] = "rmtree" => kind = "removeHost" /\ x[2] \in {Site, Domain}
    /\ x[1] = "removeRedirect" =>
         kind \in {"redirects", "removeRedirect"} /\ x[2] \in {Site, Domain}
         /\ x = <<"removeRedirect", x[2]>>
    /\ x[1] \in {"softAcquire", "softRelease"} => kind = "scale"
    /\ x[1] = "scale" => kind = "scale" /\ x[2] \in Upstreams

\* What StepsOf allows, step by step, in the form that the proofs of the actions use.
LEMMA Items == \A kind : \A x \in StepsOf(kind) : ItemIs(kind, x)
<1> SUFFICES ASSUME NEW kind, NEW x \in StepsOf(kind) PROVE ItemIs(kind, x)
  OBVIOUS
<1>0. ASSUME x \in {<<"acquire">>, <<"release">>} PROVE ItemIs(kind, x)
  BY <1>0 DEF ItemIs, StepNames
<1>1. CASE kind = "addSite"
  <2>1. StepsOf(kind) = {<<"acquire">>, <<"release">>} \cup
          ({<<"scan">>} \cup ({"unlink", "touch"} \X Upstreams \X {Site}))
    BY <1>1 DEF StepsOf
  <2>2. ASSUME x \in {<<"scan">>} PROVE ItemIs(kind, x)
    BY <1>1, <2>2 DEF ItemIs, StepNames
  <2>3. ASSUME x \in ({"unlink", "touch"} \X Upstreams \X {Site}) PROVE ItemIs(kind, x)
    BY <1>1, <2>3 DEF ItemIs, StepNames
  <2> QED BY <1>0, <2>1, <2>2, <2>3
<1>2. CASE kind = "removeSite"
  <2>1. StepsOf(kind) = {<<"acquire">>, <<"release">>} \cup
          ({"unlink"} \X Upstreams \X {Site})
    BY <1>2 DEF StepsOf
  <2>2. ASSUME x \in {"unlink"} \X Upstreams \X {Site} PROVE ItemIs(kind, x)
    BY <1>2, <2>2 DEF ItemIs, StepNames
  <2> QED BY <1>0, <2>1, <2>2
<1>3. CASE kind = "updateStatus"
  <2>1. StepsOf(kind) = {<<"acquire">>, <<"release">>} \cup
          ({"status"} \X Upstreams \X {Site} \X Statuses)
    BY <1>3 DEF StepsOf
  <2>2. ASSUME x \in {"status"} \X Upstreams \X {Site} \X Statuses PROVE ItemIs(kind, x)
    BY <1>3, <2>2 DEF ItemIs, StepNames
  <2> QED BY <1>0, <2>1, <2>2
<1>4. CASE kind = "addUpstream"
  <2>1. StepsOf(kind) = {<<"acquire">>, <<"release">>} \cup
          ({"mkdir"} \X Upstreams)
    BY <1>4 DEF StepsOf
  <2>2. ASSUME x \in {"mkdir"} \X Upstreams PROVE ItemIs(kind, x)
    BY <1>4, <2>2 DEF ItemIs, StepNames
  <2> QED BY <1>0, <2>1, <2>2
<1>5. CASE kind = "renameUpstream"
  <2>1. StepsOf(kind) = {<<"acquire">>, <<"release">>} \cup
          ({"move"} \X Upstreams \X Upstreams)
    BY <1>5 DEF StepsOf
  <2>2. ASSUME x \in {"move"} \X Upstreams \X Upstreams PROVE ItemIs(kind, x)
    BY <1>5, <2>2 DEF ItemIs, StepNames
  <2> QED BY <1>0, <2>1, <2>2
<1>6. CASE kind = "renameSite"
  <2>1. StepsOf(kind) = {<<"acquire">>, <<"release">>} \cup
          ({<<"scan">>, <<"renameFile", Home, Site, NewName>>, <<"renameHostDir", Site, NewName>>} \cup ({"unlink"} \X Upstreams \X {NewName}) \cup ({"blank"} \X Files \X {Domain, NewName}) \cup ({"rename"} \X Files \X {Domain, NewName} \X {Site} \X {NewName}))
    BY <1>6 DEF StepsOf
  <2>2. ASSUME x \in {<<"scan">>, <<"renameFile", Home, Site, NewName>>, <<"renameHostDir", Site, NewName>>} PROVE ItemIs(kind, x)
    BY <1>6, <2>2 DEF ItemIs, StepNames, Files
  <2>3. ASSUME x \in ({"unlink"} \X Upstreams \X {NewName}) PROVE ItemIs(kind, x)
    BY <1>6, <2>3 DEF ItemIs, StepNames, Files
  <2>4. ASSUME x \in ({"blank"} \X Files \X {Domain, NewName}) PROVE ItemIs(kind, x)
    BY <1>6, <2>4 DEF ItemIs, StepNames, Files
  <2>5. ASSUME x \in ({"rename"} \X Files \X {Domain, NewName} \X {Site} \X {NewName}) PROVE ItemIs(kind, x)
    BY <1>6, <2>5 DEF ItemIs, StepNames, Files
  <2> QED BY <1>0, <2>1, <2>2, <2>3, <2>4, <2>5
<1>7. CASE kind = "addHost"
  <2>1. StepsOf(kind) = {<<"acquire">>, <<"release">>} \cup
          (({"truncate"} \X {"map"} \X {Site, Domain}) \cup ({"write"} \X {"map"} \X {Site, Domain} \X {Site}))
    BY <1>7 DEF StepsOf
  <2>2. ASSUME x \in ({"truncate"} \X {"map"} \X {Site, Domain}) PROVE ItemIs(kind, x)
    BY <1>7, <2>2, ProxyAssumption DEF ItemIs, StepNames
  <2>3. ASSUME x \in ({"write"} \X {"map"} \X {Site, Domain} \X {Site}) PROVE ItemIs(kind, x)
    BY <1>7, <2>3, ProxyAssumption DEF ItemIs, StepNames
  <2> QED BY <1>0, <2>1, <2>2, <2>3
<1>8. CASE kind = "removeHost"
  <2>1. StepsOf(kind) = {<<"acquire">>, <<"release">>} \cup
          ({"rmtree"} \X {Site, Domain})
    BY <1>8 DEF StepsOf
  <2>2. ASSUME x \in {"rmtree"} \X {Site, Domain} PROVE ItemIs(kind, x)
    BY <1>8, <2>2 DEF ItemIs, StepNames
  <2> QED BY <1>0, <2>1, <2>2
<1>9. CASE kind = "redirects"
  <2>1. StepsOf(kind) = {<<"acquire">>, <<"release">>} \cup
          (({"removeRedirect"} \X {Site, Domain}) \cup ({"load", "truncate"} \X {"redirect"} \X {Site, Domain}) \cup {<<"write", "redirect", Site, Domain>>, <<"write", "redirect", Domain, Site>>})
    BY <1>9 DEF StepsOf
  <2>2. ASSUME x \in ({"removeRedirect"} \X {Site, Domain}) PROVE ItemIs(kind, x)
    BY <1>9, <2>2, ProxyAssumption DEF ItemIs, StepNames
  <2>3. ASSUME x \in ({"load", "truncate"} \X {"redirect"} \X {Site, Domain}) PROVE ItemIs(kind, x)
    BY <1>9, <2>3, ProxyAssumption DEF ItemIs, StepNames
  <2>4. ASSUME x \in {<<"write", "redirect", Site, Domain>>, <<"write", "redirect", Domain, Site>>} PROVE ItemIs(kind, x)
    BY <1>9, <2>4, ProxyAssumption DEF ItemIs, StepNames
  <2> QED BY <1>0, <2>1, <2>2, <2>3, <2>4
<1>10. CASE kind = "removeRedirect"
  <2>1. StepsOf(kind) = {<<"acquire">>, <<"release">>} \cup
          ({"removeRedirect"} \X {Site, Domain})
    BY <1>10 DEF StepsOf
  <2>2. ASSUME x \in {"removeRedirect"} \X {Site, Domain} PROVE ItemIs(kind, x)
    BY <1>10, <2>2 DEF ItemIs, StepNames
  <2> QED BY <1>0, <2>1, <2>2
<1>11. CASE kind = "scale"
  <2>1. StepsOf(kind) = {<<"acquire">>, <<"release">>} \cup
          ({<<"softAcquire">>, <<"softRelease">>} \cup ({"scale"} \X Upstreams \X {"primary", "scaled"}))
    BY <1>11 DEF StepsOf
  <2>2. ASSUME x \in {<<"softAcquire">>, <<"softRelease">>} PROVE ItemIs(kind, x)
    BY <1>11, <2>2 DEF ItemIs, StepNames
  <2>3. ASSUME x \in ({"scale"} \X Upstreams \X {"primary", "scaled"}) PROVE ItemIs(kind, x)
    BY <1>11, <2>3 DEF ItemIs, StepNames
  <2> QED BY <1>0, <2>1, <2>2, <2>3
<1>12. CASE kind \notin {"addSite", "removeSite", "updateStatus", "addUpstream", "renameUpstream", "renameSite", "addHost", "removeHost", "redirects", "removeRedirect", "scale"}
  <2>1. StepsOf(kind) = {<<"acquire">>, <<"release">>} \cup {}
    BY <1>12 DEF StepsOf
  <2> QED BY <1>0, <2>1
<1> QED BY <1>1, <1>2, <1>3, <1>4, <1>5, <1>6, <1>7, <1>8, <1>9, <1>10, <1>11, <1>12

(***************************************************************************)
(* What is left of a handler.                                              *)
(***************************************************************************)

\* A step leaves the rest, which is as orderly as the whole was.
LEMMA RestIsOrderly ==
    ASSUME NEW kind, NEW t \in Seq(StepsOf(kind)), t # <<>>, Orderly(kind, t)
    PROVE  /\ Head(t) \in StepsOf(kind) /\ Head(t) = t[1] /\ 1 \in 1..Len(t)
           /\ Tail(t) \in Seq(StepsOf(kind)) /\ Len(t) \in Nat
           /\ Len(Tail(t)) = Len(t) - 1
           /\ \A i \in 1..Len(Tail(t)) : i + 1 \in 1..Len(t) /\ Tail(t)[i] = t[i + 1]
           /\ \A k \in 1..Len(t) : k # 1 => k - 1 \in 1..Len(Tail(t)) /\ Tail(t)[k - 1] = t[k]
           /\ \A i \in 1..Len(Tail(t)) : Tail(t)[i][1] # "acquire"
           /\ Tail(t) = <<>> <=> t[1][1] = "release"
           /\ Orderly(kind, Tail(t))
<1> DEFINE u == Tail(t)
<1>1. /\ Head(t) \in StepsOf(kind) /\ u \in Seq(StepsOf(kind)) /\ Len(u) = Len(t) - 1
      /\ Len(t) \in Nat /\ Len(t) >= 1 /\ Len(u) \in Nat
      /\ \A i \in 1..Len(u) : u[i] = t[i + 1]
  BY HeadTailProperties, LenProperties, EmptySeq
<1>2. Head(t) = t[1]
  OBVIOUS
<1> HIDE DEF u
<1>3. \A i \in 1..Len(u) : i + 1 \in 1..Len(t) /\ u[i] = t[i + 1] /\ i + 1 # 1
  BY <1>1
<1>4. \A k \in 1..Len(t) : k # 1 => k - 1 \in 1..Len(u) /\ u[k - 1] = t[k]
  <2> SUFFICES ASSUME NEW k \in 1..Len(t), k # 1 PROVE k - 1 \in 1..Len(u) /\ u[k - 1] = t[k]
    OBVIOUS
  <2>1. k - 1 \in 1..Len(u) /\ (k - 1) + 1 = k
    BY <1>1
  <2> QED BY <1>1, <2>1
<1>5. u = <<>> <=> t[1][1] = "release"
  <2>1. u = <<>> <=> Len(u) = 0
    BY <1>1, EmptySeq
  <2>2. t[1][1] = "release" <=> 1 = Len(t)
    BY <1>1 DEF Orderly
  <2> QED BY <1>1, <2>1, <2>2
<1>6. ASSUME NEW a, NEW b, Followed(t, a, b) PROVE Followed(u, a, b)
  <2>1. ASSUME NEW i \in 1..Len(u), u[i][1] = a
        PROVE  i + 1 \in 1..Len(u) /\ u[i + 1][1] = b
    <3>1. (i + 1) + 1 \in 1..Len(t) /\ t[(i + 1) + 1][1] = b
      BY <1>3, <1>6, <2>1 DEF Followed
    <3>2. ((i + 1) + 1) - 1 = i + 1 /\ (i + 1) + 1 # 1
      BY <1>1
    <3> QED BY <1>4, <3>1, <3>2
  <2>2. ASSUME NEW i \in 1..Len(u), i + 1 \in 1..Len(u), u[i + 1][1] = b PROVE u[i][1] = a
    <3>1. i + 1 \in 1..Len(t) /\ (i + 1) + 1 \in 1..Len(t) /\ u[i] = t[i + 1] /\ u[i + 1] = t[(i + 1) + 1]
      BY <1>3, <2>2
    <3> QED BY <1>6, <2>2, <3>1 DEF Followed
  <2> QED BY <2>1, <2>2 DEF Followed
<1>7. ASSUME NEW a, NEW b, Followed(t, a, b), SameFile(t, a) PROVE SameFile(u, a)
  <2> SUFFICES ASSUME NEW i \in 1..Len(u), u[i][1] = a
               PROVE  u[i + 1][2] = u[i][2] /\ u[i + 1][3] = u[i][3]
    BY DEF SameFile
  <2>0. Followed(u, a, b)
    BY <1>6, <1>7
  <2>1. i + 1 \in 1..Len(u)
    BY <2>0 DEF Followed
  <2>2. u[i] = t[i + 1] /\ u[i + 1] = t[(i + 1) + 1] /\ i + 1 \in 1..Len(t)
    BY <1>3, <2>1
  <2> QED BY <1>7, <2>2 DEF SameFile
<1>8. ASSUME NEW A, NEW B, Toward(t, A, B) PROVE Toward(u, A, B)
  <2> SUFFICES ASSUME NEW i \in 1..Len(u), u[i][1] \in A
               PROVE  \E k \in 1..Len(u) : i < k /\ u[k][1] \in B
    BY DEF Toward
  <2>1. PICK k \in 1..Len(t) : i + 1 < k /\ t[k][1] \in B
    BY <1>3, <1>8 DEF Toward
  <2>2. k # 1 /\ i < k - 1
    BY <1>1, <2>1
  <2> QED BY <1>4, <2>1, <2>2
<1>9. ASSUME NEW A, NEW B, NeverAfter(t, A, B) PROVE NeverAfter(u, A, B)
  <2> SUFFICES ASSUME NEW i \in 1..Len(u), NEW k \in 1..Len(u), i < k, u[i][1] \in A
               PROVE  u[k][1] \notin B
    BY DEF NeverAfter
  <2>1. i + 1 < k + 1
    BY <1>1
  <2> QED BY <1>3, <1>9, <2>1 DEF NeverAfter
<1>10. ASSUME NEW A, NEW x, \A i \in 1..Len(t) : t[i][1] \in A => \E k \in 1..Len(t) : i < k /\ t[k] = x
       PROVE  \A i \in 1..Len(u) : u[i][1] \in A => \E k \in 1..Len(u) : i < k /\ u[k] = x
  <2> SUFFICES ASSUME NEW i \in 1..Len(u), u[i][1] \in A
               PROVE  \E k \in 1..Len(u) : i < k /\ u[k] = x
    OBVIOUS
  <2>1. PICK k \in 1..Len(t) : i + 1 < k /\ t[k] = x
    BY <1>3, <1>10
  <2>2. k # 1 /\ i < k - 1
    BY <1>1, <2>1
  <2> QED BY <1>4, <2>1, <2>2
<1>11. \A i \in 1..Len(u) : u[i][1] = "release" <=> i = Len(u)
  <2> SUFFICES ASSUME NEW i \in 1..Len(u) PROVE u[i][1] = "release" <=> i = Len(u)
    OBVIOUS
  <2>1. u[i][1] = "release" <=> i + 1 = Len(t)
    BY <1>3 DEF Orderly
  <2> QED BY <1>1, <2>1
<1>12. \A i \in 1..Len(u) : u[i][1] # "acquire"
  BY <1>3 DEF Orderly
<1>13. Orderly(kind, u)
  <2>1. /\ Followed(u, "truncate", "write") /\ SameFile(u, "truncate")
        /\ Followed(u, "blank", "rename") /\ SameFile(u, "blank")
        /\ Followed(u, "softAcquire", "scale") /\ Followed(u, "scale", "softRelease")
    BY <1>6, <1>7 DEF Orderly
  <2>2. kind \in {"addSite", "renameSite"} =>
          /\ Toward(u, Early, Put)
          /\ NeverAfter(u, Put, Early \cup Put)
    BY <1>8, <1>9 DEF Orderly
  <2>3. kind = "renameSite" =>
          /\ Toward(u, Early \cup Put, {"renameHostDir"})
          /\ NeverAfter(u, Late, Early \cup Put \cup {"renameHostDir"})
          /\ \A i \in 1..Len(u) : u[i][1] \in Early \cup Put \cup {"renameHostDir"} =>
                \E k \in 1..Len(u) : i < k /\ u[k] = <<"blank", "map", Domain>>
    BY <1>8, <1>9, <1>10 DEF Orderly
  <2>4. kind = "redirects" => NeverAfter(u, {"write"}, {"write", "removeRedirect"})
    BY <1>9 DEF Orderly
  <2> QED BY <1>11, <1>12, <2>1, <2>2, <2>3, <2>4 DEF Orderly
<1> QED BY <1>1, <1>2, <1>3, <1>4, <1>5, <1>12, <1>13 DEF u

\* What is where in two sequences one after the other.
LEMMA Both ==
    ASSUME NEW S, NEW s \in Seq(S), NEW t \in Seq(S), NEW st, st = s \o t
    PROVE  /\ st \in Seq(S) /\ Len(s) \in Nat /\ Len(t) \in Nat
           /\ Len(st) = Len(s) + Len(t)
           /\ \A i \in 1..Len(st) :
                 \/ i \in 1..Len(s) /\ st[i] = s[i]
                 \/ i > Len(s) /\ i - Len(s) \in 1..Len(t) /\ st[i] = t[i - Len(s)]
           /\ \A i \in 1..Len(s) : i \in 1..Len(st) /\ st[i] = s[i]
           /\ \A k \in 1..Len(t) : k + Len(s) \in 1..Len(st) /\ st[k + Len(s)] = t[k]
<1>1. Len(s) \in Nat /\ Len(t) \in Nat
  BY LenProperties
<1>2. /\ st \in Seq(S) /\ Len(st) = Len(s) + Len(t)
      /\ \A i \in 1..Len(s) + Len(t) : st[i] = IF i <= Len(s) THEN s[i] ELSE t[i - Len(s)]
  BY ConcatProperties
<1>3. ASSUME NEW i \in 1..Len(st)
      PROVE  \/ i \in 1..Len(s) /\ st[i] = s[i]
             \/ i > Len(s) /\ i - Len(s) \in 1..Len(t) /\ st[i] = t[i - Len(s)]
  <2>1. CASE i <= Len(s)
    BY <1>1, <1>2, <2>1
  <2>2. CASE ~ (i <= Len(s))
    <3>1. i > Len(s) /\ i - Len(s) \in 1..Len(t)
      BY <1>1, <1>2, <2>2
    <3> QED BY <1>1, <1>2, <2>2, <3>1
  <2> QED BY <2>1, <2>2
<1>4. ASSUME NEW i \in 1..Len(s) PROVE i \in 1..Len(st) /\ st[i] = s[i]
  BY <1>1, <1>2
<1>5. ASSUME NEW k \in 1..Len(t) PROVE k + Len(s) \in 1..Len(st) /\ st[k + Len(s)] = t[k]
  <2>1. k + Len(s) \in 1..Len(s) + Len(t) /\ ~ (k + Len(s) <= Len(s)) /\ (k + Len(s)) - Len(s) = k
    BY <1>1
  <2>2. st[k + Len(s)] = t[(k + Len(s)) - Len(s)]
    BY <1>2, <2>1
  <2>3. st[k + Len(s)] = t[k]
    BY <2>1, <2>2
  <2> QED BY <1>2, <2>1, <2>3
<1> QED BY <1>1, <1>2, <1>3, <1>4, <1>5

\* The steps of a handler without those that take and return the flock.
Body(kind, s) ==
    /\ s \in Seq(StepsOf(kind) \ {<<"acquire">>, <<"release">>})
    /\ 1 \in 1..Len(s) => s[1][1] \notin {"write", "rename", "scale", "softRelease"}
    /\ Followed(s, "truncate", "write") /\ SameFile(s, "truncate")
    /\ Followed(s, "blank", "rename") /\ SameFile(s, "blank")
    /\ Followed(s, "softAcquire", "scale") /\ Followed(s, "scale", "softRelease")
    /\ kind \in {"addSite", "renameSite"} =>
          /\ Toward(s, Early, Put) /\ \E k \in 1..Len(s) : s[k][1] \in Put
          /\ NeverAfter(s, Put, Early \cup Put)
    /\ kind = "renameSite" =>
          /\ Toward(s, Early \cup Put, {"renameHostDir"})
          /\ \E k \in 1..Len(s) : s[k][1] = "renameHostDir"
          /\ NeverAfter(s, Late, Early \cup Put \cup {"renameHostDir"})
          /\ \A i \in 1..Len(s) : s[i][1] \in Early \cup Put \cup {"renameHostDir"} =>
                \E k \in 1..Len(s) : i < k /\ s[k] = <<"blank", "map", Domain>>
          /\ \E k \in 1..Len(s) : s[k] = <<"blank", "map", Domain>>
    /\ kind = "redirects" => NeverAfter(s, {"write"}, {"write", "removeRedirect"})

\* A handler is orderly when what it does with the flock in hand is.
LEMMA LockedIsOrderly ==
    ASSUME NEW kind, NEW s, Body(kind, s)
    PROVE  /\ Locked(s) \in Seq(StepsOf(kind)) /\ Locked(s) # <<>>
           /\ Locked(s)[1] = <<"acquire">> /\ Head(Locked(s)) = <<"acquire">>
           /\ \A i \in 1..Len(s) : i + 1 \in 1..Len(Locked(s)) /\ Locked(s)[i + 1] = s[i]
           /\ Len(Locked(s)) = Len(s) + 2
           /\ Orderly(kind, Locked(s))
<1> DEFINE t == Locked(s)
           a == << <<"acquire">> >>
           b == << <<"release">> >>
           S == StepsOf(kind)
<1>1. S = S \cup {<<"acquire">>, <<"release">>}
  BY DEF StepsOf
<1>2. s \in Seq(S) /\ a \in Seq(S) /\ b \in Seq(S) /\ Len(a) = 1 /\ Len(b) = 1 /\ Len(s) \in Nat
  <2>1. s \in Seq(S)
    BY SeqMonotonic DEF Body
  <2> HIDE DEF S
  <2>2. <<"acquire">> \in S /\ <<"release">> \in S
    BY <1>1
  <2> QED BY <2>1, <2>2, LenProperties
<1>3. a[1] = <<"acquire">> /\ b[1] = <<"release">>
  OBVIOUS
<1>4. ASSUME NEW i \in 1..Len(s) PROVE s[i] \in S /\ s[i][1] # "acquire" /\ s[i][1] # "release"
  <2>1. s[i] \in S \ {<<"acquire">>, <<"release">>}
    BY ElementOfSeq DEF Body
  <2> QED BY <2>1, Items DEF ItemIs
<1> HIDE DEF a, b, S
<1>5. a \o s \in Seq(S) /\ Len(a \o s) = Len(s) + 1 /\ (a \o s)[1] = <<"acquire">>
      /\ \A i \in 1..Len(s) : i + 1 \in 1..Len(a \o s) /\ (a \o s)[i + 1] = s[i]
  <2>1. PICK c : c = a \o s
    OBVIOUS
  <2>2. /\ c \in Seq(S) /\ Len(c) = Len(a) + Len(s)
        /\ \A i \in 1..Len(a) : i \in 1..Len(c) /\ c[i] = a[i]
        /\ \A k \in 1..Len(s) : k + Len(a) \in 1..Len(c) /\ c[k + Len(a)] = s[k]
    BY <1>2, <2>1, Both
  <2>3. c[1] = a[1]
    BY <1>2, <2>2
  <2> QED BY <1>2, <1>3, <2>1, <2>2, <2>3
<1>6. t = (a \o s) \o b
  BY DEF Locked, a, b
<1>7. /\ t \in Seq(S) /\ Len(t) = Len(s) + 2
      /\ t[1] = <<"acquire">> /\ t[Len(s) + 2] = <<"release">>
      /\ \A i \in 1..Len(s) : i + 1 \in 1..Len(t) /\ t[i + 1] = s[i]
  <2>1. PICK c : c = a \o s
    OBVIOUS
  <2>2. c \in Seq(S) /\ Len(c) = Len(s) + 1 /\ c[1] = <<"acquire">>
        /\ \A i \in 1..Len(s) : i + 1 \in 1..Len(c) /\ c[i + 1] = s[i]
    BY <1>5, <2>1
  <2> HIDE DEF t
  <2>3. t = c \o b
    BY <1>6, <2>1
  <2>4. /\ t \in Seq(S) /\ Len(t) = Len(c) + Len(b)
        /\ \A i \in 1..Len(c) : i \in 1..Len(t) /\ t[i] = c[i]
        /\ \A k \in 1..Len(b) : k + Len(c) \in 1..Len(t) /\ t[k + Len(c)] = b[k]
    <3>1. c \in Seq(S) /\ b \in Seq(S)
      BY <1>2, <2>2
    <3> QED BY <2>3, <3>1, Both
  <2>5. t[1 + Len(c)] = <<"release">> /\ 1 \in 1..Len(c)
    BY <1>2, <1>3, <2>2, <2>4
  <2> QED BY <1>2, <2>2, <2>4, <2>5
<1> HIDE DEF t
<1>8. ASSUME NEW i \in 1..Len(t)
      PROVE  \/ i = 1 /\ t[i] = <<"acquire">>
             \/ i = Len(t) /\ t[i] = <<"release">>
             \/ i - 1 \in 1..Len(s) /\ t[i] = s[i - 1] /\ i # 1 /\ i # Len(t)
  <2>1. i = 1 \/ i = Len(t) \/ (i - 1 \in 1..Len(s) /\ (i - 1) + 1 = i /\ i # 1 /\ i # Len(t))
    BY <1>2, <1>7
  <2>2. ASSUME i - 1 \in 1..Len(s), (i - 1) + 1 = i PROVE t[i] = s[i - 1]
    BY <1>7, <2>2
  <2> QED BY <1>7, <2>1, <2>2
<1>9. 1 # Len(t) /\ Len(t) \in Nat
  BY <1>2, <1>7
<1>10. \A i \in 1..Len(t) : t[i][1] \notin {"acquire", "release"} => i - 1 \in 1..Len(s) /\ t[i] = s[i - 1]
  BY <1>8
<1>11. ASSUME NEW i \in 1..Len(t)
       PROVE  (t[i][1] = "release" <=> i = Len(t)) /\ (t[i][1] = "acquire" => i = 1)
  <2>1. CASE i = 1 /\ t[i] = <<"acquire">>
    BY <1>9, <2>1
  <2>2. CASE i = Len(t) /\ t[i] = <<"release">>
    BY <2>2
  <2>3. CASE i - 1 \in 1..Len(s) /\ t[i] = s[i - 1] /\ i # 1 /\ i # Len(t)
    BY <1>4, <2>3
  <2> QED BY <1>8, <2>1, <2>2, <2>3
<1>13. ASSUME NEW x, NEW y, Followed(s, x, y), x \notin {"acquire", "release"},
              y \in {"write", "rename", "scale", "softRelease"}
       PROVE  Followed(t, x, y)
  <2>1. ASSUME NEW i \in 1..Len(t), t[i][1] = x
        PROVE  i + 1 \in 1..Len(t) /\ t[i + 1][1] = y
    <3>1. i - 1 \in 1..Len(s) /\ s[i - 1][1] = x
      BY <1>10, <1>13, <2>1
    <3>2. (i - 1) + 1 \in 1..Len(s) /\ s[(i - 1) + 1][1] = y
      BY <1>13, <3>1 DEF Followed
    <3>3. (i - 1) + 1 = i
      BY <1>2
    <3> QED BY <1>7, <3>2, <3>3
  <2>2. ASSUME NEW i \in 1..Len(t), i + 1 \in 1..Len(t), t[i + 1][1] = y PROVE t[i][1] = x
    <3>1. (i + 1) - 1 \in 1..Len(s) /\ t[i + 1] = s[(i + 1) - 1] /\ (i + 1) - 1 = i
      BY <1>2, <1>10, <1>13, <2>2
    <3>2. i \in 1..Len(s) /\ s[i][1] = y
      BY <2>2, <3>1
    <3>3. i # 1
      BY <1>13, <3>2 DEF Body
    <3>4. i - 1 \in 1..Len(s) /\ (i - 1) + 1 = i
      BY <1>2, <3>2, <3>3
    <3>5. s[i - 1][1] = x /\ t[(i - 1) + 1] = s[i - 1]
      BY <1>7, <1>13, <3>2, <3>4 DEF Followed
    <3> QED BY <3>4, <3>5
  <2> QED BY <2>1, <2>2 DEF Followed
<1>14. ASSUME NEW x, NEW y, Followed(s, x, y), SameFile(s, x), x \notin {"acquire", "release"}
       PROVE SameFile(t, x)
  <2> SUFFICES ASSUME NEW i \in 1..Len(t), t[i][1] = x
               PROVE  t[i + 1][2] = t[i][2] /\ t[i + 1][3] = t[i][3]
    BY DEF SameFile
  <2>1. i - 1 \in 1..Len(s) /\ s[i - 1][1] = x /\ t[i] = s[i - 1]
    BY <1>10, <1>14
  <2>2. (i - 1) + 1 \in 1..Len(s)
    BY <1>14, <2>1 DEF Followed
  <2>3. s[(i - 1) + 1][2] = s[i - 1][2] /\ s[(i - 1) + 1][3] = s[i - 1][3]
    BY <1>14, <2>1 DEF SameFile
  <2>4. (i - 1) + 1 = i
    BY <1>2
  <2> QED BY <1>7, <2>1, <2>2, <2>3, <2>4
<1>15. ASSUME NEW A, NEW B, Toward(s, A, B), \E k \in 1..Len(s) : s[k][1] \in B, "release" \notin A
       PROVE  Toward(t, A, B)
  <2> SUFFICES ASSUME NEW i \in 1..Len(t), t[i][1] \in A
               PROVE  \E k \in 1..Len(t) : i < k /\ t[k][1] \in B
    BY DEF Toward
  <2>1. CASE i = 1
    <3>1. PICK k \in 1..Len(s) : s[k][1] \in B
      BY <1>15
    <3>2. k + 1 \in 1..Len(t) /\ t[k + 1] = s[k] /\ 1 < k + 1
      BY <1>2, <1>7
    <3> QED BY <2>1, <3>1, <3>2
  <2>2. CASE i - 1 \in 1..Len(s) /\ t[i] = s[i - 1]
    <3>1. PICK k \in 1..Len(s) : i - 1 < k /\ s[k][1] \in B
      BY <1>15, <2>2 DEF Toward
    <3>2. k + 1 \in 1..Len(t) /\ t[k + 1] = s[k] /\ i < k + 1
      BY <1>2, <1>7, <3>1
    <3> QED BY <3>1, <3>2
  <2> QED BY <1>8, <1>15, <2>1, <2>2
<1>16. ASSUME NEW A, NEW x, "release" \notin A, \E k \in 1..Len(s) : s[k] = x,
              \A i \in 1..Len(s) : s[i][1] \in A => \E k \in 1..Len(s) : i < k /\ s[k] = x
       PROVE  \A i \in 1..Len(t) : t[i][1] \in A => \E k \in 1..Len(t) : i < k /\ t[k] = x
  <2> SUFFICES ASSUME NEW i \in 1..Len(t), t[i][1] \in A
               PROVE  \E k \in 1..Len(t) : i < k /\ t[k] = x
    OBVIOUS
  <2>1. CASE i = 1
    <3>1. PICK k \in 1..Len(s) : s[k] = x
      BY <1>16
    <3>2. k + 1 \in 1..Len(t) /\ t[k + 1] = s[k] /\ 1 < k + 1
      BY <1>2, <1>7
    <3> QED BY <2>1, <3>1, <3>2
  <2>2. CASE i - 1 \in 1..Len(s) /\ t[i] = s[i - 1]
    <3>1. PICK k \in 1..Len(s) : i - 1 < k /\ s[k] = x
      BY <1>16, <2>2
    <3>2. k + 1 \in 1..Len(t) /\ t[k + 1] = s[k] /\ i < k + 1
      BY <1>2, <1>7, <3>1
    <3> QED BY <3>1, <3>2
  <2> QED BY <1>8, <1>16, <2>1, <2>2
<1>17. ASSUME NEW A, NEW B, NeverAfter(s, A, B), "release" \notin A \cup B, "acquire" \notin A
       PROVE  NeverAfter(t, A, B)
  <2> SUFFICES ASSUME NEW i \in 1..Len(t), NEW k \in 1..Len(t), i < k, t[i][1] \in A, t[k][1] \in B
               PROVE  FALSE
    BY DEF NeverAfter
  <2>1. i - 1 \in 1..Len(s) /\ t[i] = s[i - 1]
    BY <1>8, <1>17
  <2>2. k # 1
    BY <1>2
  <2>3. k - 1 \in 1..Len(s) /\ t[k] = s[k - 1] /\ i - 1 < k - 1
    BY <1>2, <1>8, <1>17, <2>2
  <2> QED BY <1>17, <2>1, <2>3 DEF NeverAfter
<1>18. Orderly(kind, t)
  <2>1. /\ Followed(t, "truncate", "write") /\ SameFile(t, "truncate")
        /\ Followed(t, "blank", "rename") /\ SameFile(t, "blank")
        /\ Followed(t, "softAcquire", "scale") /\ Followed(t, "scale", "softRelease")
    BY <1>13, <1>14 DEF Body
  <2>2. ASSUME kind \in {"addSite", "renameSite"}
        PROVE  Toward(t, Early, Put) /\ NeverAfter(t, Put, Early \cup Put)
    <3>1. "release" \notin Early /\ "release" \notin Put \cup (Early \cup Put) /\ "acquire" \notin Put
      BY DEF Early, Put
    <3> QED BY <1>15, <1>17, <2>2, <3>1 DEF Body
  <2>3. ASSUME kind = "renameSite"
        PROVE  /\ Toward(t, Early \cup Put, {"renameHostDir"})
               /\ NeverAfter(t, Late, Early \cup Put \cup {"renameHostDir"})
               /\ \A i \in 1..Len(t) : t[i][1] \in Early \cup Put \cup {"renameHostDir"} =>
                    \E k \in 1..Len(t) : i < k /\ t[k] = <<"blank", "map", Domain>>
    <3> DEFINE A == Early \cup Put
               C == Early \cup Put \cup {"renameHostDir"}
    <3>1. "release" \notin A /\ "release" \notin C /\ "release" \notin Late \cup C /\ "acquire" \notin Late
      BY DEF Early, Put, Late
    <3>2. Toward(s, A, {"renameHostDir"}) /\ \E k \in 1..Len(s) : s[k][1] \in {"renameHostDir"}
      BY <2>3 DEF Body
    <3>3. NeverAfter(s, Late, C)
      BY <2>3 DEF Body
    <3>4. /\ \E k \in 1..Len(s) : s[k] = <<"blank", "map", Domain>>
          /\ \A i \in 1..Len(s) : s[i][1] \in C => \E k \in 1..Len(s) : i < k /\ s[k] = <<"blank", "map", Domain>>
      BY <2>3 DEF Body
    <3> HIDE DEF A, C
    <3>5. Toward(t, A, {"renameHostDir"})
      BY <1>15, <3>1, <3>2
    <3>6. NeverAfter(t, Late, C)
      BY <1>17, <3>1, <3>3
    <3>7. \A i \in 1..Len(t) : t[i][1] \in C => \E k \in 1..Len(t) : i < k /\ t[k] = <<"blank", "map", Domain>>
      BY <1>16, <3>1, <3>4
    <3> QED BY <3>5, <3>6, <3>7 DEF A, C
  <2>4. kind = "redirects" => NeverAfter(t, {"write"}, {"write", "removeRedirect"})
    BY <1>17 DEF Body
  <2> QED BY <1>11, <2>1, <2>2, <2>3, <2>4 DEF Orderly
<1>19. t # <<>> /\ Head(t) = t[1]
  BY <1>2, <1>7, EmptySeq
<1> QED BY <1>7, <1>18, <1>19 DEF t, S

\* SetToSeq lists every element of a finite set.
LEMMA Enumeration ==
    ASSUME NEW S, IsFiniteSet(S)
    PROVE  /\ SetToSeq(S) \in Seq(S) /\ Len(SetToSeq(S)) = Cardinality(S)
           /\ \A x \in S : \E i \in 1..Len(SetToSeq(S)) : SetToSeq(S)[i] = x
<1> DEFINE n == Cardinality(S)
           f == SetToSeq(S)
<1>1. n \in Nat /\ ExistsBijection(1..n, S)
  BY FS_CardinalityType
<1>2. \E g \in [1..n -> S] : IsInjective(g)
  BY <1>1 DEF ExistsBijection, Bijection, Injection
<1>3. f \in [1..n -> S] /\ IsInjective(f)
  BY <1>2 DEF SetToSeq
<1>4. f \in Injection(1..n, S)
  BY <1>3 DEF Injection
<1>5. IsFiniteSet(1..n) /\ Cardinality(1..n) = n
  BY <1>1, FS_Interval
<1>6. f \in Surjection(1..n, S)
  BY <1>4, <1>5, FS_Injection
<1>7. f \in Seq(S) /\ Len(f) = n
  BY <1>1, <1>3, SeqDef, LenProperties
<1> QED BY <1>6, <1>7 DEF Surjection

Simple == {"removeSite", "addUpstream", "renameUpstream", "removeHost", "removeRedirect"}

\* Handlers of one, two and three steps.
LEMMA OneStep ==
    ASSUME NEW kind \in Simple, NEW x \in StepsOf(kind), x[1] \notin {"acquire", "release"}
    PROVE  Body(kind, <<x>>)
<1> DEFINE s == <<x>>
<1>1. x \in StepsOf(kind) \ {<<"acquire">>, <<"release">>}
  OBVIOUS
<1>2. s \in Seq(StepsOf(kind) \ {<<"acquire">>, <<"release">>}) /\ Len(s) = 1 /\ s[1] = x
  BY <1>1
<1>3. x[1] \notin {"truncate", "blank", "softAcquire", "scale", "write", "rename", "softRelease"}
  BY Items DEF ItemIs, Simple
<1>4. kind \notin {"addSite", "renameSite", "redirects"}
  BY DEF Simple
<1> HIDE DEF s
<1>5. \A i \in 1..Len(s) : s[i] = x
  BY <1>2
<1> QED BY <1>2, <1>3, <1>4, <1>5 DEF Body, Followed, SameFile, s

\* update_site_status_job and add_host_job: two steps on one file.
LEMMA TwoSteps ==
    ASSUME NEW kind \in {"updateStatus", "addHost"}, NEW x \in StepsOf(kind), NEW y \in StepsOf(kind),
           x[1] = "status" \/ (x[1] = "truncate" /\ y[2] = x[2] /\ y[3] = x[3]),
           y[1] = IF x[1] = "status" THEN "status" ELSE "write"
    PROVE  Body(kind, <<x, y>>)
<1> DEFINE s == <<x, y>>
<1>1. x \in StepsOf(kind) \ {<<"acquire">>, <<"release">>} /\ y \in StepsOf(kind) \ {<<"acquire">>, <<"release">>}
  OBVIOUS
<1>2. s \in Seq(StepsOf(kind) \ {<<"acquire">>, <<"release">>}) /\ Len(s) = 2 /\ s[1] = x /\ s[2] = y
  BY <1>1
<1>3. kind \notin {"addSite", "renameSite", "redirects"}
  OBVIOUS
<1> HIDE DEF s
<1>4. \A i \in 1..Len(s) : i = 1 \/ i = 2
  BY <1>2
<1>5. Followed(s, "truncate", "write") /\ SameFile(s, "truncate")
  BY <1>2, <1>4 DEF Followed, SameFile
<1>6. \A i \in 1..Len(s) : s[i][1] \in {"status", "truncate", "write"}
  BY <1>2, <1>4
<1>7. /\ Followed(s, "blank", "rename") /\ SameFile(s, "blank")
      /\ Followed(s, "softAcquire", "scale") /\ Followed(s, "scale", "softRelease")
  BY <1>6 DEF Followed, SameFile
<1> QED BY <1>2, <1>3, <1>5, <1>7 DEF Body, s

\* scale: the step between the making and the removal of the lock file.
LEMMA ThreeSteps ==
    ASSUME NEW x \in StepsOf("scale"), x[1] = "scale"
    PROVE  Body("scale", << <<"softAcquire">>, x, <<"softRelease">> >>)
<1> DEFINE a == <<"softAcquire">>
           b == <<"softRelease">>
           s == <<a, x, b>>
           S == StepsOf("scale") \ {<<"acquire">>, <<"release">>}
<1>1. x \in S /\ a \in S /\ b \in S
  BY DEF StepsOf
<1>2. a[1] = "softAcquire" /\ b[1] = "softRelease"
  OBVIOUS
<1> HIDE DEF a, b
<1>3. s \in Seq(S) /\ Len(s) = 3 /\ s[1] = a /\ s[2] = x /\ s[3] = b
  BY <1>1
<1> HIDE DEF s
<1>4. \A i \in 1..Len(s) : i = 1 \/ i = 2 \/ i = 3
  BY <1>3
<1>5. Followed(s, "softAcquire", "scale") /\ Followed(s, "scale", "softRelease")
  BY <1>2, <1>3, <1>4 DEF Followed
<1>6. \A i \in 1..Len(s) : s[i][1] \in {"scale", "softAcquire", "softRelease"}
  BY <1>2, <1>3, <1>4
<1>7. /\ Followed(s, "blank", "rename") /\ SameFile(s, "blank")
      /\ Followed(s, "truncate", "write") /\ SameFile(s, "truncate")
  BY <1>6 DEF Followed, SameFile
<1> QED BY <1>3, <1>5, <1>7 DEF Body, s, a, b

\* remove_conflicting_site looks at every upstream.
LEMMA Conflicting ==
    ASSUME NEW n, NEW S, <<"scan">> \in S, \A u \in Upstreams : <<"unlink", u, n>> \in S
    PROVE  /\ RemoveConflicting(n) \in Seq(S)
           /\ Len(RemoveConflicting(n)) \in Nat
           /\ \A i \in 1..Len(RemoveConflicting(n)) : RemoveConflicting(n)[i][1] \in {"scan", "unlink"}
           /\ \A w \in Upstreams : \E k \in 1..Len(RemoveConflicting(n)) :
                 RemoveConflicting(n)[k] = <<"unlink", w, n>>
<1>1. PICK us : us = SetToSeq(Upstreams)
  OBVIOUS
<1>2. us \in Seq(Upstreams) /\ \A x \in Upstreams : \E i \in 1..Len(us) : us[i] = x
  BY <1>1, ProxyAssumption, Enumeration
<1>3. PICK b : b = UnlinkEach(us, n)
  OBVIOUS
<1>4. Len(us) \in Nat /\ \A i \in 1..Len(us) : us[i] \in Upstreams
  BY <1>2, LenProperties, ElementOfSeq
<1>5. b = [i \in 1..Len(us) |-> <<"unlink", us[i], n>>]
  BY <1>3 DEF UnlinkEach
<1>6. b \in Seq(S) /\ Len(b) = Len(us)
  <2>1. \A i \in 1..Len(us) : <<"unlink", us[i], n>> \in S
    BY <1>4
  <2>2. b \in [1..Len(us) -> S]
    BY <1>5, <2>1
  <2> QED BY <1>4, <2>2
<1>7. PICK a : a = << <<"scan">> >>
  OBVIOUS
<1>8. a \in Seq(S) /\ Len(a) = 1 /\ a[1] = <<"scan">>
  BY <1>7
<1>9. PICK c : c = RemoveConflicting(n)
  OBVIOUS
<1>10. c = a \o b
  BY <1>1, <1>3, <1>7, <1>9 DEF RemoveConflicting
<1>11. /\ c \in Seq(S) /\ Len(c) = Len(a) + Len(b)
       /\ \A i \in 1..Len(c) :
                 \/ i \in 1..Len(a) /\ c[i] = a[i]
                 \/ i > Len(a) /\ i - Len(a) \in 1..Len(b) /\ c[i] = b[i - Len(a)]
       /\ \A k \in 1..Len(b) : k + Len(a) \in 1..Len(c) /\ c[k + Len(a)] = b[k]
  <2>1. a \in Seq(S) /\ b \in Seq(S)
    BY <1>6, <1>8
  <2> QED BY <1>10, <2>1, Both
<1>12. \A i \in 1..Len(b) : b[i][1] = "unlink"
  BY <1>5, <1>6
<1>13. ASSUME NEW i \in 1..Len(c) PROVE c[i][1] \in {"scan", "unlink"}
  <2>1. CASE i \in 1..Len(a) /\ c[i] = a[i]
    <3>1. i = 1
      BY <1>8, <2>1
    <3> QED BY <1>8, <2>1, <3>1
  <2>2. CASE i > Len(a) /\ i - Len(a) \in 1..Len(b) /\ c[i] = b[i - Len(a)]
    BY <1>12, <2>2
  <2> QED BY <1>11, <2>1, <2>2
<1>14. ASSUME NEW w \in Upstreams PROVE \E k \in 1..Len(c) : c[k] = <<"unlink", w, n>>
  <2>1. PICK i \in 1..Len(us) : us[i] = w
    BY <1>2
  <2>2. b[i] = <<"unlink", w, n>> /\ i \in 1..Len(b)
    BY <1>5, <1>6, <2>1
  <2>3. i + Len(a) \in 1..Len(c) /\ c[i + Len(a)] = b[i]
    BY <1>11, <2>2
  <2> QED BY <2>2, <2>3
<1>15. Len(c) \in Nat
  BY <1>11, LenProperties
<1> QED BY <1>9, <1>11, <1>13, <1>14, <1>15

\* add_site_to_upstream_job unlinks the name in every upstream before it creates the file.
LEMMA AddSiteBody ==
    ASSUME NEW u \in Upstreams
    PROVE  \E s : /\ s = RemoveConflicting(Site) \o << <<"touch", u, Site>> >>
                  /\ Body("addSite", s)
                  /\ \A w \in Upstreams : \E k \in 1..Len(s) : s[k] = <<"unlink", w, Site>>
<1> DEFINE S == StepsOf("addSite") \ {<<"acquire">>, <<"release">>}
<1>1. PICK c : c = RemoveConflicting(Site)
  OBVIOUS
<1>2. PICK d : d = << <<"touch", u, Site>> >>
  OBVIOUS
<1>3. PICK s : s = c \o d
  OBVIOUS
<1>4. <<"scan">> \in S /\ <<"touch", u, Site>> \in S /\ \A w \in Upstreams : <<"unlink", w, Site>> \in S
  BY DEF StepsOf
<1> HIDE DEF S
<1>5. /\ c \in Seq(S) /\ Len(c) \in Nat
      /\ \A i \in 1..Len(c) : c[i][1] \in {"scan", "unlink"}
      /\ \A w \in Upstreams : \E k \in 1..Len(c) : c[k] = <<"unlink", w, Site>>
  BY <1>1, <1>4, Conflicting
<1>6. d \in Seq(S) /\ Len(d) = 1 /\ d[1] = <<"touch", u, Site>>
  BY <1>2, <1>4
<1>7. /\ s \in Seq(S) /\ Len(s) = Len(c) + Len(d)
      /\ \A i \in 1..Len(s) :
            \/ i \in 1..Len(c) /\ s[i] = c[i]
            \/ i > Len(c) /\ i - Len(c) \in 1..Len(d) /\ s[i] = d[i - Len(c)]
      /\ \A i \in 1..Len(c) : i \in 1..Len(s) /\ s[i] = c[i]
      /\ \A k \in 1..Len(d) : k + Len(c) \in 1..Len(s) /\ s[k + Len(c)] = d[k]
  <2>1. c \in Seq(S) /\ d \in Seq(S)
    BY <1>5, <1>6
  <2> QED BY <1>3, <2>1, Both
<1>8. ASSUME NEW i \in 1..Len(s)
      PROVE  (i < Len(s) /\ s[i][1] \in {"scan", "unlink"}) \/ (i = Len(s) /\ s[i][1] = "touch")
  <2>1. CASE i \in 1..Len(c) /\ s[i] = c[i]
    BY <1>5, <1>6, <1>7, <2>1
  <2>2. CASE i > Len(c) /\ i - Len(c) \in 1..Len(d) /\ s[i] = d[i - Len(c)]
    <3>1. i - Len(c) = 1 /\ i = Len(s)
      BY <1>5, <1>6, <1>7, <2>2
    <3>2. s[i] = d[1]
      BY <2>2, <3>1
    <3> QED BY <1>6, <3>1, <3>2
  <2> QED BY <1>7, <2>1, <2>2
<1>9. Len(s) \in 1..Len(s) /\ s[Len(s)][1] = "touch"
  <2>1. Len(s) \in Nat /\ Len(s) >= 1
    BY <1>5, <1>6, <1>7
  <2> QED BY <1>8, <2>1
<1>10. /\ Followed(s, "truncate", "write") /\ SameFile(s, "truncate")
       /\ Followed(s, "blank", "rename") /\ SameFile(s, "blank")
       /\ Followed(s, "softAcquire", "scale") /\ Followed(s, "scale", "softRelease")
  BY <1>8 DEF Followed, SameFile
<1>11. Toward(s, Early, Put) /\ \E k \in 1..Len(s) : s[k][1] \in Put
  BY <1>8, <1>9 DEF Toward, Early, Put
<1>12. NeverAfter(s, Put, Early \cup Put)
  <2> SUFFICES ASSUME NEW i \in 1..Len(s), NEW k \in 1..Len(s), i < k, s[i][1] \in Put PROVE FALSE
    BY DEF NeverAfter
  <2>1. i = Len(s)
    BY <1>8 DEF Put
  <2> QED BY <1>5, <1>6, <1>7, <2>1
<1>13. Body("addSite", s)
  <2>1. 1 \in 1..Len(s) => s[1][1] \notin {"write", "rename", "scale", "softRelease"}
    BY <1>8
  <2> QED BY <1>7, <1>10, <1>11, <1>12, <2>1 DEF Body, S
<1>14. \A w \in Upstreams : \E k \in 1..Len(s) : s[k] = <<"unlink", w, Site>>
  <2> SUFFICES ASSUME NEW w \in Upstreams PROVE \E k \in 1..Len(s) : s[k] = <<"unlink", w, Site>>
    OBVIOUS
  <2>1. PICK k \in 1..Len(c) : c[k] = <<"unlink", w, Site>>
    BY <1>5
  <2> QED BY <1>7, <2>1
<1> QED BY <1>1, <1>2, <1>3, <1>13, <1>14

\* The steps of rename_site_in_host_dir.
LEMMA InHost ==
    ASSUME NEW h \in {Domain, NewName}
    PROVE  \E r : /\ r = RenameInHost(h, Site, NewName)
                  /\ r \in Seq(StepsOf("renameSite") \ {<<"acquire">>, <<"release">>}) /\ Len(r) = 4
                  /\ r[1] = <<"blank", "map", h>> /\ r[2] = <<"rename", "map", h, Site, NewName>>
                  /\ r[3] = <<"blank", "redirect", h>>
                  /\ r[4] = <<"rename", "redirect", h, Site, NewName>>
<1> DEFINE a == <<"blank", "map", h>>
           b == <<"rename", "map", h, Site, NewName>>
           c == <<"blank", "redirect", h>>
           d == <<"rename", "redirect", h, Site, NewName>>
           r == <<a, b, c, d>>
           S == StepsOf("renameSite") \ {<<"acquire">>, <<"release">>}
<1>1. a \in S /\ b \in S /\ c \in S /\ d \in S
  <2>1. StepsOf("renameSite") = {<<"acquire">>, <<"release">>} \cup
           ({<<"scan">>, <<"renameFile", Home, Site, NewName>>, <<"renameHostDir", Site, NewName>>}
           \cup ({"unlink"} \X Upstreams \X {NewName})
           \cup ({"blank"} \X Files \X {Domain, NewName})
           \cup ({"rename"} \X Files \X {Domain, NewName} \X {Site} \X {NewName}))
    BY DEF StepsOf
  <2>2. a \in {"blank"} \X Files \X {Domain, NewName} /\ c \in {"blank"} \X Files \X {Domain, NewName}
    BY DEF Files
  <2>3. /\ b \in {"rename"} \X Files \X {Domain, NewName} \X {Site} \X {NewName}
        /\ d \in {"rename"} \X Files \X {Domain, NewName} \X {Site} \X {NewName}
    BY DEF Files
  <2> QED BY <2>1, <2>2, <2>3
<1>2. r = RenameInHost(h, Site, NewName)
  BY DEF RenameInHost
<1> HIDE DEF a, b, c, d, S
<1>3. r \in Seq(S) /\ Len(r) = 4 /\ r[1] = a /\ r[2] = b /\ r[3] = c /\ r[4] = d
  BY <1>1
<1> HIDE DEF r
<1> QED BY <1>2, <1>3 DEF a, b, c, d, S

\* rename_site_on_upstream_job unlinks the new name everywhere, and takes the file along, then
\* the host directory, then the routes.
LEMMA RenameSiteBody ==
    \E s : /\ s = RemoveConflicting(NewName)
                  \o << <<"renameFile", Home, Site, NewName>>, <<"renameHostDir", Site, NewName>> >>
                  \o RenameInHost(Domain, Site, NewName)
           /\ Body("renameSite", s)
           /\ \A w \in Upstreams : \E k \in 1..Len(s) : s[k] = <<"unlink", w, NewName>>
<1> DEFINE S == StepsOf("renameSite") \ {<<"acquire">>, <<"release">>}
           x == <<"renameFile", Home, Site, NewName>>
           y == <<"renameHostDir", Site, NewName>>
<1>1. PICK c : c = RemoveConflicting(NewName)
  OBVIOUS
<1>2. PICK d : d = <<x, y>>
  OBVIOUS
<1>3. PICK r : /\ r = RenameInHost(Domain, Site, NewName)
               /\ r \in Seq(S) /\ Len(r) = 4
               /\ r[1] = <<"blank", "map", Domain>> /\ r[2] = <<"rename", "map", Domain, Site, NewName>>
               /\ r[3] = <<"blank", "redirect", Domain>>
               /\ r[4] = <<"rename", "redirect", Domain, Site, NewName>>
  <2>1. Domain \in {Domain, NewName}
    OBVIOUS
  <2> QED BY <2>1, InHost
<1>4. PICK e : e = c \o d
  OBVIOUS
<1>5. PICK s : s = e \o r
  OBVIOUS
<1>6. <<"scan">> \in S /\ x \in S /\ y \in S /\ \A w \in Upstreams : <<"unlink", w, NewName>> \in S
  BY DEF StepsOf
<1>7. x[1] = "renameFile" /\ y[1] = "renameHostDir"
  OBVIOUS
<1>8. s = RemoveConflicting(NewName) \o <<x, y>> \o RenameInHost(Domain, Site, NewName)
  BY <1>1, <1>2, <1>3, <1>4, <1>5
<1> HIDE DEF S, x, y
<1>9. /\ c \in Seq(S) /\ Len(c) \in Nat
      /\ \A i \in 1..Len(c) : c[i][1] \in {"scan", "unlink"}
      /\ \A w \in Upstreams : \E k \in 1..Len(c) : c[k] = <<"unlink", w, NewName>>
  BY <1>1, <1>6, Conflicting
<1>10. d \in Seq(S) /\ Len(d) = 2 /\ d[1] = x /\ d[2] = y
  BY <1>2, <1>6
<1>11. /\ e \in Seq(S) /\ Len(e) = Len(c) + Len(d)
       /\ \A i \in 1..Len(e) :
            \/ i \in 1..Len(c) /\ e[i] = c[i]
            \/ i > Len(c) /\ i - Len(c) \in 1..Len(d) /\ e[i] = d[i - Len(c)]
       /\ \A i \in 1..Len(c) : i \in 1..Len(e) /\ e[i] = c[i]
       /\ \A k \in 1..Len(d) : k + Len(c) \in 1..Len(e) /\ e[k + Len(c)] = d[k]
  <2>1. c \in Seq(S) /\ d \in Seq(S)
    BY <1>9, <1>10
  <2> QED BY <1>4, <2>1, Both
<1>12. /\ s \in Seq(S) /\ Len(s) = Len(e) + Len(r)
       /\ \A i \in 1..Len(s) :
            \/ i \in 1..Len(e) /\ s[i] = e[i]
            \/ i > Len(e) /\ i - Len(e) \in 1..Len(r) /\ s[i] = r[i - Len(e)]
       /\ \A i \in 1..Len(e) : i \in 1..Len(s) /\ s[i] = e[i]
       /\ \A k \in 1..Len(r) : k + Len(e) \in 1..Len(s) /\ s[k + Len(e)] = r[k]
  <2>1. e \in Seq(S) /\ r \in Seq(S)
    BY <1>3, <1>11
  <2> QED BY <1>5, <2>1, Both
<1>13. PICK n \in Nat : n = Len(c)
  BY <1>9
<1>14. Len(s) = n + 6 /\ Len(e) = n + 2
  BY <1>3, <1>10, <1>11, <1>12, <1>13
\* What is at each place.
<1>15. /\ s[n + 1] = x /\ s[n + 2] = y
       /\ s[n + 3] = <<"blank", "map", Domain>>
       /\ s[n + 4] = <<"rename", "map", Domain, Site, NewName>>
       /\ s[n + 5] = <<"blank", "redirect", Domain>>
       /\ s[n + 6] = <<"rename", "redirect", Domain, Site, NewName>>
  <2>1. 1 \in 1..Len(d) /\ 2 \in 1..Len(d) /\ n + 1 \in 1..Len(e) /\ n + 2 \in 1..Len(e)
    BY <1>10, <1>13, <1>14
  <2>2. e[1 + n] = d[1] /\ e[2 + n] = d[2] /\ 1 + n = n + 1 /\ 2 + n = n + 2
    BY <1>11, <1>13, <2>1
  <2>3. s[n + 1] = x /\ s[n + 2] = y
    BY <1>10, <1>12, <2>1, <2>2
  <2>4. 1 \in 1..Len(r) /\ 2 \in 1..Len(r) /\ 3 \in 1..Len(r) /\ 4 \in 1..Len(r)
    BY <1>3
  <2>5. s[1 + Len(e)] = r[1] /\ s[2 + Len(e)] = r[2] /\ s[3 + Len(e)] = r[3] /\ s[4 + Len(e)] = r[4]
    BY <1>12, <2>4
  <2>6. 1 + Len(e) = n + 3 /\ 2 + Len(e) = n + 4 /\ 3 + Len(e) = n + 5 /\ 4 + Len(e) = n + 6
    BY <1>14
  <2> QED BY <1>3, <2>3, <2>5, <2>6
<1>16. \A i \in 1..Len(s) : i \in 1..n \/ i = n + 1 \/ i = n + 2 \/ i = n + 3 \/ i = n + 4 \/ i = n + 5 \/ i = n + 6
  BY <1>14
<1>17. \A i \in 1..n : s[i][1] \in {"scan", "unlink"} /\ i \in 1..Len(s)
  BY <1>9, <1>11, <1>12, <1>13
<1>18. \A i \in 1..Len(s) :
         /\ s[i][1] \in {"scan", "unlink", "renameFile", "renameHostDir", "blank", "rename"}
         /\ s[i][1] \in {"scan", "unlink"} => i <= n
         /\ s[i][1] = "renameFile" => i = n + 1
         /\ s[i][1] = "renameHostDir" => i = n + 2
         /\ s[i][1] \in {"blank", "rename"} => i >= n + 3
         /\ s[i][1] = "blank" => i = n + 3 \/ i = n + 5
         /\ s[i][1] = "rename" => i = n + 4 \/ i = n + 6
  <2> SUFFICES ASSUME NEW i \in 1..Len(s)
               PROVE  /\ s[i][1] \in {"scan", "unlink", "renameFile", "renameHostDir", "blank", "rename"}
                      /\ s[i][1] \in {"scan", "unlink"} => i <= n
                      /\ s[i][1] = "renameFile" => i = n + 1
                      /\ s[i][1] = "renameHostDir" => i = n + 2
                      /\ s[i][1] \in {"blank", "rename"} => i >= n + 3
                      /\ s[i][1] = "blank" => i = n + 3 \/ i = n + 5
                      /\ s[i][1] = "rename" => i = n + 4 \/ i = n + 6
    OBVIOUS
  <2>1. CASE i \in 1..n
    BY <1>17, <2>1
  <2>2. CASE i = n + 1
    BY <1>7, <1>15, <2>2
  <2>3. CASE i = n + 2
    BY <1>7, <1>15, <2>3
  <2>4. CASE i = n + 3
    BY <1>15, <2>4
  <2>5. CASE i = n + 4
    BY <1>15, <2>5
  <2>6. CASE i = n + 5
    BY <1>15, <2>6
  <2>7. CASE i = n + 6
    BY <1>15, <2>7
  <2> QED BY <1>16, <2>1, <2>2, <2>3, <2>4, <2>5, <2>6, <2>7
<1>19. \A m \in {1, 2, 3, 4, 5, 6} : n + m \in 1..Len(s)
  BY <1>14
<1>20. /\ Followed(s, "truncate", "write") /\ SameFile(s, "truncate")
       /\ Followed(s, "softAcquire", "scale") /\ Followed(s, "scale", "softRelease")
  BY <1>18 DEF Followed, SameFile
<1>21. Followed(s, "blank", "rename") /\ SameFile(s, "blank")
  <2>1. ASSUME NEW i \in 1..Len(s), s[i][1] = "blank"
        PROVE  /\ i + 1 \in 1..Len(s) /\ s[i + 1][1] = "rename"
               /\ s[i + 1][2] = s[i][2] /\ s[i + 1][3] = s[i][3]
    <3>1. CASE i = n + 3
      <4>1. i + 1 = n + 4
        BY <3>1
      <4> QED BY <1>15, <1>19, <3>1, <4>1
    <3>2. CASE i = n + 5
      <4>1. i + 1 = n + 6
        BY <3>2
      <4> QED BY <1>15, <1>19, <3>2, <4>1
    <3> QED BY <1>18, <2>1, <3>1, <3>2
  <2>2. ASSUME NEW i \in 1..Len(s), i + 1 \in 1..Len(s), s[i + 1][1] = "rename" PROVE s[i][1] = "blank"
    <3>1. i + 1 = n + 4 \/ i + 1 = n + 6
      BY <1>18, <2>2
    <3>2. i = n + 3 \/ i = n + 5
      BY <3>1
    <3> QED BY <1>15, <3>2
  <2> QED BY <2>1, <2>2 DEF Followed, SameFile
<1>22. ASSUME NEW i \in 1..Len(s), s[i][1] \in Early PROVE i <= n /\ i < n + 1
  BY <1>18, <1>22 DEF Early
<1>23. ASSUME NEW i \in 1..Len(s), s[i][1] \in Put PROVE i = n + 1
  BY <1>18, <1>23 DEF Put
<1>24. ASSUME NEW i \in 1..Len(s), s[i][1] \in Late PROVE i >= n + 2
  BY <1>18, <1>24 DEF Late
<1>25. Toward(s, Early, Put) /\ \E k \in 1..Len(s) : s[k][1] \in Put
  BY <1>7, <1>15, <1>19, <1>22 DEF Toward, Put
<1>26. NeverAfter(s, Put, Early \cup Put)
  <2> SUFFICES ASSUME NEW i \in 1..Len(s), NEW k \in 1..Len(s), i < k, s[i][1] \in Put,
                      s[k][1] \in Early \cup Put
               PROVE  FALSE
    BY DEF NeverAfter
  <2>1. i = n + 1 /\ k <= n + 1
    BY <1>22, <1>23
  <2> QED BY <2>1
<1>27. Toward(s, Early \cup Put, {"renameHostDir"})
  <2> SUFFICES ASSUME NEW i \in 1..Len(s), s[i][1] \in Early \cup Put
               PROVE  \E k \in 1..Len(s) : i < k /\ s[k][1] \in {"renameHostDir"}
    BY DEF Toward
  <2>1. i < n + 2
    BY <1>22, <1>23
  <2> QED BY <1>7, <1>15, <1>19, <2>1
<1>28. NeverAfter(s, Late, Early \cup Put \cup {"renameHostDir"})
  <2> SUFFICES ASSUME NEW i \in 1..Len(s), NEW k \in 1..Len(s), i < k, s[i][1] \in Late,
                      s[k][1] \in Early \cup Put \cup {"renameHostDir"}
               PROVE  FALSE
    BY DEF NeverAfter
  <2>1. k <= n + 2
    BY <1>18, <1>22, <1>23
  <2>2. i >= n + 2
    BY <1>24
  <2> QED BY <2>1, <2>2
<1>29. \A i \in 1..Len(s) : s[i][1] \in Early \cup Put \cup {"renameHostDir"} =>
          \E k \in 1..Len(s) : i < k /\ s[k] = <<"blank", "map", Domain>>
  <2> SUFFICES ASSUME NEW i \in 1..Len(s), s[i][1] \in Early \cup Put \cup {"renameHostDir"}
               PROVE  \E k \in 1..Len(s) : i < k /\ s[k] = <<"blank", "map", Domain>>
    OBVIOUS
  <2>1. i < n + 3
    BY <1>18, <1>22, <1>23
  <2> QED BY <1>15, <1>19, <2>1
<1>30. Body("renameSite", s)
  <2>1. \E k \in 1..Len(s) : s[k][1] = "renameHostDir"
    BY <1>7, <1>15, <1>19
  <2>2. \E k \in 1..Len(s) : s[k] = <<"blank", "map", Domain>>
    BY <1>15, <1>19
  <2>3. 1 \in 1..Len(s) => s[1][1] \notin {"write", "rename", "scale", "softRelease"}
    BY <1>18
  <2> QED BY <1>12, <1>20, <1>21, <1>25, <1>26, <1>27, <1>28, <1>29, <2>1, <2>2, <2>3 DEF Body, S
<1>31. \A w \in Upstreams : \E k \in 1..Len(s) : s[k] = <<"unlink", w, NewName>>
  <2> SUFFICES ASSUME NEW w \in Upstreams PROVE \E k \in 1..Len(s) : s[k] = <<"unlink", w, NewName>>
    OBVIOUS
  <2>1. PICK k \in 1..Len(c) : c[k] = <<"unlink", w, NewName>>
    BY <1>9
  <2> QED BY <1>11, <1>12, <2>1
<1> QED BY <1>8, <1>30, <1>31 DEF x, y

\* setup_redirects_job for a domain and its site.
LEMMA RedirectsBody ==
    ASSUME NEW g \in {Site, Domain}, NEW h \in {Site, Domain}, g # h
    PROVE  \E s : /\ s = Redirects({Site, Domain}, g)
                  /\ Body("redirects", s)
                  /\ \A i \in 1..Len(s) : s[i][1] = "write" =>
                        \E k \in 1..Len(s) : s[k] = <<"removeRedirect", s[i][4]>>
<1> DEFINE S == StepsOf("redirects") \ {<<"acquire">>, <<"release">>}
           a == <<"load", "redirect", h>>
           b == <<"truncate", "redirect", h>>
           c == <<"write", "redirect", h, g>>
           x == <<"removeRedirect", g>>
<1>1. x \in S /\ a \in S /\ b \in S /\ c \in S
  <2>1. StepsOf("redirects") = {<<"acquire">>, <<"release">>} \cup
           (({"removeRedirect"} \X {Site, Domain})
           \cup ({"load", "truncate"} \X {"redirect"} \X {Site, Domain})
           \cup {<<"write", "redirect", Site, Domain>>, <<"write", "redirect", Domain, Site>>})
    BY DEF StepsOf
  <2>2. x \in {"removeRedirect"} \X {Site, Domain}
    OBVIOUS
  <2>3. a \in {"load", "truncate"} \X {"redirect"} \X {Site, Domain} /\ b \in {"load", "truncate"} \X {"redirect"} \X {Site, Domain}
    OBVIOUS
  <2>4. c \in {<<"write", "redirect", Site, Domain>>, <<"write", "redirect", Domain, Site>>}
    OBVIOUS
  <2> QED BY <2>1, <2>2, <2>3, <2>4
<1>2. {Site, Domain} \ {g} = {h}
  OBVIOUS
<1>3. PICK hs : hs = SetToSeq({h})
  OBVIOUS
<1>4. hs \in Seq({h}) /\ Len(hs) = 1
  BY <1>3, Enumeration, FS_Singleton
<1>5. hs[1] = h
  BY <1>4, ElementOfSeq
<1>6. PICK t : t = SetupEach(hs, g)
  OBVIOUS
<1>7. t = <<a, b, c>>
  <2>1. SetupRedirect(h, g) = <<a, b, c>>
    BY DEF SetupRedirect
  <2>2. t = [i \in 1..3 |-> SetupRedirect(hs[1 + ((i - 1) \div 3)], g)[1 + ((i - 1) % 3)]]
    BY <1>4, <1>6 DEF SetupEach
  <2>3. \A i \in 1..3 : 1 + ((i - 1) \div 3) = 1 /\ 1 + ((i - 1) % 3) = i
    OBVIOUS
  <2> HIDE DEF a, b, c
  <2>4. t = [i \in 1..3 |-> <<a, b, c>>[i]]
    BY <1>5, <2>1, <2>2, <2>3
  <2> QED BY <2>4
<1>8. PICK r : r = <<x>>
  OBVIOUS
<1>9. PICK s : s = Redirects({Site, Domain}, g)
  OBVIOUS
<1>10. s = r \o t
  BY <1>2, <1>3, <1>6, <1>8, <1>9 DEF Redirects
<1>11. a[1] = "load" /\ b[1] = "truncate" /\ c[1] = "write" /\ x[1] = "removeRedirect"
       /\ c[4] = g /\ c[2] = b[2] /\ c[3] = b[3]
  OBVIOUS
<1> HIDE DEF S, a, b, c
<1>12. r \in Seq(S) /\ Len(r) = 1 /\ r[1] = x
  BY <1>1, <1>8
<1>13. t \in Seq(S) /\ Len(t) = 3 /\ t[1] = a /\ t[2] = b /\ t[3] = c
  BY <1>1, <1>7
<1>14. /\ s \in Seq(S) /\ Len(s) = Len(r) + Len(t)
       /\ \A i \in 1..Len(r) : i \in 1..Len(s) /\ s[i] = r[i]
       /\ \A k \in 1..Len(t) : k + Len(r) \in 1..Len(s) /\ s[k + Len(r)] = t[k]
  <2>1. r \in Seq(S) /\ t \in Seq(S)
    BY <1>12, <1>13
  <2> QED BY <1>10, <2>1, Both
<1>15. Len(s) = 4 /\ s[1] = x /\ s[2] = a /\ s[3] = b /\ s[4] = c
  <2>1. s[1] = r[1] /\ s[1 + 1] = t[1] /\ s[2 + 1] = t[2] /\ s[3 + 1] = t[3]
    BY <1>12, <1>13, <1>14
  <2> QED BY <1>12, <1>13, <1>14, <2>1
<1>16. \A i \in 1..4 : i = 1 \/ i = 2 \/ i = 3 \/ i = 4
  OBVIOUS
<1>17. \A i \in 1..4 : s[i][1] \in {"removeRedirect", "load", "truncate", "write"}
  BY <1>11, <1>15, <1>16
<1>18. \A i \in 1..4 : (s[i][1] = "truncate" => i = 3) /\ (s[i][1] = "write" => i = 4)
                       /\ (s[i][1] = "removeRedirect" => i = 1)
  BY <1>11, <1>15, <1>16
<1>19. Followed(s, "truncate", "write") /\ SameFile(s, "truncate")
  <2>1. 3 + 1 = 4 /\ 4 \in 1..4
    OBVIOUS
  <2> QED BY <1>11, <1>15, <1>18, <2>1 DEF Followed, SameFile
<1>20. /\ Followed(s, "blank", "rename") /\ SameFile(s, "blank")
       /\ Followed(s, "softAcquire", "scale") /\ Followed(s, "scale", "softRelease")
  BY <1>15, <1>17 DEF Followed, SameFile
<1>21. NeverAfter(s, {"write"}, {"write", "removeRedirect"})
  BY <1>15, <1>18 DEF NeverAfter
<1>22. Body("redirects", s)
  <2>1. s[1][1] \notin {"write", "rename", "scale", "softRelease"}
    BY <1>11, <1>15
  <2> QED BY <1>14, <1>19, <1>20, <1>21, <2>1 DEF Body, S
<1>23. \A i \in 1..Len(s) : s[i][1] = "write" => \E k \in 1..Len(s) : s[k] = <<"removeRedirect", s[i][4]>>
  BY <1>11, <1>15, <1>18
<1> QED BY <1>9, <1>22, <1>23

(***************************************************************************)
(* Handlers.                                                               *)
(***************************************************************************)

OpIs(op) ==
    \/ op[1] \in {"addSite", "removeSite"} /\ op[2] \in Upstreams /\ op[3] = Site
    \/ op[1] = "updateStatus" /\ op[2] \in Upstreams /\ op[3] = Site /\ op[4] = "suspended"
    \/ op[1] = "addUpstream" /\ op[2] \in Upstreams
    \/ op[1] = "renameUpstream" /\ op[2] \in Upstreams /\ op[3] \in Upstreams
    \/ op[1] = "renameSite" /\ op = <<"renameSite", Home, Site, NewName>>
    \/ op[1] = "addHost" /\ op[2] \in {Site, Domain} /\ op[3] = Site
    \/ op[1] \in {"removeHost", "removeRedirect"} /\ op[2] \in {Site, Domain}
    \/ op[1] = "redirects" /\ op[2] = {Site, Domain} /\ op[3] \in {Site, Domain}
    \/ op[1] = "scale" /\ op[2] \in Upstreams /\ op[3] \in {"primary", "scaled"}

\* The arguments of each operation.
LEMMA OperationIs == \A op \in Operations : OpIs(op) /\ op # <<>>
<1> SUFFICES ASSUME NEW op \in Operations PROVE OpIs(op) /\ op # <<>>
  OBVIOUS
<1>1. CASE op \in {"addSite", "removeSite"} \X Upstreams \X {Site}
  BY <1>1 DEF OpIs
<1>2. CASE op \in {"updateStatus"} \X Upstreams \X {Site} \X {"suspended"}
  BY <1>2 DEF OpIs
<1>3. CASE op \in {"addUpstream"} \X Upstreams
  BY <1>3 DEF OpIs
<1>4. CASE op \in {"renameUpstream"} \X Upstreams \X Upstreams
  BY <1>4 DEF OpIs
<1>5. CASE op \in {"renameSite"} \X {Home} \X {Site} \X {NewName}
  BY <1>5 DEF OpIs
<1>6. CASE op \in {"addHost"} \X {Site, Domain} \X {Site}
  BY <1>6 DEF OpIs
<1>7. CASE op \in {"removeHost", "removeRedirect"} \X {Site, Domain}
  BY <1>7 DEF OpIs
<1>8. CASE op \in {"redirects"} \X {{Site, Domain}} \X {Site, Domain}
  BY <1>8 DEF OpIs
<1>9. CASE op \in {"scale"} \X Upstreams \X {"primary", "scaled"}
  BY <1>9 DEF OpIs
<1> QED BY <1>1, <1>2, <1>3, <1>4, <1>5, <1>6, <1>7, <1>8, <1>9 DEF Operations

\* What a handler does between the two ends, for each kind of job.
Planned(op, s) ==
    /\ Handler(op) = Locked(s)
    /\ Body(op[1], s)
    /\ op[1] = "addSite" =>
          \A w \in Upstreams : \E k \in 1..Len(s) : s[k] = <<"unlink", w, Site>>
    /\ op[1] = "renameSite" =>
          \A w \in Upstreams : \E k \in 1..Len(s) : s[k] = <<"unlink", w, NewName>>
    /\ op[1] = "redirects" =>
          \A i \in 1..Len(s) : s[i][1] = "write" => \E k \in 1..Len(s) : s[k] = <<"removeRedirect", s[i][4]>>

\* Every operation has an orderly handler, which takes the flock first.
LEMMA HandlerIs == \A op \in Operations : \E s : Planned(op, s)
<1> SUFFICES ASSUME NEW op \in Operations PROVE \E s : Planned(op, s)
  OBVIOUS
<1>1. OpIs(op)
  BY OperationIs
<1>2. CASE op[1] = "addSite"
  <2>1. op[2] \in Upstreams /\ op[3] = Site
    BY <1>1, <1>2 DEF OpIs
  <2>2. Handler(op) = Locked(RemoveConflicting(Site) \o << <<"touch", op[2], Site>> >>)
    BY <1>2, <2>1 DEF Handler
  <2>3. PICK s : /\ s = RemoveConflicting(Site) \o << <<"touch", op[2], Site>> >>
                 /\ Body("addSite", s)
                 /\ \A w \in Upstreams : \E k \in 1..Len(s) : s[k] = <<"unlink", w, Site>>
    BY <2>1, AddSiteBody
  <2>4. Handler(op) = Locked(s)
    BY <2>2, <2>3
  <2>5. Planned(op, s)
    BY <1>2, <2>3, <2>4 DEF Planned
  <2> QED BY <2>5
<1>3. CASE op[1] = "removeSite"
  <2>1. op[2] \in Upstreams /\ op[3] = Site
    BY <1>1, <1>3 DEF OpIs
  <2>2. PICK x : x = <<"unlink", op[2], Site>>
    OBVIOUS
  <2>3. x \in StepsOf("removeSite") /\ x[1] = "unlink"
    BY <2>1, <2>2 DEF StepsOf
  <2>4. Body("removeSite", <<x>>)
    BY <2>3, OneStep DEF Simple
  <2>5. Handler(op) = Locked(<<x>>)
    BY <1>3, <2>1, <2>2 DEF Handler
  <2>6. Planned(op, <<x>>)
    BY <1>3, <2>4, <2>5 DEF Planned
  <2> QED BY <2>6
<1>4. CASE op[1] = "updateStatus"
  <2>1. op[2] \in Upstreams /\ op[3] = Site /\ op[4] = "suspended"
    BY <1>1, <1>4 DEF OpIs
  <2>2. PICK x : x = <<"status", op[2], Site, "active">>
    OBVIOUS
  <2>3. PICK y : y = <<"status", op[2], Site, "suspended">>
    OBVIOUS
  <2>4. StepsOf("updateStatus") = {<<"acquire">>, <<"release">>} \cup ({"status"} \X Upstreams \X {Site} \X Statuses)
    BY DEF StepsOf
  <2>5. x \in {"status"} \X Upstreams \X {Site} \X Statuses /\ y \in {"status"} \X Upstreams \X {Site} \X Statuses
    BY <2>1, <2>2, <2>3 DEF Statuses
  <2>6. x[1] = "status" /\ y[1] = "status"
    BY <2>2, <2>3
  <2>7. Body("updateStatus", <<x, y>>)
    BY <2>4, <2>5, <2>6, TwoSteps
  <2>8. Handler(op) = Locked(<<x, y>>)
    BY <1>4, <2>1, <2>2, <2>3 DEF Handler
  <2>9. Planned(op, <<x, y>>)
    BY <1>4, <2>7, <2>8 DEF Planned
  <2> QED BY <2>9
<1>5. CASE op[1] = "addUpstream"
  <2>1. op[2] \in Upstreams
    BY <1>1, <1>5 DEF OpIs
  <2>2. PICK x : x = <<"mkdir", op[2]>>
    OBVIOUS
  <2>3. x \in StepsOf("addUpstream") /\ x[1] = "mkdir"
    BY <2>1, <2>2 DEF StepsOf
  <2>4. Body("addUpstream", <<x>>)
    BY <2>3, OneStep DEF Simple
  <2>5. Handler(op) = Locked(<<x>>)
    BY <1>5, <2>1, <2>2 DEF Handler
  <2>6. Planned(op, <<x>>)
    BY <1>5, <2>4, <2>5 DEF Planned
  <2> QED BY <2>6
<1>6. CASE op[1] = "renameUpstream"
  <2>1. op[2] \in Upstreams /\ op[3] \in Upstreams
    BY <1>1, <1>6 DEF OpIs
  <2>2. PICK x : x = <<"move", op[2], op[3]>>
    OBVIOUS
  <2>3. x \in StepsOf("renameUpstream") /\ x[1] = "move"
    BY <2>1, <2>2 DEF StepsOf
  <2>4. Body("renameUpstream", <<x>>)
    BY <2>3, OneStep DEF Simple
  <2>5. Handler(op) = Locked(<<x>>)
    BY <1>6, <2>1, <2>2 DEF Handler
  <2>6. Planned(op, <<x>>)
    BY <1>6, <2>4, <2>5 DEF Planned
  <2> QED BY <2>6
<1>7. CASE op[1] = "renameSite"
  <2>1. op = <<"renameSite", Home, Site, NewName>>
    BY <1>1, <1>7 DEF OpIs
  <2>2. op[2] = Home /\ op[3] = Site /\ op[4] = NewName
    BY <2>1
  <2>3. Handler(op) = Locked(RemoveConflicting(NewName)
                  \o << <<"renameFile", Home, Site, NewName>>, <<"renameHostDir", Site, NewName>> >>
                  \o RenameInHost(Domain, Site, NewName))
    BY <1>7, <2>2 DEF Handler
  <2>4. PICK s :
           /\ s = RemoveConflicting(NewName)
                  \o << <<"renameFile", Home, Site, NewName>>, <<"renameHostDir", Site, NewName>> >>
                  \o RenameInHost(Domain, Site, NewName)
           /\ Body("renameSite", s)
           /\ \A w \in Upstreams : \E k \in 1..Len(s) : s[k] = <<"unlink", w, NewName>>
    BY RenameSiteBody
  <2>5. Handler(op) = Locked(s)
    BY <2>3, <2>4
  <2>6. Planned(op, s)
    BY <1>7, <2>4, <2>5 DEF Planned
  <2> QED BY <2>6
<1>8. CASE op[1] = "addHost"
  <2>1. op[2] \in {Site, Domain} /\ op[3] = Site
    BY <1>1, <1>8 DEF OpIs
  <2>2. PICK x : x = <<"truncate", "map", op[2]>>
    OBVIOUS
  <2>3. PICK y : y = <<"write", "map", op[2], Site>>
    OBVIOUS
  <2>4. StepsOf("addHost") = {<<"acquire">>, <<"release">>} \cup
           (({"truncate"} \X {"map"} \X {Site, Domain})
           \cup ({"write"} \X {"map"} \X {Site, Domain} \X {Site}))
    BY DEF StepsOf
  <2>5. x \in {"truncate"} \X {"map"} \X {Site, Domain} /\ y \in {"write"} \X {"map"} \X {Site, Domain} \X {Site}
    BY <2>1, <2>2, <2>3
  <2>6. x[1] = "truncate" /\ y[1] = "write" /\ y[2] = x[2] /\ y[3] = x[3]
    BY <2>2, <2>3
  <2>7. Body("addHost", <<x, y>>)
    BY <2>4, <2>5, <2>6, TwoSteps
  <2>8. WriteMap(op[2], Site) = <<x, y>>
    BY <2>2, <2>3 DEF WriteMap
  <2>9. Handler(op) = Locked(<<x, y>>)
    BY <1>8, <2>1, <2>8 DEF Handler
  <2>10. Planned(op, <<x, y>>)
    BY <1>8, <2>7, <2>9 DEF Planned
  <2> QED BY <2>10
<1>9. CASE op[1] = "removeHost"
  <2>1. op[2] \in {Site, Domain}
    BY <1>1, <1>9 DEF OpIs
  <2>2. PICK x : x = <<"rmtree", op[2]>>
    OBVIOUS
  <2>3. x \in StepsOf("removeHost") /\ x[1] = "rmtree"
    BY <2>1, <2>2 DEF StepsOf
  <2>4. Body("removeHost", <<x>>)
    BY <2>3, OneStep DEF Simple
  <2>5. Handler(op) = Locked(<<x>>)
    BY <1>9, <2>1, <2>2 DEF Handler
  <2>6. Planned(op, <<x>>)
    BY <1>9, <2>4, <2>5 DEF Planned
  <2> QED BY <2>6
<1>10. CASE op[1] = "redirects"
  <2>1. op[2] = {Site, Domain} /\ op[3] \in {Site, Domain}
    BY <1>1, <1>10 DEF OpIs
  <2>2. PICK h \in {Site, Domain} : op[3] # h
    BY <2>1, ProxyAssumption
  <2>3. PICK s : /\ s = Redirects({Site, Domain}, op[3])
                 /\ Body("redirects", s)
                 /\ \A i \in 1..Len(s) : s[i][1] = "write" =>
                        \E k \in 1..Len(s) : s[k] = <<"removeRedirect", s[i][4]>>
    BY <2>1, <2>2, RedirectsBody
  <2>4. Handler(op) = Locked(s)
    BY <1>10, <2>1, <2>3 DEF Handler
  <2>5. Planned(op, s)
    BY <1>10, <2>3, <2>4 DEF Planned
  <2> QED BY <2>5
<1>11. CASE op[1] = "removeRedirect"
  <2>1. op[2] \in {Site, Domain}
    BY <1>1, <1>11 DEF OpIs
  <2>2. PICK x : x = <<"removeRedirect", op[2]>>
    OBVIOUS
  <2>3. x \in StepsOf("removeRedirect") /\ x[1] = "removeRedirect"
    BY <2>1, <2>2 DEF StepsOf
  <2>4. Body("removeRedirect", <<x>>)
    BY <2>3, OneStep DEF Simple
  <2>5. Handler(op) = Locked(<<x>>)
    BY <1>11, <2>1, <2>2 DEF Handler
  <2>6. Planned(op, <<x>>)
    BY <1>11, <2>4, <2>5 DEF Planned
  <2> QED BY <2>6
<1>12. CASE op[1] = "scale"
  <2>1. op[2] \in Upstreams /\ op[3] \in {"primary", "scaled"}
    BY <1>1, <1>12 DEF OpIs
  <2>2. PICK x : x = <<"scale", op[2], op[3]>>
    OBVIOUS
  <2>3. x \in StepsOf("scale") /\ x[1] = "scale"
    BY <2>1, <2>2 DEF StepsOf
  <2>4. Body("scale", << <<"softAcquire">>, x, <<"softRelease">> >>)
    BY <2>3, ThreeSteps
  <2>5. Handler(op) = Locked(<< <<"softAcquire">>, x, <<"softRelease">> >>)
    BY <1>12, <2>2 DEF Handler
  <2>6. Planned(op, << <<"softAcquire">>, x, <<"softRelease">> >>)
    BY <1>12, <2>4, <2>5 DEF Planned
  <2> QED BY <2>6
<1> QED BY <1>1, <1>2, <1>3, <1>4, <1>5, <1>6, <1>7, <1>8, <1>9, <1>10, <1>11, <1>12 DEF OpIs

\* What the invariant needs to know of a handler.
LEMMA HandlerBegins ==
    ASSUME NEW op \in Operations, NEW t, t = Handler(op)
    PROVE  /\ t \in Seq(StepsOf(op[1])) /\ t # <<>> /\ t[1] = <<"acquire">> /\ Head(t) = <<"acquire">>
           /\ Len(t) \in Nat /\ 1 \in 1..Len(t)
           /\ Orderly(op[1], t)
           /\ op[1] = "addSite" =>
                \A w \in Upstreams : \E k \in 1..Len(t) : t[k] = <<"unlink", w, Site>>
           /\ op[1] = "renameSite" =>
                \A w \in Upstreams : \E k \in 1..Len(t) : t[k] = <<"unlink", w, NewName>>
           /\ op[1] = "redirects" =>
                \A i \in 1..Len(t) : t[i][1] = "write" => \E k \in 1..Len(t) : t[k] = <<"removeRedirect", t[i][4]>>
           /\ op[1] \in {"addSite", "renameSite"} => \E k \in 1..Len(t) : t[k][1] \in Put
<1>1. PICK s : Planned(op, s)
  BY HandlerIs
<1>2. t = Locked(s) /\ Body(op[1], s)
  BY <1>1 DEF Planned
<1>3. /\ t \in Seq(StepsOf(op[1])) /\ t # <<>>
      /\ t[1] = <<"acquire">> /\ Head(t) = <<"acquire">>
      /\ \A i \in 1..Len(s) : i + 1 \in 1..Len(t) /\ t[i + 1] = s[i]
      /\ Len(t) = Len(s) + 2
      /\ Orderly(op[1], t)
  BY <1>2, LockedIsOrderly
<1>4. Len(t) \in Nat /\ 1 \in 1..Len(t)
  BY <1>3, LenProperties, EmptySeq
<1>5. ASSUME NEW x, \E k \in 1..Len(s) : s[k] = x PROVE \E k \in 1..Len(t) : t[k] = x
  BY <1>3, <1>5
<1>6. ASSUME op[1] = "addSite", NEW w \in Upstreams
      PROVE  \E k \in 1..Len(t) : t[k] = <<"unlink", w, Site>>
  BY <1>1, <1>5, <1>6 DEF Planned
<1>7. ASSUME op[1] = "renameSite", NEW w \in Upstreams
      PROVE  \E k \in 1..Len(t) : t[k] = <<"unlink", w, NewName>>
  BY <1>1, <1>5, <1>7 DEF Planned
<1>8. ASSUME op[1] = "redirects", NEW i \in 1..Len(t), t[i][1] = "write"
      PROVE  \E k \in 1..Len(t) : t[k] = <<"removeRedirect", t[i][4]>>
  <2>1. i # 1
    BY <1>3, <1>8
  <2>2. i # Len(t)
    BY <1>3, <1>8 DEF Orderly
  <2>3. i - 1 \in 1..Len(s) /\ (i - 1) + 1 = i
    BY <1>3, <1>4, <2>1, <2>2
  <2>4. t[i] = s[i - 1]
    BY <1>3, <2>3
  <2>5. \E k \in 1..Len(s) : s[k] = <<"removeRedirect", s[i - 1][4]>>
    BY <1>1, <1>8, <2>3, <2>4 DEF Planned
  <2> QED BY <1>5, <2>4, <2>5
<1>9. ASSUME op[1] \in {"addSite", "renameSite"} PROVE \E k \in 1..Len(t) : t[k][1] \in Put
  <2>1. 1 \in 1..Len(t) /\ t[1][1] \in Early /\ Toward(t, Early, Put)
    BY <1>3, <1>4, <1>9 DEF Orderly, Early
  <2> QED BY <2>1 DEF Toward
<1> QED BY <1>3, <1>4, <1>6, <1>7, <1>8, <1>9

\* The same, of the set of its steps.
LEMMA HandlerSteps ==
    ASSUME NEW op \in Operations, NEW t, t = Handler(op)
    PROVE  /\ Head(t)[1] = "acquire"
           /\ op[1] \in {"addSite", "renameSite"} =>
                \A w \in Upstreams : \E x \in ToSet(t) : x[1] = "unlink" /\ x[2] = w
           /\ op[1] = "redirects" =>
                \A x \in ToSet(t) : x[1] = "write" =>
                    \E y \in ToSet(t) : y[1] = "removeRedirect" /\ y[2] = x[4]
           /\ op[1] \in {"addSite", "renameSite"} => \E x \in ToSet(t) : x[1] \in Put
<1>1. t \in Seq(StepsOf(op[1])) /\ Head(t) = <<"acquire">>
  BY HandlerBegins
<1>2. ToSet(t) = {t[i] : i \in 1..Len(t)}
  <2>1. \A S : \A s \in Seq(S) : DOMAIN s = 1..Len(s)
    OBVIOUS
  <2> QED BY <1>1, <2>1 DEF ToSet
<1>3. ASSUME op[1] \in {"addSite", "renameSite"}, NEW w \in Upstreams
      PROVE  \E x \in ToSet(t) : x[1] = "unlink" /\ x[2] = w
  <2>1. CASE op[1] = "addSite"
    <3>1. \E k \in 1..Len(t) : t[k] = <<"unlink", w, Site>>
      BY <2>1, HandlerBegins
    <3> QED BY <1>2, <3>1
  <2>2. CASE op[1] = "renameSite"
    <3>0. op[1] = "renameSite" =>
            \A v \in Upstreams : \E k \in 1..Len(t) : t[k] = <<"unlink", v, NewName>>
      BY HandlerBegins, Zenon
    <3>1. \E k \in 1..Len(t) : t[k] = <<"unlink", w, NewName>>
      BY <2>2, <3>0, Zenon
    <3> QED BY <1>2, <3>1
  <2> QED BY <1>3, <2>1, <2>2
<1>4. ASSUME op[1] = "redirects", NEW x \in ToSet(t), x[1] = "write"
      PROVE  \E y \in ToSet(t) : y[1] = "removeRedirect" /\ y[2] = x[4]
  <2>1. PICK i \in 1..Len(t) : x = t[i]
    BY <1>2
  <2>2. PICK k \in 1..Len(t) : t[k] = <<"removeRedirect", t[i][4]>>
    BY <1>4, <2>1, HandlerBegins
  <2> QED BY <1>2, <2>1, <2>2
<1>5. ASSUME op[1] \in {"addSite", "renameSite"} PROVE \E x \in ToSet(t) : x[1] \in Put
  BY <1>2, <1>5, HandlerBegins
<1> QED BY <1>1, <1>3, <1>4, <1>5

(***************************************************************************)
(* The next step, and those that are left.                                 *)
(***************************************************************************)

\* What the next step a tells of the one after it, b.
Next2(a, b) ==
    /\ a[1] = "truncate" => b[1] = "write" /\ b[2] = a[2] /\ b[3] = a[3]
    /\ a[1] = "blank" => b[1] = "rename" /\ b[2] = a[2] /\ b[3] = a[3]
    /\ a[1] = "softAcquire" <=> b[1] = "scale"
    /\ a[1] = "scale" <=> b[1] = "softRelease"
    /\ b[1] = "write" => a[1] = "truncate"
    /\ b[1] = "rename" => a[1] = "blank"
    /\ b[1] # "acquire"

\* What the next step a tells of the others, which are u.
Others(kind, a, u) ==
    /\ kind \in {"addSite", "renameSite"} =>
         /\ a[1] \in Early => \E x \in u : x[1] \in Put
         /\ a[1] \in Put => \A x \in u : x[1] \notin Early \cup Put
    /\ kind = "renameSite" =>
         /\ a[1] \in Early \cup Put => \E x \in u : x[1] = "renameHostDir"
         /\ a[1] \in Late => \A x \in u : x[1] \notin Early \cup Put \cup {"renameHostDir"}
         /\ a[1] \in Early \cup Put \cup {"renameHostDir"} => <<"blank", "map", Domain>> \in u
    /\ kind = "redirects" /\ a[1] = "write" => \A x \in u : x[1] \notin {"write", "removeRedirect"}

\* What the first step and the rest of an orderly sequence say of each other.
LEMMA Ahead1 ==
    ASSUME NEW kind, NEW t \in Seq(StepsOf(kind)), t # <<>>, Orderly(kind, t)
    PROVE  /\ ItemIs(kind, Head(t)) /\ \A x \in ToSet(t) : ItemIs(kind, x)
           /\ Tail(t) \in Seq(StepsOf(kind)) /\ Orderly(kind, Tail(t))
           /\ ToSet(t) = ToSet(Tail(t)) \cup {Head(t)}
           /\ \A x \in ToSet(Tail(t)) : x[1] # "acquire"
           /\ Tail(t) = <<>> <=> Head(t)[1] = "release"
           /\ Tail(t) # <<>> => Next2(Head(t), Head(Tail(t))) /\ Head(Tail(t)) \in ToSet(Tail(t))
           /\ Len(t) = 1 <=> Tail(t) = <<>>
           /\ Others(kind, Head(t), ToSet(Tail(t)))
<1> DEFINE S == StepsOf(kind)
<1>1. PICK u : u = Tail(t)
  OBVIOUS
<1>2. PICK a : a = Head(t)
  OBVIOUS
<1>3. /\ a \in S /\ a = t[1] /\ 1 \in 1..Len(t)
      /\ u \in Seq(S) /\ Len(t) \in Nat /\ Len(u) = Len(t) - 1
      /\ \A i \in 1..Len(u) : i + 1 \in 1..Len(t) /\ u[i] = t[i + 1]
      /\ \A k \in 1..Len(t) : k # 1 => k - 1 \in 1..Len(u) /\ u[k - 1] = t[k]
      /\ \A i \in 1..Len(u) : u[i][1] # "acquire"
      /\ u = <<>> <=> t[1][1] = "release"
      /\ Orderly(kind, u)
  <2>1. /\ Head(t) \in StepsOf(kind) /\ Head(t) = t[1] /\ 1 \in 1..Len(t)
        /\ Tail(t) \in Seq(StepsOf(kind)) /\ Len(t) \in Nat
        /\ Len(Tail(t)) = Len(t) - 1
        /\ \A i \in 1..Len(Tail(t)) : i + 1 \in 1..Len(t) /\ Tail(t)[i] = t[i + 1]
        /\ \A k \in 1..Len(t) : k # 1 => k - 1 \in 1..Len(Tail(t)) /\ Tail(t)[k - 1] = t[k]
        /\ \A i \in 1..Len(Tail(t)) : Tail(t)[i][1] # "acquire"
        /\ Tail(t) = <<>> <=> t[1][1] = "release"
        /\ Orderly(kind, Tail(t))
    BY RestIsOrderly
  <2> HIDE DEF S
  <2> QED BY <1>1, <1>2, <2>1 DEF S
<1> HIDE DEF S
<1>4. \A s \in Seq(S) : DOMAIN s = 1..Len(s) /\ Len(s) \in Nat
  OBVIOUS
<1>5. t \in Seq(S) /\ Len(u) \in Nat
  BY <1>3, <1>4 DEF S
<1>6. /\ ToSet(t) = {t[i] : i \in 1..Len(t)}
      /\ ToSet(u) = {u[i] : i \in 1..Len(u)}
  BY <1>3, <1>4, <1>5 DEF ToSet
<1>7. ToSet(t) = ToSet(u) \cup {a}
  <2>1. ASSUME NEW x \in ToSet(t) PROVE x \in ToSet(u) \cup {a}
    <3>1. PICK k \in 1..Len(t) : x = t[k]
      BY <1>6, <2>1
    <3>2. CASE k = 1
      BY <1>3, <3>1, <3>2
    <3>3. CASE k # 1
      BY <1>3, <1>6, <3>1, <3>3
    <3> QED BY <3>2, <3>3
  <2>2. ASSUME NEW x \in ToSet(u) PROVE x \in ToSet(t)
    <3>1. PICK i \in 1..Len(u) : x = u[i]
      BY <1>6, <2>2
    <3> QED BY <1>3, <1>6, <3>1
  <2>3. a \in ToSet(t)
    BY <1>3, <1>6
  <2> QED BY <2>1, <2>2, <2>3
<1>8. ItemIs(kind, a) /\ \A x \in ToSet(t) : ItemIs(kind, x)
  <2>1. \A x \in ToSet(t) : x \in S
    BY <1>5, <1>6, ElementOfSeq
  <2> QED BY <1>3, <2>1, Items DEF S
<1>9. \A x \in ToSet(u) : x[1] # "acquire"
  BY <1>3, <1>6
<1>10. u # <<>> => 1 \in 1..Len(u) /\ Head(u) = u[1] /\ u[1] = t[2] /\ 2 \in 1..Len(t) /\ 1 + 1 = 2
  <2> SUFFICES ASSUME u # <<>> PROVE 1 \in 1..Len(u) /\ Head(u) = u[1] /\ u[1] = t[2] /\ 2 \in 1..Len(t)
    OBVIOUS
  <2>1. Len(u) # 0 /\ Head(u) = u[1]
    BY <1>3, EmptySeq
  <2>2. 1 \in 1..Len(u)
    BY <1>5, <2>1
  <2>3. 1 + 1 = 2
    OBVIOUS
  <2> QED BY <1>3, <2>1, <2>2, <2>3
<1>11. u # <<>> => Next2(a, Head(u)) /\ Head(u) \in ToSet(u)
  <2> SUFFICES ASSUME u # <<>> PROVE Next2(a, Head(u)) /\ Head(u) \in ToSet(u)
    OBVIOUS
  <2>1. /\ Followed(t, "truncate", "write") /\ SameFile(t, "truncate")
        /\ Followed(t, "blank", "rename") /\ SameFile(t, "blank")
        /\ Followed(t, "softAcquire", "scale") /\ Followed(t, "scale", "softRelease")
    BY DEF Orderly
  <2>2. 1 \in 1..Len(t) /\ 2 \in 1..Len(t) /\ 1 + 1 = 2 /\ a = t[1] /\ Head(u) = t[2] /\ Head(u) = u[1]
        /\ 1 \in 1..Len(u)
    BY <1>3, <1>10
  <2>3. /\ a[1] = "truncate" <=> t[2][1] = "write"
        /\ a[1] = "blank" <=> t[2][1] = "rename"
        /\ a[1] = "softAcquire" <=> t[2][1] = "scale"
        /\ a[1] = "scale" <=> t[2][1] = "softRelease"
    BY <2>1, <2>2 DEF Followed
  <2>4. /\ a[1] = "truncate" => t[2][2] = a[2] /\ t[2][3] = a[3]
        /\ a[1] = "blank" => t[2][2] = a[2] /\ t[2][3] = a[3]
    BY <2>1, <2>2 DEF SameFile
  <2>5. Head(u)[1] # "acquire" /\ Head(u) \in ToSet(u)
    BY <1>3, <1>6, <2>2
  <2> QED BY <2>2, <2>3, <2>4, <2>5 DEF Next2
<1>12. Len(t) = 1 <=> u = <<>>
  <2>1. u = <<>> <=> Len(u) = 0
    BY <1>3, EmptySeq
  <2> QED BY <1>3, <1>5, <2>1
<1>13. ASSUME NEW A, NEW B, Toward(t, A, B), a[1] \in A PROVE \E x \in ToSet(u) : x[1] \in B
  <2>1. PICK k \in 1..Len(t) : 1 < k /\ t[k][1] \in B
    BY <1>3, <1>13 DEF Toward
  <2>2. k # 1
    BY <2>1
  <2> QED BY <1>3, <1>6, <2>1, <2>2
<1>14. ASSUME NEW A, NEW B, NeverAfter(t, A, B), a[1] \in A PROVE \A x \in ToSet(u) : x[1] \notin B
  <2> SUFFICES ASSUME NEW x \in ToSet(u) PROVE x[1] \notin B
    OBVIOUS
  <2>1. PICK i \in 1..Len(u) : x = u[i]
    BY <1>6
  <2>2. i + 1 \in 1..Len(t) /\ x = t[i + 1] /\ 1 < i + 1
    BY <1>3, <2>1
  <2> QED BY <1>3, <1>14, <2>2 DEF NeverAfter
<1>15. Others(kind, a, ToSet(u))
  <2>1. ASSUME kind \in {"addSite", "renameSite"}
        PROVE  /\ a[1] \in Early => \E x \in ToSet(u) : x[1] \in Put
               /\ a[1] \in Put => \A x \in ToSet(u) : x[1] \notin Early \cup Put
    <3>1. Toward(t, Early, Put) /\ NeverAfter(t, Put, Early \cup Put)
      BY <2>1 DEF Orderly
    <3> QED BY <1>13, <1>14, <3>1
  <2>2. ASSUME kind = "renameSite"
        PROVE  /\ a[1] \in Early \cup Put => \E x \in ToSet(u) : x[1] = "renameHostDir"
               /\ a[1] \in Late => \A x \in ToSet(u) : x[1] \notin Early \cup Put \cup {"renameHostDir"}
               /\ a[1] \in Early \cup Put \cup {"renameHostDir"} => <<"blank", "map", Domain>> \in ToSet(u)
    <3> DEFINE A == Early \cup Put
               C == Early \cup Put \cup {"renameHostDir"}
    <3>1. /\ Toward(t, A, {"renameHostDir"}) /\ NeverAfter(t, Late, C)
          /\ \A i \in 1..Len(t) : t[i][1] \in C =>
                \E k \in 1..Len(t) : i < k /\ t[k] = <<"blank", "map", Domain>>
      BY <2>2 DEF Orderly
    <3> HIDE DEF A, C
    <3>2. a[1] \in A => \E x \in ToSet(u) : x[1] \in {"renameHostDir"}
      BY <1>13, <3>1
    <3>3. a[1] \in Late => \A x \in ToSet(u) : x[1] \notin C
      BY <1>14, <3>1
    <3>4. ASSUME a[1] \in C PROVE <<"blank", "map", Domain>> \in ToSet(u)
      <4>1. PICK k \in 1..Len(t) : 1 < k /\ t[k] = <<"blank", "map", Domain>>
        BY <1>3, <3>1, <3>4
      <4>2. k # 1
        BY <4>1
      <4> QED BY <1>3, <1>6, <4>1, <4>2
    <3> QED BY <3>2, <3>3, <3>4 DEF A, C
  <2>3. ASSUME kind = "redirects", a[1] = "write"
        PROVE  \A x \in ToSet(u) : x[1] \notin {"write", "removeRedirect"}
    <3>1. NeverAfter(t, {"write"}, {"write", "removeRedirect"})
      BY <2>3 DEF Orderly
    <3> QED BY <1>14, <2>3, <3>1
  <2> QED BY <2>1, <2>2, <2>3 DEF Others
<1>16. u = <<>> <=> a[1] = "release"
  BY <1>3
<1> QED BY <1>1, <1>2, <1>3, <1>7, <1>8, <1>9, <1>11, <1>12, <1>15, <1>16 DEF S

\* rename_site_in_host_dir is put before what is left.
LEMMA Substituted ==
    ASSUME NEW u \in Seq(StepsOf("renameSite")), u # <<>>, Orderly("renameSite", u),
           \A x \in ToSet(u) : x[1] \notin Early \cup Put \cup {"renameHostDir"},
           Head(u)[1] # "rename",
           NEW w, w = RenameInHost(NewName, Site, NewName) \o u
    PROVE  /\ w \in Seq(StepsOf("renameSite")) /\ w # <<>> /\ Orderly("renameSite", w)
           /\ Head(w) = <<"blank", "map", NewName>>
           /\ ToSet(u) \subseteq ToSet(w)
           /\ \A x \in ToSet(w) : x \in ToSet(u) \/ (x[1] \in {"blank", "rename"} /\ x[3] = NewName)
<1> DEFINE S == StepsOf("renameSite")
<1>1. PICK r : /\ r = RenameInHost(NewName, Site, NewName)
               /\ r \in Seq(S \ {<<"acquire">>, <<"release">>}) /\ Len(r) = 4
               /\ r[1] = <<"blank", "map", NewName>>
               /\ r[2] = <<"rename", "map", NewName, Site, NewName>>
               /\ r[3] = <<"blank", "redirect", NewName>>
               /\ r[4] = <<"rename", "redirect", NewName, Site, NewName>>
  BY InHost
<1>2. r \in Seq(S) /\ u \in Seq(S)
  BY <1>1, SeqMonotonic
<1> HIDE DEF S
<1>3. \A s \in Seq(S) : DOMAIN s = 1..Len(s) /\ Len(s) \in Nat
  OBVIOUS
<1>4. w = r \o u
  BY <1>1
<1>5. /\ w \in Seq(S) /\ Len(u) \in Nat /\ Len(w) = 4 + Len(u)
      /\ \A i \in 1..Len(w) :
            \/ i \in 1..4 /\ w[i] = r[i]
            \/ i > 4 /\ i - 4 \in 1..Len(u) /\ w[i] = u[i - 4]
      /\ \A i \in 1..4 : i \in 1..Len(w) /\ w[i] = r[i]
      /\ \A k \in 1..Len(u) : k + 4 \in 1..Len(w) /\ w[k + 4] = u[k]
  <2>1. r \in Seq(S) /\ u \in Seq(S)
    BY <1>2
  <2>2. /\ w \in Seq(S) /\ Len(r) \in Nat /\ Len(u) \in Nat
        /\ Len(w) = Len(r) + Len(u)
        /\ \A i \in 1..Len(w) :
                 \/ i \in 1..Len(r) /\ w[i] = r[i]
                 \/ i > Len(r) /\ i - Len(r) \in 1..Len(u) /\ w[i] = u[i - Len(r)]
        /\ \A i \in 1..Len(r) : i \in 1..Len(w) /\ w[i] = r[i]
        /\ \A k \in 1..Len(u) : k + Len(r) \in 1..Len(w) /\ w[k + Len(r)] = u[k]
    BY <1>4, <2>1, Both
  <2> QED BY <1>1, <2>2
<1>6. /\ ToSet(u) = {u[i] : i \in 1..Len(u)}
      /\ ToSet(w) = {w[i] : i \in 1..Len(w)}
  BY <1>2, <1>3, <1>5 DEF ToSet
<1>7. Len(u) >= 1 /\ Head(u) = u[1] /\ 1 \in 1..Len(u)
  <2>1. Len(u) # 0 /\ Head(u) = u[1]
    BY <1>2, EmptySeq
  <2> QED BY <1>5, <2>1
<1>8. \A i \in 1..Len(u) : /\ u[i][1] \notin Early \cup Put \cup {"renameHostDir"}
                           /\ ItemIs("renameSite", u[i])
  <2>1. \A i \in 1..Len(u) : u[i] \in S /\ u[i] \in ToSet(u)
    BY <1>2, <1>6, ElementOfSeq
  <2> QED BY <2>1, Items DEF S
<1>9. \A i \in 1..4 : i = 1 \/ i = 2 \/ i = 3 \/ i = 4
  OBVIOUS
<1>10. /\ \A i \in 1..4 : r[i][1] \in {"blank", "rename"} /\ r[i][3] = NewName
       /\ r[1][1] = "blank" /\ r[2][1] = "rename" /\ r[3][1] = "blank" /\ r[4][1] = "rename"
       /\ r[2][2] = r[1][2] /\ r[2][3] = r[1][3] /\ r[4][2] = r[3][2] /\ r[4][3] = r[3][3]
  BY <1>1, <1>9
<1>11. \A i \in 1..Len(w) : w[i][1] \in {"blank", "rename", "release"}
  <2>1. \A i \in 1..Len(u) : u[i][1] \in {"blank", "rename", "release"}
    BY <1>8 DEF ItemIs, StepNames, Early, Put
  <2> QED BY <1>5, <1>10, <2>1
<1>12. \A i \in 1..Len(w) : w[i][1] = "release" <=> i = Len(w)
  <2> SUFFICES ASSUME NEW i \in 1..Len(w) PROVE w[i][1] = "release" <=> i = Len(w)
    OBVIOUS
  <2>1. CASE i \in 1..4 /\ w[i] = r[i]
    BY <1>5, <1>7, <1>10, <2>1
  <2>2. CASE i > 4 /\ i - 4 \in 1..Len(u) /\ w[i] = u[i - 4]
    <3>1. u[i - 4][1] = "release" <=> i - 4 = Len(u)
      BY <2>2 DEF Orderly
    <3> QED BY <1>5, <2>2, <3>1
  <2> QED BY <1>5, <2>1, <2>2
<1>13. Followed(w, "blank", "rename") /\ SameFile(w, "blank")
  <2>1. Followed(u, "blank", "rename") /\ SameFile(u, "blank")
    BY DEF Orderly
  <2>2. ASSUME NEW i \in 1..Len(w), w[i][1] = "blank"
        PROVE  /\ i + 1 \in 1..Len(w) /\ w[i + 1][1] = "rename"
               /\ w[i + 1][2] = w[i][2] /\ w[i + 1][3] = w[i][3]
    <3>1. CASE i \in 1..4 /\ w[i] = r[i]
      <4>1. i = 1 \/ i = 3
        BY <1>9, <1>10, <2>2, <3>1
      <4>2. 1 + 1 = 2 /\ 3 + 1 = 4 /\ 2 \in 1..4 /\ 4 \in 1..4
        OBVIOUS
      <4> QED BY <1>5, <1>10, <3>1, <4>1, <4>2
    <3>2. CASE i > 4 /\ i - 4 \in 1..Len(u) /\ w[i] = u[i - 4]
      <4>1. (i - 4) + 1 \in 1..Len(u) /\ u[(i - 4) + 1][1] = "rename"
        BY <2>1, <2>2, <3>2 DEF Followed
      <4>2. u[(i - 4) + 1][2] = u[i - 4][2] /\ u[(i - 4) + 1][3] = u[i - 4][3]
        BY <2>1, <2>2, <3>2 DEF SameFile
      <4>3. ((i - 4) + 1) + 4 = i + 1
        OBVIOUS
      <4> QED BY <1>5, <3>2, <4>1, <4>2, <4>3
    <3> QED BY <1>5, <3>1, <3>2
  <2>3. ASSUME NEW i \in 1..Len(w), i + 1 \in 1..Len(w), w[i + 1][1] = "rename" PROVE w[i][1] = "blank"
    <3>1. CASE i + 1 \in 1..4 /\ w[i + 1] = r[i + 1]
      <4>1. i + 1 = 2 \/ i + 1 = 4
        BY <1>9, <1>10, <2>3, <3>1
      <4>2. i = 1 \/ i = 3
        BY <4>1
      <4> QED BY <1>5, <1>10, <4>2
    <3>2. CASE i + 1 > 4 /\ (i + 1) - 4 \in 1..Len(u) /\ w[i + 1] = u[(i + 1) - 4]
      <4>1. (i + 1) - 4 # 1
        BY <1>7, <2>3, <3>2
      <4>2. i - 4 \in 1..Len(u) /\ (i - 4) + 1 = (i + 1) - 4 /\ (i - 4) + 4 = i
        BY <1>5, <3>2, <4>1
      <4>3. u[i - 4][1] = "blank" /\ w[i] = u[i - 4]
        BY <1>5, <2>1, <2>3, <3>2, <4>2 DEF Followed
      <4> QED BY <4>3
    <3> QED BY <1>5, <2>3, <3>1, <3>2
  <2> QED BY <2>2, <2>3 DEF Followed, SameFile
<1>14. Orderly("renameSite", w)
  <2>1. \A i \in 1..Len(w) : w[i][1] \notin {"acquire"} \cup Early \cup Put \cup {"renameHostDir"}
    BY <1>11 DEF Early, Put
  <2>2. /\ Followed(w, "truncate", "write") /\ SameFile(w, "truncate")
        /\ Followed(w, "softAcquire", "scale") /\ Followed(w, "scale", "softRelease")
    BY <1>11 DEF Followed, SameFile
  <2>3. Toward(w, Early, Put) /\ NeverAfter(w, Put, Early \cup Put)
    BY <2>1 DEF Toward, NeverAfter
  <2>4. /\ Toward(w, Early \cup Put, {"renameHostDir"})
        /\ NeverAfter(w, Late, Early \cup Put \cup {"renameHostDir"})
        /\ \A i \in 1..Len(w) : w[i][1] \in Early \cup Put \cup {"renameHostDir"} =>
                \E k \in 1..Len(w) : i < k /\ w[k] = <<"blank", "map", Domain>>
    BY <2>1 DEF Toward, NeverAfter
  <2> QED BY <1>12, <1>13, <2>1, <2>2, <2>3, <2>4 DEF Orderly
<1>15. w # <<>> /\ Head(w) = <<"blank", "map", NewName>>
  <2>1. Len(w) # 0 /\ w[1] = r[1]
    BY <1>5
  <2> QED BY <1>1, <1>5, <2>1, EmptySeq
<1>16. ToSet(u) \subseteq ToSet(w)
  <2> SUFFICES ASSUME NEW x \in ToSet(u) PROVE x \in ToSet(w)
    OBVIOUS
  <2>1. PICK k \in 1..Len(u) : x = u[k]
    BY <1>6
  <2>2. k + 4 \in 1..Len(w) /\ w[k + 4] = x
    BY <1>5, <2>1
  <2> QED BY <1>6, <2>2
<1>17. \A x \in ToSet(w) : x \in ToSet(u) \/ (x[1] \in {"blank", "rename"} /\ x[3] = NewName)
  <2> SUFFICES ASSUME NEW x \in ToSet(w)
               PROVE  x \in ToSet(u) \/ (x[1] \in {"blank", "rename"} /\ x[3] = NewName)
    OBVIOUS
  <2>1. PICK i \in 1..Len(w) : x = w[i]
    BY <1>6
  <2> QED BY <1>5, <1>6, <1>10, <2>1
<1> QED BY <1>5, <1>14, <1>15, <1>16, <1>17 DEF S

(***************************************************************************)
(* What a step does to the jobs.                                           *)
(***************************************************************************)

OnlyMoves(j) ==
    /\ operation' \in [Jobs -> Operations \cup {<<>>}]
    /\ DOMAIN todo' = Jobs
    /\ result' \in [Jobs -> {"idle", "running", "retrying", "done", "failed"}]
    /\ \A k \in Jobs : k # j =>
          operation'[k] = operation[k] /\ todo'[k] = todo[k] /\ result'[k] = result[k]

\* A job is enqueued or tried again.
Starts(j) ==
    /\ OnlyMoves(j) /\ todo[j] = <<>> /\ lock # j
    /\ operation'[j] \in Operations /\ todo'[j] = Handler(operation'[j])
    /\ \/ /\ result[j] = "idle" /\ operation[j] = <<>> /\ result'[j] = "running"
          /\ operation'[j][1] = "renameSite" => \A k \in Jobs : operation[k] # operation'[j]
       \/ result[j] = "failed" /\ operation'[j] = operation[j] /\ result'[j] = "retrying"
    /\ UNCHANGED <<lock, faults>>

\* A step of its handler is done.  What is left was there before, but for the
\* files of a host directory that was renamed; what was there before is left,
\* but for the step and, when nothing is to be renamed in a file, its renaming.
Goes(j) ==
    /\ OnlyMoves(j) /\ todo[j] # <<>> /\ operation'[j] = operation[j] /\ faults' = faults
    /\ lock = IF At(j, {"acquire"}) THEN None ELSE j
    /\ lock' = IF At(j, {"release"}) THEN None ELSE j
    /\ result[j] \in {"running", "retrying"}
    /\ result'[j] = IF todo'[j] = <<>> THEN "done" ELSE result[j]
    /\ todo'[j] = <<>> <=> At(j, {"release"})
    /\ ItemIs(Kind(j), Head(todo[j])) /\ Others(Kind(j), Head(todo[j]), Left(j)')
    /\ \A x \in Left(j) : ItemIs(Kind(j), x)
    /\ \A x \in Left(j)' : ItemIs(Kind(j), x) /\ x[1] # "acquire"
    /\ Head(todo[j]) \in Left(j)
    /\ \A x \in Left(j)' :
          x \in Left(j) \/ (At(j, {"renameHostDir"}) /\ x[1] \in {"blank", "rename"} /\ x[3] = NewName)
    /\ \A x \in Left(j) :
          \/ x = Head(todo[j]) \/ x \in Left(j)'
          \/ /\ At(j, {"blank"}) /\ todo'[j] # Tail(todo[j])
             /\ x[1] = "rename" /\ x[2] = Head(todo[j])[2] /\ x[3] = Head(todo[j])[3]
    /\ todo'[j] # <<>> /\ todo'[j] = Tail(todo[j]) => Next2(Head(todo[j]), Head(todo'[j]))
    /\ todo'[j] # <<>> => Head(todo'[j]) \in Left(j)'
    /\ todo'[j] # Tail(todo[j]) => Kind(j) = "renameSite"

\* It fails.
Ends(j) ==
    /\ OnlyMoves(j) /\ todo[j] # <<>> /\ operation'[j] = operation[j]
    /\ result[j] \in {"running", "retrying"}
    /\ todo'[j] = <<>> /\ result'[j] = "failed"
    /\ lock' = IF lock = j THEN None ELSE lock
    /\ ItemIs(Kind(j), Head(todo[j])) /\ Others(Kind(j), Head(todo[j]), ToSet(Tail(todo[j])))
    /\ Left(j) = ToSet(Tail(todo[j])) \cup {Head(todo[j])}

\* A new job and a retry both begin at the start of a handler.
LEMMA EnqueueStarts ==
    ASSUME JobsSound, NEW j \in Jobs, NEW op \in Operations, Enqueue(j, op)
    PROVE  Starts(j)
<1>1. result[j] = "idle" /\ operation[j] = <<>> /\ todo[j] = <<>> /\ lock # j
  BY DEF JobsSound, Shape, LockDiscipline, Enqueue, Busy
<1>2. OnlyMoves(j)
  BY DEF JobsSound, Enqueue, OnlyMoves
<1>3. operation'[j] = op /\ todo'[j] = Handler(op) /\ result'[j] = "running"
  BY DEF JobsSound, Enqueue
<1> QED BY <1>1, <1>2, <1>3 DEF Starts, Enqueue

LEMMA RetryStarts ==
    ASSUME JobsSound, NEW j \in Jobs, Retry(j)
    PROVE  Starts(j)
<1>1. result[j] = "failed" /\ operation[j] \in Operations /\ todo[j] = <<>> /\ lock # j
  BY DEF JobsSound, Shape, LockDiscipline, Retry, Busy
<1>2. OnlyMoves(j)
  BY DEF JobsSound, Retry, OnlyMoves
<1>3. operation'[j] = operation[j] /\ todo'[j] = Handler(operation[j]) /\ result'[j] = "retrying"
  BY DEF JobsSound, Retry
<1> QED BY <1>1, <1>2, <1>3 DEF Starts, Retry

\* What a job has before it.
LEMMA Before ==
    ASSUME JobsSound, NEW j \in Jobs, todo[j] # <<>>
    PROVE  /\ ItemIs(Kind(j), Head(todo[j])) /\ \A x \in Left(j) : ItemIs(Kind(j), x)
           /\ Tail(todo[j]) \in Seq(StepsOf(Kind(j))) /\ Orderly(Kind(j), Tail(todo[j]))
           /\ Left(j) = ToSet(Tail(todo[j])) \cup {Head(todo[j])}
           /\ \A x \in ToSet(Tail(todo[j])) : x[1] # "acquire"
           /\ Tail(todo[j]) = <<>> <=> Head(todo[j])[1] = "release"
           /\ Tail(todo[j]) # <<>> => /\ Next2(Head(todo[j]), Head(Tail(todo[j])))
                                      /\ Head(Tail(todo[j])) \in ToSet(Tail(todo[j]))
           /\ Len(todo[j]) = 1 <=> Tail(todo[j]) = <<>>
           /\ Others(Kind(j), Head(todo[j]), ToSet(Tail(todo[j])))
           /\ result[j] \in {"running", "retrying"}
           /\ lock = j <=> ~At(j, {"acquire"})
<1>1. PICK kind : kind = Kind(j)
  OBVIOUS
<1>2. PICK t : t = todo[j]
  OBVIOUS
<1>3. t \in Seq(StepsOf(kind)) /\ Orderly(kind, t) /\ t # <<>>
  BY <1>1, <1>2 DEF JobsSound, Shape
<1>4. /\ ItemIs(kind, Head(t)) /\ \A x \in ToSet(t) : ItemIs(kind, x)
      /\ Tail(t) \in Seq(StepsOf(kind)) /\ Orderly(kind, Tail(t))
      /\ ToSet(t) = ToSet(Tail(t)) \cup {Head(t)}
      /\ \A x \in ToSet(Tail(t)) : x[1] # "acquire"
      /\ Tail(t) = <<>> <=> Head(t)[1] = "release"
      /\ Tail(t) # <<>> => Next2(Head(t), Head(Tail(t))) /\ Head(Tail(t)) \in ToSet(Tail(t))
      /\ Len(t) = 1 <=> Tail(t) = <<>>
      /\ Others(kind, Head(t), ToSet(Tail(t)))
  BY <1>3, Ahead1
<1>5. result[j] \in {"running", "retrying"} /\ (lock = j <=> ~At(j, {"acquire"}))
  BY DEF JobsSound, Shape, LockDiscipline, Busy
<1>6. Left(j) = ToSet(t)
  BY <1>2 DEF Left
<1> QED BY <1>1, <1>2, <1>4, <1>5, <1>6

\* A job that goes on goes to the rest of its sequence.
LEMMA AdvanceGoes ==
    ASSUME JobsSound, NEW j \in Jobs, todo[j] # <<>>, Advance(j),
           At(j, {"acquire"}) => lock = None,
           lock' = IF At(j, {"acquire"}) THEN j ELSE IF At(j, {"release"}) THEN None ELSE lock
    PROVE  Goes(j) /\ todo'[j] = Tail(todo[j])
<1>1. todo'[j] = Tail(todo[j]) /\ result'[j] = IF Len(todo[j]) = 1 THEN "done" ELSE result[j]
  BY DEF JobsSound, Advance
<1>2. OnlyMoves(j) /\ operation'[j] = operation[j] /\ faults' = faults
  BY DEF JobsSound, Advance, OnlyMoves
<1>3. Left(j)' = ToSet(Tail(todo[j]))
  BY <1>1 DEF Left
<1>4. At(j, {"release"}) <=> Head(todo[j])[1] = "release"
  BY DEF At
<1>5. At(j, {"acquire"}) => ~At(j, {"release"})
  BY DEF At
<1>6. /\ lock = IF At(j, {"acquire"}) THEN None ELSE j
      /\ lock' = IF At(j, {"release"}) THEN None ELSE j
  BY <1>5, Before
<1>7. /\ ItemIs(Kind(j), Head(todo[j])) /\ \A x \in Left(j) : ItemIs(Kind(j), x)
      /\ Left(j) = ToSet(Tail(todo[j])) \cup {Head(todo[j])}
      /\ \A x \in ToSet(Tail(todo[j])) : x[1] # "acquire"
      /\ Tail(todo[j]) = <<>> <=> Head(todo[j])[1] = "release"
      /\ Tail(todo[j]) # <<>> => /\ Next2(Head(todo[j]), Head(Tail(todo[j])))
                                 /\ Head(Tail(todo[j])) \in ToSet(Tail(todo[j]))
      /\ Len(todo[j]) = 1 <=> Tail(todo[j]) = <<>>
      /\ Others(Kind(j), Head(todo[j]), ToSet(Tail(todo[j])))
      /\ result[j] \in {"running", "retrying"}
  BY Before
<1> QED BY <1>1, <1>2, <1>3, <1>4, <1>6, <1>7 DEF Goes

\* A file that has nothing to rename.
LEMMA BlankSkips ==
    ASSUME JobsSound, NEW j \in Jobs, Doing(j, "blank"),
           todo' = [todo EXCEPT ![j] = Tail(Tail(@))], UNCHANGED <<operation, result, faults, lock>>
    PROVE  /\ Goes(j) /\ todo'[j] = Tail(Tail(todo[j]))
           /\ todo'[j] \in Seq(StepsOf(Kind(j))) /\ Orderly(Kind(j), todo'[j])
           /\ todo'[j] # <<>> /\ Head(todo'[j])[1] \notin {"scale", "softRelease"}
<1>1. PICK t : t = todo[j]
  OBVIOUS
<1>2. PICK u : u = Tail(t)
  OBVIOUS
<1>3. PICK v : v = Tail(u)
  OBVIOUS
<1>4. PICK kind : kind = Kind(j)
  OBVIOUS
<1>5. t # <<>> /\ Head(t)[1] = "blank"
  BY <1>1 DEF Doing
<1>6. /\ ItemIs(kind, Head(t)) /\ \A x \in ToSet(t) : ItemIs(kind, x)
      /\ u \in Seq(StepsOf(kind)) /\ Orderly(kind, u)
      /\ ToSet(t) = ToSet(u) \cup {Head(t)}
      /\ \A x \in ToSet(u) : x[1] # "acquire"
      /\ u = <<>> <=> Head(t)[1] = "release"
      /\ u # <<>> => Next2(Head(t), Head(u)) /\ Head(u) \in ToSet(u)
      /\ Others(kind, Head(t), ToSet(u))
      /\ result[j] \in {"running", "retrying"}
      /\ lock = j <=> ~At(j, {"acquire"})
  <2>1. todo[j] # <<>>
    BY <1>1, <1>5
  <2> QED BY <1>1, <1>2, <1>4, <2>1, Before DEF Left
<1>7. u # <<>> /\ kind = "renameSite"
  BY <1>5, <1>6 DEF ItemIs
<1>8. Head(u)[1] = "rename" /\ Head(u)[2] = Head(t)[2] /\ Head(u)[3] = Head(t)[3]
  BY <1>5, <1>6, <1>7 DEF Next2
<1>9. /\ v \in Seq(StepsOf(kind)) /\ Orderly(kind, v)
      /\ ToSet(u) = ToSet(v) \cup {Head(u)}
      /\ v = <<>> <=> Head(u)[1] = "release"
      /\ v # <<>> => Next2(Head(u), Head(v)) /\ Head(v) \in ToSet(v)
  BY <1>3, <1>6, <1>7, Ahead1
<1>10. v # <<>>
  BY <1>8, <1>9
<1>11. /\ OnlyMoves(j) /\ operation'[j] = operation[j] /\ faults' = faults
       /\ todo'[j] = v /\ result'[j] = result[j] /\ lock' = lock
  BY <1>1, <1>2, <1>3 DEF JobsSound, OnlyMoves
<1>12. At(j, {"blank"}) /\ ~At(j, {"acquire"}) /\ ~At(j, {"release"}) /\ lock = j
  BY <1>1, <1>5, <1>6 DEF At
<1>13. Others(kind, Head(t), ToSet(v))
  BY <1>5, <1>6, <1>7, <1>9 DEF Others, Early, Put, Late
<1>14. Left(j) = ToSet(t) /\ Left(j)' = ToSet(v)
  BY <1>1, <1>11 DEF Left
<1>15. \A x \in Left(j) : x = Head(t) \/ x \in Left(j)' \/ (x[1] = "rename" /\ x[2] = Head(t)[2] /\ x[3] = Head(t)[3])
  BY <1>6, <1>8, <1>9, <1>14
<1>16. /\ \A x \in Left(j) : ItemIs(kind, x)
       /\ \A x \in Left(j)' : ItemIs(kind, x) /\ x[1] # "acquire" /\ x \in Left(j)
       /\ Head(t) \in Left(j)
  BY <1>6, <1>9, <1>14
<1>17. v # u
  <2>1. Head(u)[1] = "rename" /\ (v = u => Next2(Head(u), Head(u)))
    BY <1>8, <1>9, <1>10
  <2> QED BY <2>1 DEF Next2
<1>18. Goes(j)
  BY <1>1, <1>2, <1>4, <1>5, <1>6, <1>7, <1>9, <1>10, <1>11, <1>12, <1>13, <1>14, <1>15, <1>16, <1>17 DEF Goes
<1>19. Head(v)[1] \notin {"scale", "softRelease"}
  BY <1>8, <1>9, <1>10 DEF Next2
<1> QED BY <1>1, <1>2, <1>3, <1>4, <1>9, <1>10, <1>11, <1>18, <1>19

\* A host directory that is renamed.
LEMMA HostDirSubstitutes ==
    ASSUME JobsSound, NEW j \in Jobs, Doing(j, "renameHostDir"),
           todo' = [todo EXCEPT ![j] = RenameInHost(NewName, Site, NewName) \o Tail(@)],
           UNCHANGED <<operation, result, faults, lock>>
    PROVE  /\ Goes(j)
           /\ todo'[j] \in Seq(StepsOf(Kind(j))) /\ Orderly(Kind(j), todo'[j])
           /\ todo'[j] # <<>> /\ Head(todo'[j])[1] = "blank" /\ todo'[j] # Tail(todo[j])
<1>1. PICK t : t = todo[j]
  OBVIOUS
<1>2. PICK u : u = Tail(t)
  OBVIOUS
<1>3. PICK w : w = RenameInHost(NewName, Site, NewName) \o u
  OBVIOUS
<1>4. PICK kind : kind = Kind(j)
  OBVIOUS
<1>5. t # <<>> /\ Head(t)[1] = "renameHostDir"
  BY <1>1 DEF Doing
<1>6. /\ ItemIs(kind, Head(t)) /\ \A x \in ToSet(t) : ItemIs(kind, x)
      /\ u \in Seq(StepsOf(kind)) /\ Orderly(kind, u)
      /\ ToSet(t) = ToSet(u) \cup {Head(t)}
      /\ \A x \in ToSet(u) : x[1] # "acquire"
      /\ u = <<>> <=> Head(t)[1] = "release"
      /\ u # <<>> => Next2(Head(t), Head(u)) /\ Head(u) \in ToSet(u)
      /\ Others(kind, Head(t), ToSet(u))
      /\ result[j] \in {"running", "retrying"}
      /\ lock = j <=> ~At(j, {"acquire"})
  <2>1. todo[j] # <<>>
    BY <1>1, <1>5
  <2> QED BY <1>1, <1>2, <1>4, <2>1, Before DEF Left
<1>7. u # <<>> /\ kind = "renameSite"
  BY <1>5, <1>6 DEF ItemIs
<1>8. \A x \in ToSet(u) : x[1] \notin Early \cup Put \cup {"renameHostDir"}
  BY <1>5, <1>6, <1>7 DEF Others, Late
<1>9. Head(u)[1] # "rename"
  BY <1>5, <1>6, <1>7 DEF Next2
<1>10. /\ w \in Seq(StepsOf("renameSite")) /\ w # <<>> /\ Orderly("renameSite", w)
       /\ Head(w) = <<"blank", "map", NewName>>
       /\ ToSet(u) \subseteq ToSet(w)
       /\ \A x \in ToSet(w) : x \in ToSet(u) \/ (x[1] \in {"blank", "rename"} /\ x[3] = NewName)
  <2>1. u \in Seq(StepsOf("renameSite")) /\ u # <<>> /\ Orderly("renameSite", u)
    BY <1>6, <1>7
  <2> QED BY <1>3, <1>8, <1>9, <2>1, Substituted
<1>11. /\ OnlyMoves(j) /\ operation'[j] = operation[j] /\ faults' = faults
       /\ todo'[j] = w /\ result'[j] = result[j] /\ lock' = lock
  BY <1>1, <1>2, <1>3 DEF JobsSound, OnlyMoves
<1>12. At(j, {"renameHostDir"}) /\ ~At(j, {"acquire"}) /\ ~At(j, {"release"}) /\ lock = j
  BY <1>1, <1>5, <1>6 DEF At
<1>13. \A x \in ToSet(w) : ItemIs(kind, x) /\ x[1] # "acquire" /\ x[1] \notin Early \cup Put \cup {"renameHostDir"}
  <2>0. w \in Seq(StepsOf("renameSite")) /\ w # <<>> /\ Orderly("renameSite", w)
    BY <1>10
  <2>1. \A x \in ToSet(w) : ItemIs("renameSite", x)
    BY <2>0, Ahead1
  <2> QED BY <1>6, <1>7, <1>8, <1>10, <2>1 DEF Early, Put
<1>14. Others(kind, Head(t), ToSet(w))
  BY <1>5, <1>6, <1>7, <1>10, <1>13 DEF Others, Early, Put, Late
<1>15. Left(j) = ToSet(t) /\ Left(j)' = ToSet(w)
  BY <1>1, <1>11 DEF Left
<1>16. Head(w) \in ToSet(w)
  <2>0. w \in Seq(StepsOf("renameSite")) /\ w # <<>> /\ Orderly("renameSite", w)
    BY <1>10
  <2> QED BY <2>0, Ahead1
<1>17. w # u
  <2>1. Head(w)[1] = "blank" /\ Head(w)[3] = NewName /\ Head(w)[2] = "map"
    BY <1>10
  <2>2. Len(w) = 4 + Len(u) /\ Len(u) \in Nat
    <3>1. PICK r : /\ r = RenameInHost(NewName, Site, NewName)
                   /\ r \in Seq(StepsOf("renameSite") \ {<<"acquire">>, <<"release">>}) /\ Len(r) = 4
      BY InHost
    <3>2. r \in Seq(StepsOf("renameSite")) /\ u \in Seq(StepsOf("renameSite"))
      BY <1>6, <1>7, <3>1, SeqMonotonic
    <3>3. w = r \o u
      BY <1>3, <3>1
    <3> DEFINE S == StepsOf("renameSite")
    <3>4. r \in Seq(S) /\ u \in Seq(S)
      BY <3>2
    <3> HIDE DEF S
    <3>5. Len(w) = Len(r) + Len(u) /\ Len(u) \in Nat
      BY <3>3, <3>4, ConcatProperties, LenProperties
    <3> QED BY <3>1, <3>5
  <2> QED BY <2>2
<1>18. Goes(j)
  <2>1. \A x \in Left(j) : x = Head(t) \/ x \in Left(j)'
    BY <1>6, <1>10, <1>15
  <2>2. \A x \in Left(j) : ItemIs(kind, x)
    BY <1>6, <1>15
  <2>3. \A x \in Left(j)' : ItemIs(kind, x) /\ x[1] # "acquire"
    BY <1>13, <1>15
  <2>4. Head(t) \in Left(j) /\ Head(w) \in Left(j)'
    BY <1>6, <1>15, <1>16
  <2>5. \A x \in Left(j)' : x \in Left(j) \/ (x[1] \in {"blank", "rename"} /\ x[3] = NewName)
    BY <1>6, <1>10, <1>15
  <2>6. Others(kind, Head(t), Left(j)')
    BY <1>14, <1>15
  <2> HIDE DEF Others, ItemIs
  <2> QED BY <1>1, <1>2, <1>4, <1>5, <1>6, <1>7, <1>10, <1>11, <1>12, <1>17, <2>1, <2>2, <2>3, <2>4, <2>5, <2>6 DEF Goes
<1>19. Kind(j) = "renameSite" /\ todo'[j] = w /\ Tail(todo[j]) = u
  BY <1>1, <1>2, <1>4, <1>7, <1>11
<1>20. w \in Seq(StepsOf(Kind(j))) /\ Orderly(Kind(j), w) /\ w # <<>> /\ Head(w)[1] = "blank"
  BY <1>10, <1>19
<1> QED BY <1>17, <1>18, <1>19, <1>20

\* A job that fails has nothing left and gives up the flock.
LEMMA FailsEnds ==
    ASSUME JobsSound, NEW j \in Jobs, todo[j] # <<>>, Fails(j)
    PROVE  Ends(j)
<1>1. OnlyMoves(j) /\ operation'[j] = operation[j] /\ todo'[j] = <<>> /\ result'[j] = "failed"
  BY DEF JobsSound, Fails, OnlyMoves
<1>2. lock' = IF lock = j THEN None ELSE lock
  BY DEF Fails
<1> QED BY <1>1, <1>2, Before DEF Ends

(***************************************************************************)
(* The jobs stay sound.                                                    *)
(***************************************************************************)

\* The other jobs.
LEMMA OthersSound ==
    ASSUME JobsSound, NEW j \in Jobs, OnlyMoves(j), NEW k \in Jobs, k # j,
           lock' = k <=> lock = k, softLock' = k <=> softLock = k
    PROVE  Shape(k)' /\ LockDiscipline(k)'
<1>1. operation'[k] = operation[k] /\ todo'[k] = todo[k] /\ result'[k] = result[k]
  BY DEF OnlyMoves
<1>2. Kind(k)' = Kind(k) /\ (Busy(k)' <=> Busy(k)) /\ \A A : At(k, A)' <=> At(k, A)
  BY <1>1 DEF Kind, Busy, At
<1>3. Shape(k) /\ LockDiscipline(k)
  BY DEF JobsSound
<1>4. Shape(k)'
  BY <1>1, <1>2, <1>3 DEF Shape
<1>5. LockDiscipline(k)'
  BY <1>1, <1>2, <1>3 DEF LockDiscipline
<1> QED BY <1>4, <1>5

\* Only Enqueue gives a job a kind.
LEMMA KindsStay ==
    ASSUME JobsSound, NEW j \in Jobs, OnlyMoves(j), operation'[j] = operation[j]
    PROVE  OneRename' /\ \A k \in Jobs : Kind(k)' = Kind(k)
<1>1. \A k \in Jobs : Kind(k)' = Kind(k)
  BY DEF OnlyMoves, Kind
<1> QED BY <1>1 DEF JobsSound, OneRename

\* A step keeps JobsSound when it treats the lock file as its place in the sequence asks ...
LEMMA GoesSound ==
    ASSUME JobsSound, NEW j \in Jobs, Goes(j),
           todo'[j] \in Seq(StepsOf(Kind(j))), Orderly(Kind(j), todo'[j]),
           At(j, {"softAcquire"}) => softLock = None,
           softLock' = IF At(j, {"softAcquire"}) THEN j ELSE IF At(j, {"softRelease"}) THEN None ELSE softLock,
           todo'[j] # <<>> =>
               (Head(todo'[j])[1] \in {"scale", "softRelease"} <=> At(j, {"softAcquire", "scale"}))
    PROVE  JobsSound'
<1>1. OnlyMoves(j) /\ operation'[j] = operation[j] /\ faults' = faults
  BY DEF Goes
<1>2. OneRename' /\ \A k \in Jobs : Kind(k)' = Kind(k)
  BY <1>1, KindsStay
<1>3. Shape(j) /\ LockDiscipline(j)
  BY DEF JobsSound
<1>4. Busy(j) /\ (Busy(j)' <=> todo'[j] # <<>>)
  BY DEF Goes, Busy
<1>5. Shape(j)'
  <2>1. operation'[j] # <<>> /\ result'[j] # "idle"
    BY <1>1, <1>3 DEF Goes, Shape
  <2> QED BY <1>1, <1>2, <1>3, <1>4, <2>1 DEF Shape
<1>6. At(j, {"softRelease"}) => softLock = j
  BY <1>3 DEF LockDiscipline, At
<1>7. None # j /\ None \notin Jobs
  BY ProxyAssumption
<1>8. ~At(j, {"acquire"})'
  BY DEF Goes, At
<1>9. lock' = j <=> todo'[j] # <<>>
  BY <1>7 DEF Goes
<1>10. softLock' = j <=> At(j, {"scale", "softRelease"})'
  <2>1. At(j, {"scale", "softRelease"})' <=> todo'[j] # <<>> /\ At(j, {"softAcquire", "scale"})
    BY DEF At
  <2>2. At(j, {"softAcquire"}) \/ At(j, {"scale"}) => todo'[j] # <<>>
    BY DEF Goes, At
  <2>3. softLock = j <=> At(j, {"scale", "softRelease"})
    BY <1>3 DEF LockDiscipline
  <2>4. /\ At(j, {"softAcquire", "scale"}) <=> At(j, {"softAcquire"}) \/ At(j, {"scale"})
        /\ At(j, {"scale", "softRelease"}) <=> At(j, {"scale"}) \/ At(j, {"softRelease"})
        /\ ~(At(j, {"softRelease"}) /\ At(j, {"softAcquire"})) /\ ~(At(j, {"scale"}) /\ At(j, {"softAcquire"}))
        /\ ~(At(j, {"scale"}) /\ At(j, {"softRelease"}))
    BY DEF At
  <2> QED BY <1>7, <2>1, <2>2, <2>3, <2>4
<1>11. LockDiscipline(j)'
  BY <1>8, <1>9, <1>10 DEF LockDiscipline
<1>12. ASSUME NEW k \in Jobs, k # j PROVE Shape(k)' /\ LockDiscipline(k)'
  <2>1. lock' = k <=> lock = k
    BY <1>7, <1>12, ProxyAssumption DEF Goes
  <2>2. softLock' = k <=> softLock = k
    BY <1>6, <1>7, <1>12, ProxyAssumption
  <2> QED BY <1>1, <1>12, <2>1, <2>2, OthersSound
<1>13. lock' \in Jobs \cup {None} /\ softLock' \in Jobs \cup {None, "stale"} /\ faults' \in Nat
  BY <1>1 DEF Goes, JobsSound
<1> QED BY <1>1, <1>2, <1>5, <1>11, <1>12, <1>13 DEF JobsSound, OnlyMoves

\* ... so does the end of a job, which leaves no lock file of its own ...
LEMMA EndsSound ==
    ASSUME JobsSound, NEW j \in Jobs, Ends(j), faults' \in Nat,
           IF softLock = j THEN softLock' \in {None, "stale"} ELSE softLock' = softLock
    PROVE  JobsSound'
<1>1. OnlyMoves(j) /\ operation'[j] = operation[j] /\ todo'[j] = <<>> /\ result'[j] = "failed"
  BY DEF Ends
<1>2. OneRename' /\ \A k \in Jobs : Kind(k)' = Kind(k)
  BY <1>1, KindsStay
<1>3. Shape(j) /\ LockDiscipline(j) /\ Busy(j)
  BY DEF JobsSound, Ends, Busy
<1>4. ~Busy(j)' /\ \A A : ~At(j, A)'
  BY <1>1 DEF Busy, At
<1>5. <<>> \in Seq(StepsOf(Kind(j))) /\ Orderly(Kind(j), <<>>)
  <2>1. Len(<<>>) = 0 /\ 1..0 = {}
    OBVIOUS
  <2> QED BY <2>1 DEF Orderly, Followed, SameFile, Toward, NeverAfter
<1>6. Shape(j)'
  <2>1. operation'[j] # <<>>
    BY <1>1, <1>3 DEF Shape, Busy
  <2> QED BY <1>1, <1>2, <1>3, <1>4, <1>5, <2>1 DEF Shape
<1>7. None # j /\ None \notin Jobs /\ "stale" \notin Jobs
  BY ProxyAssumption
<1>8. lock' # j /\ softLock' # j
  BY <1>7 DEF Ends
<1>9. LockDiscipline(j)'
  BY <1>1, <1>4, <1>8 DEF LockDiscipline
<1>10. ASSUME NEW k \in Jobs, k # j PROVE Shape(k)' /\ LockDiscipline(k)'
  <2>1. lock' = k <=> lock = k
    BY <1>7, <1>10 DEF Ends
  <2>2. softLock' = k <=> softLock = k
    BY <1>7, <1>10
  <2> QED BY <1>1, <1>10, <2>1, <2>2, OthersSound
<1>11. lock' \in Jobs \cup {None} /\ softLock' \in Jobs \cup {None, "stale"}
  BY DEF Ends, JobsSound
<1> QED BY <1>1, <1>2, <1>6, <1>9, <1>10, <1>11 DEF JobsSound, OnlyMoves

\* A handler from its start.
LEMMA StartsWith ==
    ASSUME NEW j \in Jobs, Starts(j)
    PROVE  /\ Kind(j)' = operation'[j][1] /\ operation'[j] # <<>>
           /\ todo'[j] \in Seq(StepsOf(Kind(j)')) /\ Orderly(Kind(j)', todo'[j])
           /\ todo'[j] # <<>> /\ Head(todo'[j]) = <<"acquire">>
           /\ Kind(j)' \in {"addSite", "renameSite"} => \E x \in Left(j)' : x[1] \in Put
<1>1. PICK op \in Operations : op = operation'[j]
  BY DEF Starts
<1>2. PICK t : t = Handler(op)
  OBVIOUS
<1>3. op # <<>>
  BY OperationIs
<1>4. Kind(j)' = op[1]
  BY <1>1, <1>3 DEF Kind
<1>5. todo'[j] = t
  BY <1>1, <1>2 DEF Starts
<1>6. /\ t \in Seq(StepsOf(op[1])) /\ t # <<>> /\ Head(t) = <<"acquire">> /\ Orderly(op[1], t)
      /\ op[1] \in {"addSite", "renameSite"} => \E k \in 1..Len(t) : t[k][1] \in Put
  BY <1>2, HandlerBegins
<1>7. ToSet(t) = {t[i] : i \in 1..Len(t)}
  <2>1. \A S : \A s \in Seq(S) : DOMAIN s = 1..Len(s)
    OBVIOUS
  <2> QED BY <1>6, <2>1 DEF ToSet
<1>8. Left(j)' = ToSet(t)
  BY <1>5 DEF Left
<1> QED BY <1>1, <1>3, <1>4, <1>5, <1>6, <1>7, <1>8

\* ... and so does a start.
LEMMA StartsSound ==
    ASSUME JobsSound, NEW j \in Jobs, Starts(j), softLock' = softLock
    PROVE  JobsSound'
<1>1. OnlyMoves(j) /\ lock' = lock /\ faults' = faults /\ lock # j /\ todo[j] = <<>>
  BY DEF Starts
<1>2. /\ Kind(j)' = operation'[j][1] /\ operation'[j] # <<>>
      /\ todo'[j] \in Seq(StepsOf(Kind(j)')) /\ Orderly(Kind(j)', todo'[j])
      /\ todo'[j] # <<>> /\ Head(todo'[j]) = <<"acquire">>
  BY StartsWith
<1>3. Shape(j) /\ LockDiscipline(j)
  BY DEF JobsSound
<1>4. Busy(j)' /\ result'[j] # "idle" /\ operation'[j] \in Operations
  BY DEF Starts, Busy
<1>5. Shape(j)'
  BY <1>2, <1>4 DEF Shape
<1>6. At(j, {"acquire"})' /\ ~At(j, {"scale", "softRelease"})'
  BY <1>2 DEF At
<1>7. softLock # j
  BY <1>1, <1>3 DEF LockDiscipline, At
<1>8. LockDiscipline(j)'
  BY <1>1, <1>2, <1>6, <1>7 DEF LockDiscipline, Starts
<1>9. ASSUME NEW k \in Jobs, k # j PROVE Shape(k)' /\ LockDiscipline(k)'
  BY <1>1, <1>9, OthersSound
<1>10. \A k \in Jobs : k # j => Kind(k)' = Kind(k)
  BY <1>1 DEF OnlyMoves, Kind
<1>11. OneRename'
  <2>1. ASSUME Kind(j)' = "renameSite", NEW k \in Jobs, k # j, Kind(k)' = "renameSite" PROVE FALSE
    <3>1. CASE result[j] = "failed" /\ operation'[j] = operation[j]
      <4>1. Kind(j) = "renameSite" /\ Kind(k) = "renameSite"
        BY <1>10, <2>1, <3>1 DEF Kind
      <4> QED BY <2>1, <4>1 DEF JobsSound, OneRename
    <3>2. CASE operation'[j][1] = "renameSite" => \A l \in Jobs : operation[l] # operation'[j]
      <4>1. Kind(k) = "renameSite"
        BY <1>10, <2>1
      <4>2. operation[k] \in Operations /\ operation[k][1] = "renameSite"
        <5>1. operation[k] # <<>>
          BY <4>1 DEF Kind
        <5> QED BY <4>1, <5>1 DEF JobsSound, Kind
      <4>3. operation'[j] \in Operations /\ operation'[j][1] = "renameSite"
        BY <1>2, <1>4, <2>1
      <4>4. operation[k] = <<"renameSite", Home, Site, NewName>> /\ operation'[j] = <<"renameSite", Home, Site, NewName>>
        BY <4>2, <4>3, OperationIs DEF OpIs
      <4> QED BY <3>2, <4>3, <4>4
    <3> QED BY <3>1, <3>2 DEF Starts
  <2>2. ASSUME NEW a \in Jobs, NEW b \in Jobs, Kind(a)' = "renameSite", Kind(b)' = "renameSite", a # b
        PROVE FALSE
    <3>1. CASE a = j \/ b = j
      BY <2>1, <2>2, <3>1
    <3>2. CASE a # j /\ b # j
      BY <1>10, <2>2, <3>2 DEF JobsSound, OneRename
    <3> QED BY <3>1, <3>2
  <2> QED BY <2>2 DEF OneRename
<1> QED BY <1>1, <1>5, <1>8, <1>9, <1>11 DEF JobsSound, OnlyMoves

(***************************************************************************)
(* The moves of the jobs, as the actions make them.                        *)
(***************************************************************************)

\* A step that does not touch a lock.
LEMMA Passing ==
    ASSUME JobsSound, NEW j \in Jobs, NEW what, Doing(j, what),
           what \notin {"acquire", "release", "softAcquire", "softRelease"},
           Advance(j), lock' = lock, softLock' = softLock
    PROVE  /\ Goes(j) /\ todo'[j] = Tail(todo[j]) /\ JobsSound'
           /\ lock = j /\ lock' = j /\ todo'[j] # <<>>
           /\ Head(todo[j])[1] = what /\ \A A : At(j, A) <=> what \in A
<1>1. todo[j] # <<>> /\ Head(todo[j])[1] = what /\ \A A : At(j, A) <=> what \in A
  BY DEF Doing, At
<1>2. Goes(j) /\ todo'[j] = Tail(todo[j])
  BY <1>1, AdvanceGoes
<1>3. lock = j /\ todo'[j] # <<>> /\ lock' = j
  BY <1>1, <1>2 DEF Goes
<1>4. todo'[j] \in Seq(StepsOf(Kind(j))) /\ Orderly(Kind(j), todo'[j])
  BY <1>1, <1>2, Before
<1>5. Head(todo'[j])[1] \in {"scale", "softRelease"} <=> At(j, {"softAcquire", "scale"})
  BY <1>1, <1>2, <1>3 DEF Goes, Next2
<1>6. JobsSound'
  BY <1>1, <1>2, <1>4, <1>5, GoesSound
<1> QED BY <1>1, <1>2, <1>3, <1>6

\* A job that raises at a step behind acquire held the flock and ends.
LEMMA Failing ==
    ASSUME JobsSound, NEW j \in Jobs, NEW what, Doing(j, what), what # "acquire", Fails(j),
           faults' = faults,
           IF softLock = j THEN softLock' \in {None, "stale"} ELSE softLock' = softLock
    PROVE  /\ Ends(j) /\ JobsSound' /\ lock = j
           /\ Head(todo[j])[1] = what /\ \A A : At(j, A) <=> what \in A
<1>1. todo[j] # <<>> /\ Head(todo[j])[1] = what /\ \A A : At(j, A) <=> what \in A
  BY DEF Doing, At
<1>2. Ends(j)
  BY <1>1, FailsEnds
<1>3. lock = j
  BY <1>1, Before
<1>4. faults' \in Nat
  BY DEF JobsSound
<1>5. JobsSound'
  BY <1>2, <1>4, EndsSound
<1> QED BY <1>1, <1>2, <1>3, <1>5

LEMMA NothingLeft == \A j : todo[j] = <<>> => Left(j) = {}
BY DEF Left, ToSet

\* Nothing changes what a job was enqueued for.
LEMMA KindsGrow ==
    ASSUME JobsSound, NEW j \in Jobs, Starts(j) \/ Goes(j) \/ Ends(j)
    PROVE  \A k \in Jobs : (Kind(k) # "none" \/ k # j) => Kind(k)' = Kind(k)
<1>1. \A k \in Jobs : k # j => Kind(k)' = Kind(k)
  BY DEF Starts, Goes, Ends, OnlyMoves, Kind
<1>2. Kind(j) # "none" => operation'[j] = operation[j]
  BY DEF Starts, Goes, Ends, Kind
<1>3. Kind(j) # "none" => Kind(j)' = Kind(j)
  BY <1>2 DEF Kind
<1> QED BY <1>1, <1>3

\* A kind that was ordered stays ordered.
LEMMA SomeStays ==
    ASSUME JobsSound, NEW j \in Jobs, Starts(j) \/ Goes(j) \/ Ends(j), NEW kind, kind # "none", Some(kind)
    PROVE  Some(kind)'
<1>1. PICK k \in Jobs : Kind(k) = kind
  BY DEF Some
<1>2. Kind(k)' = kind
  BY <1>1, KindsGrow
<1> QED BY <1>2 DEF Some

\* The other jobs stay where they are.
LEMMA OtherJobs ==
    ASSUME JobsSound, NEW j \in Jobs, Starts(j) \/ Goes(j) \/ Ends(j), NEW k \in Jobs, k # j
    PROVE  /\ Kind(k)' = Kind(k) /\ result'[k] = result[k] /\ todo'[k] = todo[k]
           /\ Left(k)' = Left(k) /\ (\A A : At(k, A)' <=> At(k, A)) /\ (\A A : Ahead(k, A)' <=> Ahead(k, A))
           /\ lock = k <=> lock' = k
<1>1. Kind(k)' = Kind(k)
  BY KindsGrow
<1>2. result'[k] = result[k] /\ todo'[k] = todo[k]
  BY DEF Starts, Goes, Ends, OnlyMoves
<1>3. Left(k)' = Left(k) /\ \A A : At(k, A)' <=> At(k, A)
  BY <1>2 DEF Left, At
<1>4. \A A : Ahead(k, A)' <=> Ahead(k, A)
  BY <1>3 DEF Ahead
<1>5. lock = k <=> lock' = k
  BY ProxyAssumption DEF Starts, Goes, Ends
<1> QED BY <1>1, <1>2, <1>3, <1>4, <1>5

\* The flock has one holder.
LEMMA OneHolder ==
    ASSUME JobsSound, NEW j \in Jobs, NEW k \in Jobs, lock = j, k # j
    PROVE  lock # k /\ (todo[k] = <<>> \/ At(k, {"acquire"}))
BY DEF JobsSound, LockDiscipline

(***************************************************************************)
(* What a step may only do when a failure is counted.                      *)
(***************************************************************************)

Ending == {"scan", "status", "move", "renameFile", "load", "removeRedirect", "renameHostDir", "softAcquire"}

Reason(j) ==
    faults' = 0 =>
        /\ faults = 0 /\ lock = j /\ At(j, Ending)
        /\ At(j, {"scan"}) => ~UpstreamsReadable
        /\ At(j, {"renameHostDir"}) => NewName \in hostDirs

\* Nobody holds the lock of secondaries.json while another job is at work.
LEMMA SoftLockFree ==
    ASSUME JobsSound, NEW j \in Jobs, lock = j, ~At(j, {"scale", "softRelease"})
    PROVE  softLock \in {None, "stale"}
<1> SUFFICES ASSUME NEW k \in Jobs, softLock = k PROVE FALSE
  BY DEF JobsSound
<1>1. At(k, {"scale", "softRelease"})
  BY DEF JobsSound, LockDiscipline
<1>2. k = j
  <2>1. todo[k] # <<>> /\ ~At(k, {"acquire"})
    BY <1>1 DEF At
  <2> QED BY <2>1, OneHolder
<1> QED BY <1>1, <1>2

(***************************************************************************)
(* The upstreams, when a step leaves them alone.                           *)
(***************************************************************************)

LEMMA SameUpstreams ==
    ASSUME UNCHANGED upstreamVars
    PROVE  /\ \A n : UpstreamsOf(n)' = UpstreamsOf(n)
           /\ Sites' = Sites /\ nested' = nested /\ dirs' = dirs /\ site' = site
BY DEF upstreamVars, UpstreamsOf, Sites, Present

\* A job that is to put the site somewhere.
LEMMA PutStays ==
    ASSUME JobsSound, NEW j \in Jobs, Goes(j), ~At(j, Put), Ahead(j, Put)
    PROVE  Ahead(j, Put)' /\ lock' = j /\ result'[j] = result[j]
<1>1. PICK x \in Left(j) : x[1] \in Put
  BY DEF Ahead
<1>2. x # Head(todo[j])
  BY <1>1 DEF At, Goes
<1>3. x \in Left(j)'
  BY <1>1, <1>2 DEF Goes, Put
<1>4. todo'[j] # <<>>
  BY <1>3, NothingLeft DEF Left, ToSet
<1> QED BY <1>1, <1>3, <1>4 DEF Ahead, Goes

\* Whoever is to create the site's file stays so until it does or fails.
LEMMA AddingStays ==
    ASSUME JobsSound, NEW j \in Jobs, Starts(j) \/ (Goes(j) /\ ~At(j, Put)) \/ Ends(j),
           NEW k \in Jobs, Adding(k)
    PROVE  Adding(k)'
<1>1. CASE k # j
  BY <1>1, OtherJobs DEF Adding
<1>2. CASE k = j
  <2>0. Kind(j)' = Kind(j) /\ Kind(j) \in {"addSite", "renameSite"}
    BY <1>2, KindsGrow DEF Adding
  <2>1. CASE Starts(j)
    <3>1. result[j] = "failed"
      BY <1>2, <2>1, NothingLeft DEF Adding, Ahead, Starts
    <3>2. result'[j] = "retrying" /\ Ahead(j, Put)'
      BY <2>0, <2>1, <3>1, StartsWith DEF Starts, Ahead
    <3> QED BY <1>2, <2>0, <3>2 DEF Adding
  <2>2. CASE Goes(j) /\ ~At(j, Put)
    <3>1. Ahead(j, Put)
      BY <1>2, <2>2 DEF Adding, Goes
    <3> QED BY <1>2, <2>0, <2>2, <3>1, PutStays DEF Adding
  <2>3. CASE Ends(j)
    BY <1>2, <2>0, <2>3 DEF Adding, Ends
  <2> QED BY <2>1, <2>2, <2>3
<1> QED BY <1>1, <1>2

\* A job that is past a step stays past it.
LEMMA PastStays ==
    ASSUME JobsSound, NEW j \in Jobs, Starts(j) \/ Goes(j), NEW what, what \notin {"blank", "rename"},
           NEW k \in Jobs, Past(k, what)
    PROVE  Past(k, what)'
<1>1. CASE k # j
  BY <1>1, OtherJobs DEF Past
<1>2. CASE k = j
  <2>1. ~Starts(j)
    BY <1>2 DEF Past, Starts
  <2>2. Kind(j)' = Kind(j)
    BY <1>2, KindsGrow DEF Past
  <2>3. \A x \in Left(j)' : x[1] # what
    BY <1>2, <2>1 DEF Past, Ahead, Goes
  <2>4. result'[j] \notin {"idle", "failed"}
    BY <2>1 DEF Goes
  <2> QED BY <1>2, <2>2, <2>3, <2>4 DEF Past, Ahead
<1> QED BY <1>1, <1>2

\* Without failures no rename fails that has renamed a file.
LEMMA NoLateFailure ==
    ASSUME JobsSound, HostRenamed, NEW j \in Jobs, Ends(j), Reason(j), faults' = 0, Kind(j) = "renameSite"
    PROVE  Ahead(j, {"renameFile"}) /\ Ahead(j, {"renameHostDir"})
<1>1. PICK a : a = Head(todo[j])
  OBVIOUS
<1>2. PICK u : u = ToSet(Tail(todo[j]))
  OBVIOUS
<1>3. ItemIs("renameSite", a) /\ Others("renameSite", a, u) /\ Left(j) = u \cup {a}
  BY <1>1, <1>2 DEF Ends
<1>4. a[1] \in Ending /\ (a[1] = "renameHostDir" => NewName \in hostDirs) /\ faults = 0
  BY <1>1 DEF Reason, At, Ends
<1>5. a[1] \in {"scan", "renameFile", "renameHostDir"}
  BY <1>3, <1>4 DEF Ending, ItemIs
<1>6. CASE a[1] = "scan"
  <2>1. PICK x \in u : x[1] \in Put
    BY <1>3, <1>6 DEF Others, Early
  <2>2. ItemIs("renameSite", x)
    BY <1>2, <1>3, <2>1, Before DEF Ends
  <2>3. x[1] = "renameFile"
    BY <2>1, <2>2 DEF ItemIs, Put
  <2>4. \E y \in u : y[1] = "renameHostDir"
    BY <1>3, <1>6 DEF Others, Early
  <2> QED BY <1>3, <2>1, <2>3, <2>4 DEF Ahead
<1>7. CASE a[1] = "renameFile"
  <2>1. \E y \in u : y[1] = "renameHostDir"
    BY <1>3, <1>7 DEF Others, Put
  <2> QED BY <1>3, <1>7, <2>1 DEF Ahead
<1>8. CASE a[1] = "renameHostDir"
  <2>1. PICK k \in Jobs : Past(k, "renameHostDir")
    BY <1>4, <1>8 DEF HostRenamed
  <2>2. k = j
    BY <2>1 DEF Past, JobsSound, OneRename
  <2> QED BY <1>3, <1>8, <2>1, <2>2 DEF Past, Ahead
<1> QED BY <1>5, <1>6, <1>7, <1>8

\* The upstreams are as sound as before when a job starts, or ends at a step where it may.
LEMMA UpstreamsWhenStarts ==
    ASSUME JobsSound, UpstreamsSound, NEW j \in Jobs, Starts(j), UNCHANGED upstreamVars
    PROVE  UpstreamsSound'
<1>1. /\ \A n : UpstreamsOf(n)' = UpstreamsOf(n)
      /\ Sites' = Sites /\ nested' = nested /\ dirs' = dirs /\ site' = site
  BY SameUpstreams
<1>2. faults' = faults /\ lock' = lock /\ lock # j
  BY DEF Starts
<1>3. NoConflict'
  BY <1>1, SomeStays DEF NoConflict, UpstreamsSound
<1>4. Kept'
  <2> SUFFICES ASSUME nested = {}, ~Some("removeSite")', Sites = {} PROVE (\E k \in Jobs : Adding(k))'
    BY <1>1 DEF Kept
  <2>1. PICK k \in Jobs : Adding(k)
    BY SomeStays DEF UpstreamsSound, Kept
  <2> QED BY <2>1, AddingStays
<1>5. FileRenamed'
  <2> SUFFICES ASSUME faults = 0, NEW u \in Upstreams, Present(u, NewName)
               PROVE  (\E k \in Jobs : Past(k, "renameFile"))'
    BY <1>1, <1>2 DEF FileRenamed, Present
  <2>1. PICK k \in Jobs : Past(k, "renameFile")
    BY DEF UpstreamsSound, FileRenamed
  <2> QED BY <2>1, PastStays
<1>6. Untouched'
  <2> SUFFICES ASSUME faults = 0, nested = {}, ~Some("removeSite")', Sites = {}
               PROVE (\E k \in Jobs : Kind(k) = "addSite" /\ lock = k /\ Ahead(k, Put))'
    BY <1>1, <1>2 DEF Untouched
  <2>1. PICK k \in Jobs : Kind(k) = "addSite" /\ lock = k /\ Ahead(k, Put)
    BY SomeStays DEF UpstreamsSound, Untouched
  <2>2. k # j
    BY <1>2, <2>1
  <2> QED BY <2>1, <2>2, OtherJobs
<1>7. ASSUME NEW k \in Jobs PROVE Cleared(k)' /\ RenamedFile(k)'
  <2>1. CASE k = j
    BY <1>2, <2>1 DEF Cleared, RenamedFile
  <2>2. CASE k # j
    <3>1. Cleared(k) /\ RenamedFile(k)
      BY DEF UpstreamsSound
    <3>2. \A w : UnlinkDue(k, w)' <=> UnlinkDue(k, w)
      BY <2>2, OtherJobs DEF UnlinkDue
    <3> QED BY <1>1, <2>2, <3>1, <3>2, OtherJobs DEF Cleared, RenamedFile, Target
  <2> QED BY <2>1, <2>2
<1> QED BY <1>3, <1>4, <1>5, <1>6, <1>7 DEF UpstreamsSound

LEMMA UpstreamsWhenEnds ==
    ASSUME JobsSound, UpstreamsSound, HostRenamed, Whole, NEW j \in Jobs, Ends(j), Reason(j),
           UNCHANGED upstreamVars
    PROVE  UpstreamsSound'
<1>1. /\ \A n : UpstreamsOf(n)' = UpstreamsOf(n)
      /\ Sites' = Sites /\ nested' = nested /\ dirs' = dirs /\ site' = site
  BY SameUpstreams
<1>2. (faults' = 0 => faults = 0) /\ lock' # j
  BY ProxyAssumption DEF Reason, Ends
<1>3. NoConflict'
  BY <1>1, SomeStays DEF NoConflict, UpstreamsSound
<1>4. Kept'
  <2> SUFFICES ASSUME nested = {}, ~Some("removeSite")', Sites = {} PROVE (\E k \in Jobs : Adding(k))'
    BY <1>1 DEF Kept
  <2>1. PICK k \in Jobs : Adding(k)
    BY SomeStays DEF UpstreamsSound, Kept
  <2> QED BY <2>1, AddingStays
<1>5. FileRenamed'
  <2> SUFFICES ASSUME faults' = 0, NEW u \in Upstreams, Present(u, NewName)
               PROVE  (\E k \in Jobs : Past(k, "renameFile"))'
    BY <1>1, <1>2 DEF FileRenamed, Present
  <2>1. PICK k \in Jobs : Past(k, "renameFile")
    BY <1>2 DEF UpstreamsSound, FileRenamed
  <2>2. k # j
    BY <2>1, NoLateFailure DEF Past
  <2> QED BY <2>1, <2>2, OtherJobs DEF Past
<1>6. Untouched'
  <2> SUFFICES ASSUME faults' = 0, nested = {}, ~Some("removeSite")', Sites = {}
               PROVE (\E k \in Jobs : Kind(k) = "addSite" /\ lock = k /\ Ahead(k, Put))'
    BY <1>1, <1>2 DEF Untouched
  <2>1. PICK k \in Jobs : Kind(k) = "addSite" /\ lock = k /\ Ahead(k, Put)
    BY <1>2, SomeStays DEF UpstreamsSound, Untouched
  <2>2. ASSUME k = j PROVE FALSE
    <3>1. ItemIs("addSite", Head(todo[j])) /\ At(j, Ending)
      BY <2>1, <2>2 DEF Ends, Reason
    <3>2. Head(todo[j])[1] = "scan"
      BY <3>1 DEF ItemIs, Ending, At
    <3>3. ~UpstreamsReadable /\ lock = j /\ ~At(j, {"scale", "softRelease"})
      BY <3>2 DEF Reason, At, Ends
    <3>4. softLock = "stale"
      BY <3>3, SoftLockFree DEF UpstreamsReadable
    <3> QED BY <1>2, <3>4 DEF Whole
  <2> QED BY <2>1, <2>2, OtherJobs
<1>7. ASSUME NEW k \in Jobs PROVE Cleared(k)' /\ RenamedFile(k)'
  <2>1. CASE k = j
    BY <1>2, <2>1 DEF Cleared, RenamedFile
  <2>2. CASE k # j
    <3>1. Cleared(k) /\ RenamedFile(k)
      BY DEF UpstreamsSound
    <3>2. \A w : UnlinkDue(k, w)' <=> UnlinkDue(k, w)
      BY <2>2, OtherJobs DEF UnlinkDue
    <3> QED BY <1>1, <2>2, <3>1, <3>2, OtherJobs DEF Cleared, RenamedFile, Target
  <2> QED BY <2>1, <2>2
<1> QED BY <1>3, <1>4, <1>5, <1>6, <1>7 DEF UpstreamsSound

\* What is left to unlink covers what is left to find.
LEMMA ClearedStays ==
    ASSUME JobsSound, NEW j \in Jobs, Goes(j), Cleared(j),
           UpstreamsOf(Target(j))' \subseteq Upstreams,
           ~At(j, {"acquire"}) => \A w \in UpstreamsOf(Target(j))' :
               w \in UpstreamsOf(Target(j)) /\ ~(Head(todo[j])[1] = "unlink" /\ Head(todo[j])[2] = w)
    PROVE  Cleared(j)'
<1> SUFFICES ASSUME lock' = j, Kind(j)' \in {"addSite", "renameSite"}, Ahead(j, Put)',
                    NEW w \in UpstreamsOf(Target(j))'
             PROVE  UnlinkDue(j, w)'
  BY DEF Cleared
<1>1. Kind(j)' = Kind(j)
  BY DEF Goes, Kind
<1>2. PICK x \in Left(j) : x[1] = "unlink" /\ x[2] = w /\ x # Head(todo[j])
  <2>1. CASE At(j, {"acquire"})
    <3>1. PICK op : op = operation[j]
      OBVIOUS
    <3>2. PICK t : t = Handler(op)
      OBVIOUS
    <3>3. op \in Operations /\ op[1] = Kind(j) /\ todo[j] = t
      <4>1. op # <<>>
        BY <1>1, <3>1 DEF Kind
      <4> QED BY <2>1, <3>1, <3>2, <4>1 DEF JobsSound, LockDiscipline, Kind
    <3>4. Head(t)[1] = "acquire" /\ \E y \in ToSet(t) : y[1] = "unlink" /\ y[2] = w
      <4>1. op \in Operations /\ op[1] \in {"addSite", "renameSite"} /\ w \in Upstreams
        BY <1>1, <3>3
      <4> QED BY <3>2, <4>1, HandlerSteps
    <3>5. Left(j) = ToSet(t) /\ Head(todo[j]) = Head(t)
      BY <3>3 DEF Left
    <3> QED BY <3>4, <3>5
  <2>2. CASE ~At(j, {"acquire"})
    <3>1. lock = j
      BY <2>2 DEF Goes
    <3>2. Ahead(j, Put)
      BY DEF Ahead, Goes, Put
    <3>3. UnlinkDue(j, w)
      <4>1. Target(j)' = Target(j)
        BY <1>1 DEF Target
      <4> QED BY <1>1, <2>2, <3>1, <3>2, <4>1 DEF Cleared
    <3> QED BY <2>2, <3>3 DEF UnlinkDue
  <2> QED BY <2>1, <2>2
<1>3. x \in Left(j)'
  BY <1>2 DEF Goes
<1> QED BY <1>2, <1>3 DEF UnlinkDue

\* The renamed file is there until the rename that made it is done.
LEMMA RenamedFileStays ==
    ASSUME JobsSound, NEW j \in Jobs, Goes(j), RenamedFile(j),
           At(j, {"renameFile"}) => UpstreamsOf(NewName)' # {},
           UpstreamsOf(NewName) # {} => At(j, {"unlink"}) \/ UpstreamsOf(NewName)' # {}
    PROVE  RenamedFile(j)'
<1> SUFFICES ASSUME lock' = j, Kind(j)' = "renameSite", ~Ahead(j, {"acquire", "renameFile"})'
             PROVE  UpstreamsOf(NewName)' # {}
  BY DEF RenamedFile
<1>1. Kind(j) = "renameSite"
  BY DEF Goes, Kind
<1>2. CASE At(j, Early)
  <2>1. PICK x \in Left(j)' : x[1] \in Put
    BY <1>1, <1>2 DEF Goes, Others, At
  <2>2. x[1] = "renameFile"
    BY <1>1, <2>1 DEF Goes, ItemIs, Put
  <2> QED BY <2>1, <2>2 DEF Ahead
<1>3. CASE At(j, {"renameFile"})
  BY <1>3
<1>4. CASE ~At(j, Early) /\ ~At(j, {"renameFile"})
  <2>1. ~At(j, {"unlink"}) /\ ~At(j, {"acquire"})
    BY <1>4 DEF At, Early
  <2>2. \A x \in Left(j) : x[1] \notin {"acquire", "renameFile"}
    <3> SUFFICES ASSUME NEW x \in Left(j), x[1] \in {"acquire", "renameFile"} PROVE FALSE
      OBVIOUS
    <3>1. x # Head(todo[j])
      BY <1>4, <2>1 DEF At, Goes
    <3>2. x \in Left(j)'
      BY <3>1 DEF Goes
    <3> QED BY <3>2 DEF Ahead
  <2>3. lock = j
    BY <2>1 DEF Goes
  <2>4. UpstreamsOf(NewName) # {}
    BY <1>1, <2>2, <2>3 DEF RenamedFile, Ahead
  <2> QED BY <2>1, <2>4
<1> QED BY <1>2, <1>3, <1>4

\* The other jobs, when the holder of the flock changes a file.
LEMMA OthersCleared ==
    ASSUME JobsSound, UpstreamsSound, NEW j \in Jobs, Goes(j), NEW k \in Jobs, k # j
    PROVE  Cleared(k)' /\ RenamedFile(k)'
<1>1. lock' # k
  BY ProxyAssumption DEF Goes
<1> QED BY <1>1 DEF Cleared, RenamedFile

\* A step that is not about site files leaves the upstreams sound.
LEMMA UpstreamsWhenGoes ==
    ASSUME JobsSound, dirs \subseteq Upstreams, UpstreamsSound, NEW j \in Jobs, Goes(j),
           site' = site, nested' = nested, \A n \in Names : UpstreamsOf(n)' = UpstreamsOf(n),
           ~At(j, {"unlink", "touch"}),
           At(j, {"renameFile"}) => UpstreamsOf(NewName) # {}
    PROVE  UpstreamsSound'
<1>1. /\ Sites' = Sites /\ nested' = nested /\ site' = site
      /\ UpstreamsOf(Site)' = UpstreamsOf(Site) /\ UpstreamsOf(NewName)' = UpstreamsOf(NewName)
      /\ \A n \in Names : UpstreamsOf(n)' = UpstreamsOf(n)
  BY ProxyAssumption DEF Sites
<1>2. faults' = faults
  BY DEF Goes
<1>3. NoConflict'
  BY <1>1, SomeStays DEF NoConflict, UpstreamsSound
<1>4. Sites = {} => ~At(j, Put)
  BY DEF At, Put, Sites
<1>5. Kept'
  <2> SUFFICES ASSUME nested = {}, ~Some("removeSite")', Sites = {} PROVE (\E k \in Jobs : Adding(k))'
    BY <1>1 DEF Kept
  <2>1. PICK k \in Jobs : Adding(k)
    BY SomeStays DEF UpstreamsSound, Kept
  <2> QED BY <1>4, <2>1, AddingStays
<1>6. FileRenamed'
  <2> SUFFICES ASSUME faults = 0, NEW u \in Upstreams, Present(u, NewName)
               PROVE  (\E k \in Jobs : Past(k, "renameFile"))'
    BY <1>1, <1>2 DEF FileRenamed, Present
  <2>1. PICK k \in Jobs : Past(k, "renameFile")
    BY DEF UpstreamsSound, FileRenamed
  <2> QED BY <2>1, PastStays
<1>7. Untouched'
  <2> SUFFICES ASSUME faults = 0, nested = {}, ~Some("removeSite")', Sites = {}
               PROVE (\E k \in Jobs : Kind(k) = "addSite" /\ lock = k /\ Ahead(k, Put))'
    BY <1>1, <1>2 DEF Untouched
  <2>1. PICK k \in Jobs : Kind(k) = "addSite" /\ lock = k /\ Ahead(k, Put)
    BY SomeStays DEF UpstreamsSound, Untouched
  <2>2. CASE k = j
    <3>1. Ahead(j, Put)' /\ lock' = j
      BY <1>4, <2>1, <2>2, PutStays
    <3>2. Kind(j)' = Kind(j)
      BY DEF Goes, Kind
    <3> QED BY <2>1, <2>2, <3>1, <3>2
  <2>3. CASE k # j
    BY <2>1, <2>3, OtherJobs
  <2> QED BY <2>2, <2>3
<1>8. Cleared(j)' /\ RenamedFile(j)'
  <2>1. Cleared(j) /\ RenamedFile(j)
    BY DEF UpstreamsSound
  <2>2. Target(j)' = Target(j)
    BY DEF Goes, Target, Kind
  <2>3. UpstreamsOf(Target(j))' = UpstreamsOf(Target(j)) /\ UpstreamsOf(Target(j)) \subseteq Upstreams
    <3>1. Target(j) \in {Site, NewName}
      BY DEF Target
    <3>2. UpstreamsOf(Target(j)) \subseteq dirs
      BY DEF UpstreamsOf
    <3>3. UpstreamsOf(Target(j))' = UpstreamsOf(Target(j))
      BY <1>1, <2>2, <3>1
    <3> QED BY <3>2, <3>3
  <2>4. Head(todo[j])[1] # "unlink"
    BY DEF At, Goes
  <2>5. Cleared(j)'
    BY <2>1, <2>3, <2>4, ClearedStays
  <2>6. RenamedFile(j)'
    BY <1>1, <2>1, RenamedFileStays
  <2> QED BY <2>5, <2>6
<1>9. \A k \in Jobs : Cleared(k)' /\ RenamedFile(k)'
  BY <1>8, OthersCleared
<1> QED BY <1>3, <1>5, <1>6, <1>7, <1>9 DEF UpstreamsSound

(***************************************************************************)
(* The steps that change the upstreams.                                    *)
(***************************************************************************)

\* Unlink: a file less in the upstreams, and one less to unlink.
LEMMA ByUnlink ==
    ASSUME JobsSound, UpstreamTypes, UpstreamsSound, NEW j \in Jobs, Unlink(j)
    PROVE  UpstreamTypes' /\ UpstreamsSound'
<1>1. /\ Goes(j) /\ lock = j /\ lock' = j /\ Head(todo[j])[1] = "unlink"
      /\ \A A : At(j, A) <=> "unlink" \in A
  <2>1. Doing(j, "unlink") /\ Advance(j) /\ lock' = lock /\ softLock' = softLock
    BY DEF Unlink, SetFile, secondaryVars
  <2> QED BY <2>1, Passing
<1>2. PICK u : u = Head(todo[j])[2]
  OBVIOUS
<1>3. PICK n : n = Head(todo[j])[3]
  OBVIOUS
<1>4. /\ u \in Upstreams /\ n = Target(j) /\ n \in Names
      /\ Kind(j) \in {"addSite", "removeSite", "renameSite"} /\ (Kind(j) = "renameSite" => n = NewName)
  BY <1>1, <1>2, <1>3, ProxyAssumption DEF Goes, ItemIs, Target
<1>5. dirs' = dirs /\ nested' = nested /\ site' = [site EXCEPT ![u][n] = "absent"]
  BY <1>2, <1>3 DEF Unlink, SetFile, Arg
<1>6. \A v \in Upstreams, m \in Names : Present(v, m)' <=> Present(v, m) /\ ~(v = u /\ m = n)
  BY <1>4, <1>5 DEF UpstreamTypes, Present
<1>7. /\ \A m \in Names : UpstreamsOf(m)' \subseteq UpstreamsOf(m)
      /\ \A m \in Names : m # n => UpstreamsOf(m)' = UpstreamsOf(m)
      /\ u \notin UpstreamsOf(n)'
  BY <1>4, <1>5, <1>6 DEF UpstreamTypes, UpstreamsOf
<1>8. UpstreamTypes'
  <2>1. site' \in [Upstreams -> [Names -> Statuses \cup {"absent"}]]
    BY <1>4, <1>5 DEF UpstreamTypes
  <2> QED BY <1>5, <1>6, <2>1 DEF UpstreamTypes
<1>9. NoConflict'
  BY <1>1, <1>7, SomeStays DEF NoConflict, UpstreamsSound
<1>10. Kind(j)' = Kind(j) /\ faults' = faults
  BY <1>1 DEF Goes, Kind
<1>11. Kind(j) \in {"addSite", "renameSite"} => Ahead(j, Put)'
  BY <1>1 DEF Goes, Others, Early, Ahead
<1>12. ~Some("removeSite")' => Kind(j) \in {"addSite", "renameSite"}
  BY <1>4, <1>10 DEF Some
<1>13. Kept'
  BY <1>1, <1>10, <1>11, <1>12 DEF Kept, Adding
<1>14. FileRenamed'
  <2> SUFFICES ASSUME faults = 0, NEW v \in Upstreams, Present(v, NewName)
               PROVE  (\E k \in Jobs : Past(k, "renameFile"))'
    BY <1>6, <1>10, ProxyAssumption DEF FileRenamed
  <2>1. PICK k \in Jobs : Past(k, "renameFile")
    BY DEF UpstreamsSound, FileRenamed
  <2> QED BY <1>1, <2>1, PastStays
<1>15. Untouched'
  <2> SUFFICES ASSUME faults = 0, nested = {}, ~Some("removeSite")', Sites' = {}
               PROVE (\E k \in Jobs : Kind(k) = "addSite" /\ lock = k /\ Ahead(k, Put))'
    BY <1>5, <1>10 DEF Untouched
  <2>1. CASE Kind(j) = "addSite"
    BY <1>1, <1>10, <1>11, <2>1
  <2>2. CASE Kind(j) = "renameSite"
    <3>1. PICK x \in Left(j)' : x[1] \in Put
      BY <1>11, <2>2 DEF Ahead
    <3>2. x \in Left(j) /\ x[1] = "renameFile"
      BY <1>1, <2>2, <3>1 DEF Goes, ItemIs, Put
    <3>3. \A k \in Jobs : ~Past(k, "renameFile")
      <4> SUFFICES ASSUME NEW k \in Jobs, Past(k, "renameFile") PROVE FALSE
        OBVIOUS
      <4>1. k = j
        BY <2>2 DEF Past, JobsSound, OneRename
      <4> QED BY <3>2, <4>1 DEF Past, Ahead
    <3>4. \A v \in Upstreams : ~Present(v, NewName)
      BY <3>3 DEF UpstreamsSound, FileRenamed
    <3>5. UpstreamsOf(NewName) = {}
      BY <3>4 DEF UpstreamsOf, UpstreamTypes
    <3>6. UpstreamsOf(Site) = {}
      BY <1>4, <1>7, <2>2, ProxyAssumption DEF Sites
    <3>7. \E k \in Jobs : Kind(k) = "addSite" /\ lock = k
      BY <1>1, <3>5, <3>6, SomeStays DEF UpstreamsSound, Untouched, Sites
    <3> QED BY <1>1, <2>2, <3>7
  <2> QED BY <1>12, <2>1, <2>2
<1>16. Cleared(j)' /\ RenamedFile(j)'
  <2>1. Cleared(j) /\ RenamedFile(j)
    BY DEF UpstreamsSound
  <2>2. Target(j)' = n
    BY <1>4, <1>10 DEF Target
  <2>3. UpstreamsOf(Target(j))' = UpstreamsOf(n)'
    BY <2>2 DEF UpstreamsOf, Present
  <2>4. UpstreamsOf(n)' \subseteq Upstreams /\ UpstreamsOf(n) \subseteq Upstreams
    BY <1>5 DEF UpstreamsOf, UpstreamTypes
  <2>5. Cleared(j)'
    BY <1>1, <1>2, <1>4, <1>7, <2>1, <2>3, <2>4, ClearedStays
  <2>6. RenamedFile(j)'
    BY <1>1, <2>1, RenamedFileStays
  <2> QED BY <2>5, <2>6
<1>17. \A k \in Jobs : Cleared(k)' /\ RenamedFile(k)'
  BY <1>1, <1>16, OthersCleared
<1> QED BY <1>8, <1>9, <1>13, <1>14, <1>15, <1>17 DEF UpstreamsSound

\* When the file is put, no upstream has another one.
LEMMA PutOnce ==
    ASSUME JobsSound, UpstreamsSound, NEW j \in Jobs, Goes(j), lock = j, At(j, Put)
    PROVE  /\ Kind(j) \in {"addSite", "renameSite"} /\ Kind(j)' = Kind(j)
           /\ UpstreamsOf(Target(j)) = {} /\ Cleared(j)'
           /\ \A x \in Left(j)' : x[1] \notin Early \cup Put
<1>1. Kind(j) \in {"addSite", "renameSite"} /\ Kind(j)' = Kind(j)
  BY DEF Goes, ItemIs, Put, Kind, At
<1>2. \A x \in Left(j)' : x[1] \notin Early \cup Put
  BY <1>1 DEF Goes, Others, At
<1>3. UpstreamsOf(Target(j)) = {}
  <2> SUFFICES ASSUME NEW w \in UpstreamsOf(Target(j)) PROVE FALSE
    OBVIOUS
  <2>1. Ahead(j, Put)
    BY DEF Ahead, Goes, At
  <2>2. PICK x \in Left(j) : x[1] = "unlink"
    BY <1>1, <2>1 DEF UpstreamsSound, Cleared, UnlinkDue
  <2>3. x \in Left(j)'
    BY <2>2 DEF Goes, At, Put
  <2> QED BY <1>2, <2>2, <2>3 DEF Early
<1>4. Cleared(j)'
  BY <1>2 DEF Cleared, Ahead
<1> QED BY <1>1, <1>2, <1>3, <1>4

\* Touch: the new file is the only one of its name, as all others are unlinked.
LEMMA ByTouch ==
    ASSUME JobsSound, UpstreamTypes, UpstreamsSound, NEW j \in Jobs, Touch(j)
    PROVE  UpstreamTypes' /\ UpstreamsSound'
<1>1. /\ Goes(j) /\ lock = j /\ lock' = j /\ Head(todo[j])[1] = "touch"
      /\ \A A : At(j, A) <=> "touch" \in A
  <2>1. Doing(j, "touch") /\ Advance(j) /\ lock' = lock /\ softLock' = softLock
    BY DEF Touch, SetFile, secondaryVars
  <2> QED BY <2>1, Passing
<1>2. PICK u : u = Head(todo[j])[2]
  OBVIOUS
<1>3. Kind(j) = "addSite" /\ u \in Upstreams /\ Head(todo[j])[3] = Site
  BY <1>1, <1>2 DEF Goes, ItemIs
<1>4. PICK newStatus \in Statuses :
         site' = [site EXCEPT ![u][Site] = newStatus]
  <2>1. site' = [site EXCEPT ![u][Site] = IF Present(u, Site) THEN site[u][Site] ELSE "active"]
    BY <1>2, <1>3 DEF Touch, SetFile, Arg
  <2>2. Present(u, Site) => site[u][Site] \in Statuses
    BY <1>3, ProxyAssumption DEF UpstreamTypes, Present
  <2>3. "active" \in Statuses
    BY DEF Statuses
  <2> QED BY <2>1, <2>2, <2>3
<1>5. dirs' = dirs \cup {u} /\ nested' = nested
  BY <1>2 DEF Touch, SetFile, Arg
<1>6. \A v \in Upstreams, m \in Names : Present(v, m)' <=> Present(v, m) \/ (v = u /\ m = Site)
  BY <1>3, <1>4 DEF UpstreamTypes, Present, Statuses
<1>7. UpstreamTypes'
  <2>1. site' \in [Upstreams -> [Names -> Statuses \cup {"absent"}]]
    BY <1>3, <1>4, ProxyAssumption DEF UpstreamTypes
  <2> QED BY <1>3, <1>5, <1>6, <2>1 DEF UpstreamTypes
<1>8. /\ Kind(j)' = Kind(j) /\ UpstreamsOf(Site) = {} /\ Cleared(j)'
  <2>1. At(j, Put)
    BY <1>1 DEF Put
  <2>2. Target(j) = Site
    BY <1>3 DEF Target
  <2> QED BY <1>1, <2>1, <2>2, PutOnce
<1>9. /\ UpstreamsOf(Site)' = {u}
      /\ \A m \in Names : m # Site => UpstreamsOf(m)' = UpstreamsOf(m)
  BY <1>3, <1>5, <1>6, <1>8, ProxyAssumption DEF UpstreamsOf, UpstreamTypes
<1>10. NoConflict'
  BY <1>1, <1>9, SomeStays DEF NoConflict, UpstreamsSound
<1>11. Sites' # {}
  BY <1>9 DEF Sites
<1>12. FileRenamed'
  <2> SUFFICES ASSUME faults = 0, NEW v \in Upstreams, Present(v, NewName)
               PROVE  (\E k \in Jobs : Past(k, "renameFile"))'
    BY <1>1, <1>6, ProxyAssumption DEF FileRenamed, Goes
  <2>1. PICK k \in Jobs : Past(k, "renameFile")
    BY DEF UpstreamsSound, FileRenamed
  <2> QED BY <1>1, <2>1, PastStays
<1>13. RenamedFile(j)'
  BY <1>3, <1>8 DEF RenamedFile
<1>14. \A k \in Jobs : Cleared(k)' /\ RenamedFile(k)'
  BY <1>1, <1>8, <1>13, OthersCleared
<1> QED BY <1>7, <1>10, <1>11, <1>12, <1>14 DEF UpstreamsSound, Kept, Untouched

\* A job that neither adds nor renames the site changes an upstream.
LEMMA ByAnother ==
    ASSUME JobsSound, UpstreamsSound, NEW j \in Jobs, Goes(j),
           Kind(j) \notin {"addSite", "renameSite"},
           NoConflict',
           nested' = {} /\ Sites' = {} => nested = {} /\ Sites = {},
           \A u \in Upstreams : Present(u, NewName)' => \E v \in Upstreams : Present(v, NewName)
    PROVE  UpstreamsSound'
<1>1. faults' = faults /\ Kind(j)' = Kind(j)
  BY DEF Goes, Kind
<1>2. ~At(j, Put)
  BY DEF Goes, ItemIs, Put, At
<1>3. Kept'
  <2> SUFFICES ASSUME nested = {}, ~Some("removeSite")', Sites = {} PROVE (\E k \in Jobs : Adding(k))'
    BY DEF Kept
  <2>1. PICK k \in Jobs : Adding(k)
    BY SomeStays DEF UpstreamsSound, Kept
  <2> QED BY <1>2, <2>1, AddingStays
<1>4. FileRenamed'
  <2> SUFFICES ASSUME faults = 0, NEW u \in Upstreams, Present(u, NewName)
               PROVE  (\E k \in Jobs : Past(k, "renameFile"))'
    BY <1>1 DEF FileRenamed
  <2>1. PICK k \in Jobs : Past(k, "renameFile")
    BY DEF UpstreamsSound, FileRenamed
  <2> QED BY <2>1, PastStays
<1>5. Untouched'
  <2> SUFFICES ASSUME faults = 0, nested = {}, ~Some("removeSite")', Sites = {}
               PROVE (\E k \in Jobs : Kind(k) = "addSite" /\ lock = k /\ Ahead(k, Put))'
    BY <1>1 DEF Untouched
  <2>1. PICK k \in Jobs : Kind(k) = "addSite" /\ lock = k /\ Ahead(k, Put)
    BY SomeStays DEF UpstreamsSound, Untouched
  <2>2. k # j
    BY <2>1
  <2> QED BY <2>1, <2>2, OtherJobs
<1>6. Cleared(j)' /\ RenamedFile(j)'
  BY <1>1 DEF Cleared, RenamedFile
<1>7. \A k \in Jobs : Cleared(k)' /\ RenamedFile(k)'
  BY <1>6, OthersCleared
<1> QED BY <1>3, <1>4, <1>5, <1>7 DEF UpstreamsSound

\* A status update changes a file, or brings back one that is gone.
LEMMA ByStatus ==
    ASSUME JobsSound, UpstreamTypes, UpstreamsSound, NEW j \in Jobs, Doing(j, "status"),
           Arg(j, 2) \in dirs, SetFile(Arg(j, 2), Arg(j, 3), Arg(j, 4)), UNCHANGED dirs, Advance(j)
    PROVE  UpstreamTypes' /\ UpstreamsSound'
<1>1. /\ Goes(j) /\ Head(todo[j])[1] = "status"
  <2>1. lock' = lock /\ softLock' = softLock
    BY DEF SetFile, secondaryVars
  <2> QED BY <2>1, Passing
<1>2. PICK u : u = Head(todo[j])[2]
  OBVIOUS
<1>3. PICK newStatus : newStatus = Head(todo[j])[4]
  OBVIOUS
<1>4. Kind(j) = "updateStatus" /\ u \in Upstreams /\ Head(todo[j])[3] = Site /\ newStatus \in Statuses
  BY <1>1, <1>2, <1>3 DEF Goes, ItemIs
<1>5. u \in dirs /\ dirs' = dirs /\ nested' = nested /\ site' = [site EXCEPT ![u][Site] = newStatus]
  BY <1>2, <1>3, <1>4 DEF SetFile, Arg
<1>6. \A v \in Upstreams, m \in Names : Present(v, m)' <=> Present(v, m) \/ (v = u /\ m = Site)
  BY <1>4, <1>5 DEF UpstreamTypes, Present, Statuses
<1>7. UpstreamTypes'
  <2>1. site' \in [Upstreams -> [Names -> Statuses \cup {"absent"}]]
    BY <1>4, <1>5, ProxyAssumption DEF UpstreamTypes
  <2> QED BY <1>5, <1>6, <2>1 DEF UpstreamTypes
<1>8. u \in UpstreamsOf(Site)'
  BY <1>4, <1>5, <1>6, ProxyAssumption DEF UpstreamsOf
<1>9. NoConflict'
  <2>1. Kind(j)' = "updateStatus"
    BY <1>1, <1>4 DEF Goes, Kind
  <2> QED BY <2>1 DEF NoConflict, Some
<1>10. \A v \in Upstreams : Present(v, NewName)' => Present(v, NewName)
  BY <1>6, ProxyAssumption
<1>11. UpstreamsSound'
  <2>1. ~(Sites' = {})
    BY <1>8 DEF Sites
  <2> QED BY <1>1, <1>4, <1>9, <1>10, <2>1, ByAnother
<1> QED BY <1>7, <1>11

\* A new upstream is empty.
LEMMA ByMkdir ==
    ASSUME JobsSound, UpstreamTypes, UpstreamsSound, NEW j \in Jobs, MakeUpstream(j)
    PROVE  UpstreamTypes' /\ UpstreamsSound'
<1>1. Goes(j) /\ Head(todo[j])[1] = "mkdir" /\ \A A : At(j, A) <=> "mkdir" \in A
  <2>1. Doing(j, "mkdir") /\ Advance(j) /\ lock' = lock /\ softLock' = softLock
    BY DEF MakeUpstream, secondaryVars
  <2> QED BY <2>1, Passing
<1>2. PICK u : u = Head(todo[j])[2]
  OBVIOUS
<1>3. u \in Upstreams
  BY <1>1, <1>2 DEF Goes, ItemIs
<1>4. dirs' = dirs \cup {u} /\ nested' = nested /\ site' = site
  BY <1>2 DEF MakeUpstream, Arg
<1>5. UpstreamTypes'
  BY <1>3, <1>4 DEF UpstreamTypes, Present
<1>6. \A n \in Names : UpstreamsOf(n)' = UpstreamsOf(n)
  BY <1>3, <1>4 DEF UpstreamTypes, UpstreamsOf, Present
<1>7. dirs \subseteq Upstreams
  BY DEF UpstreamTypes
<1>8. UpstreamsSound'
  BY <1>1, <1>4, <1>6, <1>7, UpstreamsWhenGoes
<1> QED BY <1>5, <1>8

\* A directory that is moved takes its files along; moved into another one it
\* takes them out of sight.
LEMMA ByMove ==
    ASSUME JobsSound, UpstreamTypes, UpstreamsSound, NEW j \in Jobs, MoveUpstream(j), todo'[j] # <<>>
    PROVE  UpstreamTypes' /\ UpstreamsSound'
<1>1. PICK old : old = Head(todo[j])[2]
  OBVIOUS
<1>2. PICK new : new = Head(todo[j])[3]
  OBVIOUS
<1>3. /\ Doing(j, "move") /\ old \in dirs /\ ~(new \in dirs /\ <<new, old>> \in nested)
      /\ dirs' = (dirs \ {old}) \cup {new}
      /\ site' = [site EXCEPT ![old] = [n \in Names |-> "absent"],
                              ![new] = IF new \in dirs THEN @ ELSE site[old]]
      /\ nested' = IF new \in dirs
                   THEN {p \in nested : p[1] # old} \cup {<<new, old>>}
                   ELSE {<<IF p[1] = old THEN new ELSE p[1], p[2]>> : p \in nested}
      /\ Advance(j) /\ lock' = lock /\ softLock' = softLock
  <2>1. ~Raises(j)
    BY DEF JobsSound, Raises, Fails
  <2> QED BY <1>1, <1>2, <2>1 DEF MoveUpstream, Arg, secondaryVars
<1>4. Goes(j) /\ Head(todo[j])[1] = "move"
  BY <1>3, Passing
<1>5. Kind(j) = "renameUpstream" /\ old \in Upstreams /\ new \in Upstreams
  BY <1>1, <1>2, <1>4 DEF Goes, ItemIs
<1>6. \A v \in Upstreams, m \in Names :
         Present(v, m)' <=> \/ v \notin {old, new} /\ Present(v, m)
                            \/ v = new /\ v # old /\ new \in dirs /\ Present(v, m)
                            \/ v = new /\ new \notin dirs /\ Present(old, m)
  <2>1. CASE old = new
    <3>1. new \in dirs
      BY <1>3, <2>1
    <3>2. PICK nothing : nothing = [n \in Names |-> "absent"]
      OBVIOUS
    <3>3. site' = [site EXCEPT ![old] = nothing, ![new] = IF new \in dirs THEN @ ELSE site[old]]
      BY <1>3, <3>2
    <3>4. \A v \in Upstreams : site'[v] = IF v = old THEN nothing ELSE site[v]
      BY <1>5, <2>1, <3>1, <3>3 DEF UpstreamTypes
    <3> QED BY <1>5, <2>1, <3>1, <3>2, <3>4 DEF UpstreamTypes, Present
  <2>2. CASE old # new
    <3>1. site'[old] = [n \in Names |-> "absent"] /\ site'[new] = IF new \in dirs THEN site[new] ELSE site[old]
      BY <1>3, <1>5, <2>2 DEF UpstreamTypes
    <3>2. \A v \in Upstreams \ {old, new} : site'[v] = site[v]
      BY <1>3, <1>5 DEF UpstreamTypes
    <3> QED BY <1>5, <2>2, <3>1, <3>2 DEF Present
  <2> QED BY <2>1, <2>2
<1>7. UpstreamTypes'
  <2>1. [n \in Names |-> "absent"] \in [Names -> Statuses \cup {"absent"}]
    OBVIOUS
  <2>2. PICK nothing \in [Names -> Statuses \cup {"absent"}] : nothing = [n \in Names |-> "absent"]
    BY <2>1
  <2>3. site' = [site EXCEPT ![old] = nothing, ![new] = IF new \in dirs THEN @ ELSE site[old]]
    BY <1>3, <2>2
  <2>4. site' \in [Upstreams -> [Names -> Statuses \cup {"absent"}]]
    BY <1>5, <2>3 DEF UpstreamTypes
  <2>5. dirs' \subseteq Upstreams /\ nested' \subseteq dirs' \X Upstreams
    <3>1. dirs' \subseteq Upstreams /\ new \in dirs'
      BY <1>3, <1>5 DEF UpstreamTypes
    <3>2. ASSUME NEW p \in nested
          PROVE  p = <<p[1], p[2]>> /\ p[1] \in dirs /\ p[2] \in Upstreams
      BY DEF UpstreamTypes
    <3>3. \A p \in nested : p[1] # old => p \in dirs' \X Upstreams
      BY <1>3, <3>2
    <3>4. \A p \in nested : <<IF p[1] = old THEN new ELSE p[1], p[2]>> \in dirs' \X Upstreams
      BY <1>3, <3>1, <3>2
    <3>5. <<new, old>> \in dirs' \X Upstreams
      BY <1>5, <3>1
    <3> QED BY <1>3, <3>1, <3>3, <3>4, <3>5
  <2>6. \A v \in Upstreams \ dirs', m \in Names : ~Present(v, m)'
    BY <1>3, <1>6 DEF UpstreamTypes
  <2> QED BY <2>4, <2>5, <2>6 DEF UpstreamTypes
<1>8. \A v \in Upstreams : Present(v, NewName)' => \E w \in Upstreams : Present(w, NewName)
  BY <1>5, <1>6, ProxyAssumption
<1>9. CASE new \in dirs
  <2>1. nested' # {}
    BY <1>3, <1>9
  <2>2. \A m \in Names : UpstreamsOf(m)' \subseteq UpstreamsOf(m)
    BY <1>3, <1>6, <1>7, <1>9 DEF UpstreamsOf, UpstreamTypes
  <2>3. NoConflict'
    BY <1>4, <2>2, SomeStays DEF NoConflict, UpstreamsSound
  <2> QED BY <1>4, <1>5, <1>7, <1>8, <2>1, <2>3, ByAnother
<1>10. CASE new \notin dirs
  <2>1. old # new
    BY <1>3, <1>10
  <2>2. \A m \in Names, v \in Upstreams :
           v \in UpstreamsOf(m)' <=> \/ v \notin {old, new} /\ v \in UpstreamsOf(m)
                                     \/ v = new /\ old \in UpstreamsOf(m)
    BY <1>3, <1>5, <1>6, <1>10, <2>1 DEF UpstreamsOf, UpstreamTypes
  <2>3. \A m \in Names : UpstreamsOf(m)' \subseteq Upstreams /\ UpstreamsOf(m) \subseteq Upstreams
    BY <1>7 DEF UpstreamsOf, UpstreamTypes
  <2>4. NoConflict'
    <3>1. CASE Some("updateStatus")
      BY <1>4, <3>1, SomeStays DEF NoConflict
    <3>2. CASE ~Some("updateStatus")
      <4> SUFFICES ASSUME NEW m \in Names, NEW v \in UpstreamsOf(m)', NEW w \in UpstreamsOf(m)' PROVE v = w
        BY DEF NoConflict
      <4>1. \A x, y \in UpstreamsOf(m) : x = y
        BY <3>2 DEF UpstreamsSound, NoConflict
      <4> QED BY <2>2, <2>3, <4>1
    <3> QED BY <3>1, <3>2
  <2>5. nested' = {} => nested = {}
    BY <1>3, <1>10
  <2>6. \A m \in Names : UpstreamsOf(m)' = {} => UpstreamsOf(m) = {}
    <3> SUFFICES ASSUME NEW m \in Names, UpstreamsOf(m)' = {}, NEW v \in UpstreamsOf(m) PROVE FALSE
      OBVIOUS
    <3>1. v \in Upstreams /\ v # new
      BY <1>10, <2>3 DEF UpstreamsOf
    <3> QED BY <1>5, <2>2, <3>1
  <2>7. Sites' = {} => Sites = {}
    BY <2>6, ProxyAssumption DEF Sites
  <2> QED BY <1>4, <1>5, <1>7, <1>8, <2>4, <2>5, <2>7, ByAnother
<1> QED BY <1>9, <1>10

\* The site stays where it is, under its new name.
LEMMA ByRenameFile ==
    ASSUME JobsSound, UpstreamTypes, UpstreamsSound, NEW j \in Jobs, RenameFile(j), todo'[j] # <<>>
    PROVE  UpstreamTypes' /\ UpstreamsSound'
<1>1. /\ Doing(j, "renameFile") /\ Advance(j) /\ lock' = lock /\ softLock' = softLock
      /\ \/ /\ Present(Arg(j, 2), Arg(j, 3))
            /\ site' = [site EXCEPT ![Arg(j, 2)][Arg(j, 4)] = site[Arg(j, 2)][Arg(j, 3)],
                                    ![Arg(j, 2)][Arg(j, 3)] = "absent"]
         \/ Present(Arg(j, 2), Arg(j, 4)) /\ site' = site
      /\ UNCHANGED <<dirs, nested>>
  <2>1. ~Raises(j)
    BY DEF JobsSound, Raises, Fails
  <2> QED BY <2>1 DEF RenameFile, Skip, secondaryVars, fileVars, upstreamVars
<1>2. /\ Goes(j) /\ lock = j /\ Head(todo[j])[1] = "renameFile"
      /\ \A A : At(j, A) <=> "renameFile" \in A
  BY <1>1, Passing
<1>3. Kind(j) = "renameSite" /\ Arg(j, 2) = Home /\ Arg(j, 3) = Site /\ Arg(j, 4) = NewName
  BY <1>2 DEF Goes, ItemIs, Arg
<1>4. /\ Kind(j)' = Kind(j) /\ UpstreamsOf(NewName) = {} /\ Cleared(j)'
      /\ \A x \in Left(j)' : x[1] \notin Early \cup Put
  <2>1. At(j, Put)
    BY <1>2 DEF Put
  <2>2. Target(j) = NewName
    BY <1>3 DEF Target
  <2> QED BY <1>2, <2>1, <2>2, PutOnce
<1>5. \A u \in Upstreams : ~Present(u, NewName)
  BY <1>4, ProxyAssumption DEF UpstreamsOf, UpstreamTypes
<1>6. /\ Present(Home, Site) /\ Home \in dirs
      /\ site' = [site EXCEPT ![Home][NewName] = site[Home][Site], ![Home][Site] = "absent"]
  BY <1>1, <1>3, <1>5, ProxyAssumption DEF UpstreamTypes
<1>7. \A v \in Upstreams, m \in Names :
         Present(v, m)' <=> \/ v = Home /\ m = NewName
                            \/ Present(v, m) /\ ~(v = Home /\ m = Site)
  BY <1>5, <1>6, ProxyAssumption DEF UpstreamTypes, Present
<1>8. UpstreamTypes'
  <2>1. site' \in [Upstreams -> [Names -> Statuses \cup {"absent"}]]
    BY <1>6, ProxyAssumption DEF UpstreamTypes
  <2> QED BY <1>1, <1>6, <1>7, <2>1 DEF UpstreamTypes
<1>9. /\ UpstreamsOf(NewName)' = {Home}
      /\ \A m \in Names : m # NewName => UpstreamsOf(m)' \subseteq UpstreamsOf(m)
  BY <1>1, <1>5, <1>6, <1>7, ProxyAssumption DEF UpstreamsOf, UpstreamTypes
<1>10. NoConflict'
  BY <1>2, <1>9, SomeStays DEF NoConflict, UpstreamsSound
<1>11. Sites' # {}
  BY <1>9 DEF Sites
<1>12. Past(j, "renameFile")'
  <2>1. result'[j] \in {"running", "retrying"}
    BY <1>2 DEF Goes
  <2>2. ~Ahead(j, {"renameFile"})'
    BY <1>4 DEF Ahead, Put
  <2> QED BY <1>3, <1>4, <2>1, <2>2 DEF Past
<1>13. FileRenamed' /\ RenamedFile(j)'
  BY <1>9, <1>12 DEF FileRenamed, RenamedFile
<1>14. \A k \in Jobs : Cleared(k)' /\ RenamedFile(k)'
  BY <1>2, <1>4, <1>13, OthersCleared
<1> QED BY <1>8, <1>10, <1>11, <1>13, <1>14 DEF UpstreamsSound, Kept, Untouched

(***************************************************************************)
(* The hosts, when a step leaves them alone.                               *)
(***************************************************************************)

\* A truncated file is that of the holder of the flock.
LEMMA NothingTorn ==
    ASSUME Whole, faults = 0, \A k \in Jobs : lock = k => ~At(k, {"write", "rename"})
    PROVE  torn = {}
BY DEF Whole

\* Without failures only the file that the holder of the flock writes is torn.
LEMMA OneTorn ==
    ASSUME Whole, faults = 0, NEW j \in Jobs, lock = j
    PROVE  torn \subseteq {<<Head(todo[j])[2], Head(todo[j])[3]>>}
BY DEF Whole

\* What is to be cleared before a redirect is written.
LEMMA TurnedStays ==
    ASSUME JobsSound, NEW j \in Jobs, Goes(j), Turned(j),
           \A h \in {Site, Domain} : redirect[h] = {} => redirect'[h] = {},
           At(j, {"removeRedirect"}) => redirect'[Head(todo[j])[2]] = {}
    PROVE  Turned(j)'
<1> SUFFICES ASSUME lock' = j, NEW x \in Left(j)', x[1] = "write", x[2] = "redirect"
             PROVE  redirect'[x[4]] = {} \/ ClearDue(j, x[4])'
  BY DEF Turned
<1>1. Kind(j) = "redirects" /\ x \in Left(j) /\ x[4] \in {Site, Domain}
  BY DEF Goes, ItemIs
<1>2. CASE At(j, {"acquire"})
  <2>1. PICK op : op = operation[j]
    OBVIOUS
  <2>2. PICK t : t = Handler(op)
    OBVIOUS
  <2>3. op \in Operations /\ op[1] = "redirects" /\ todo[j] = t
    BY <1>1, <1>2, <2>1, <2>2 DEF JobsSound, LockDiscipline, Kind
  <2>4. x \in ToSet(t)
    BY <1>1, <2>3 DEF Left
  <2>5. Head(t)[1] = "acquire" /\ \E y \in ToSet(t) : y[1] = "removeRedirect" /\ y[2] = x[4]
    BY <2>2, <2>3, <2>4, HandlerSteps
  <2>6. PICK y \in Left(j) : y[1] = "removeRedirect" /\ y[2] = x[4] /\ y # Head(todo[j])
    BY <2>3, <2>5 DEF Left
  <2>7. y \in Left(j)'
    BY <2>6 DEF Goes
  <2> QED BY <2>6, <2>7 DEF ClearDue
<1>3. CASE ~At(j, {"acquire"})
  <2>1. lock = j
    BY <1>3 DEF Goes
  <2>2. CASE redirect[x[4]] = {}
    BY <1>1, <2>2
  <2>3. CASE ClearDue(j, x[4])
    <3>1. PICK y \in Left(j) : y[1] = "removeRedirect" /\ y[2] = x[4]
      BY <2>3 DEF ClearDue
    <3>2. CASE y = Head(todo[j])
      <4>1. At(j, {"removeRedirect"})
        BY <3>1, <3>2 DEF At, Goes
      <4> QED BY <3>1, <3>2, <4>1
    <3>3. CASE y # Head(todo[j])
      <4>1. y \in Left(j)'
        BY <3>1, <3>3 DEF Goes
      <4> QED BY <3>1, <4>1 DEF ClearDue
    <3> QED BY <3>2, <3>3
  <2> QED BY <1>1, <2>1, <2>2, <2>3 DEF Turned
<1> QED BY <1>2, <1>3

\* A file is written after it was truncated, and not otherwise.
LEMMA WritingStays ==
    ASSUME JobsSound, NEW j \in Jobs, Goes(j),
           At(j, {"truncate"}) => Head(todo[j])[3] \in hostDirs'
    PROVE  Writing(j)'
<1> SUFFICES ASSUME lock' = j, At(j, {"write"})' PROVE Head(todo'[j])[3] \in hostDirs'
  BY DEF Writing
<1>1. todo'[j] # <<>> /\ Head(todo'[j])[1] = "write" /\ Kind(j) # "renameSite"
  BY DEF At, Goes, ItemIs
<1>2. Next2(Head(todo[j]), Head(todo'[j]))
  BY <1>1 DEF Goes
<1>3. Head(todo[j])[1] = "truncate" /\ Head(todo'[j])[3] = Head(todo[j])[3]
  BY <1>1, <1>2 DEF Next2
<1> QED BY <1>1, <1>3 DEF At, Goes

\* The other jobs, when the holder of the flock changes a host.
LEMMA OthersWrite ==
    ASSUME JobsSound, NEW j \in Jobs, Goes(j) \/ Ends(j), lock # None, lock = j, NEW k \in Jobs, k # j
    PROVE  Writing(k)' /\ Turned(k)'
<1>1. lock' # k
  BY ProxyAssumption DEF Goes, Ends
<1> QED BY <1>1 DEF Writing, Turned

\* Before a rename has moved the directory of the host, nothing has its new name.
LEMMA NotYetRenamed ==
    ASSUME JobsSound, HostTypes, HostsSound, NEW j \in Jobs, Kind(j) = "renameSite",
           Ahead(j, {"renameHostDir"}), faults = 0
    PROVE  NewName \notin hostDirs /\ <<Domain, NewName>> \notin redirect[Domain] /\ redirect[NewName] = {}
<1>1. \A k \in Jobs : ~Past(k, "renameHostDir")
  <2> SUFFICES ASSUME NEW k \in Jobs, Past(k, "renameHostDir") PROVE FALSE
    OBVIOUS
  <2>1. k = j
    BY DEF Past, JobsSound, OneRename
  <2> QED BY <2>1 DEF Past
<1>2. NewName \notin hostDirs /\ <<Domain, NewName>> \notin redirect[Domain]
  BY <1>1 DEF HostsSound, HostRenamed
<1> QED BY <1>2, ProxyAssumption DEF HostTypes, Empty

\* The hosts are as sound as before when a job starts, or goes on without a change of them.
LEMMA HostsWhenStarts ==
    ASSUME JobsSound, HostTypes, HostsSound, NEW j \in Jobs, Starts(j), UNCHANGED hostVars, softLock' = softLock
    PROVE  HostTypes' /\ HostsSound'
<1>1. /\ hostDirs' = hostDirs /\ map' = map /\ redirect' = redirect /\ torn' = torn
      /\ lock' = lock /\ faults' = faults /\ lock # j
  BY DEF hostVars, Starts
<1>2. HostTypes' /\ Redirected'
  BY <1>1 DEF HostTypes, Empty, HostsSound, Redirected
<1>3. Whole'
  <2> SUFFICES ASSUME faults = 0, torn # {}
               PROVE  (\E k \in Jobs : /\ lock = k /\ At(k, {"write", "rename"})
                                       /\ torn = {<<Head(todo[k])[2], Head(todo[k])[3]>>})'
    BY <1>1 DEF HostsSound, Whole
  <2>1. PICK k \in Jobs : /\ lock = k /\ At(k, {"write", "rename"})
                          /\ torn = {<<Head(todo[k])[2], Head(todo[k])[3]>>}
    BY DEF HostsSound, Whole
  <2>2. k # j
    BY <1>1, <2>1
  <2> QED BY <1>1, <2>1, <2>2, OtherJobs
<1>4. HostRenamed'
  <2> SUFFICES ASSUME faults = 0 PROVE HostRenamed'
    BY <1>1 DEF HostRenamed
  <2>1. NewName \in hostDirs \/ <<Domain, NewName>> \in redirect[Domain]
        => (\E k \in Jobs : Past(k, "renameHostDir"))'
    BY PastStays DEF HostsSound, HostRenamed
  <2>2. \A k \in Jobs : lock = k => Kind(k)' = Kind(k)
    BY <1>1, OtherJobs
  <2> QED BY <1>1, <2>1, <2>2 DEF HostsSound, HostRenamed
<1>5. ASSUME NEW k \in Jobs PROVE Writing(k)' /\ Turned(k)'
  <2>1. CASE k = j
    BY <1>1, <2>1 DEF Writing, Turned
  <2>2. CASE k # j
    <3>1. Writing(k) /\ Turned(k)
      BY DEF HostsSound
    <3>2. todo'[k] = todo[k] /\ Left(k)' = Left(k) /\ (At(k, {"write"})' <=> At(k, {"write"}))
      BY <2>2, OtherJobs
    <3>3. \A h : ClearDue(k, h)' <=> ClearDue(k, h)
      BY <3>2 DEF ClearDue
    <3> QED BY <1>1, <3>1, <3>2, <3>3 DEF Writing, Turned
  <2> QED BY <2>1, <2>2
<1> QED BY <1>2, <1>3, <1>4, <1>5 DEF HostsSound

\* It may clear a redirect before it fails.
LEMMA HostsWhenEnds ==
    ASSUME JobsSound, HostTypes, HostsSound, NEW j \in Jobs, Ends(j), Reason(j),
           hostDirs' = hostDirs, map' = map,
           redirect' \in [Names -> SUBSET (Names \X Names)],
           \A h \in Names : redirect'[h] \subseteq redirect[h],
           redirect' = redirect \/ (lock = j /\ Kind(j) # "renameSite" /\ redirect'[NewName] = redirect[NewName]),
           torn' \subseteq torn,
           faults' = 0 => softLock' \in {softLock, None}
    PROVE  HostTypes' /\ HostsSound'
<1>1. HostTypes'
  BY DEF HostTypes, Empty
<1>2. Redirected'
  BY ProxyAssumption DEF HostsSound, Redirected
<1>3. Whole'
  <2> SUFFICES ASSUME faults' = 0 PROVE softLock' # "stale" /\ torn' = {}
    BY DEF Whole
  <2>1. faults = 0 /\ lock = j /\ At(j, Ending)
    BY DEF Reason
  <2>2. \A k \in Jobs : lock = k => ~At(k, {"write", "rename"})
    BY <2>1 DEF At, Ending
  <2>3. torn = {}
    BY <2>1, <2>2, NothingTorn DEF HostsSound
  <2> QED BY <2>1, <2>3, ProxyAssumption DEF HostsSound, Whole
<1>4. HostRenamed'
  <2> SUFFICES ASSUME faults' = 0 PROVE HostRenamed'
    BY DEF HostRenamed
  <2>1. faults = 0 /\ lock = j /\ lock' = None
    BY DEF Reason, Ends
  <2>2. \A k \in Jobs : Past(k, "renameHostDir") => Past(k, "renameHostDir")'
    <3> SUFFICES ASSUME NEW k \in Jobs, Past(k, "renameHostDir") PROVE Past(k, "renameHostDir")'
      OBVIOUS
    <3>1. k # j
      BY NoLateFailure DEF Past, HostsSound
    <3> QED BY <3>1, OtherJobs DEF Past
  <2>3. <<Domain, NewName>> \in redirect'[Domain] => <<Domain, NewName>> \in redirect[Domain]
    BY ProxyAssumption
  <2>4. redirect'[NewName] = redirect[NewName]
    OBVIOUS
  <2>5. \A k \in Jobs : lock' # k
    BY <2>1, ProxyAssumption
  <2> QED BY <2>1, <2>2, <2>3, <2>4, <2>5 DEF HostsSound, HostRenamed
<1>5. ASSUME NEW k \in Jobs PROVE Writing(k)' /\ Turned(k)'
  <2>1. CASE k = j
    <3>1. lock' # j
      BY ProxyAssumption DEF Ends
    <3> QED BY <2>1, <3>1 DEF Writing, Turned
  <2>2. CASE k # j
    <3>1. Writing(k) /\ Turned(k)
      BY DEF HostsSound
    <3>2. /\ todo'[k] = todo[k] /\ Left(k)' = Left(k) /\ (At(k, {"write"})' <=> At(k, {"write"}))
          /\ lock' = k <=> lock = k
      BY <2>2, OtherJobs
    <3>3. \A h : ClearDue(k, h)' <=> ClearDue(k, h)
      BY <3>2 DEF ClearDue
    <3>4. lock = k => redirect' = redirect
      BY <2>2
    <3> QED BY <3>1, <3>2, <3>3, <3>4 DEF Writing, Turned
  <2> QED BY <2>1, <2>2
<1> QED BY <1>1, <1>2, <1>3, <1>4, <1>5 DEF HostsSound

LEMMA HostsWhenGoes ==
    ASSUME JobsSound, HostTypes, HostsSound, NEW j \in Jobs, Goes(j), UNCHANGED hostVars,
           ~At(j, {"truncate", "write", "rename", "removeRedirect"}),
           softLock' # "stale" \/ softLock' = softLock
    PROVE  HostTypes' /\ HostsSound'
<1>1. /\ hostDirs' = hostDirs /\ map' = map /\ redirect' = redirect /\ torn' = torn
      /\ faults' = faults
  BY DEF hostVars, Goes
<1>2. HostTypes' /\ Redirected'
  BY <1>1 DEF HostTypes, Empty, HostsSound, Redirected
<1>3. Whole'
  <2> SUFFICES ASSUME faults = 0 PROVE softLock' # "stale" /\ torn' = {}
    BY <1>1 DEF Whole
  <2>1. \A k \in Jobs : lock = k => ~At(k, {"write", "rename"})
    BY ProxyAssumption DEF At, Goes
  <2>2. torn = {}
    BY <2>1, NothingTorn DEF HostsSound
  <2> QED BY <1>1, <2>2 DEF HostsSound, Whole
<1>4. HostRenamed'
  <2> SUFFICES ASSUME faults = 0 PROVE HostRenamed'
    BY <1>1 DEF HostRenamed
  <2>1. NewName \in hostDirs \/ <<Domain, NewName>> \in redirect[Domain]
        => (\E k \in Jobs : Past(k, "renameHostDir"))'
    BY PastStays DEF HostsSound, HostRenamed
  <2>2. ASSUME NEW k \in Jobs, lock' = k, Kind(k)' = "renameSite", redirect[NewName] # {}
        PROVE  redirect[Domain] = {}
    <3>1. k = j /\ Kind(j) = "renameSite"
      BY <2>2, ProxyAssumption DEF Goes, Kind
    <3>2. CASE At(j, {"acquire"})
      <4>1. \E x \in Left(j) : x[1] = "renameHostDir"
        BY <3>1, <3>2 DEF Goes, Others, Early, At
      <4> QED BY <2>2, <3>1, <4>1, NotYetRenamed DEF Ahead
    <3>3. CASE ~At(j, {"acquire"})
      BY <2>2, <3>1, <3>3 DEF Goes, HostsSound, HostRenamed
    <3> QED BY <3>2, <3>3
  <2>3. <<Domain, NewName>> \in redirect[Domain] => redirect[NewName] = {}
    BY DEF HostsSound, HostRenamed
  <2> QED BY <1>1, <2>1, <2>2, <2>3 DEF HostRenamed
<1>5. Writing(j)' /\ Turned(j)'
  <2>1. ~At(j, {"truncate"}) /\ ~At(j, {"removeRedirect"}) /\ Turned(j)
    BY DEF At, HostsSound
  <2> QED BY <1>1, <2>1, WritingStays, TurnedStays
<1>6. ASSUME NEW k \in Jobs, k # j PROVE Writing(k)' /\ Turned(k)'
  <2>1. lock' # k
    BY <1>6, ProxyAssumption DEF Goes
  <2> QED BY <2>1 DEF Writing, Turned
<1> QED BY <1>2, <1>3, <1>4, <1>5, <1>6 DEF HostsSound

(***************************************************************************)
(* The steps that change the hosts.                                        *)
(***************************************************************************)

\* The file that is truncated is the one that the next step writes.
LEMMA ByTruncate ==
    ASSUME JobsSound, HostTypes, HostsSound, NEW j \in Jobs, Truncate(j)
    PROVE  HostTypes' /\ HostsSound'
<1>1. /\ Goes(j) /\ lock = j /\ lock' = j /\ todo'[j] = Tail(todo[j]) /\ todo'[j] # <<>>
      /\ Head(todo[j])[1] = "truncate" /\ \A A : At(j, A) <=> "truncate" \in A
  <2>1. Doing(j, "truncate") /\ Advance(j) /\ lock' = lock /\ softLock' = softLock
    BY DEF Truncate, Other, secondaryVars
  <2> QED BY <2>1, Passing
<1>2. PICK f : f = Head(todo[j])[2]
  OBVIOUS
<1>3. PICK h : h = Head(todo[j])[3]
  OBVIOUS
<1>4. f \in Files /\ h \in {Site, Domain} /\ Kind(j) \in {"addHost", "redirects"}
  BY <1>1, <1>2, <1>3 DEF Goes, ItemIs, Files
<1>5. /\ hostDirs' = hostDirs \cup {h} /\ torn' = torn \cup {<<f, h>>}
      /\ map' = map /\ redirect' = redirect /\ softLock' = softLock /\ faults' = faults
  BY <1>1, <1>2, <1>3 DEF Truncate, Arg, Other, secondaryVars, Goes
<1>6. HostTypes'
  BY <1>4, <1>5, ProxyAssumption DEF HostTypes, Empty
<1>7. Redirected'
  BY <1>5 DEF HostsSound, Redirected
<1>8. Whole'
  <2> SUFFICES ASSUME faults = 0 PROVE Whole'
    BY <1>5 DEF Whole
  <2>1. torn = {}
    <3>1. \A k \in Jobs : lock = k => ~At(k, {"write", "rename"})
      BY <1>1
    <3> QED BY <3>1, NothingTorn DEF HostsSound
  <2>2. Next2(Head(todo[j]), Head(todo'[j]))
    BY <1>1 DEF Goes
  <2>3. Head(todo'[j])[1] = "write" /\ Head(todo'[j])[2] = f /\ Head(todo'[j])[3] = h
    BY <1>1, <1>2, <1>3, <2>2 DEF Next2
  <2> QED BY <1>1, <1>5, <2>1, <2>3 DEF HostsSound, Whole, At
<1>9. HostRenamed'
  <2>1. NewName \in hostDirs' => NewName \in hostDirs
    BY <1>4, <1>5, ProxyAssumption
  <2>2. \A k \in Jobs : lock' = k => Kind(k)' # "renameSite"
    BY <1>1, <1>4 DEF Goes, Kind
  <2> QED BY <1>1, <1>5, <2>1, <2>2, PastStays DEF HostsSound, HostRenamed
<1>10. Writing(j)' /\ Turned(j)'
  <2>1. ~At(j, {"removeRedirect"}) /\ Turned(j)
    BY <1>1 DEF HostsSound
  <2> QED BY <1>1, <1>3, <1>5, <2>1, WritingStays, TurnedStays
<1>11. \A k \in Jobs : k # j => Writing(k)' /\ Turned(k)'
  BY <1>1, ProxyAssumption, OthersWrite
<1> QED BY <1>6, <1>7, <1>8, <1>9, <1>10, <1>11 DEF HostsSound

\* A redirect is set towards a domain that has none.
LEMMA ByWrite ==
    ASSUME JobsSound, HostTypes, HostsSound, NEW j \in Jobs, Write(j)
    PROVE  HostTypes' /\ HostsSound'
<1>1. /\ Goes(j) /\ lock = j /\ lock' = j
      /\ Head(todo[j])[1] = "write" /\ \A A : At(j, A) <=> "write" \in A
  <2>1. Doing(j, "write") /\ Advance(j) /\ lock' = lock /\ softLock' = softLock
    BY DEF Write, Other, secondaryVars
  <2> QED BY <2>1, Passing
<1>2. PICK f : f = Head(todo[j])[2]
  OBVIOUS
<1>3. PICK h : h = Head(todo[j])[3]
  OBVIOUS
<1>4. PICK g : g = Head(todo[j])[4]
  OBVIOUS
<1>5. /\ f \in Files /\ h \in {Site, Domain} /\ h \in Names /\ g \in {Site, Domain}
      /\ \/ Kind(j) = "addHost" /\ f = "map"
         \/ Kind(j) = "redirects" /\ f = "redirect" /\ g = IF h = Site THEN Domain ELSE Site
  BY <1>1, <1>2, <1>3, <1>4, ProxyAssumption DEF Goes, ItemIs, Files
<1>6. h \in hostDirs
  BY <1>1, <1>3 DEF HostsSound, Writing
<1>7. /\ hostDirs' = hostDirs /\ torn' = torn \ {<<f, h>>} /\ softLock' = softLock /\ faults' = faults
      /\ f = "map" => map' = [map EXCEPT ![h] = {<<h, g>>}] /\ redirect' = redirect
      /\ f = "redirect" => map' = map /\ redirect' = [redirect EXCEPT ![h] = {p \in @ : p[1] # h} \cup {<<h, g>>}]
  BY <1>1, <1>2, <1>3, <1>4 DEF Write, Arg, Other, secondaryVars, Goes
<1>8. f = "redirect" => redirect[g] = {}
  <2> SUFFICES ASSUME f = "redirect", ClearDue(j, g) PROVE FALSE
    <3>1. Head(todo[j]) \in Left(j) /\ Turned(j)
      BY <1>1 DEF Goes, HostsSound
    <3> QED BY <1>1, <1>2, <1>4, <3>1 DEF Turned
  <2>1. PICK y \in Left(j) : y[1] = "removeRedirect"
    BY DEF ClearDue
  <2>2. y \in Left(j)'
    BY <1>1, <2>1 DEF Goes
  <2> QED BY <1>1, <1>5, <2>1, <2>2 DEF Goes, Others
<1>9. f = "redirect" => redirect' = [redirect EXCEPT ![h] = {<<h, g>>}]
  <2> SUFFICES ASSUME f = "redirect", NEW p \in redirect[h] PROVE p[1] = h
    BY <1>7
  <2> QED BY <1>5, ProxyAssumption DEF HostsSound, Redirected
<1>10. HostTypes'
  <2>1. <<h, g>> \in Names \X Names
    BY <1>5, ProxyAssumption
  <2> QED BY <1>5, <1>6, <1>7, <1>9, <2>1 DEF HostTypes, Empty, Files
<1>11. Redirected'
  BY <1>5, <1>7, <1>8, <1>9, ProxyAssumption DEF HostsSound, HostTypes, Redirected, Files
<1>12. Whole'
  <2> SUFFICES ASSUME faults = 0 PROVE Whole'
    BY <1>7 DEF Whole
  <2>1. torn \subseteq {<<f, h>>}
    BY <1>1, <1>2, <1>3, OneTorn DEF HostsSound
  <2> QED BY <1>7, <2>1 DEF HostsSound, Whole
<1>13. HostRenamed'
  <2>1. <<Domain, NewName>> \in redirect'[Domain] => <<Domain, NewName>> \in redirect[Domain]
    BY <1>5, <1>7, <1>9, ProxyAssumption DEF HostTypes, Files
  <2>2. redirect'[NewName] = redirect[NewName]
    BY <1>5, <1>7, <1>9, ProxyAssumption DEF HostTypes, Files
  <2>3. \A k \in Jobs : lock' = k => Kind(k)' # "renameSite"
    BY <1>1, <1>5 DEF Goes, Kind
  <2> QED BY <1>1, <1>7, <2>1, <2>2, <2>3, PastStays DEF HostsSound, HostRenamed
<1>14. Writing(j)'
  BY <1>1, WritingStays
<1>15. Turned(j)'
  <2>1. Kind(j)' = Kind(j)
    BY <1>1 DEF Goes, Kind
  <2> SUFFICES ASSUME NEW x \in Left(j)', x[1] = "write", x[2] = "redirect" PROVE FALSE
    BY DEF Turned
  <2>2. Kind(j) = "redirects"
    BY <1>1 DEF Goes, ItemIs
  <2> QED BY <1>1, <2>2 DEF Goes, Others
<1>16. \A k \in Jobs : k # j => Writing(k)' /\ Turned(k)'
  BY <1>1, ProxyAssumption, OthersWrite
<1> QED BY <1>10, <1>11, <1>12, <1>13, <1>14, <1>15, <1>16 DEF HostsSound

\* A directory of a host, or a redirect, is removed.
LEMMA HostsShrink ==
    ASSUME JobsSound, HostTypes, HostsSound, NEW j \in Jobs, Goes(j), lock = j, lock' = j,
           Kind(j) # "renameSite", At(j, {"rmtree", "removeRedirect"}),
           hostDirs' \subseteq hostDirs,
           redirect' \in [Names -> SUBSET (Names \X Names)],
           \A h \in Names : redirect'[h] \subseteq redirect[h],
           redirect'[NewName] = redirect[NewName],
           At(j, {"removeRedirect"}) => redirect'[Head(todo[j])[2]] = {},
           torn' \subseteq torn, softLock' = softLock
    PROVE  HostsSound'
<1>1. faults' = faults
  BY DEF Goes
<1>2. Redirected'
  BY ProxyAssumption DEF HostsSound, Redirected
<1>3. Whole'
  <2> SUFFICES ASSUME faults = 0 PROVE softLock # "stale" /\ torn' = {}
    BY <1>1 DEF Whole
  <2>1. \A k \in Jobs : lock = k => ~At(k, {"write", "rename"})
    BY DEF At
  <2> QED BY <2>1, NothingTorn DEF HostsSound, Whole
<1>4. HostRenamed'
  <2>1. <<Domain, NewName>> \in redirect'[Domain] => <<Domain, NewName>> \in redirect[Domain]
    BY ProxyAssumption
  <2>2. \A k \in Jobs : lock' = k => Kind(k)' # "renameSite"
    BY DEF Goes, Kind
  <2> QED BY <1>1, <2>1, <2>2, PastStays DEF HostsSound, HostRenamed
<1>5. Writing(j)' /\ Turned(j)'
  <2>1. ~At(j, {"truncate"}) /\ Turned(j)
    BY DEF At, HostsSound
  <2>2. \A h \in {Site, Domain} : redirect[h] = {} => redirect'[h] = {}
    BY ProxyAssumption
  <2> QED BY <2>1, <2>2, WritingStays, TurnedStays
<1>6. \A k \in Jobs : k # j => Writing(k)' /\ Turned(k)'
  BY ProxyAssumption, OthersWrite
<1> QED BY <1>2, <1>3, <1>4, <1>5, <1>6 DEF HostsSound

\* A host less, with its files.
LEMMA ByRemoveTree ==
    ASSUME JobsSound, HostTypes, HostsSound, NEW j \in Jobs, RemoveTree(j)
    PROVE  HostTypes' /\ HostsSound'
<1>1. /\ Goes(j) /\ lock = j /\ lock' = j
      /\ Head(todo[j])[1] = "rmtree" /\ \A A : At(j, A) <=> "rmtree" \in A
  <2>1. Doing(j, "rmtree") /\ Advance(j) /\ lock' = lock /\ softLock' = softLock
    BY DEF RemoveTree, Other, secondaryVars
  <2> QED BY <2>1, Passing
<1>2. PICK h : h = Head(todo[j])[2]
  OBVIOUS
<1>3. h \in {Site, Domain} /\ Kind(j) # "renameSite"
  BY <1>1, <1>2 DEF Goes, ItemIs
<1>4. /\ hostDirs' = hostDirs \ {h} /\ torn' = torn \ {<<"map", h>>, <<"redirect", h>>} /\ softLock' = softLock
      /\ map' = [map EXCEPT ![h] = {}] /\ redirect' = [redirect EXCEPT ![h] = {}]
  BY <1>2 DEF RemoveTree, Arg, Other, secondaryVars
<1>5. HostTypes'
  BY <1>3, <1>4, ProxyAssumption DEF HostTypes, Empty, Files
<1>6. /\ \A g \in Names : redirect'[g] \subseteq redirect[g]
      /\ redirect'[NewName] = redirect[NewName]
  BY <1>3, <1>4, ProxyAssumption DEF HostTypes
<1>7. redirect' \in [Names -> SUBSET (Names \X Names)]
  BY <1>5 DEF HostTypes
<1>8. At(j, {"rmtree", "removeRedirect"}) /\ ~At(j, {"removeRedirect"})
  BY <1>1
<1>9. hostDirs' \subseteq hostDirs /\ torn' \subseteq torn
  BY <1>4
<1>10. HostsSound'
  BY <1>1, <1>3, <1>4, <1>6, <1>7, <1>8, <1>9, HostsShrink
<1> QED BY <1>5, <1>10

\* The target of the redirects to come loses its own.
LEMMA ByRemoveRedirect ==
    ASSUME JobsSound, HostTypes, HostsSound, NEW j \in Jobs, RemoveRedirect(j)
    PROVE  /\ HostTypes' /\ HostsSound' /\ JobsSound'
           /\ (Goes(j) /\ ~At(j, {"unlink", "touch", "renameFile"})) \/ (Ends(j) /\ Reason(j))
           /\ Kind(j) # "renameSite"
<1>1. Doing(j, "removeRedirect") /\ softLock' = softLock /\ faults' = faults
  BY DEF RemoveRedirect, secondaryVars, Advance
<1>2. /\ lock = j /\ Head(todo[j])[1] = "removeRedirect" /\ todo[j] # <<>>
      /\ \A A : At(j, A) <=> "removeRedirect" \in A
  <2>1. todo[j] # <<>> /\ Head(todo[j])[1] = "removeRedirect" /\ \A A : At(j, A) <=> "removeRedirect" \in A
    BY <1>1 DEF Doing, At
  <2> QED BY <2>1 DEF JobsSound, LockDiscipline
<1>3. PICK h : h = Head(todo[j])[2]
  OBVIOUS
<1>4. h \in {Site, Domain} /\ Kind(j) # "renameSite"
  BY <1>2, <1>3, Before DEF ItemIs
<1>5. PICK fails : fails = (h \in DefaultHosts /\ (h \notin hostDirs \/ map[h] # {} \/ <<"map", h>> \in torn))
  OBVIOUS
<1>6. /\ redirect' = [redirect EXCEPT ![h] = {}] /\ torn' = torn \ {<<"redirect", h>>} /\ map' = map
      /\ hostDirs' = IF h \in DefaultHosts /\ ~fails THEN hostDirs \ {h} ELSE hostDirs
      /\ IF fails THEN Fails(j) ELSE Advance(j) /\ lock' = lock
  BY <1>3, <1>5 DEF RemoveRedirect, Arg
<1>7. HostTypes'
  <2>1. redirect' \in [Names -> SUBSET (Names \X Names)] /\ hostDirs' \subseteq Names
    BY <1>4, <1>6, ProxyAssumption DEF HostTypes
  <2>2. \A g \in Names : redirect'[g] = IF g = h THEN {} ELSE redirect[g]
    BY <1>4, <1>6, ProxyAssumption DEF HostTypes
  <2>3. h \notin hostDirs' => map[h] = {} /\ <<"map", h>> \notin torn'
    BY <1>4, <1>5, <1>6, ProxyAssumption DEF HostTypes, Empty
  <2>4. \A g \in hostDirs : g # h => g \in hostDirs'
    BY <1>6
  <2>5. torn' \subseteq Files \X hostDirs'
    <3> SUFFICES ASSUME NEW p \in torn' PROVE p \in Files \X hostDirs'
      OBVIOUS
    <3>1. p \in Files \X hostDirs /\ p # <<"redirect", h>>
      BY <1>6 DEF HostTypes
    <3>2. p[2] # h => p[2] \in hostDirs'
      BY <2>4, <3>1
    <3>3. p[2] = h => p = <<"map", h>>
      BY <3>1 DEF Files
    <3> QED BY <2>3, <3>1, <3>2, <3>3
  <2>6. \A g \in Names \ hostDirs' : Empty(g)'
    BY <1>6, <2>2, <2>3, <2>4 DEF HostTypes, Empty
  <2> QED BY <1>6, <2>1, <2>5, <2>6 DEF HostTypes
<1>8. /\ \A g \in Names : redirect'[g] \subseteq redirect[g]
      /\ redirect'[NewName] = redirect[NewName] /\ redirect'[h] = {}
      /\ redirect' \in [Names -> SUBSET (Names \X Names)]
  BY <1>4, <1>6, <1>7, ProxyAssumption DEF HostTypes
<1>9. CASE fails
  <2>1. Fails(j)
    BY <1>6, <1>9
  <2>2. Ends(j) /\ JobsSound'
    <3>1. softLock # j
      BY <1>2 DEF JobsSound, LockDiscipline
    <3> QED BY <1>1, <2>1, <3>1, Failing
  <2>3. Reason(j)
    BY <1>1, <1>2 DEF Reason, Ending
  <2>4. hostDirs' = hostDirs /\ map' = map /\ torn' \subseteq torn
    BY <1>6, <1>9
  <2>5. HostsSound'
    BY <1>1, <1>2, <1>4, <1>8, <2>2, <2>3, <2>4, HostsWhenEnds
  <2> QED BY <1>4, <1>7, <2>2, <2>3, <2>5
<1>10. CASE ~fails
  <2>1. Advance(j) /\ lock' = lock
    BY <1>6, <1>10
  <2>2. Goes(j) /\ JobsSound' /\ lock' = j
    BY <1>1, <2>1, Passing
  <2>3. hostDirs' \subseteq hostDirs /\ torn' \subseteq torn
    BY <1>6
  <2>4. At(j, {"rmtree", "removeRedirect"}) /\ ~At(j, {"unlink", "touch", "renameFile"})
    BY <1>2
  <2>5. HostsSound'
    BY <1>1, <1>2, <1>3, <1>4, <1>8, <2>2, <2>3, <2>4, HostsShrink
  <2> QED BY <1>4, <1>7, <2>2, <2>4, <2>5
<1> QED BY <1>9, <1>10

\* What a rename knows once it has moved the directory of the host.
LEMMA PastNow ==
    ASSUME NEW j \in Jobs, Goes(j), Kind(j) = "renameSite", At(j, Late), todo'[j] # <<>>
    PROVE  Past(j, "renameHostDir")'
<1>1. Kind(j)' = Kind(j) /\ result'[j] \in {"running", "retrying"}
  BY DEF Goes, Kind
<1>2. \A x \in Left(j)' : x[1] # "renameHostDir"
  BY DEF Goes, Others, At
<1> QED BY <1>1, <1>2 DEF Past, Ahead

\* The files of a host directory move with it.
LEMMA ByRenameHostDir ==
    ASSUME JobsSound, HostTypes, HostsSound, NEW j \in Jobs, RenameHostDir(j), todo'[j] # <<>>,
           hostDirs' # hostDirs
    PROVE  /\ HostTypes' /\ HostsSound' /\ JobsSound' /\ Goes(j) /\ lock' = j
           /\ At(j, {"renameHostDir"}) /\ ~At(j, {"unlink", "touch", "renameFile"})
           /\ map' = [map EXCEPT ![NewName] = map[Site], ![Site] = {}]
           /\ torn' = {<<f[1], IF f[2] = Site THEN NewName ELSE f[2]>> : f \in torn}
           /\ UNCHANGED upstreamVars /\ UNCHANGED secondaryVars
<1>1. /\ Doing(j, "renameHostDir") /\ todo[j] # <<>>
      /\ Head(todo[j])[1] = "renameHostDir" /\ \A A : At(j, A) <=> "renameHostDir" \in A
  BY DEF RenameHostDir, Doing, At
<1>2. Head(todo[j])[2] = Site /\ Head(todo[j])[3] = NewName /\ Kind(j) = "renameSite"
  BY <1>1, Before DEF ItemIs
<1>3. /\ Site \in hostDirs /\ NewName \notin hostDirs
      /\ hostDirs' = (hostDirs \ {Site}) \cup {NewName}
      /\ map' = [map EXCEPT ![NewName] = map[Site], ![Site] = {}]
      /\ redirect' = [redirect EXCEPT ![NewName] = redirect[Site], ![Site] = {}]
      /\ torn' = {<<f[1], IF f[2] = Site THEN NewName ELSE f[2]>> : f \in torn}
      /\ todo' = [todo EXCEPT ![j] = RenameInHost(NewName, Site, NewName) \o Tail(@)]
      /\ UNCHANGED <<upstreamVars, secondaryVars, lock, operation, result, faults>>
  <2>1. ~Raises(j) /\ ~Skip(j)
    BY DEF Raises, Skip, fileVars, hostVars
  <2> QED BY <1>2, <2>1 DEF RenameHostDir, Other, Arg
<1>4. /\ Goes(j) /\ todo'[j] \in Seq(StepsOf(Kind(j))) /\ Orderly(Kind(j), todo'[j])
      /\ Head(todo'[j])[1] = "blank"
  <2>1. todo' = [todo EXCEPT ![j] = RenameInHost(NewName, Site, NewName) \o Tail(@)]
    BY <1>3
  <2>2. UNCHANGED <<operation, result, faults, lock>>
    BY <1>3
  <2> QED BY <1>1, <2>1, <2>2, HostDirSubstitutes
<1>5. lock = j /\ lock' = j /\ faults' = faults /\ softLock' = softLock
  BY <1>1, <1>3, <1>4 DEF Goes, secondaryVars
<1>6. JobsSound'
  <2>1. Head(todo'[j])[1] \notin {"scale", "softRelease"} /\ ~At(j, {"softAcquire", "scale"})
        /\ ~At(j, {"softAcquire"}) /\ ~At(j, {"softRelease"})
    BY <1>1, <1>4
  <2> QED BY <1>4, <1>5, <2>1, GoesSound
<1>7. HostTypes'
  <2>1. torn' \subseteq Files \X hostDirs'
    BY <1>3 DEF HostTypes, Files
  <2>2. map' \in [Names -> SUBSET (Names \X Names)] /\ redirect' \in [Names -> SUBSET (Names \X Names)]
    BY <1>3, ProxyAssumption DEF HostTypes
  <2>3. hostDirs' \subseteq Names
    BY <1>3, ProxyAssumption DEF HostTypes
  <2>4. map'[Site] = {} /\ redirect'[Site] = {}
    BY <1>3, ProxyAssumption DEF HostTypes
  <2>5. \A h \in Names : h \notin {Site, NewName} => map'[h] = map[h] /\ redirect'[h] = redirect[h]
    BY <1>3, ProxyAssumption DEF HostTypes
  <2>6. \A h \in Names \ hostDirs' : Empty(h)'
    <3> SUFFICES ASSUME NEW h \in Names, h \notin hostDirs' PROVE Empty(h)'
      OBVIOUS
    <3>1. CASE h = Site
      BY <2>4, <3>1 DEF Empty
    <3>2. CASE h # Site
      <4>1. h # NewName /\ h \notin hostDirs
        BY <1>3, <3>2
      <4> QED BY <2>5, <3>2, <4>1 DEF Empty, HostTypes
    <3> QED BY <3>1, <3>2
  <2> QED BY <2>1, <2>2, <2>3, <2>6 DEF HostTypes
<1>8. /\ redirect'[Site] = {} /\ redirect'[NewName] = redirect[Site]
      /\ \A h \in Names : h \notin {Site, NewName} => redirect'[h] = redirect[h]
  BY <1>3, ProxyAssumption DEF HostTypes
<1>9. Redirected'
  BY <1>8, ProxyAssumption DEF HostsSound, Redirected
<1>10. Whole'
  <2> SUFFICES ASSUME faults = 0 PROVE softLock # "stale" /\ torn' = {}
    BY <1>5 DEF Whole
  <2>1. \A k \in Jobs : lock = k => ~At(k, {"write", "rename"})
    BY <1>1, <1>5
  <2>2. torn = {}
    BY <2>1, NothingTorn DEF HostsSound
  <2> QED BY <1>3, <2>2 DEF HostsSound, Whole
<1>11. HostRenamed'
  <2> SUFFICES ASSUME faults = 0 PROVE HostRenamed'
    BY <1>5 DEF HostRenamed
  <2>1. Past(j, "renameHostDir")'
    BY <1>1, <1>2, <1>4, PastNow DEF Late
  <2>2. <<Domain, NewName>> \notin redirect[Domain]
    <3>1. Ahead(j, {"renameHostDir"})
      BY <1>1, <1>4 DEF Ahead, Goes
    <3> QED BY <1>2, <3>1, NotYetRenamed
  <2>3. redirect'[Domain] = redirect[Domain]
    BY <1>8, ProxyAssumption
  <2>4. redirect'[NewName] # {} => redirect'[Domain] = {}
    BY <1>8, <2>2, <2>3 DEF HostsSound, Redirected
  <2> QED BY <2>1, <2>2, <2>3, <2>4 DEF HostRenamed
<1>12. Writing(j)' /\ Turned(j)'
  <2>1. ~At(j, {"truncate"})
    BY <1>1
  <2>2. \A x \in Left(j)' : x[1] # "write"
    BY <1>2, <1>4 DEF Goes, ItemIs
  <2> QED BY <1>4, <2>1, <2>2, WritingStays DEF Turned
<1>13. \A k \in Jobs : k # j => Writing(k)' /\ Turned(k)'
  BY <1>4, <1>5, ProxyAssumption, OthersWrite
<1>14. HostsSound'
  BY <1>9, <1>10, <1>11, <1>12, <1>13 DEF HostsSound
<1> QED BY <1>1, <1>3, <1>4, <1>5, <1>6, <1>7, <1>14

\* replace_str_in_json truncates what its next step fills.
LEMMA ByBlank ==
    ASSUME JobsSound, HostTypes, HostsSound, NEW j \in Jobs, Doing(j, "blank"), Advance(j),
           Head(todo[j])[3] \in hostDirs, torn' = torn \cup {<<Head(todo[j])[2], Head(todo[j])[3]>>},
           UNCHANGED <<hostDirs, map, redirect, Other>>
    PROVE  HostTypes' /\ HostsSound'
<1>1. /\ Goes(j) /\ lock = j /\ lock' = j /\ todo'[j] # <<>> /\ todo'[j] = Tail(todo[j])
      /\ Head(todo[j])[1] = "blank" /\ \A A : At(j, A) <=> "blank" \in A
  <2>1. lock' = lock /\ softLock' = softLock
    BY DEF Other, secondaryVars
  <2> QED BY <2>1, Passing
<1>2. /\ faults' = faults /\ softLock' = softLock /\ hostDirs' = hostDirs /\ map' = map /\ redirect' = redirect
  BY <1>1 DEF Goes, Other, secondaryVars
<1>3. Head(todo[j])[2] \in Files /\ Kind(j) = "renameSite"
  BY <1>1 DEF Goes, ItemIs
<1>4. HostTypes' /\ Redirected'
  BY <1>2, <1>3 DEF HostTypes, Empty, HostsSound, Redirected
<1>5. Whole'
  <2> SUFFICES ASSUME faults = 0 PROVE Whole'
    BY <1>2 DEF Whole
  <2>1. torn = {}
    <3>1. \A k \in Jobs : lock = k => ~At(k, {"write", "rename"})
      BY <1>1
    <3> QED BY <3>1, NothingTorn DEF HostsSound
  <2>2. Next2(Head(todo[j]), Head(todo'[j]))
    BY <1>1 DEF Goes
  <2>3. /\ Head(todo'[j])[1] = "rename" /\ Head(todo'[j])[2] = Head(todo[j])[2]
        /\ Head(todo'[j])[3] = Head(todo[j])[3]
    BY <1>1, <2>2 DEF Next2
  <2> QED BY <1>1, <1>2, <2>1, <2>3 DEF HostsSound, Whole, At
<1>6. HostRenamed'
  <2>1. \A k \in Jobs : lock' = k /\ Kind(k)' = "renameSite" => lock = k /\ Kind(k) = "renameSite"
    BY <1>1, <1>3
  <2> QED BY <1>1, <1>2, <2>1, PastStays DEF HostsSound, HostRenamed
<1>7. Writing(j)' /\ Turned(j)'
  <2>1. ~At(j, {"truncate"}) /\ ~At(j, {"removeRedirect"}) /\ Turned(j)
    BY <1>1 DEF HostsSound
  <2> QED BY <1>1, <1>2, <2>1, WritingStays, TurnedStays
<1>8. \A k \in Jobs : k # j => Writing(k)' /\ Turned(k)'
  BY <1>1, ProxyAssumption, OthersWrite
<1> QED BY <1>4, <1>5, <1>6, <1>7, <1>8 DEF HostsSound

\* The old name in a set of pairs, replaced.
Renamed(pairs) ==
    {<<IF p[1] = Site THEN NewName ELSE p[1], IF p[2] = Site THEN NewName ELSE p[2]>> : p \in pairs}

\* The old name is replaced wherever a file has it.
LEMMA ByRenameInFile ==
    ASSUME JobsSound, HostTypes, HostsSound, NEW j \in Jobs, RenameInFile(j)
    PROVE  /\ HostTypes' /\ HostsSound' /\ Goes(j) /\ At(j, {"rename"})
           /\ map' = IF Head(todo[j])[2] = "map" THEN [map EXCEPT ![Head(todo[j])[3]] = Renamed(@)] ELSE map
           /\ torn' = torn \ {<<Head(todo[j])[2], Head(todo[j])[3]>>}
<1>1. /\ Goes(j) /\ lock = j /\ lock' = j /\ todo'[j] # <<>>
      /\ Head(todo[j])[1] = "rename" /\ \A A : At(j, A) <=> "rename" \in A
  <2>1. Doing(j, "rename") /\ Advance(j) /\ lock' = lock /\ softLock' = softLock
    BY DEF RenameInFile, Other, secondaryVars
  <2> QED BY <2>1, Passing
<1>2. PICK f : f = Head(todo[j])[2]
  OBVIOUS
<1>3. PICK h : h = Head(todo[j])[3]
  OBVIOUS
<1>4. /\ f \in Files /\ h \in {Domain, NewName} /\ h \in Names /\ Kind(j) = "renameSite"
      /\ Head(todo[j])[4] = Site /\ Head(todo[j])[5] = NewName
  BY <1>1, <1>2, <1>3, ProxyAssumption DEF Goes, ItemIs
<1>5. /\ hostDirs' = hostDirs /\ torn' = torn \ {<<f, h>>} /\ softLock' = softLock /\ faults' = faults
      /\ IF f = "map" THEN map' = [map EXCEPT ![h] = Renamed(@)] /\ redirect' = redirect
                      ELSE redirect' = [redirect EXCEPT ![h] = Renamed(@)] /\ map' = map
  BY <1>1, <1>2, <1>3, <1>4 DEF RenameInFile, Arg, Other, secondaryVars, Goes, Renamed
<1>6. \A pairs : /\ pairs \subseteq Names \X Names => Renamed(pairs) \subseteq Names \X Names
                 /\ pairs = {} => Renamed(pairs) = {}
  BY ProxyAssumption DEF Renamed
<1>7. HostTypes'
  BY <1>4, <1>5, <1>6 DEF HostTypes, Empty
<1>8. Whole'
  <2> SUFFICES ASSUME faults = 0 PROVE Whole'
    BY <1>5 DEF Whole
  <2>1. torn \subseteq {<<f, h>>}
    BY <1>1, <1>2, <1>3, OneTorn DEF HostsSound
  <2> QED BY <1>5, <2>1 DEF HostsSound, Whole
<1>9. \A k \in Jobs : lock' = k /\ Kind(k)' = "renameSite" => lock = k /\ Kind(k) = "renameSite"
  BY <1>1, <1>4
<1>10. Redirected' /\ HostRenamed'
  <2>1. CASE redirect' = redirect
    BY <1>1, <1>5, <1>9, <2>1, PastStays DEF HostsSound, Redirected, HostRenamed
  <2>2. CASE f # "map" /\ h = Domain
    <3>1. redirect' = [redirect EXCEPT ![Domain] = Renamed(@)]
      BY <1>5, <2>2
    <3>2. /\ redirect'[Domain] = Renamed(redirect[Domain])
          /\ \A g \in Names : g # Domain => redirect'[g] = redirect[g]
      BY <3>1, ProxyAssumption DEF HostTypes
    <3>3. /\ redirect'[Domain] \subseteq {<<Domain, NewName>>}
          /\ redirect'[Domain] # {} => redirect[Domain] # {}
      BY <1>6, <3>2, ProxyAssumption DEF HostsSound, Redirected, Renamed
    <3>4. Redirected'
      BY <3>2, <3>3, ProxyAssumption DEF HostsSound, Redirected
    <3>5. HostRenamed'
      <4> SUFFICES ASSUME faults = 0 PROVE HostRenamed'
        BY <1>5 DEF HostRenamed
      <4>1. Past(j, "renameHostDir")'
        BY <1>1, <1>4, PastNow DEF Late
      <4>2. redirect[Domain] # {} => redirect[NewName] = {}
        BY <1>1, <1>4 DEF HostsSound, HostRenamed
      <4>3. redirect'[NewName] = redirect[NewName]
        BY <3>2, ProxyAssumption
      <4> QED BY <3>3, <4>1, <4>2, <4>3 DEF HostRenamed
    <3> QED BY <3>4, <3>5
  <2>3. CASE f # "map" /\ h = NewName
    <3>1. redirect' = [redirect EXCEPT ![NewName] = Renamed(@)]
      BY <1>5, <2>3
    <3>2. /\ redirect'[NewName] = Renamed(redirect[NewName])
          /\ \A g \in Names : g # NewName => redirect'[g] = redirect[g]
      BY <3>1, ProxyAssumption DEF HostTypes
    <3>3. /\ redirect'[NewName] \subseteq {<<NewName, Domain>>}
          /\ redirect'[NewName] # {} <=> redirect[NewName] # {}
      <4>1. PICK pairs : pairs = redirect[NewName]
        OBVIOUS
      <4>2. \A p \in pairs : p \in {<<Site, Domain>>, <<NewName, Domain>>}
        BY <4>1 DEF HostsSound, Redirected
      <4>3. \A p \in Renamed(pairs) : p = <<NewName, Domain>>
        BY <4>2, ProxyAssumption DEF Renamed
      <4>4. pairs # {} => Renamed(pairs) # {}
        BY DEF Renamed
      <4> QED BY <1>6, <3>2, <4>1, <4>3, <4>4
    <3>4. Redirected'
      BY <3>2, <3>3, ProxyAssumption DEF HostsSound, Redirected
    <3>5. HostRenamed'
      BY <1>1, <1>5, <1>9, <3>2, <3>3, ProxyAssumption, PastStays DEF HostsSound, HostRenamed
    <3> QED BY <3>4, <3>5
  <2> QED BY <1>4, <1>5, <2>1, <2>2, <2>3
<1>11. Writing(j)' /\ Turned(j)'
  <2>1. ~At(j, {"truncate"}) /\ ~At(j, {"removeRedirect"}) /\ Turned(j)
    BY <1>1 DEF HostsSound
  <2>2. \A x \in Left(j)' : x[1] # "write"
    BY <1>1, <1>4 DEF Goes, ItemIs
  <2> QED BY <1>1, <2>1, <2>2, WritingStays DEF Turned
<1>12. \A k \in Jobs : k # j => Writing(k)' /\ Turned(k)'
  BY <1>1, ProxyAssumption, OthersWrite
<1>13. HostsSound'
  BY <1>8, <1>10, <1>11, <1>12 DEF HostsSound
<1> QED BY <1>1, <1>2, <1>3, <1>5, <1>7, <1>13

(***************************************************************************)
(* The routes.                                                             *)
(***************************************************************************)

\* The step about the map of the domain that leaves nothing to be renamed.
Leaving(j) ==
    /\ Goes(j) /\ todo'[j] # Tail(todo[j]) /\ At(j, {"blank"})
    /\ Head(todo[j])[2] = "map" /\ Head(todo[j])[3] = Domain

\* Whoever is to make up for a route to the old name stays so ...
LEMMA OldRouteStays ==
    ASSUME JobsSound, NEW j \in Jobs, Starts(j) \/ Goes(j) \/ Ends(j),
           Goes(j) => ~At(j, {"touch", "rename"}) /\ ~Leaving(j),
           NEW k \in Jobs, OldRoute(k)
    PROVE  OldRoute(k)'
<1>1. CASE k # j
  <2>1. MapDue(k)' <=> MapDue(k)
    BY <1>1, OtherJobs DEF MapDue
  <2> QED BY <1>1, <2>1, OtherJobs DEF OldRoute
<1>2. CASE k = j
  <2>0. Kind(j)' = Kind(j) /\ Kind(j) \in {"addSite", "renameSite"}
    BY <1>2, KindsGrow DEF OldRoute
  <2>1. CASE Starts(j)
    <3>1. result[j] = "failed"
      BY <1>2, <2>1, NothingLeft DEF OldRoute, Ahead, MapDue, Starts
    <3>2. Ahead(j, Put)'
      BY <2>0, <2>1, <3>1, StartsWith DEF Ahead
    <3> QED BY <1>2, <2>0, <3>2 DEF OldRoute
  <2>2. CASE Goes(j) /\ At(j, Put)
    <3>1. Kind(j) = "renameSite"
      BY <2>2 DEF Goes, ItemIs, At, Put
    <3>2. <<"blank", "map", Domain>> \in Left(j)'
      BY <2>2, <3>1 DEF Goes, Others, At
    <3>3. MapDue(j)'
      BY <3>2 DEF MapDue
    <3> QED BY <1>2, <2>0, <3>1, <3>3 DEF OldRoute
  <2>3. CASE Goes(j) /\ ~At(j, Put) /\ Ahead(j, Put)
    <3>1. Ahead(j, Put)'
      BY <2>3, PutStays
    <3> QED BY <1>2, <2>0, <3>1 DEF OldRoute
  <2>4. CASE Goes(j) /\ Kind(j) = "renameSite" /\ MapDue(j)
    <3>1. PICK x \in Left(j) : x[1] \in {"blank", "rename"} /\ x[2] = "map" /\ x[3] = Domain
      BY <2>4 DEF MapDue
    <3>2. MapDue(j)'
      <4>1. CASE x \in Left(j)'
        BY <3>1, <4>1 DEF MapDue
      <4>2. CASE x = Head(todo[j])
        <5>1. At(j, {"blank"})
          BY <2>4, <3>1, <4>2 DEF Goes, At
        <5>2. todo'[j] = Tail(todo[j]) /\ todo'[j] # <<>>
          BY <2>4, <3>1, <4>2, <5>1 DEF Leaving, Goes, At
        <5>3. Next2(x, Head(todo'[j])) /\ Head(todo'[j]) \in Left(j)'
          BY <2>4, <4>2, <5>2 DEF Goes
        <5>4. Head(todo'[j])[1] = "rename" /\ Head(todo'[j])[2] = "map" /\ Head(todo'[j])[3] = Domain
          BY <3>1, <4>2, <5>1, <5>3 DEF Next2, At
        <5> QED BY <5>3, <5>4 DEF MapDue
      <4>3. CASE x # Head(todo[j]) /\ x \notin Left(j)'
        BY <2>4, <3>1, <4>3 DEF Goes, Leaving
      <4> QED BY <4>1, <4>2, <4>3
    <3> QED BY <1>2, <2>0, <2>4, <3>2 DEF OldRoute
  <2>5. CASE Ends(j)
    BY <1>2, <2>0, <2>5 DEF OldRoute, Ends
  <2>6. Goes(j) => (At(j, Put) \/ Ahead(j, Put) \/ (Kind(j) = "renameSite" /\ MapDue(j)))
    BY <1>2 DEF OldRoute, Goes
  <2> QED BY <2>1, <2>2, <2>3, <2>4, <2>5, <2>6
<1> QED BY <1>1, <1>2

\* ... as does who is to create the file of the new one.
LEMMA NewRouteStays ==
    ASSUME JobsSound, NEW j \in Jobs, Starts(j) \/ Goes(j) \/ Ends(j),
           Goes(j) => ~At(j, {"renameFile"}),
           NEW k \in Jobs, NewRoute(k)
    PROVE  NewRoute(k)'
<1>1. CASE k # j
  BY <1>1, OtherJobs DEF NewRoute
<1>2. CASE k = j
  <2>0. Kind(j)' = Kind(j) /\ Kind(j) = "renameSite"
    BY <1>2, KindsGrow DEF NewRoute
  <2>1. CASE Starts(j)
    <3>1. Ahead(j, Put)'
      BY <2>0, <2>1, StartsWith DEF Ahead
    <3> QED BY <1>2, <2>0, <3>1 DEF NewRoute
  <2>2. CASE Goes(j)
    <3>1. Ahead(j, Put)
      BY <1>2, <2>2 DEF NewRoute, Goes
    <3>2. ~At(j, Put)
      BY <2>0, <2>2 DEF Goes, ItemIs, Put, At
    <3> QED BY <1>2, <2>0, <2>2, <3>1, <3>2, PutStays DEF NewRoute
  <2>3. CASE Ends(j)
    BY <1>2, <2>0, <2>3 DEF NewRoute, Ends
  <2> QED BY <2>1, <2>2, <2>3
<1> QED BY <1>1, <1>2

\* What a step keeps of the routes when it does not rename in a file.
LEMMA RoutesStay ==
    ASSUME JobsSound, HostTypes, Routes, NEW j \in Jobs, Starts(j) \/ Goes(j) \/ Ends(j),
           \A h \in Names : map'[h] = map[h] \/ map'[h] = {},
           nested' = {} => nested = {},
           <<"map", Domain>> \in torn => <<"map", Domain>> \in torn' \/ map'[Domain] = {},
           UpstreamsOf(Site)' = {} => UpstreamsOf(Site) = {} \/ OldRoute(j)' \/ Some("removeSite")',
           UpstreamsOf(NewName)' = {} => UpstreamsOf(NewName) = {} \/ NewRoute(j)' \/ Some("removeSite")',
           Goes(j) /\ At(j, {"touch"}) => UpstreamsOf(Site)' # {},
           Goes(j) /\ At(j, {"renameFile"}) => UpstreamsOf(NewName)' # {},
           Goes(j) => ~At(j, {"rename"}),
           Leaving(j) => map[Domain] = {} \/ <<"map", Domain>> \in torn'
    PROVE  Routes'
<1>1. CASE Some("addHost")
  BY <1>1, SomeStays DEF Routes
<1>2. CASE ~Some("addHost")
  <2>1. /\ \A h \in Names : h # Domain => map[h] = {}
        /\ map[Domain] \subseteq {<<Domain, Site>>} \/ map[Domain] \subseteq {<<Domain, NewName>>}
        /\ nested = {} /\ ~Some("removeSite") =>
            /\ /\ <<Domain, Site>> \in map[Domain]
               /\ <<"map", Domain>> \notin torn
               /\ UpstreamsOf(Site) = {}
               => \E k \in Jobs : OldRoute(k)
            /\ /\ <<Domain, NewName>> \in map[Domain]
               /\ UpstreamsOf(NewName) = {}
               => \E k \in Jobs : NewRoute(k)
    BY <1>2 DEF Routes
  <2>2. /\ \A h \in Names : h # Domain => map'[h] = {}
        /\ map'[Domain] \subseteq {<<Domain, Site>>} \/ map'[Domain] \subseteq {<<Domain, NewName>>}
    BY <2>1, ProxyAssumption
  <2>3. ASSUME nested' = {}, ~Some("removeSite")', <<Domain, Site>> \in map'[Domain],
               <<"map", Domain>> \notin torn', UpstreamsOf(Site)' = {}
        PROVE  (\E k \in Jobs : OldRoute(k))'
    <3>1. CASE OldRoute(j)'
      BY <3>1
    <3>2. CASE ~OldRoute(j)'
      <4>1. /\ nested = {} /\ ~Some("removeSite") /\ <<Domain, Site>> \in map[Domain] /\ map[Domain] # {}
            /\ <<"map", Domain>> \notin torn /\ UpstreamsOf(Site) = {}
        BY <2>3, <3>2, SomeStays, ProxyAssumption
      <4>2. PICK k \in Jobs : OldRoute(k)
        BY <2>1, <4>1
      <4>3. Goes(j) => ~At(j, {"touch", "rename"}) /\ ~Leaving(j)
        BY <2>3, <4>1 DEF At
      <4> QED BY <4>2, <4>3, OldRouteStays
    <3> QED BY <3>1, <3>2
  <2>4. ASSUME nested' = {}, ~Some("removeSite")', <<Domain, NewName>> \in map'[Domain],
               UpstreamsOf(NewName)' = {}
        PROVE  (\E k \in Jobs : NewRoute(k))'
    <3>1. CASE NewRoute(j)'
      BY <3>1
    <3>2. CASE ~NewRoute(j)'
      <4>1. /\ nested = {} /\ ~Some("removeSite") /\ <<Domain, NewName>> \in map[Domain]
            /\ UpstreamsOf(NewName) = {}
        BY <2>4, <3>2, SomeStays, ProxyAssumption
      <4>2. PICK k \in Jobs : NewRoute(k)
        BY <2>1, <4>1
      <4>3. Goes(j) => ~At(j, {"renameFile"})
        BY <2>4
      <4> QED BY <4>2, <4>3, NewRouteStays
    <3> QED BY <3>1, <3>2
  <2> QED BY <2>2, <2>3, <2>4 DEF Routes
<1> QED BY <1>1, <1>2

\* A name is renamed in a file when an upstream has the new one.
LEMMA RoutesRenamed ==
    ASSUME JobsSound, HostTypes, Routes, NEW j \in Jobs, Goes(j), At(j, {"rename"}), RenamedFile(j),
           UNCHANGED upstreamVars,
           map' = IF Head(todo[j])[2] = "map" THEN [map EXCEPT ![Head(todo[j])[3]] = Renamed(@)] ELSE map,
           torn' = torn \ {<<Head(todo[j])[2], Head(todo[j])[3]>>}
    PROVE  Routes'
<1>1. CASE Some("addHost")
  BY <1>1, SomeStays DEF Routes
<1>2. CASE ~Some("addHost")
  <2>1. PICK f : f = Head(todo[j])[2]
    OBVIOUS
  <2>2. PICK h : h = Head(todo[j])[3]
    OBVIOUS
  <2>3. Kind(j) = "renameSite" /\ f \in Files /\ h \in {Domain, NewName}
    BY <2>1, <2>2 DEF Goes, ItemIs, At
  <2>4. UpstreamsOf(NewName) # {}
    <3>1. \A x \in Left(j) : x[1] \notin {"acquire", "renameFile"}
      <4> SUFFICES ASSUME NEW x \in Left(j), x[1] \in {"acquire", "renameFile"} PROVE FALSE
        OBVIOUS
      <4>1. x # Head(todo[j])
        BY DEF At
      <4>2. x \in Left(j)'
        BY <4>1 DEF Goes, At
      <4> QED BY <2>3, <4>2 DEF Goes, Others, At, Late, Early, Put
    <3>2. lock = j
      BY DEF Goes, At
    <3> QED BY <2>3, <3>1, <3>2 DEF RenamedFile, Ahead
  <2>5. UpstreamsOf(Site)' = UpstreamsOf(Site) /\ UpstreamsOf(NewName)' = UpstreamsOf(NewName) /\ nested' = nested
    BY SameUpstreams
  <2>6. /\ \A g \in Names : g # Domain => map[g] = {}
        /\ map[Domain] \subseteq {<<Domain, Site>>} \/ map[Domain] \subseteq {<<Domain, NewName>>}
        /\ /\ nested = {} /\ ~Some("removeSite")
           /\ <<Domain, Site>> \in map[Domain]
           /\ <<"map", Domain>> \notin torn
           /\ UpstreamsOf(Site) = {}
           => \E k \in Jobs : OldRoute(k)
    BY <1>2 DEF Routes
  <2>7. CASE f = "map" /\ h = Domain
    <3>1. map' = [map EXCEPT ![Domain] = Renamed(@)]
      BY <2>1, <2>2, <2>7
    <3>2. /\ map'[Domain] = Renamed(map[Domain])
          /\ \A g \in Names : g # Domain => map'[g] = map[g]
      BY <3>1, ProxyAssumption DEF HostTypes
    <3>3. PICK pairs : pairs = map[Domain]
      OBVIOUS
    <3>4. Renamed(pairs) \subseteq {<<Domain, NewName>>}
      BY <2>6, <3>3, ProxyAssumption DEF Renamed
    <3>5. <<Domain, Site>> \notin map'[Domain]
      BY <3>2, <3>3, <3>4, ProxyAssumption
    <3> QED BY <2>4, <2>5, <2>6, <3>2, <3>3, <3>4, <3>5 DEF Routes
  <2>8. CASE ~(f = "map" /\ h = Domain)
    <3>1. \A g \in Names : map'[g] = map[g]
      <4>1. CASE f = "map"
        <5>1. map' = [map EXCEPT ![NewName] = Renamed(@)]
          BY <2>1, <2>2, <2>3, <2>8, <4>1
        <5>2. map'[NewName] = Renamed(map[NewName]) /\ \A g \in Names : g # NewName => map'[g] = map[g]
          BY <5>1, ProxyAssumption DEF HostTypes
        <5>3. map[NewName] = {}
          BY <2>6, ProxyAssumption
        <5>4. Renamed({}) = {}
          BY DEF Renamed
        <5> QED BY <5>2, <5>3, <5>4
      <4>2. CASE f # "map"
        BY <2>1, <4>2
      <4> QED BY <4>1, <4>2
    <3>2. <<"map", Domain>> \in torn <=> <<"map", Domain>> \in torn'
      BY <2>1, <2>2, <2>8
    <3>3. ASSUME nested = {}, ~Some("removeSite")', <<Domain, Site>> \in map[Domain],
                 <<"map", Domain>> \notin torn, UpstreamsOf(Site) = {}
          PROVE  (\E k \in Jobs : OldRoute(k))'
      <4>1. PICK k \in Jobs : OldRoute(k)
        BY <2>6, <3>3, SomeStays
      <4>2. CASE k # j
        <5>1. MapDue(k)' <=> MapDue(k)
          BY <4>2, OtherJobs DEF MapDue
        <5> QED BY <4>1, <4>2, <5>1, OtherJobs DEF OldRoute
      <4>3. CASE k = j
        <5>1. ~Ahead(j, Put) /\ ~At(j, {"blank"})
          <6>1. \A x \in Left(j) : x[1] \notin Put
            <7> SUFFICES ASSUME NEW x \in Left(j), x[1] \in Put PROVE FALSE
              OBVIOUS
            <7>1. x # Head(todo[j])
              BY DEF At, Put
            <7>2. x \in Left(j)'
              BY <7>1 DEF Goes, At
            <7> QED BY <2>3, <7>2 DEF Goes, Others, At, Late
          <6> QED BY <6>1 DEF Ahead, At
        <5>2. PICK x \in Left(j) : x[1] \in {"blank", "rename"} /\ x[2] = "map" /\ x[3] = Domain
          BY <4>1, <4>3, <5>1 DEF OldRoute, MapDue, Goes
        <5>3. x \in Left(j)'
          BY <2>1, <2>2, <2>8, <5>1, <5>2 DEF Goes
        <5>4. MapDue(j)' /\ Kind(j)' = Kind(j)
          BY <5>2, <5>3 DEF MapDue, Goes, Kind
        <5> QED BY <2>3, <5>4 DEF OldRoute
      <4> QED BY <4>2, <4>3
    <3>4. map'[Domain] = map[Domain]
      BY <3>1, ProxyAssumption
    <3> QED BY <2>4, <2>5, <2>6, <3>1, <3>2, <3>3, <3>4 DEF Routes
  <2> QED BY <2>7, <2>8
<1> QED BY <1>1, <1>2

(***************************************************************************)
(* The inductive invariant, step by step.                                  *)
(***************************************************************************)

Frame == UNCHANGED <<hostVars, upstreamVars>>

LEMMA SameTypes ==
    ASSUME UpstreamTypes, UNCHANGED upstreamVars
    PROVE  UpstreamTypes'
BY DEF UpstreamTypes, upstreamVars, Present

\* The invariant when a job starts, ends, or goes on with a step that changes neither
\* sites nor hosts.
LEMMA SoundWhenStarts ==
    ASSUME IInvProxy, NEW j \in Jobs, Starts(j), UNCHANGED fileVars
    PROVE  IInvProxy'
<1>1. /\ UNCHANGED upstreamVars /\ UNCHANGED hostVars
      /\ softLock' = softLock /\ scaled' = scaled /\ map' = map /\ torn' = torn
  BY DEF fileVars, secondaryVars, hostVars
<1>2. JobsSound /\ UpstreamTypes /\ UpstreamsSound /\ HostTypes /\ HostsSound /\ Routes /\ scaled \subseteq Upstreams
  BY DEF IInvProxy
<1>3. JobsSound'
  BY <1>1, <1>2, StartsSound
<1>4. UpstreamTypes' /\ UpstreamsSound'
  BY <1>1, <1>2, SameTypes, UpstreamsWhenStarts
<1>5. HostTypes' /\ HostsSound'
  BY <1>1, <1>2, HostsWhenStarts
<1>6. Routes'
  <2>1. /\ UpstreamsOf(Site)' = UpstreamsOf(Site) /\ UpstreamsOf(NewName)' = UpstreamsOf(NewName)
        /\ nested' = nested /\ ~Goes(j)
    BY <1>1, SameUpstreams DEF Goes, Starts
  <2>2. ~Leaving(j)
    BY <2>1 DEF Leaving
  <2> QED BY <1>1, <1>2, <2>1, <2>2, RoutesStay
<1> QED BY <1>1, <1>2, <1>3, <1>4, <1>5, <1>6 DEF IInvProxy

LEMMA SoundWhenEnds ==
    ASSUME IInvProxy, NEW j \in Jobs, Ends(j), Reason(j), JobsSound',
           UNCHANGED <<hostVars, upstreamVars, scaled>>,
           faults' = 0 => softLock' \in {softLock, None}
    PROVE  IInvProxy'
<1>1. /\ UNCHANGED upstreamVars /\ hostDirs' = hostDirs /\ redirect' = redirect
      /\ scaled' = scaled /\ map' = map /\ torn' = torn
  BY DEF hostVars
<1>2. JobsSound /\ UpstreamTypes /\ UpstreamsSound /\ HostTypes /\ HostsSound /\ Routes /\ scaled \subseteq Upstreams
  BY DEF IInvProxy
<1>3. UpstreamTypes' /\ UpstreamsSound'
  BY <1>1, <1>2, SameTypes, UpstreamsWhenEnds DEF HostsSound
<1>4. HostTypes' /\ HostsSound'
  <2>1. redirect' \in [Names -> SUBSET (Names \X Names)]
    BY <1>1, <1>2 DEF HostTypes
  <2> QED BY <1>1, <1>2, <2>1, HostsWhenEnds
<1>5. Routes'
  <2>1. /\ UpstreamsOf(Site)' = UpstreamsOf(Site) /\ UpstreamsOf(NewName)' = UpstreamsOf(NewName)
        /\ nested' = nested /\ ~Goes(j)
    BY <1>1, SameUpstreams DEF Goes, Ends
  <2>2. ~Leaving(j)
    BY <2>1 DEF Leaving
  <2> QED BY <1>1, <1>2, <2>1, <2>2, RoutesStay
<1> QED BY <1>1, <1>2, <1>3, <1>4, <1>5 DEF IInvProxy

LEMMA SoundWhenGoes ==
    ASSUME IInvProxy, NEW j \in Jobs, Goes(j), JobsSound', Frame, scaled' \subseteq Upstreams,
           ~At(j, {"unlink", "touch", "renameFile", "truncate", "write", "rename", "removeRedirect"}),
           softLock' # "stale" \/ softLock' = softLock,
           Leaving(j) => map[Domain] = {} \/ <<"map", Domain>> \in torn
    PROVE  IInvProxy'
<1>1. /\ UNCHANGED upstreamVars /\ UNCHANGED hostVars /\ map' = map /\ torn' = torn
  BY DEF Frame, hostVars
<1>2. JobsSound /\ UpstreamTypes /\ UpstreamsSound /\ HostTypes /\ HostsSound /\ Routes /\ scaled \subseteq Upstreams
  BY DEF IInvProxy
<1>3. /\ ~At(j, {"unlink", "touch"}) /\ ~At(j, {"renameFile"}) /\ ~At(j, {"touch"}) /\ ~At(j, {"rename"})
      /\ ~At(j, {"truncate", "write", "rename", "removeRedirect"})
  BY DEF At
<1>4. /\ \A n : UpstreamsOf(n)' = UpstreamsOf(n)
      /\ nested' = nested /\ site' = site /\ dirs \subseteq Upstreams
  BY <1>1, <1>2, SameUpstreams DEF UpstreamTypes
<1>5. UpstreamTypes'
  BY <1>1, <1>2, SameTypes
<1>6. UpstreamsSound'
  BY <1>2, <1>3, <1>4, UpstreamsWhenGoes
<1>7. HostTypes' /\ HostsSound'
  BY <1>1, <1>2, <1>3, HostsWhenGoes
<1>8. Routes'
  BY <1>1, <1>2, <1>3, <1>4, RoutesStay
<1> QED BY <1>5, <1>6, <1>7, <1>8 DEF IInvProxy

\* A step that raises leaves the files as they are.
LEMMA RaisesSound ==
    ASSUME IInvProxy, NEW j \in Jobs, NEW what \in Ending, Doing(j, what), Raises(j), faults' = faults,
           what = "scan" => ~UpstreamsReadable,
           what = "renameHostDir" => NewName \in hostDirs
    PROVE  IInvProxy'
<1>1. JobsSound
  BY DEF IInvProxy
<1>2. what # "acquire" /\ Fails(j)
  BY DEF Raises, Ending
<1>3. Ends(j) /\ JobsSound' /\ lock = j /\ \A A : At(j, A) <=> what \in A
  <2>1. IF softLock = j THEN softLock' \in {None, "stale"} ELSE softLock' = softLock
    BY DEF Raises
  <2> QED BY <1>1, <1>2, <2>1, Failing
<1>4. Reason(j)
  BY <1>3 DEF Reason
<1> QED BY <1>3, <1>4, SoundWhenEnds DEF Raises

\* A failure that is counted.
LEMMA FaultsSound ==
    ASSUME IInvProxy, NEW j \in Jobs, Busy(j), Fails(j), faults' = faults + 1,
           softLock' = IF softLock = j THEN (IF softLock' = None THEN None ELSE "stale") ELSE softLock,
           UNCHANGED <<hostVars, upstreamVars, scaled>>
    PROVE  IInvProxy'
<1>1. JobsSound
  BY DEF IInvProxy
<1>2. todo[j] # <<>> /\ faults' \in Nat /\ faults' # 0
  BY <1>1 DEF JobsSound, Shape
<1>3. Ends(j)
  BY <1>1, <1>2, FailsEnds
<1>4. JobsSound'
  BY <1>1, <1>2, <1>3, EndsSound
<1>5. Reason(j)
  BY <1>2 DEF Reason
<1> QED BY <1>2, <1>3, <1>4, <1>5, SoundWhenEnds

\* A step that leaves the files alone.
LEMMA PassesSound ==
    ASSUME IInvProxy, NEW j \in Jobs, NEW what, Doing(j, what), Advance(j), Frame,
           scaled' \subseteq Upstreams,
           what \notin {"unlink", "touch", "renameFile", "truncate", "write", "rename", "removeRedirect", "blank"},
           what = "acquire" => lock = None,
           lock' = IF what = "acquire" THEN j ELSE IF what = "release" THEN None ELSE lock,
           what = "softAcquire" => softLock = None,
           softLock' = IF what = "softAcquire" THEN j ELSE IF what = "softRelease" THEN None ELSE softLock
    PROVE  IInvProxy'
<1>1. JobsSound
  BY DEF IInvProxy
<1>2. todo[j] # <<>> /\ Head(todo[j])[1] = what /\ \A A : At(j, A) <=> what \in A
  BY DEF Doing, At
<1>3. Goes(j) /\ todo'[j] = Tail(todo[j])
  BY <1>1, <1>2, AdvanceGoes
<1>4. todo'[j] \in Seq(StepsOf(Kind(j))) /\ Orderly(Kind(j), todo'[j])
  BY <1>1, <1>2, <1>3, Before
<1>5. todo'[j] # <<>> => (Head(todo'[j])[1] \in {"scale", "softRelease"} <=> At(j, {"softAcquire", "scale"}))
  BY <1>2, <1>3 DEF Goes, Next2
<1>6. JobsSound'
  BY <1>1, <1>2, <1>3, <1>4, <1>5, GoesSound
<1>7. softLock' # "stale" \/ softLock' = softLock
  BY ProxyAssumption
<1>8. ~At(j, {"unlink", "touch", "renameFile", "truncate", "write", "rename", "removeRedirect"}) /\ ~Leaving(j)
  BY <1>2 DEF Leaving
<1> QED BY <1>3, <1>6, <1>7, <1>8, SoundWhenGoes

LEMMA HostsStayByUpstream ==
    ASSUME JobsSound, HostTypes, HostsSound, NEW j \in Jobs, Goes(j), UNCHANGED hostVars, softLock' = softLock,
           ~At(j, {"truncate", "write", "rename", "removeRedirect"})
    PROVE  HostTypes' /\ HostsSound' /\ map' = map /\ torn' = torn
BY HostsWhenGoes DEF hostVars

\* Each action keeps the invariant.
LEMMA UnlinkKeeps ==
    ASSUME IInvProxy, NEW j \in Jobs, Unlink(j)
    PROVE  IInvProxy'
<1>1. JobsSound /\ UpstreamTypes /\ UpstreamsSound /\ HostTypes /\ HostsSound /\ Routes /\ scaled \subseteq Upstreams
  BY DEF IInvProxy
<1>2. Doing(j, "unlink") /\ Advance(j) /\ UNCHANGED hostVars /\ UNCHANGED secondaryVars /\ lock' = lock
  BY DEF Unlink, SetFile
<1>3. /\ Goes(j) /\ JobsSound' /\ lock = j /\ Head(todo[j])[1] = "unlink"
      /\ \A A : At(j, A) <=> "unlink" \in A
  BY <1>1, <1>2, Passing DEF secondaryVars
<1>4. UpstreamTypes' /\ UpstreamsSound'
  BY <1>1, ByUnlink
<1>5. HostTypes' /\ HostsSound' /\ map' = map /\ torn' = torn
  BY <1>1, <1>2, <1>3, HostsStayByUpstream DEF secondaryVars
<1>6. Routes'
  <2>1. PICK u : u = Head(todo[j])[2]
    OBVIOUS
  <2>2. PICK n : n = Head(todo[j])[3]
    OBVIOUS
  <2>3. /\ u \in Upstreams
        /\ \/ Kind(j) = "removeSite" \/ (Kind(j) = "addSite" /\ n = Site)
           \/ Kind(j) = "renameSite" /\ n = NewName
    BY <1>3, <2>1, <2>2 DEF Goes, ItemIs
  <2>4. dirs' = dirs /\ nested' = nested /\ site' = [site EXCEPT ![u][n] = "absent"]
    BY <2>1, <2>2 DEF Unlink, SetFile, Arg
  <2>5. \A m \in Names : m # n => UpstreamsOf(m)' = UpstreamsOf(m)
    BY <1>1, <2>3, <2>4 DEF UpstreamTypes, UpstreamsOf, Present
  <2>6. Kind(j)' = Kind(j)
    BY <1>3 DEF Goes, Kind
  <2>7. Kind(j) \in {"addSite", "renameSite"} => Ahead(j, Put)'
    BY <1>3 DEF Goes, Others, Early, Ahead
  <2>8. Kind(j) = "removeSite" => Some("removeSite")'
    BY <2>6 DEF Some
  <2>9. Kind(j) = "addSite" => OldRoute(j)' /\ UpstreamsOf(NewName)' = UpstreamsOf(NewName)
    BY <2>3, <2>5, <2>6, <2>7, ProxyAssumption DEF OldRoute
  <2>10. Kind(j) = "renameSite" => NewRoute(j)' /\ UpstreamsOf(Site)' = UpstreamsOf(Site)
    BY <2>3, <2>5, <2>6, <2>7, ProxyAssumption DEF NewRoute
  <2>11. ~Leaving(j)
    BY <1>3 DEF Leaving
  <2>12. /\ UpstreamsOf(Site)' = {} => UpstreamsOf(Site) = {} \/ OldRoute(j)' \/ Some("removeSite")'
         /\ UpstreamsOf(NewName)' = {} => UpstreamsOf(NewName) = {} \/ NewRoute(j)' \/ Some("removeSite")'
    BY <2>3, <2>8, <2>9, <2>10
  <2> QED BY <1>1, <1>3, <1>5, <2>4, <2>11, <2>12, RoutesStay
<1> QED BY <1>1, <1>2, <1>3, <1>4, <1>5, <1>6 DEF IInvProxy, secondaryVars

\* A step on the upstreams that keeps, or hides, the files it moves.
LEMMA UpstreamStepKeeps ==
    ASSUME IInvProxy, NEW j \in Jobs, NEW what, Doing(j, what), Advance(j),
           UNCHANGED hostVars, UNCHANGED secondaryVars, lock' = lock,
           what \in {"touch", "status", "mkdir", "move", "renameFile"},
           UpstreamTypes', UpstreamsSound',
           nested' = {} => nested = {},
           nested' = {} /\ UpstreamsOf(Site)' = {} => UpstreamsOf(Site) = {} \/ OldRoute(j)',
           nested' = {} /\ UpstreamsOf(NewName)' = {} => UpstreamsOf(NewName) = {},
           what = "touch" => UpstreamsOf(Site)' # {},
           what = "renameFile" => UpstreamsOf(NewName)' # {}
    PROVE  IInvProxy'
<1>1. JobsSound /\ UpstreamTypes /\ UpstreamsSound /\ HostTypes /\ HostsSound /\ Routes /\ scaled \subseteq Upstreams
  BY DEF IInvProxy
<1>2. Goes(j) /\ JobsSound' /\ \A A : At(j, A) <=> what \in A
  BY <1>1, Passing DEF secondaryVars
<1>3. HostTypes' /\ HostsSound' /\ map' = map /\ torn' = torn
  BY <1>1, <1>2, HostsStayByUpstream DEF secondaryVars
<1>4. Routes'
  <2>1. CASE nested' = {}
    <3>1. ~Leaving(j)
      BY <1>2 DEF Leaving
    <3>2. /\ Goes(j) /\ At(j, {"touch"}) => UpstreamsOf(Site)' # {}
          /\ Goes(j) /\ At(j, {"renameFile"}) => UpstreamsOf(NewName)' # {}
          /\ ~At(j, {"rename"})
      BY <1>2
    <3> QED BY <1>1, <1>2, <1>3, <2>1, <3>1, <3>2, RoutesStay
  <2>2. CASE nested' # {}
    <3>1. CASE Some("addHost")
      BY <1>1, <1>2, <3>1, SomeStays DEF Routes
    <3>2. CASE ~Some("addHost")
      BY <1>1, <1>3, <2>2, <3>2 DEF Routes
    <3> QED BY <3>1, <3>2
  <2> QED BY <2>1, <2>2
<1> QED BY <1>1, <1>2, <1>3, <1>4 DEF IInvProxy, secondaryVars

LEMMA TouchKeeps ==
    ASSUME IInvProxy, NEW j \in Jobs, Touch(j)
    PROVE  IInvProxy'
<1>1. JobsSound /\ UpstreamTypes /\ UpstreamsSound
  BY DEF IInvProxy
<1>2. /\ Doing(j, "touch") /\ Advance(j) /\ UNCHANGED hostVars /\ UNCHANGED secondaryVars /\ lock' = lock
      /\ nested' = nested
  BY DEF Touch, SetFile
<1>3. Goes(j) /\ Head(todo[j])[1] = "touch"
  BY <1>1, <1>2, Passing DEF secondaryVars
<1>4. PICK u \in Upstreams : u = Head(todo[j])[2] /\ Head(todo[j])[3] = Site
  BY <1>3 DEF Goes, ItemIs
<1>5. PICK newStatus \in Statuses :
         site' = [site EXCEPT ![u][Site] = newStatus]
  <2>1. site' = [site EXCEPT ![u][Site] = IF Present(u, Site) THEN site[u][Site] ELSE "active"]
    BY <1>4 DEF Touch, SetFile, Arg
  <2>2. Present(u, Site) => site[u][Site] \in Statuses
    BY <1>1, ProxyAssumption DEF UpstreamTypes, Present
  <2> QED BY <2>1, <2>2 DEF Statuses
<1>6. dirs' = dirs \cup {u}
  BY <1>4 DEF Touch, Arg
<1>7. UpstreamsOf(Site)' # {} /\ (UpstreamsOf(NewName)' = {} => UpstreamsOf(NewName) = {})
  <2>1. u \in UpstreamsOf(Site)'
    BY <1>1, <1>5, <1>6, ProxyAssumption DEF UpstreamTypes, UpstreamsOf, Present, Statuses
  <2>2. UpstreamsOf(NewName) \subseteq UpstreamsOf(NewName)'
    BY <1>1, <1>5, <1>6, ProxyAssumption DEF UpstreamTypes, UpstreamsOf, Present
  <2> QED BY <2>1, <2>2
<1>8. UpstreamTypes' /\ UpstreamsSound'
  BY <1>1, ByTouch
<1> QED BY <1>2, <1>7, <1>8, UpstreamStepKeeps

LEMMA WriteStatusKeeps ==
    ASSUME IInvProxy, NEW j \in Jobs, WriteStatus(j)
    PROVE  IInvProxy'
<1>1. JobsSound /\ UpstreamTypes /\ UpstreamsSound
  BY DEF IInvProxy
<1>2. CASE Arg(j, 2) \in dirs
  <2>1. /\ Doing(j, "status") /\ Advance(j) /\ UNCHANGED hostVars /\ UNCHANGED secondaryVars /\ lock' = lock
        /\ SetFile(Arg(j, 2), Arg(j, 3), Arg(j, 4)) /\ nested' = nested /\ dirs' = dirs
    BY <1>2 DEF WriteStatus, SetFile
  <2>2. UpstreamTypes' /\ UpstreamsSound'
    BY <1>1, <1>2, <2>1, ByStatus
  <2>3. Goes(j) /\ Head(todo[j])[1] = "status"
    BY <1>1, <2>1, Passing DEF secondaryVars
  <2>4. PICK u \in Upstreams, newStatus \in Statuses :
           u = Head(todo[j])[2] /\ Head(todo[j])[3] = Site /\ newStatus = Head(todo[j])[4]
    BY <2>3 DEF Goes, ItemIs
  <2>5. site' = [site EXCEPT ![u][Site] = newStatus]
    BY <2>1, <2>4 DEF SetFile, Arg
  <2>6. \A m \in {Site, NewName} : UpstreamsOf(m) \subseteq UpstreamsOf(m)'
    BY <1>1, <2>1, <2>5, ProxyAssumption DEF UpstreamTypes, UpstreamsOf, Present, Statuses
  <2>7. \A m \in {Site, NewName} : UpstreamsOf(m)' = {} => UpstreamsOf(m) = {}
    BY <2>6
  <2> QED BY <2>1, <2>2, <2>7, UpstreamStepKeeps
<1>3. CASE Arg(j, 2) \notin dirs
  BY <1>3, RaisesSound DEF WriteStatus, Ending
<1> QED BY <1>2, <1>3

LEMMA MakeUpstreamKeeps ==
    ASSUME IInvProxy, NEW j \in Jobs, MakeUpstream(j)
    PROVE  IInvProxy'
<1>1. JobsSound /\ UpstreamTypes /\ UpstreamsSound
  BY DEF IInvProxy
<1>2. /\ Doing(j, "mkdir") /\ Advance(j) /\ UNCHANGED hostVars /\ UNCHANGED secondaryVars /\ lock' = lock
      /\ nested' = nested /\ site' = site /\ dirs \subseteq dirs'
  BY DEF MakeUpstream
<1>3. \A m : UpstreamsOf(m) \subseteq UpstreamsOf(m)'
  BY <1>2 DEF UpstreamsOf, Present
<1>4. \A m : UpstreamsOf(m)' = {} => UpstreamsOf(m) = {}
  BY <1>3
<1>5. UpstreamTypes' /\ UpstreamsSound'
  BY <1>1, ByMkdir
<1> QED BY <1>2, <1>4, <1>5, UpstreamStepKeeps

LEMMA MoveUpstreamKeeps ==
    ASSUME IInvProxy, NEW j \in Jobs, MoveUpstream(j)
    PROVE  IInvProxy'
<1>1. JobsSound /\ UpstreamTypes /\ UpstreamsSound
  BY DEF IInvProxy
<1>2. PICK old : old = Head(todo[j])[2]
  OBVIOUS
<1>3. PICK new : new = Head(todo[j])[3]
  OBVIOUS
<1>4. CASE Raises(j) /\ faults' = faults
  BY <1>4, RaisesSound DEF MoveUpstream, Ending
<1>5. CASE ~(Raises(j) /\ faults' = faults)
  <2>1. /\ old \in dirs /\ ~(new \in dirs /\ <<new, old>> \in nested)
        /\ dirs' = (dirs \ {old}) \cup {new}
        /\ site' = [site EXCEPT ![old] = [n \in Names |-> "absent"],
                                ![new] = IF new \in dirs THEN @ ELSE site[old]]
        /\ nested' = IF new \in dirs
                     THEN {p \in nested : p[1] # old} \cup {<<new, old>>}
                     ELSE {<<IF p[1] = old THEN new ELSE p[1], p[2]>> : p \in nested}
        /\ Doing(j, "move") /\ Advance(j) /\ UNCHANGED hostVars /\ UNCHANGED secondaryVars /\ lock' = lock
    BY <1>2, <1>3, <1>5 DEF MoveUpstream, Arg
  <2>2. Goes(j) /\ Head(todo[j])[1] = "move" /\ todo'[j] # <<>>
    BY <1>1, <2>1, Passing DEF secondaryVars
  <2>3. UpstreamTypes' /\ UpstreamsSound'
    BY <1>1, <2>2, ByMove
  <2>4. nested' = {} => nested = {} /\ new \notin dirs
    <3>1. new \in dirs => <<new, old>> \in nested'
      BY <2>1
    <3>2. \A p \in nested : new \notin dirs =>
             <<IF p[1] = old THEN new ELSE p[1], p[2]>> \in nested'
      BY <2>1
    <3> QED BY <3>1, <3>2
  <2>5. old \in Upstreams /\ new \in Upstreams
    BY <1>2, <1>3, <2>2 DEF Goes, ItemIs
  <2>6. ASSUME new \notin dirs, NEW m \in Names, NEW v \in UpstreamsOf(m)
        PROVE  UpstreamsOf(m)' # {}
    <3>1. old # new /\ v # new /\ v \in Upstreams /\ v \in dirs /\ Present(v, m)
      BY <1>1, <2>1, <2>6 DEF UpstreamsOf, UpstreamTypes
    <3>2. site'[new] = site[old] /\ \A w \in Upstreams \ {old, new} : site'[w] = site[w]
      BY <1>1, <2>1, <2>5, <2>6, <3>1 DEF UpstreamTypes
    <3>3. CASE v = old
      <4>1. new \in UpstreamsOf(m)'
        BY <2>1, <3>1, <3>2, <3>3 DEF UpstreamsOf, Present
      <4> QED BY <4>1
    <3>4. CASE v # old
      <4>1. v \in UpstreamsOf(m)'
        BY <2>1, <3>1, <3>2, <3>4 DEF UpstreamsOf, Present
      <4> QED BY <4>1
    <3> QED BY <3>3, <3>4
  <2>7. \A m \in {Site, NewName} : nested' = {} /\ UpstreamsOf(m)' = {} => UpstreamsOf(m) = {}
    BY <2>4, <2>6, ProxyAssumption
  <2>8. UpstreamTypes' /\ UpstreamsSound'
    BY <2>3
  <2> QED BY <2>1, <2>4, <2>7, <2>8, UpstreamStepKeeps
<1> QED BY <1>4, <1>5

LEMMA RenameFileKeeps ==
    ASSUME IInvProxy, NEW j \in Jobs, RenameFile(j)
    PROVE  IInvProxy'
<1>1. JobsSound /\ UpstreamTypes /\ UpstreamsSound
  BY DEF IInvProxy
<1>2. CASE Raises(j) /\ faults' = faults
  BY <1>2, RaisesSound DEF RenameFile, Ending
<1>3. CASE ~(Raises(j) /\ faults' = faults)
  <2>1. /\ Doing(j, "renameFile") /\ Advance(j) /\ UNCHANGED hostVars /\ UNCHANGED secondaryVars /\ lock' = lock
        /\ dirs' = dirs /\ nested' = nested
    BY <1>3 DEF RenameFile, Skip, fileVars, upstreamVars
  <2>2. /\ Goes(j) /\ lock = j /\ todo'[j] # <<>> /\ Head(todo[j])[1] = "renameFile"
        /\ \A A : At(j, A) <=> "renameFile" \in A
    BY <1>1, <2>1, Passing DEF secondaryVars
  <2>3. UpstreamTypes' /\ UpstreamsSound'
    BY <1>1, <2>2, ByRenameFile
  <2>4. Kind(j) = "renameSite" /\ Kind(j)' = "renameSite"
    BY <2>2 DEF Goes, ItemIs, Kind
  <2>5. OldRoute(j)'
    <3>1. <<"blank", "map", Domain>> \in Left(j)'
      BY <2>2, <2>4 DEF Goes, Others, At, Put
    <3>2. MapDue(j)'
      BY <3>1 DEF MapDue
    <3> QED BY <2>4, <3>2 DEF OldRoute
  <2>6. UpstreamsOf(NewName)' # {}
    <3>1. ~Ahead(j, {"acquire", "renameFile"})'
      BY <2>2, <2>4 DEF Goes, Others, At, Put, Early, Ahead
    <3>2. lock' = j
      BY <2>1, <2>2
    <3> QED BY <2>3, <2>4, <3>1, <3>2 DEF UpstreamsSound, RenamedFile
  <2> QED BY <2>1, <2>3, <2>5, <2>6, UpstreamStepKeeps
<1> QED BY <1>2, <1>3

\* A step on the hosts.
LEMMA HostStepKeeps ==
    ASSUME IInvProxy, NEW j \in Jobs, Goes(j) \/ (Ends(j) /\ Reason(j)), JobsSound',
           UNCHANGED upstreamVars, UNCHANGED secondaryVars,
           Goes(j) => ~At(j, {"unlink", "touch", "renameFile"}),
           HostTypes', HostsSound', Routes'
    PROVE  IInvProxy'
<1>1. JobsSound /\ UpstreamTypes /\ UpstreamsSound /\ HostTypes /\ HostsSound /\ Routes /\ scaled \subseteq Upstreams
  BY DEF IInvProxy
<1>2. UpstreamTypes'
  BY <1>1, SameTypes
<1>3. UpstreamsSound'
  <2>1. CASE Goes(j)
    <3>1. ~At(j, {"unlink", "touch"}) /\ ~At(j, {"renameFile"})
      BY <2>1 DEF At
    <3>2. /\ \A n : UpstreamsOf(n)' = UpstreamsOf(n)
          /\ nested' = nested /\ site' = site /\ dirs \subseteq Upstreams
      BY <1>1, SameUpstreams DEF UpstreamTypes
    <3> QED BY <1>1, <2>1, <3>1, <3>2, UpstreamsWhenGoes
  <2>2. CASE Ends(j) /\ Reason(j)
    BY <1>1, <2>2, UpstreamsWhenEnds DEF HostsSound
  <2> QED BY <2>1, <2>2
<1> QED BY <1>1, <1>2, <1>3 DEF IInvProxy, secondaryVars

\* ... and the routes, when no name is renamed in a file.
LEMMA HostRoutes ==
    ASSUME IInvProxy, NEW j \in Jobs, Goes(j) \/ Ends(j), UNCHANGED upstreamVars,
           Goes(j) => ~At(j, {"touch", "renameFile", "rename"}),
           \A h \in Names : map'[h] = map[h] \/ map'[h] = {},
           <<"map", Domain>> \in torn => <<"map", Domain>> \in torn' \/ map'[Domain] = {},
           Leaving(j) => map[Domain] = {} \/ <<"map", Domain>> \in torn'
    PROVE  Routes'
<1>1. JobsSound /\ HostTypes /\ Routes
  BY DEF IInvProxy
<1>2. /\ UpstreamsOf(Site)' = UpstreamsOf(Site) /\ UpstreamsOf(NewName)' = UpstreamsOf(NewName)
      /\ nested' = nested
  BY SameUpstreams
<1>3. Goes(j) => ~At(j, {"touch"}) /\ ~At(j, {"renameFile"}) /\ ~At(j, {"rename"})
  BY DEF At
<1> QED BY <1>1, <1>2, <1>3, RoutesStay

LEMMA TruncateKeeps ==
    ASSUME IInvProxy, NEW j \in Jobs, Truncate(j)
    PROVE  IInvProxy'
<1>1. JobsSound /\ HostTypes /\ HostsSound
  BY DEF IInvProxy
<1>2. /\ Doing(j, "truncate") /\ Advance(j) /\ UNCHANGED upstreamVars /\ UNCHANGED secondaryVars /\ lock' = lock
      /\ map' = map /\ torn \subseteq torn'
  BY DEF Truncate, Other
<1>3. Goes(j) /\ JobsSound' /\ \A A : At(j, A) <=> "truncate" \in A
  BY <1>1, <1>2, Passing DEF secondaryVars
<1>4. HostTypes' /\ HostsSound'
  BY <1>1, ByTruncate
<1>5. Routes'
  <2>1. ~Leaving(j) /\ ~At(j, {"touch", "renameFile", "rename"})
    BY <1>3 DEF Leaving
  <2> QED BY <1>2, <1>3, <2>1, HostRoutes
<1> QED BY <1>2, <1>3, <1>4, <1>5, HostStepKeeps

LEMMA WriteKeeps ==
    ASSUME IInvProxy, NEW j \in Jobs, Write(j)
    PROVE  IInvProxy'
<1>1. JobsSound /\ HostTypes /\ HostsSound
  BY DEF IInvProxy
<1>2. /\ Doing(j, "write") /\ Advance(j) /\ UNCHANGED upstreamVars /\ UNCHANGED secondaryVars /\ lock' = lock
      /\ \/ Head(todo[j])[2] = "map"
         \/ /\ Head(todo[j])[2] = "redirect" /\ map' = map
            /\ torn' = torn \ {<<Head(todo[j])[2], Head(todo[j])[3]>>}
  BY DEF Write, Other, Arg
<1>3. Goes(j) /\ JobsSound' /\ Head(todo[j])[1] = "write" /\ \A A : At(j, A) <=> "write" \in A
  BY <1>1, <1>2, Passing DEF secondaryVars
<1>4. HostTypes' /\ HostsSound'
  BY <1>1, ByWrite
<1>5. Routes'
  <2>1. CASE Head(todo[j])[2] = "map"
    <3>1. Kind(j) = "addHost" /\ Kind(j)' = Kind(j)
      BY <1>3, <2>1 DEF Goes, ItemIs, Kind
    <3> QED BY <3>1 DEF Routes, Some
  <2>2. CASE Head(todo[j])[2] # "map"
    <3>1. ~Leaving(j) /\ ~At(j, {"touch", "renameFile", "rename"})
      BY <1>3 DEF Leaving
    <3>2. map' = map /\ (<<"map", Domain>> \in torn => <<"map", Domain>> \in torn')
      BY <1>2, <2>2
    <3> QED BY <1>2, <1>3, <3>1, <3>2, HostRoutes
  <2> QED BY <2>1, <2>2
<1> QED BY <1>2, <1>3, <1>4, <1>5, HostStepKeeps

LEMMA RemoveTreeKeeps ==
    ASSUME IInvProxy, NEW j \in Jobs, RemoveTree(j)
    PROVE  IInvProxy'
<1>1. JobsSound /\ HostTypes /\ HostsSound
  BY DEF IInvProxy
<1>2. PICK h : h = Head(todo[j])[2]
  OBVIOUS
<1>3. /\ Doing(j, "rmtree") /\ Advance(j) /\ UNCHANGED upstreamVars /\ UNCHANGED secondaryVars /\ lock' = lock
      /\ map' = [map EXCEPT ![h] = {}] /\ torn' = torn \ {<<"map", h>>, <<"redirect", h>>}
  BY <1>2 DEF RemoveTree, Other, Arg
<1>4. Goes(j) /\ JobsSound' /\ \A A : At(j, A) <=> "rmtree" \in A
  BY <1>1, <1>3, Passing DEF secondaryVars
<1>5. HostTypes' /\ HostsSound'
  BY <1>1, ByRemoveTree
<1>6. Routes'
  <2>1. ~Leaving(j) /\ ~At(j, {"touch", "renameFile", "rename"})
    BY <1>4 DEF Leaving
  <2>2. \A g \in Names : map'[g] = map[g] \/ map'[g] = {}
    BY <1>1, <1>3 DEF HostTypes
  <2>3. <<"map", Domain>> \in torn => <<"map", Domain>> \in torn' \/ map'[Domain] = {}
    BY <1>1, <1>3, ProxyAssumption DEF HostTypes
  <2> QED BY <1>3, <1>4, <2>1, <2>2, <2>3, HostRoutes
<1> QED BY <1>3, <1>4, <1>5, <1>6, HostStepKeeps

LEMMA RemoveRedirectKeeps ==
    ASSUME IInvProxy, NEW j \in Jobs, RemoveRedirect(j)
    PROVE  IInvProxy'
<1>1. JobsSound /\ HostTypes /\ HostsSound
  BY DEF IInvProxy
<1>2. /\ HostTypes' /\ HostsSound' /\ JobsSound'
      /\ (Goes(j) /\ ~At(j, {"unlink", "touch", "renameFile"})) \/ (Ends(j) /\ Reason(j))
      /\ Kind(j) # "renameSite"
  BY <1>1, ByRemoveRedirect
<1>3. /\ UNCHANGED upstreamVars /\ UNCHANGED secondaryVars /\ map' = map
      /\ <<"map", Domain>> \in torn => <<"map", Domain>> \in torn'
      /\ \A A : At(j, A) <=> "removeRedirect" \in A
  BY DEF RemoveRedirect, Doing, At
<1>4. Routes'
  <2>1. ~Leaving(j) /\ ~At(j, {"touch", "renameFile", "rename"})
    BY <1>3 DEF Leaving
  <2> QED BY <1>2, <1>3, <2>1, HostRoutes
<1>5. ~(Goes(j) /\ Ends(j))
  BY DEF Goes, Ends
<1> QED BY <1>2, <1>3, <1>4, <1>5, HostStepKeeps

LEMMA RenameHostDirKeeps ==
    ASSUME IInvProxy, NEW j \in Jobs, RenameHostDir(j)
    PROVE  IInvProxy'
<1>1. JobsSound /\ HostTypes /\ HostsSound /\ Routes
  BY DEF IInvProxy
<1>2. Doing(j, "renameHostDir") /\ Arg(j, 2) = Site /\ Arg(j, 3) = NewName
  BY <1>1, Before DEF RenameHostDir, Doing, ItemIs, Arg
<1>3. CASE Site \notin hostDirs
  <2>1. Skip(j)
    BY <1>2, <1>3 DEF RenameHostDir
  <2>2. Advance(j) /\ Frame /\ scaled' = scaled /\ softLock' = softLock /\ lock' = lock
    BY <2>1 DEF Skip, fileVars, Frame, secondaryVars
  <2> QED BY <1>2, <2>2, PassesSound DEF IInvProxy
<1>4. CASE Site \in hostDirs /\ NewName \in hostDirs
  <2>1. Raises(j) /\ faults' = faults
    BY <1>2, <1>4 DEF RenameHostDir
  <2> QED BY <1>2, <1>4, <2>1, RaisesSound DEF Ending
<1>5. CASE Site \in hostDirs /\ NewName \notin hostDirs
  <2>1. /\ hostDirs' = (hostDirs \ {Site}) \cup {NewName}
        /\ todo' = [todo EXCEPT ![j] = RenameInHost(NewName, Site, NewName) \o Tail(@)]
        /\ UNCHANGED <<Other, operation, result, faults>>
    BY <1>2, <1>5 DEF RenameHostDir
  <2>2. todo'[j] # <<>>
    BY <1>1, <1>2, <2>1, HostDirSubstitutes DEF Other
  <2>3. hostDirs' # hostDirs
    BY <1>5, <2>1, ProxyAssumption
  <2>4. /\ HostTypes' /\ HostsSound' /\ JobsSound' /\ Goes(j)
        /\ At(j, {"renameHostDir"}) /\ ~At(j, {"unlink", "touch", "renameFile"})
        /\ map' = [map EXCEPT ![NewName] = map[Site], ![Site] = {}]
        /\ torn' = {<<f[1], IF f[2] = Site THEN NewName ELSE f[2]>> : f \in torn}
        /\ UNCHANGED upstreamVars /\ UNCHANGED secondaryVars
    BY <1>1, <2>2, <2>3, ByRenameHostDir
  <2>5. Routes'
    <3>1. CASE Some("addHost")
      BY <1>1, <2>4, <3>1, SomeStays DEF Routes
    <3>2. CASE ~Some("addHost")
      <4>1. map[Site] = {}
        BY <1>1, <3>2, ProxyAssumption DEF Routes
      <4>2. \A h \in Names : map'[h] = map[h] \/ map'[h] = {}
        BY <1>1, <2>4, <4>1, ProxyAssumption DEF HostTypes
      <4>3. <<"map", Domain>> \in torn => <<"map", Domain>> \in torn'
        BY <2>4, ProxyAssumption
      <4>4. ~Leaving(j) /\ ~At(j, {"touch", "renameFile", "rename"})
        BY <2>4 DEF Leaving, At
      <4> QED BY <2>4, <4>2, <4>3, <4>4, HostRoutes
    <3> QED BY <3>1, <3>2
  <2> QED BY <2>4, <2>5, HostStepKeeps
<1> QED BY <1>3, <1>4, <1>5

LEMMA BlankKeeps ==
    ASSUME IInvProxy, NEW j \in Jobs, Blank(j)
    PROVE  IInvProxy'
<1>1. JobsSound /\ HostTypes /\ HostsSound /\ scaled \subseteq Upstreams
  BY DEF IInvProxy
<1>2. PICK f : f = Head(todo[j])[2]
  OBVIOUS
<1>3. PICK h : h = Head(todo[j])[3]
  OBVIOUS
<1>4. PICK contents : contents = IF f = "map" THEN map[h] ELSE redirect[h]
  OBVIOUS
<1>5. /\ Doing(j, "blank") /\ UNCHANGED <<hostDirs, map, redirect, Other>>
      /\ UNCHANGED upstreamVars /\ UNCHANGED secondaryVars /\ lock' = lock /\ softLock' = softLock /\ map' = map
      /\ \A A : At(j, A) <=> "blank" \in A
  BY DEF Blank, Other, secondaryVars, Doing, At
<1>6. CASE contents = {} \/ <<f, h>> \in torn
  <2>1. /\ todo' = [todo EXCEPT ![j] = Tail(Tail(@))] /\ torn' = torn
        /\ UNCHANGED <<operation, result, faults, lock>>
    BY <1>2, <1>3, <1>4, <1>5, <1>6 DEF Blank, Arg
  <2>2. /\ Goes(j) /\ todo'[j] \in Seq(StepsOf(Kind(j))) /\ Orderly(Kind(j), todo'[j])
        /\ todo'[j] # <<>> /\ Head(todo'[j])[1] \notin {"scale", "softRelease"}
    BY <1>1, <1>5, <2>1, BlankSkips
  <2>3. JobsSound'
    BY <1>1, <1>5, <2>2, GoesSound
  <2>4. Leaving(j) => map[Domain] = {} \/ <<"map", Domain>> \in torn
    BY <1>2, <1>3, <1>4, <1>6 DEF Leaving
  <2>5. Frame /\ scaled' \subseteq Upstreams
    BY <1>1, <1>5, <2>1 DEF Frame, hostVars, secondaryVars
  <2>6. ~At(j, {"unlink", "touch", "renameFile", "truncate", "write", "rename", "removeRedirect"})
    BY <1>5
  <2> QED BY <1>5, <2>2, <2>3, <2>4, <2>5, <2>6, SoundWhenGoes
<1>7. CASE ~(contents = {} \/ <<f, h>> \in torn)
  <2>1. torn' = torn \cup {<<f, h>>} /\ Advance(j)
    BY <1>2, <1>3, <1>4, <1>7 DEF Blank, Arg
  <2>2. Goes(j) /\ JobsSound' /\ todo'[j] = Tail(todo[j]) /\ Head(todo[j])[1] = "blank"
    BY <1>1, <1>5, <2>1, Passing
  <2>3. h \in Names
    BY <1>3, <2>2, ProxyAssumption DEF Goes, ItemIs
  <2>4. h \in hostDirs
    BY <1>1, <1>4, <1>7, <2>3 DEF HostTypes, Empty
  <2>5. HostTypes' /\ HostsSound'
    BY <1>1, <1>2, <1>3, <1>5, <2>1, <2>4, ByBlank
  <2>6. Routes'
    <3>1. ~Leaving(j) /\ ~At(j, {"touch", "renameFile", "rename"})
      BY <1>5, <2>2 DEF Leaving
    <3> QED BY <1>5, <2>1, <2>2, <3>1, HostRoutes
  <2>7. ~At(j, {"unlink", "touch", "renameFile"})
    BY <1>5
  <2> QED BY <1>5, <2>2, <2>5, <2>6, <2>7, HostStepKeeps
<1> QED BY <1>6, <1>7

LEMMA RenameInFileKeeps ==
    ASSUME IInvProxy, NEW j \in Jobs, RenameInFile(j)
    PROVE  IInvProxy'
<1>1. JobsSound /\ HostTypes /\ HostsSound /\ Routes /\ RenamedFile(j)
  BY DEF IInvProxy, UpstreamsSound
<1>2. /\ HostTypes' /\ HostsSound' /\ Goes(j) /\ At(j, {"rename"})
      /\ map' = IF Head(todo[j])[2] = "map" THEN [map EXCEPT ![Head(todo[j])[3]] = Renamed(@)] ELSE map
      /\ torn' = torn \ {<<Head(todo[j])[2], Head(todo[j])[3]>>}
  BY <1>1, ByRenameInFile
<1>3. Doing(j, "rename") /\ Advance(j) /\ UNCHANGED upstreamVars /\ UNCHANGED secondaryVars /\ lock' = lock
  BY DEF RenameInFile, Other
<1>4. JobsSound'
  BY <1>1, <1>3, Passing DEF secondaryVars
<1>5. Routes'
  BY <1>1, <1>2, <1>3, RoutesRenamed
<1>6. ~At(j, {"unlink", "touch", "renameFile"})
  BY <1>2 DEF At
<1> QED BY <1>2, <1>3, <1>4, <1>5, <1>6, HostStepKeeps

LEMMA StepKeeps ==
    ASSUME IInvProxy, NEW j \in Jobs, Step(j)
    PROVE  IInvProxy'
<1>0. scaled \subseteq Upstreams /\ JobsSound
  BY DEF IInvProxy
<1>1. CASE Acquire(j)
  <2>1. Doing(j, "acquire") /\ Advance(j) /\ Frame /\ scaled' = scaled /\ softLock' = softLock
        /\ lock = None /\ lock' = j
    BY <1>1 DEF Acquire, fileVars, Frame, secondaryVars
  <2> QED BY <1>0, <2>1, PassesSound
<1>2. CASE Release(j)
  <2>1. Doing(j, "release") /\ Advance(j) /\ Frame /\ scaled' = scaled /\ softLock' = softLock /\ lock' = None
    BY <1>2 DEF Release, fileVars, Frame, secondaryVars
  <2> QED BY <1>0, <2>1, PassesSound
<1>3. CASE Scan(j)
  <2>1. CASE UpstreamsReadable
    <3>1. Doing(j, "scan") /\ Advance(j) /\ Frame /\ scaled' = scaled /\ softLock' = softLock /\ lock' = lock
      BY <1>3, <2>1 DEF Scan, Skip, fileVars, Frame, secondaryVars
    <3> QED BY <1>0, <3>1, PassesSound
  <2>2. CASE ~UpstreamsReadable
    <3>1. Doing(j, "scan") /\ Raises(j) /\ faults' = faults
      BY <1>3, <2>2 DEF Scan
    <3> QED BY <2>2, <3>1, RaisesSound DEF Ending
  <2> QED BY <2>1, <2>2
<1>4. CASE Load(j)
  <2>1. CASE <<Arg(j, 2), Arg(j, 3)>> \notin torn
    <3>1. Doing(j, "load") /\ Advance(j) /\ Frame /\ scaled' = scaled /\ softLock' = softLock /\ lock' = lock
      BY <1>4, <2>1 DEF Load, Skip, fileVars, Frame, secondaryVars
    <3> QED BY <1>0, <3>1, PassesSound
  <2>2. CASE <<Arg(j, 2), Arg(j, 3)>> \in torn
    <3>1. Doing(j, "load") /\ Raises(j) /\ faults' = faults
      BY <1>4, <2>2 DEF Load
    <3> QED BY <3>1, RaisesSound DEF Ending
  <2> QED BY <2>1, <2>2
<1>5. CASE SoftAcquire(j)
  <2>1. CASE softLock = None
    <3>1. Doing(j, "softAcquire") /\ Advance(j) /\ Frame /\ scaled' = scaled /\ softLock' = j /\ lock' = lock
      BY <1>5, <2>1 DEF SoftAcquire, Frame
    <3> QED BY <1>0, <2>1, <3>1, PassesSound
  <2>2. CASE softLock # None
    <3>1. Doing(j, "softAcquire") /\ Raises(j) /\ faults' = faults
      BY <1>5, <2>2 DEF SoftAcquire
    <3> QED BY <3>1, RaisesSound DEF Ending
  <2> QED BY <2>1, <2>2
<1>6. CASE Scale(j)
  <2>1. Doing(j, "scale") /\ Advance(j) /\ Frame /\ softLock' = softLock /\ lock' = lock
    BY <1>6 DEF Scale, Frame
  <2>2. Arg(j, 2) \in Upstreams
    BY <1>0, <2>1, Before DEF Doing, ItemIs, Arg
  <2>3. scaled' \subseteq Upstreams
    BY <1>0, <1>6, <2>2 DEF Scale
  <2> QED BY <2>1, <2>3, PassesSound
<1>7. CASE SoftRelease(j)
  <2>1. Doing(j, "softRelease") /\ Advance(j) /\ Frame /\ scaled' = scaled /\ softLock' = None /\ lock' = lock
    BY <1>7 DEF SoftRelease, Frame
  <2> QED BY <1>0, <2>1, PassesSound
<1> QED BY <1>1, <1>2, <1>3, <1>4, <1>5, <1>6, <1>7, UnlinkKeeps, TouchKeeps, WriteStatusKeeps,
           MakeUpstreamKeeps, MoveUpstreamKeeps, RenameFileKeeps, TruncateKeeps, WriteKeeps, RemoveTreeKeeps,
           RemoveRedirectKeeps, RenameHostDirKeeps, BlankKeeps, RenameInFileKeeps DEF Step

\* No job moves; a reader may die in the lock of secondaries.json.
LEMMA IdleKeeps ==
    ASSUME IInvProxy, UNCHANGED <<hostVars, upstreamVars, scaled, lock, operation, todo, result>>,
           \/ softLock' = softLock /\ faults' = faults
           \/ softLock = None /\ softLock' = "stale" /\ faults' = faults + 1
    PROVE  IInvProxy'
<1>1. JobsSound /\ UpstreamTypes /\ UpstreamsSound /\ HostTypes /\ HostsSound /\ Routes /\ scaled \subseteq Upstreams
  BY DEF IInvProxy
<1>2. /\ UNCHANGED hostVars /\ UNCHANGED upstreamVars /\ scaled' = scaled
      /\ lock' = lock /\ operation' = operation /\ todo' = todo /\ result' = result
      /\ hostDirs' = hostDirs /\ map' = map /\ redirect' = redirect /\ torn' = torn
  BY DEF hostVars
<1>3. faults' \in Nat /\ (faults' = 0 => faults = 0 /\ softLock' = softLock)
  BY <1>1, <1>2 DEF JobsSound
<1>4. \A k \in Jobs :
         /\ Kind(k)' = Kind(k) /\ Left(k)' = Left(k) /\ (Busy(k)' <=> Busy(k))
         /\ \A A : (At(k, A)' <=> At(k, A)) /\ (Ahead(k, A)' <=> Ahead(k, A))
         /\ (MapDue(k)' <=> MapDue(k)) /\ Target(k)' = Target(k)
         /\ \A h : (ClearDue(k, h)' <=> ClearDue(k, h)) /\ (UnlinkDue(k, h)' <=> UnlinkDue(k, h))
  BY <1>2 DEF Kind, Left, Busy, At, Ahead, MapDue, ClearDue, UnlinkDue, Target
<1>5. \A kind : Some(kind)' <=> Some(kind)
  BY <1>4 DEF Some
<1>6. JobsSound'
  <2>1. \A k \in Jobs : Shape(k) /\ LockDiscipline(k)
    BY <1>1 DEF JobsSound
  <2>2. \A k \in Jobs : Shape(k)'
    BY <1>2, <1>4, <2>1 DEF Shape
  <2>3. \A k \in Jobs : LockDiscipline(k)'
    <3>1. \A k \in Jobs : softLock' = k <=> softLock = k
      BY ProxyAssumption
    <3> QED BY <1>2, <1>4, <2>1, <3>1 DEF LockDiscipline
  <2>4. OneRename'
    BY <1>1, <1>4 DEF JobsSound, OneRename
  <2>5. softLock' \in Jobs \cup {None, "stale"}
    BY <1>1 DEF JobsSound
  <2> QED BY <1>1, <1>2, <1>3, <2>2, <2>3, <2>4, <2>5 DEF JobsSound
<1>7. /\ \A n : UpstreamsOf(n)' = UpstreamsOf(n)
      /\ Sites' = Sites /\ nested' = nested /\ dirs' = dirs /\ site' = site
  BY <1>2, SameUpstreams
<1>8. UpstreamTypes'
  BY <1>1, <1>2, SameTypes
<1>9. UpstreamsSound'
  <2>1. NoConflict' /\ FileRenamed' /\ Untouched'
    <3>1. \A k \in Jobs : Past(k, "renameFile")' <=> Past(k, "renameFile")
      BY <1>2, <1>4 DEF Past
    <3>2. FileRenamed'
      BY <1>1, <1>3, <1>7, <3>1 DEF UpstreamsSound, FileRenamed, Present
    <3>3. Untouched'
      BY <1>1, <1>2, <1>3, <1>4, <1>5, <1>7 DEF UpstreamsSound, Untouched
    <3> QED BY <1>1, <1>5, <1>7, <3>2, <3>3 DEF UpstreamsSound, NoConflict
  <2>2. Kept'
    <3>1. \A k \in Jobs : Adding(k)' <=> Adding(k)
      BY <1>2, <1>4 DEF Adding
    <3> QED BY <1>1, <1>5, <1>7, <3>1 DEF UpstreamsSound, Kept
  <2>3. \A k \in Jobs : Cleared(k)' /\ RenamedFile(k)'
    <3> SUFFICES ASSUME NEW k \in Jobs PROVE Cleared(k)' /\ RenamedFile(k)'
      OBVIOUS
    <3>1. Cleared(k) /\ RenamedFile(k)
      BY <1>1 DEF UpstreamsSound
    <3> QED BY <1>2, <1>4, <1>7, <3>1 DEF Cleared, RenamedFile
  <2> QED BY <2>1, <2>2, <2>3 DEF UpstreamsSound
<1>10. HostTypes'
  BY <1>1, <1>2 DEF HostTypes, Empty
<1>11. HostsSound'
  <2>1. Whole'
    BY <1>1, <1>2, <1>3, <1>4 DEF HostsSound, Whole
  <2>2. Redirected'
    BY <1>1, <1>2 DEF HostsSound, Redirected
  <2>4. HostRenamed'
    <3>1. \A k \in Jobs : Past(k, "renameHostDir")' <=> Past(k, "renameHostDir")
      BY <1>2, <1>4 DEF Past
    <3> QED BY <1>1, <1>2, <1>3, <1>4, <3>1 DEF HostsSound, HostRenamed
  <2>3. \A k \in Jobs : Writing(k)' /\ Turned(k)'
    <3> SUFFICES ASSUME NEW k \in Jobs PROVE Writing(k)' /\ Turned(k)'
      OBVIOUS
    <3>1. Writing(k) /\ Turned(k)
      BY <1>1 DEF HostsSound
    <3> QED BY <1>2, <1>4, <3>1 DEF Writing, Turned
  <2> QED BY <2>1, <2>2, <2>3, <2>4 DEF HostsSound
<1>12. Routes'
  <2>1. \A k \in Jobs : (OldRoute(k)' <=> OldRoute(k)) /\ (NewRoute(k)' <=> NewRoute(k))
    BY <1>2, <1>4 DEF OldRoute, NewRoute
  <2> QED BY <1>1, <1>2, <1>5, <1>7, <2>1 DEF Routes
<1> QED BY <1>1, <1>2, <1>6, <1>8, <1>9, <1>10, <1>11, <1>12 DEF IInvProxy

LEMMA NextKeeps ==
    ASSUME IInvProxy, NextProxy
    PROVE  IInvProxy'
<1>1. ASSUME NEW j \in Jobs, NEW op \in Operations, Enqueue(j, op) PROVE IInvProxy'
  <2>1. Starts(j)
    BY <1>1, EnqueueStarts DEF IInvProxy
  <2> QED BY <1>1, <2>1, SoundWhenStarts DEF Enqueue
<1>2. ASSUME NEW j \in Jobs, Retry(j) PROVE IInvProxy'
  <2>1. Starts(j)
    BY <1>2, RetryStarts DEF IInvProxy
  <2> QED BY <1>2, <2>1, SoundWhenStarts DEF Retry
<1>3. ASSUME NEW j \in Jobs, JobRaises(j) PROVE IInvProxy'
  BY <1>3, FaultsSound DEF JobRaises, Fault, Raises
<1>4. ASSUME NEW j \in Jobs, JobKilled(j) PROVE IInvProxy'
  <2>1. "stale" # None
    BY ProxyAssumption
  <2> QED BY <1>4, <2>1, FaultsSound DEF JobKilled, Fault
<1>5. ASSUME ReaderKilled PROVE IInvProxy'
  BY <1>5, IdleKeeps DEF ReaderKilled, Fault
<1> QED BY <1>1, <1>2, <1>3, <1>4, <1>5, StepKeeps DEF NextProxy

LEMMA InitSound == InitProxy => IInvProxy
<1> SUFFICES ASSUME InitProxy PROVE IInvProxy
  OBVIOUS
<1>1. \A j \in Jobs : /\ operation[j] = <<>> /\ todo[j] = <<>> /\ result[j] = "idle" /\ lock # j /\ softLock # j
                      /\ Kind(j) = "none" /\ Left(j) = {} /\ (\A A : ~At(j, A)) /\ ~Busy(j)
  BY NothingLeft, ProxyAssumption DEF InitProxy, Kind, At, Busy
<1>2. <<>> \in Seq(StepsOf("none")) /\ Orderly("none", <<>>)
  <2>1. Len(<<>>) = 0
    OBVIOUS
  <2>2. 1..0 = {}
    OBVIOUS
  <2> QED BY <2>1, <2>2 DEF Orderly, Followed, SameFile, Toward, NeverAfter
<1>3. JobsSound
  <2>1. \A j \in Jobs : Shape(j) /\ LockDiscipline(j)
    BY <1>1, <1>2 DEF Shape, LockDiscipline
  <2>2. OneRename
    BY <1>1 DEF OneRename
  <2> QED BY <2>1, <2>2, ProxyAssumption DEF JobsSound, InitProxy
<1>4. UpstreamTypes
  <2>1. site \in [Upstreams -> [Names -> Statuses \cup {"absent"}]]
    BY DEF InitProxy, Statuses
  <2> QED BY <2>1, ProxyAssumption DEF UpstreamTypes, InitProxy
<1>5. \A u \in Upstreams, n \in Names : Present(u, n) <=> u = Home /\ n = Site
  BY DEF InitProxy, Present
<1>6. /\ UpstreamsOf(Site) = {Home} /\ \A n \in Names : n # Site => UpstreamsOf(n) = {}
  BY <1>5, ProxyAssumption DEF UpstreamsOf, InitProxy
<1>7. UpstreamsSound
  <2>1. NoConflict /\ Sites # {}
    BY <1>6 DEF NoConflict, Sites
  <2>2. \A u \in Upstreams : ~Present(u, NewName)
    BY <1>5, ProxyAssumption
  <2> QED BY <1>1, <2>1, <2>2 DEF UpstreamsSound, Kept, FileRenamed, Untouched, Cleared, RenamedFile
<1>8. HostTypes
  BY ProxyAssumption DEF HostTypes, InitProxy, Empty
<1>9. HostsSound
  <2>1. /\ hostDirs = {Domain} /\ torn = {} /\ softLock = None /\ \A h \in Names : redirect[h] = {}
    BY DEF InitProxy
  <2> QED BY <1>1, <2>1, ProxyAssumption
      DEF HostsSound, Whole, Redirected, HostRenamed, Writing, Turned
<1>10. Routes
  <2>1. map[Domain] = {<<Domain, Site>>} /\ \A h \in Names : h # Domain => map[h] = {}
    BY ProxyAssumption DEF InitProxy
  <2> QED BY <1>6, <2>1, ProxyAssumption DEF Routes
<1> QED BY <1>3, <1>4, <1>7, <1>8, <1>9, <1>10 DEF IInvProxy, InitProxy

(***************************************************************************)
(* What no step undoes.                                                    *)
(***************************************************************************)

\* The redirect of the domain has the new name of the site from a rename.
NamedByRename == <<Domain, NewName>> \in redirect[Domain] => Some("renameSite")

\* Steps neither order jobs nor count as failures.
LEMMA StepsKeepOperations ==
    ASSUME NEW j \in Jobs, Step(j)
    PROVE  operation' = operation /\ faults' = faults
<1>1. CASE Acquire(j) \/ Release(j) \/ Scan(j) \/ Unlink(j) \/ Touch(j) \/ WriteStatus(j) \/ MakeUpstream(j)
  BY <1>1 DEF Acquire, Release, Scan, Unlink, Touch, WriteStatus, MakeUpstream, Skip, Advance, Raises, Fails
<1>2. CASE MoveUpstream(j) \/ RenameFile(j) \/ Truncate(j) \/ Write(j) \/ Load(j) \/ RemoveTree(j)
  BY <1>2 DEF MoveUpstream, RenameFile, Truncate, Write, Load, RemoveTree, Skip, Advance, Raises, Fails
<1>3. CASE RemoveRedirect(j) \/ RenameHostDir(j) \/ Blank(j) \/ RenameInFile(j)
  BY <1>3 DEF RemoveRedirect, RenameHostDir, Blank, RenameInFile, Skip, Advance, Raises, Fails
<1>4. CASE SoftAcquire(j) \/ Scale(j) \/ SoftRelease(j)
  BY <1>4 DEF SoftAcquire, Scale, SoftRelease, Skip, Advance, Raises, Fails
<1> QED BY <1>1, <1>2, <1>3, <1>4 DEF Step

\* What the properties except, once true, stays true.
LEMMA KindsRemain ==
    ASSUME IInvProxy, NextProxy
    PROVE  /\ \A kind : kind # "none" /\ Some(kind) => Some(kind)'
           /\ faults > 0 => faults' > 0
<1>1. JobsSound
  BY DEF IInvProxy
<1>2. ASSUME NEW k \in Jobs, Kind(k) # "none" PROVE Kind(k)' = Kind(k)
  <2>1. operation[k] # <<>>
    BY <1>2 DEF Kind
  <2>2. ASSUME NEW j \in Jobs, NEW op \in Operations, Enqueue(j, op) PROVE operation'[k] = operation[k]
    <3>1. operation[j] = <<>>
      BY <1>1, <2>2 DEF Enqueue, JobsSound, Shape
    <3> QED BY <1>1, <2>1, <2>2, <3>1 DEF Enqueue, JobsSound
  <2>3. operation'[k] = operation[k]
    BY <2>2, StepsKeepOperations DEF NextProxy, Retry, JobRaises, JobKilled, Raises, Fails, ReaderKilled
  <2> QED BY <2>3 DEF Kind
<1>3. \A kind : kind # "none" /\ Some(kind) => Some(kind)'
  BY <1>2 DEF Some
<1>4. faults \in Nat
  BY <1>1 DEF JobsSound
<1>5. faults > 0 => faults' > 0
  BY <1>4, StepsKeepOperations DEF NextProxy, Enqueue, Retry, JobRaises, JobKilled, ReaderKilled, Fault
<1> QED BY <1>3, <1>5

\* Only a rename brings the new name into a redirect.
LEMMA NamedKeeps ==
    ASSUME IInvProxy, NamedByRename, NextProxy
    PROVE  NamedByRename'
<1> SUFFICES ASSUME <<Domain, NewName>> \in redirect'[Domain], <<Domain, NewName>> \notin redirect[Domain]
             PROVE  Some("renameSite")
  BY KindsRemain DEF NamedByRename
<1>1. JobsSound /\ redirect \in [Names -> SUBSET (Names \X Names)]
  BY DEF IInvProxy, HostTypes
<1>2. ASSUME NEW j \in Jobs, Write(j) PROVE FALSE
  <2>1. PICK h : h = Head(todo[j])[3]
    OBVIOUS
  <2>2. PICK target : target = Head(todo[j])[4]
    OBVIOUS
  <2>3. todo[j] # <<>> /\ Head(todo[j])[1] = "write"
    BY <1>2 DEF Write, Doing
  <2>4. h \in {Site, Domain} /\ target \in {Site, Domain}
    BY <1>1, <2>1, <2>2, <2>3, Before DEF ItemIs
  <2>5. \/ redirect' = redirect
        \/ redirect' = [redirect EXCEPT ![h] = {p \in @ : p[1] # h} \cup {<<h, target>>}]
    BY <1>2, <2>1, <2>2 DEF Write, Arg
  <2> QED BY <1>1, <2>4, <2>5, ProxyAssumption
<1>3. ASSUME NEW j \in Jobs, RemoveTree(j) \/ RemoveRedirect(j) PROVE FALSE
  BY <1>1, <1>3, ProxyAssumption DEF RemoveTree, RemoveRedirect
<1>4. ASSUME NEW j \in Jobs, RenameHostDir(j) \/ RenameInFile(j) PROVE Some("renameSite")
  <2>1. todo[j] # <<>> /\ Head(todo[j])[1] \in {"renameHostDir", "rename"}
    BY <1>4 DEF RenameHostDir, RenameInFile, Doing
  <2>2. Kind(j) = "renameSite"
    BY <1>1, <2>1, Before DEF ItemIs
  <2> QED BY <2>2 DEF Some
<1>5. ASSUME NEW j \in Jobs, Step(j) PROVE Some("renameSite")
  <2>1. CASE \/ Acquire(j) \/ Release(j) \/ Scan(j) \/ Unlink(j) \/ Touch(j) \/ WriteStatus(j) \/ MakeUpstream(j)
             \/ MoveUpstream(j) \/ RenameFile(j)
    BY <2>1 DEF Acquire, Release, Scan, Unlink, Touch, WriteStatus, MakeUpstream, MoveUpstream, RenameFile,
                Skip, Raises, SetFile, fileVars, hostVars
  <2>2. CASE Truncate(j) \/ Load(j) \/ Blank(j) \/ SoftAcquire(j) \/ Scale(j) \/ SoftRelease(j)
    BY <2>2 DEF Truncate, Load, Blank, SoftAcquire, Scale, SoftRelease, Skip, Raises, fileVars, hostVars
  <2> QED BY <1>2, <1>3, <1>4, <1>5, <2>1, <2>2 DEF Step
<1>6. ASSUME redirect' = redirect PROVE FALSE
  BY <1>6
<1>7. ASSUME NEW j \in Jobs, NEW op \in Operations, Enqueue(j, op) PROVE redirect' = redirect
  BY <1>7 DEF Enqueue, fileVars, hostVars
<1>8. ASSUME NEW j \in Jobs, Retry(j) \/ JobRaises(j) \/ JobKilled(j) PROVE redirect' = redirect
  BY <1>8 DEF Retry, JobRaises, JobKilled, Raises, fileVars, hostVars
<1>9. ASSUME ReaderKilled PROVE redirect' = redirect
  BY <1>9 DEF ReaderKilled, hostVars
<1> QED BY <1>5, <1>6, <1>7, <1>8, <1>9 DEF NextProxy

(***************************************************************************)
(* With the reloads.                                                       *)
(***************************************************************************)

IInvReload == IInvProxy /\ NamedByRename /\ NoOutage /\ reloadError \in {None, "text"}

\* A directory that is read with the flock free has the site, without failures.
LEMMA SiteIsThere ==
    ASSUME IInvProxy, lock = None, nested = {}, ~(faults > 0), ~Some("removeSite")
    PROVE  \E u \in Upstreams : Served(site[u])
<1>1. JobsSound /\ Untouched /\ UpstreamTypes
  BY DEF IInvProxy, UpstreamsSound
<1>2. faults = 0
  BY <1>1 DEF JobsSound
<1>3. Sites # {}
  BY <1>1, <1>2, ProxyAssumption DEF Untouched
<1>4. PICK u \in dirs : Present(u, Site) \/ Present(u, NewName)
  BY <1>3 DEF Sites, UpstreamsOf
<1> QED BY <1>1, <1>4 DEF Served, Present, UpstreamTypes

LEMMA ReloadInit == InitReload => IInvReload
<1> SUFFICES ASSUME InitReload PROVE IInvReload
  OBVIOUS
<1>1. IInvProxy
  BY InitSound DEF InitReload
<1>2. NamedByRename
  BY ProxyAssumption DEF InitReload, InitProxy, NamedByRename
<1>3. NoOutage
  <2>1. site[Home][Site] = "active" /\ loaded = site
    BY ProxyAssumption DEF InitReload, InitProxy
  <2> QED BY <2>1, ProxyAssumption DEF NoOutage, Served
<1> QED BY <1>1, <1>2, <1>3 DEF IInvReload, InitReload

LEMMA ReloadNext ==
    ASSUME IInvReload, [NextReload]_reloadVars
    PROVE  IInvReload'
<1>1. IInvProxy /\ NamedByRename /\ NoOutage /\ reloadError \in {None, "text"}
  BY DEF IInvReload
<1>2. ASSUME UNCHANGED directoryVars PROVE IInvProxy' /\ NamedByRename' /\ \A kind : Some(kind)' <=> Some(kind)
  <2>1. /\ UNCHANGED <<hostVars, upstreamVars, scaled, lock, operation, todo, result>>
        /\ softLock' = softLock /\ faults' = faults /\ operation' = operation /\ redirect' = redirect
    BY <1>2 DEF directoryVars, fileVars, secondaryVars, hostVars
  <2>2. IInvProxy'
    BY <1>1, <2>1, IdleKeeps
  <2>3. \A kind : Some(kind)' <=> Some(kind)
    BY <2>1 DEF Some, Kind
  <2> QED BY <1>1, <2>1, <2>2, <2>3 DEF NamedByRename
<1>3. NoOutage <=> (\E u \in Upstreams : Served(loaded[u])) \/ faults > 0 \/ Some("removeSite")
  BY DEF NoOutage, Some
<1>4. NoOutage' <=> (\E u \in Upstreams : Served(loaded'[u])) \/ faults' > 0 \/ Some("removeSite")'
  BY DEF NoOutage, Some, Served
<1>5. CASE JobMoves
  <2>1. NextProxy /\ loaded' = loaded /\ reloadError' = reloadError
    BY <1>5 DEF JobMoves
  <2>2. IInvProxy' /\ NamedByRename'
    BY <1>1, <2>1, NextKeeps, NamedKeeps
  <2>3. NoOutage'
    BY <1>1, <1>3, <1>4, <2>1, KindsRemain
  <2> QED BY <1>1, <2>1, <2>2, <2>3 DEF IInvReload
<1>6. CASE Reload
  <2>1. UNCHANGED directoryVars /\ reloadError' \in {None, "text"} /\ lock = None
        /\ (loaded' = loaded \/ (loaded' = site /\ nested = {}))
    BY <1>6 DEF Reload, Readable, UpstreamsReadable
  <2>2. faults' = faults
    BY <2>1 DEF directoryVars
  <2>3. NoOutage'
    BY <1>1, <1>2, <1>3, <1>4, <2>1, <2>2, SiteIsThere
  <2> QED BY <1>2, <2>1, <2>3 DEF IInvReload
<1>7. CASE AutoFix
  <2>1. site' = site /\ reloadError' = None /\ loaded' = loaded
    BY <1>1, <1>7 DEF AutoFix
  <2>2. UNCHANGED directoryVars
    BY <1>7, <2>1 DEF AutoFix, directoryVars, fileVars, upstreamVars
  <2>3. faults' = faults
    BY <2>2 DEF directoryVars
  <2> QED BY <1>1, <1>2, <1>3, <1>4, <2>1, <2>2, <2>3 DEF IInvReload
<1>8. CASE UNCHANGED reloadVars
  <2>1. UNCHANGED directoryVars /\ loaded' = loaded /\ reloadError' = reloadError
    BY <1>8 DEF reloadVars
  <2>2. faults' = faults
    BY <2>1 DEF directoryVars
  <2> QED BY <1>1, <1>2, <1>3, <1>4, <2>1, <2>2 DEF IInvReload
<1> QED BY <1>5, <1>6, <1>7, <1>8 DEF NextReload

\* The invariant that carries all properties of the proxy, for the directory
\* and what NGINX makes of it.
THEOREM ReloadInvariant == SpecReload => []IInvReload
<1> QED BY ReloadInit, ReloadNext, PTL DEF SpecReload

(***************************************************************************)
(* What follows from it.                                                   *)
(***************************************************************************)

\* The invariant has the properties.
LEMMA HasNoConflict == IInvProxy => SitesAreSound
<1> SUFFICES ASSUME IInvProxy PROVE SitesAreSound
  OBVIOUS
<1>1. JobsSound /\ UpstreamTypes /\ HostTypes /\ NoConflict /\ scaled \subseteq Upstreams
  BY DEF IInvProxy, UpstreamsSound
<1>2. DirectoryTypeOK
  <2>1. \A h \in Names : map[h] \cup redirect[h] \subseteq Names \X Names
    BY <1>1 DEF HostTypes
  <2> QED BY <1>1, <2>1 DEF DirectoryTypeOK, JobsSound, UpstreamTypes, HostTypes, Files
<1>3. ConflictFree
  <2> SUFFICES ASSUME ~Some("updateStatus"), NEW n \in Names PROVE Cardinality(UpstreamsOf(n)) <= 1
    BY DEF ConflictFree, Some
  <2>1. \A u, v \in UpstreamsOf(n) : u = v
    BY <1>1 DEF NoConflict
  <2>2. CASE UpstreamsOf(n) = {}
    BY <2>2, FS_EmptySet
  <2>3. CASE UpstreamsOf(n) # {}
    <3>1. PICK u : UpstreamsOf(n) = {u}
      BY <2>1, <2>3
    <3>2. Cardinality({u}) = 1
      BY FS_Singleton
    <3> QED BY <3>1, <3>2
  <2> QED BY <2>2, <2>3
<1> QED BY <1>2, <1>3 DEF SitesAreSound

LEMMA HasNoLoss == IInvProxy => NoSilentLoss
<1> SUFFICES ASSUME IInvProxy, lock = None, nested = {}, Sites = {}, ~Some("removeSite")
             PROVE  \E j \in Jobs : result[j] \in {"failed", "retrying"}
  BY DEF NoSilentLoss, Sites, Some
<1>1. PICK j \in Jobs : Adding(j)
  BY DEF IInvProxy, UpstreamsSound, Kept
<1> QED BY <1>1, ProxyAssumption DEF Adding

LEMMA HasRoutes == IInvProxy => NoDanglingRoute
<1> SUFFICES ASSUME IInvProxy, Settled, nested = {}, ~Some("removeSite"), ~Some("addHost"),
                    NEW h \in Names, <<"map", h>> \notin torn, NEW route \in map[h]
             PROVE  UpstreamsOf(route[2]) # {}
  BY DEF NoDanglingRoute, Some
<1>1. \A j \in Jobs : result[j] # "failed" /\ Left(j) = {}
  BY NothingLeft DEF IInvProxy, JobsSound, Shape, Settled, Busy
<1>2. \A j \in Jobs : ~OldRoute(j) /\ ~NewRoute(j)
  BY <1>1 DEF OldRoute, NewRoute, Ahead, MapDue
<1>3. /\ \A g \in Names : g # Domain => map[g] = {}
      /\ map[Domain] \subseteq {<<Domain, Site>>} \/ map[Domain] \subseteq {<<Domain, NewName>>}
      /\ <<Domain, Site>> \in map[Domain] /\ <<"map", Domain>> \notin torn => UpstreamsOf(Site) # {}
      /\ <<Domain, NewName>> \in map[Domain] => UpstreamsOf(NewName) # {}
  BY <1>2 DEF IInvProxy, Routes
<1>4. h = Domain /\ route \in {<<Domain, Site>>, <<Domain, NewName>>}
  BY <1>3
<1> QED BY <1>3, <1>4

LEMMA HasHosts == IInvProxy /\ NamedByRename => HostsAreSound
<1> SUFFICES ASSUME IInvProxy, NamedByRename PROVE HostsAreSound
  OBVIOUS
<1>1. JobsSound /\ HostTypes /\ Whole /\ Redirected /\ HostRenamed
  BY DEF IInvProxy, HostsSound
<1>2. ReadableWithoutFaults
  <2> SUFFICES ASSUME faults = 0, nested = {}, lock = None PROVE softLock = None /\ torn = {}
    BY DEF ReadableWithoutFaults, Readable, UpstreamsReadable
  <2>1. \A k \in Jobs : lock # k
    BY ProxyAssumption
  <2>2. torn = {}
    BY <1>1, <2>1, NothingTorn
  <2>3. \A k \in Jobs : softLock # k
    <3> SUFFICES ASSUME NEW k \in Jobs, softLock = k PROVE FALSE
      OBVIOUS
    <3>1. LockDiscipline(k)
      BY <1>1 DEF JobsSound
    <3> QED BY <2>1, <3>1 DEF LockDiscipline, At
  <2> QED BY <1>1, <2>2, <2>3 DEF Whole, JobsSound
<1>3. NoRedirectLoop
  <2> SUFFICES ASSUME NEW g \in Names, NEW h \in Names, <<g, h>> \in redirect[g], <<h, g>> \in redirect[h]
               PROVE  faults > 0 /\ Some("renameSite")
    BY DEF NoRedirectLoop, Some
  <2>1. \/ g = Domain /\ h = NewName
        \/ g = NewName /\ h = Domain
    BY <1>1, ProxyAssumption DEF Redirected
  <2>2. <<Domain, NewName>> \in redirect[Domain] /\ redirect[NewName] # {}
    BY <2>1
  <2> QED BY <1>1, <2>2 DEF HostRenamed, NamedByRename, JobsSound
<1> QED BY <1>2, <1>3 DEF HostsAreSound

\* No generated configuration has a site in two upstreams, unless a status
\* update wrote back a file that was moved, and the directory keeps its shape:
\* add_site_to_upstream, remove_site_from_upstream and rename_site, whatever
\* fails between their steps.
THEOREM UpstreamsNeverConflict == SpecReload => []SitesAreSound
<1>1. IInvReload => SitesAreSound
  BY HasNoConflict DEF IInvReload
<1> QED BY <1>1, ReloadInvariant, PTL

\* No job that reads Success has lost a site that nobody removes.
THEOREM NothingIsLostSilently == SpecReload => []NoSilentLoss
<1>1. IInvReload => NoSilentLoss
  BY HasNoLoss DEF IInvReload
<1> QED BY <1>1, ReloadInvariant, PTL

\* When all jobs are done, the routes of the hosts lead to sites that are there:
\* rename_site takes the routes along, also when it was retried.
THEOREM RoutesLead == SpecReload => []NoDanglingRoute
<1>1. IInvReload => NoDanglingRoute
  BY HasRoutes DEF IInvReload
<1> QED BY <1>1, ReloadInvariant, PTL

\* Without failures every generator of the configuration can read the directory
\* in full, and no two domains redirect to each other, unless a rename failed.
THEOREM HostsStaySound == SpecReload => []HostsAreSound
<1>1. IInvReload => HostsAreSound
  BY HasHosts DEF IInvReload
<1> QED BY <1>1, ReloadInvariant, PTL

\* Without failures NGINX serves a site that nobody removes without a gap:
\* _generate_proxy_config reads the directory with the proxy lock held.
THEOREM NginxKeepsServing == SpecReload => []NoOutage
<1>1. IInvReload => NoOutage
  BY DEF IInvReload
<1> QED BY <1>1, ReloadInvariant, PTL

=============================================================================
