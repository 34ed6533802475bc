CONSTANTS
    Jobs = {j1, j2}
    Workers = {w1, w2}
    Requests = {c1}
    NumSteps = 2
    Faults = {"sqlite", "horse", "worker", "callback"}
    MaxFaults = 1
    NoJob = NoJob
SPECIFICATION FairSpec
INVARIANTS ReportedSuccessMeansCompleted QueueIsSound
PROPERTIES CancelIsRespected JobsAreReported
CHECK_DEADLOCK FALSE
