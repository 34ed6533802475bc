CONSTANTS
    Requests = {r1, r2}
    BatchSize = 1
    NumWorkers = 1
    Faults = {"job", "redis", "systemctl", "signal", "crash"}
    MaxDisruptions = 1
SPECIFICATION FairSpec
INVARIANTS TypeOK SuccessMeansLive ReportedSuccessMeansLive ClaimedJobsAreFront DyingWorkersBounded
PROPERTIES EveryRequestSettled RequestsAreKept ImplementsService
