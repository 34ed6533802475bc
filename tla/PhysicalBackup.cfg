SPECIFICATION Spec
CONSTANTS
    d1 = d1
    d2 = d2
    j1 = j1
    j2 = j2
    Jobs = {j1, j2}
    DatabasesOf <- OppositeOrders
    Tables = {t1}
    Faults = {"killed", "disconnected"}
    MaxFaults = 1
    MaxWrites = 1
    MaxRetries = 0
    None = None
INVARIANTS BackupIsSound SuccessMeansRestorable
PROPERTIES EveryBackupEnds
CHECK_DEADLOCK FALSE
