SPECIFICATION Spec
CONSTANTS
    plain = plain
    indexed = indexed
    myisam = myisam
    Tables = {plain, indexed, myisam}
    InnoDB = {plain, indexed}
    Indexed = {indexed}
    Existing = {indexed, myisam}
    Backups <- AllBackups
    Requests <- AllRequests
    Faults = {"killed", "raised", "disconnected"}
    MaxFaults = 3
    None = None
INVARIANTS RestoreIsSound BadBackupTouchesNothing
PROPERTIES RestoreSucceeds
CHECK_DEADLOCK FALSE
