SPECIFICATION Spec
CONSTANTS
    purge = purge
    upload1 = upload1
    upload2 = upload2
    index = index
    unindex = unindex
    Jobs = {purge, upload1, upload2, index, unindex}
    Orders <- Orders1
    Kind <- Kinds1
    List <- Lists1
    MaxBytes = 1
    MaxSize = 2
    MaxBinlog = 4
    MaxKills = 1
    None = None
INVARIANTS ReportsHold
PROPERTIES PurgesOnlyWhatItMust
CHECK_DEADLOCK FALSE
