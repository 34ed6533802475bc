CONSTANTS
    Setters = {p1, p2, p3}
    Adders = {a1}
    Removers = {}
    FileFaults = {"death", "copy"}
    MaxFileFaults = 2
    Original = Original
    Nothing = Nothing
SPECIFICATION FairFileSpec
INVARIANTS NoUpdateLost FileIsSound
PROPERTIES EveryJobEnds
CHECK_DEADLOCK FALSE
