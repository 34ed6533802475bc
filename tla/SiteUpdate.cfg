CONSTANTS
    NumBenches = 3
    Tables = {kept, altered, created}
    Changes <- UpdateChanges
    Neighbours = {n1}
    BenchOf <- NeighbourBench
    Faults = {"killed", "raised", "repeated"}
    MaxFaults = 2
    MaxUpdates = 2
    MaxWrites = 1
    None = None
    n1 = n1
    kept = kept
    altered = altered
    created = created
SPECIFICATION FairSpec
INVARIANTS ServedIntact UpdateIsSound RoutedWhereItIs
PROPERTIES ServedAgain
CHECK_DEADLOCK FALSE
