SPECIFICATION Spec
CONSTANTS
    Jobs <- PruneJobs
    Orders <- PruneOrders
    Kind <- Kinds
    ImageOf <- PruneMade
    SiteOf <- Chosen
    NameOf <- Named
    Sites = {"a", "b"}
    FirstImages = {1}
    MaxFaults = 0
    None = None
INVARIANTS RecoveryStartsAgain
CHECK_DEADLOCK FALSE
