SPECIFICATION Spec
CONSTANTS
    Jobs <- AllJobs
    Orders <- AllOrders
    Kind <- Kinds
    ImageOf <- Made
    SiteOf <- Chosen
    NameOf <- Named
    Sites = {"a", "b"}
    FirstImages = {1}
    MaxFaults = 2
    None = None
INVARIANTS NewSiteStaysRouted JobsTidyUp
PROPERTIES  SuccessIsComplete
CHECK_DEADLOCK FALSE
