CONSTANTS
    Jobs = {j1, j2, j3}
    Upstreams = {u1, u2}
    Names = {s, t, d}
    DefaultHosts = {s, t}
    Site = s
    Home = u1
    Domain = d
    NewName = t
    Kinds = {"addSite", "removeSite", "renameSite", "updateStatus", "addUpstream", "renameUpstream"}
    ProxyFaults = {"killed", "raised"}
    MaxFaults = 2
    None = None
SPECIFICATION SpecReload
SYMMETRY JobSymmetry
INVARIANTS SitesAreSound NoSilentLoss NoOutage
CHECK_DEADLOCK FALSE
