CONSTANTS
    Jobs = {j1, j2}
    Upstreams = {u1, u2}
    Names = {s, t, d}
    DefaultHosts = {s, t}
    Site = s
    Home = u1
    Domain = d
    NewName = t
    Kinds = {"addSite", "removeSite", "renameSite", "addHost", "removeHost", "redirects", "removeRedirect", "scale"}
    ProxyFaults = {"killed", "raised", "reader"}
    MaxFaults = 2
    None = None
SPECIFICATION FairReload
INVARIANTS NoDanglingRoute HostsAreSound
PROPERTIES EventuallyReadable DirectoryGoesLive
CHECK_DEADLOCK FALSE
