SPECIFICATION Spec
CONSTANTS
    Sessions = {s1, s2, s3}
    Requests <- AllRequests
    Privileges <- AllPrivileges
    Initial <- InitialPrivileges
SYMMETRY Perms
INVARIANTS QueriesAreAtomic
PROPERTIES PrivilegesAsWanted
CHECK_DEADLOCK FALSE
