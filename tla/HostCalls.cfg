\* One call with up to two callbacks, to a host of today or an old one.
CONSTANTS
    Calls = {c1}
    p1 = p1
    Profiles = {p1}
    DefaultProfile = pDefault
    Requests <- MCRequests
    Secrets = {s1, s2}
    Hosts <- MCHosts
    MaxCallbacks = 2
SPECIFICATION Spec
INVARIANTS
    ContextExact
    ProfileReachesHost
    ReadsOwnWrites
    OldHostTold
    UnimplementedHasACause
PROPERTY OnlyTheUserIsWaitedFor
CHECK_DEADLOCK FALSE
