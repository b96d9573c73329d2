\* Three concurrent calls, two clusters, a clock that outlives a session.
CONSTANTS
    Calls = {c1, c2, c3}
    Hosts = {d, h1}
    Default = d
    Lifetime = 1
    MaxTime = 3
SPECIFICATION Spec
SYMMETRY Symmetry
INVARIANTS
    LoggedOutStaysOut
    PurgedStaysGone
    LoginIsSeen
PROPERTY OnlyExpiredPurged
CHECK_DEADLOCK FALSE
