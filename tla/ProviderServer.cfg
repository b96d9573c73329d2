\* Three concurrent calls for one provider.
CONSTANTS
    Calls = {c1, c2, c3}
    NoCall = NoCall
    Providers = {p1}
SPECIFICATION Spec
INVARIANTS
    NoClientOnlyIfStopped
    DeadClientOnlyIfStoppedUnderCall
    ReadsAnsweredConfiguration
    StoredIsAccepted
PROPERTIES
    EveryCallAnswered
    ImplementsHostSlot
CHECK_DEADLOCK FALSE
