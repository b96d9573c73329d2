\* Three concurrent calls: two dials and a stop, or a stop, a failed and a new configuration.
CONSTANTS
    Calls = {c1, c2, c3}
    NoCall = NoCall
    Handlers = {h1}
    AllHandlers = AllHandlers
SPECIFICATION Spec
INVARIANTS
    NoConnLeak
    ClientUsable
    StoppedMeansDisconnected
    NoClientOnlyIfClosed
    DeadClientOnlyIfClosedUnderCall
PROPERTIES
    SlowDialBlocksNobodyElse
    ImplementsHostSlot
CHECK_DEADLOCK FALSE
