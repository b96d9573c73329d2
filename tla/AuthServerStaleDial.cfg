\* Two configurations and a stop.
CONSTANTS
    Calls = {c1, c2, c3}
    NoCall = NoCall
    Handlers = {h1}
    AllHandlers = AllHandlers
SPECIFICATION SafeSpec
SYMMETRY Symmetry
INVARIANT StaleDialIsClosed
CHECK_DEADLOCK FALSE
