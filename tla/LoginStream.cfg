\* Two goroutines with two prompts each.
CONSTANTS
    Workers = {w1, w2}
    Handler = Handler
    MaxPrompts = 2
SPECIFICATION LoginSpec
INVARIANTS
    OutcomeHeardOnce
PROPERTIES
    LoginImplementsServerStream
CHECK_DEADLOCK FALSE
