\* Four concurrent calls: up to three Logins and Logouts before or under a read.
CONSTANTS
    Calls = {c1, c2, c3, c4}
    NoTime = NoTime
    Nil = Nil
SPECIFICATION Spec
SYMMETRY Symmetry
INVARIANT FieldsFromLastWriters
CHECK_DEADLOCK FALSE
