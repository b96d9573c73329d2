\* One configuration, whose bytes the plugin keeps.
CONSTANTS
    Configs = {g1}
    Execs = {e1}
    Keys = {k1}
    Values = {v1, v2}
    Absent = Absent
    NoMap = NoMap
SPECIFICATION Spec
INVARIANT StoredCopyIndependent
CHECK_DEADLOCK FALSE
