\* Two configurations and two executions of one setting.
CONSTANTS
    Configs = {g1, g2}
    Execs = {e1, e2}
    Keys = {k1}
    Values = {v1, v2}
    Absent = Absent
    NoMap = NoMap
SPECIFICATION Spec
SYMMETRY Symmetry
INVARIANTS
    NoMapRace
    StoredBaseIntact
    ExecSettingsExact
CHECK_DEADLOCK FALSE
