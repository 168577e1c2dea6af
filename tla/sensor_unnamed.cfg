SPECIFICATION SSpec
CONSTANTS
    Users = {u1}
    BatchIds = {b1}
    SensorIds = {s1}
    AssocIds = {a1}
    Workers = {w1}
    Editors = {e1}
    Names = {n1}
    BadName = BadName
    UpdateStarts = {0}
    UpdateEnds = {1}
    MaxTime = 0
    NULL = NULL
    Unborn = Unborn
    Dead = Dead
SYMMETRY KeySymmetry
INVARIANTS
    NameIsOptional
CHECK_DEADLOCK FALSE
