SPECIFICATION Spec
CONSTANTS
    Users = {u1}
    BatchIds = {b1, b2}
    SensorIds = {s1}
    AssocIds = {a1, a2}
    Workers = {w1, w2}
    UpdateStarts = {0}
    UpdateEnds = {1}
    MaxTime = 0
    NULL = NULL
    Unborn = Unborn
    Dead = Dead
SYMMETRY KeySymmetry
INVARIANTS
    OneActivePerSensor
CHECK_DEADLOCK FALSE
