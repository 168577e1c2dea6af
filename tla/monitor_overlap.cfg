SPECIFICATION MSpec
CONSTANTS
    Users = {u1}
    BatchIds = {b1, b2}
    SensorIds = {s1}
    AssocIds = {a1, a2}
    Workers = {w1}
    UpdateStarts = {0, 1}
    UpdateEnds = {1}
    MaxTime = 1
    MeasIds = {m1}
    Posters = {p1}
    RecordedTimes = {0, 1}
    NULL = NULL
    Unborn = Unborn
    Dead = Dead
SYMMETRY KeySymmetry
INVARIANTS
    UniqueAttribution
CHECK_DEADLOCK FALSE
