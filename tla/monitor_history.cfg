SPECIFICATION MSpec
CONSTANTS
    Users = {u1, u2}
    BatchIds = {b1, b2}
    SensorIds = {s1, s2}
    AssocIds = {a1, a2}
    Workers = {w1}
    UpdateStarts = {0, 1}
    UpdateEnds = {1}
    MaxTime = 1
    MeasIds = {m1}
    Posters = {p1}
    RecordedTimes = {0, 1}
    NULL = NULL
    Unborn = Unborn
    Dead = Dead
SYMMETRY KeySymmetry
INVARIANTS
    MTypeOK
    MeasurementOwnersAgree
    PostLookupsHold
    NoForeignAttribution
    QueriesAgree
PROPERTIES
    AttributionStable
    MeasurementKept
CHECK_DEADLOCK FALSE
