SPECIFICATION RSpec
CONSTANTS
    Users = {u1, u2}
    BatchIds = {b1, b2}
    SensorIds = {s1}
    AssocIds = {a1, a2}
    Workers = {w1}
    UpdateStarts = {0}
    UpdateEnds = {0}
    MaxTime = 0
    MeasIds = {m1}
    Posters = {p1}
    RecordedTimes = {0}
    Readers = {r1}
    Aliases = {f1, f2}
    NULL = NULL
    Unborn = Unborn
    Dead = Dead
SYMMETRY KeySymmetry
INVARIANTS
    RTypeOK
    ResponseOwn
    FailuresExplained
    AliasesAgreeUnlessRaced
CHECK_DEADLOCK FALSE
