SPECIFICATION SSpec
CONSTANTS
    Users = {u1, u2}
    BatchIds = {b1, b2}
    SensorIds = {s1}
    AssocIds = {a1, a2}
    Workers = {w1}
    Editors = {e1, e2}
    Names = {n1, n2}
    BadName = BadName
    UpdateStarts = {0}
    UpdateEnds = {1}
    MaxTime = 1
    NULL = NULL
    Unborn = Unborn
    Dead = Dead
SYMMETRY KeySymmetry
INVARIANTS
    STypeOK
    OneActivePerSensor
PROPERTIES
    RenamesChangeNoOwner
    OnlyOwnerRenames
CHECK_DEADLOCK FALSE
