SPECIFICATION Spec
CONSTANTS
    Users = {u1, u2}
    BatchIds = {b1, b2}
    SensorIds = {s1}
    AssocIds = {a1, a2, a3}
    Workers = {w1, w2}
    UpdateStarts = {0}
    UpdateEnds = {1}
    MaxTime = 1
    NULL = NULL
    Unborn = Unborn
    Dead = Dead
SYMMETRY KeySymmetry
INVARIANTS
    TypeOK
    OwnersAgree
    OneActivePerWorker
    OwnersExist
    LookupsHold
    CheckHolds
PROPERTIES
    HistoryPermanent
    OnlyOwnerRevises
    ImplementsRegistry
CHECK_DEADLOCK FALSE
