SPECIFICATION FairSpec
CONSTANTS
    Users = {u1, u2}
    TokenIds = {t1, t2}
    Workers = {w1}
    BatchIds = {b1}
    SensorIds = {s1}
    AssocIds = {a1, a2}
    UpdateStarts = {0}
    UpdateEnds = {1}
    MaxTime = 1
    MaxFields = 2
    NULL = NULL
    Malformed = Malformed
    Unborn = Unborn
    Dead = Dead
INVARIANTS
    TypeOK
    SvTypeOK
    ActsAsIssued
    RevokedActsAsNobody
    TokensHaveUsers
PROPERTIES
    ImplementsAccess
    ImplementsComponents
    WritesAuthorized
    EveryRequestAnswered
CHECK_DEADLOCK FALSE
