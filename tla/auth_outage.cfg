SPECIFICATION Spec
CONSTANTS
    Users = {u1}
    TokenIds = {t1}
    Workers = {w1}
    NULL = NULL
    Malformed = Malformed
    Unborn = Unborn
    Dead = Dead
SYMMETRY KeySymmetry
INVARIANTS
    FailuresLogged
CHECK_DEADLOCK FALSE
