SPECIFICATION Spec
CONSTANTS
    Rows = {r1, r2, r3}
    Regimes <- OnlyUpdates
    Firsts = {1, 2}
    NULL = NULL
SYMMETRY RowSymmetry
INVARIANTS
    WalkSeesAll
CHECK_DEADLOCK FALSE
