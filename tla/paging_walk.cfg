SPECIFICATION FairSpec
CONSTANTS
    Rows = {r1, r2, r3, r4}
    Regimes <- AllRegimes
    Firsts <- AnyFirst
    NULL = NULL
INVARIANTS
    TypeOK
    WalkIsPrefix
    MissesOnlyForDeletions
    NextPageTruthful
    NoRepeats
PROPERTIES
    WalkEnds
CHECK_DEADLOCK FALSE
