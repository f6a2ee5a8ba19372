SPECIFICATION FairSpec
CONSTANTS
    Thread = {t1, t2, t3}
    Ref = {r1, r2, r3}
    Half = 8
    NoOne = NoOne
    NoRef = NoRef
INVARIANTS
    
    CountIsTrue
    FinalizeOnceThenDealloc
    
    
PROPERTIES
    LastReleaseDeallocates
CHECK_DEADLOCK FALSE
