SPECIFICATION FairSpec
CONSTANTS
    Thread = {t1, t2}
    k1 = k1
    k2 = k2
    Key = {k1, k2}
    Home <- MCHome
    InitialSize = 4
    MaxSize = 8
    MaxCalls = 3
    MaxAdds = 1
    NoKey = NoKey
    NoImp = NoImp
INVARIANTS
    CacheIsSound
    CallsAreCurrent

    
CHECK_DEADLOCK FALSE
