SPECIFICATION Spec
CONSTANTS
    t1 = t1
    t2 = t2
    t3 = t3
    s1 = s1
    s2 = s2
    s3 = s3
    A = A
    B = B
    NoClass = NoClass
    NoEntry = NoEntry
    SetsAlone = TRUE
    Config <- MCConfig
    Thread = {t1, t2, t3}
    Instance = {s1, s2, s3}
    Slot = {0, 1}
    SlotOf <- MCSlotOf
    Programs <- MCPrograms
INVARIANTS
    RegistryAgrees
    
CHECK_DEADLOCK FALSE
