SPECIFICATION Spec
CONSTANTS
    Thread = {t1, t2}
    Class = {"Bar", "Foo", "Dup", "Fast"}
    Name = {"Bar", "Foo", "Fast"}
    NameOf <- MCNameOf
    Super <- MCSuper
    FastIndex <- MCFastIndex
    Hash <- MCHash
    MinCacheSize = 4
    LookupId <- MCLookupId
    MaxDepth = 1
    MaxLookups = 3
    MaxPoses = 1
    MaxRemoves = 1
    NoClass = NoClass
INVARIANTS
    
    CacheFreedOnce
SYMMETRY Perms
CHECK_DEADLOCK FALSE
