SPECIFICATION FairSpec
CONSTANTS
    A = A
    B = B
    C = C
    M = M
    X = X
    Y = Y
    Ak = Ak
    Al = Al
    A2 = A2
    M2 = M2
    Ak2 = Ak2
    D = D
    k = k
    l = l
    a = a
    b = b
    c = c
    m = m
    x1 = x1
    y1 = y1
    d = d
    Loadable = {A, B, C, M, X, Y, Ak, Al, A2, M2, Ak2, D}
    ClassId <- MCClassId
    Kind <- MCKind
    ClassOf <- MCClassOf
    CategoryId = {k, l}
    CategoryOf <- MCCategoryOf
    SuperOf <- MCSuperOf
    MixinsOf <- MCMixinsOf
    Dependencies <- MCDependencies
    Outdated = {D}
    HasLoad = {A, B, C, M, X, Y, Ak, Al}
    Info <- EveryOrder
    Hash <- MCHash
    NoClass = NoClass
    NoCategory = NoCategory
    NoInfo = NoInfo
INVARIANTS
    NothingLost
PROPERTIES
    ImplementsLoadOrder
    LoadingEnds
CHECK_DEADLOCK FALSE
