SPECIFICATION FairSpec
CONSTANTS
    Thread = {t1, t2, t3}
    Root = Root
    Sub = Sub
    Mix = Mix
    Class <- MCClass
    Super <- MCSuper
    Mixin = {Mix}
    Waits = TRUE
    Pedantic = TRUE
    MaxLives = 2
    MaxLoads = 1
    NoThread = NoThread
INVARIANTS
    OwnershipHolds
    TeardownOrder
    StuckIsReported
PROPERTIES
    LastReleaseUnwinds
CHECK_DEADLOCK FALSE
