SPECIFICATION Spec
CONSTANTS
    Thread = {t1, t2}
    NoThread = NoThread
    Class = {"A", "B", "C"}
    Index <- MCIndex
    ThreadAffine = {"A"}
    DefaultAllocator = {"A", "B"}
    Root = "NSException"
    Super <- MCSuper
    Extra = {0, 1}
    Block = {b1, b2}
    MaxBusy = 3
INVARIANTS
    MemoryIsSound
    NothingLeftBehind
    HandlersAreLive
SYMMETRY Symmetry
CHECK_DEADLOCK FALSE
