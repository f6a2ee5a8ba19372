SPECIFICATION Spec
CONSTANTS
    Class = {"Root", "Sub", "Odd"}
    Root = "Root"
    Receiver = {"Sub", "Odd"}
    Super <- MCSuper
    AlwaysEmpty = {"Odd"}
    Affine = {"Sub"}
    MethodId = {"foo", "new", "forward"}
    FastMethod = {"new"}
    SuperId <- MCSuperId
    Hash <- MCHash
    Forward = "forward"
    CacheSize = 4
    IsaSlot <- MCIsaSlot
    Startup <- MCStartup
    Standard = {"new"}
    Debug <- MCDebug
    MaxAdds = 1
INVARIANTS
    LookupsAgree
    OutdatedNotWrong
    AffineIsChecked
CHECK_DEADLOCK FALSE
