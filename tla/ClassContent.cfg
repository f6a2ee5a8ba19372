SPECIFICATION Spec
CONSTANTS
    Client = {t1, t2}
    Loader = loader
    Class <- MCClass
    NoClass = NoClass
    Super <- MCSuper
    ProtocolId <- MCProtocolId
    ProtocolLists = {{1}, {2, 3}}
    Programs <- MCPrograms
    PropertyList <- MCPropertyList
    IvarList <- MCIvarList
    Key = {"k", "l"}
    KeyId <- MCKeyId
    Adopters = {"Sub", "Root"}
INVARIANTS
    IdsArrive
    FreedOnce
    
    PropertiesAgree
SYMMETRY ClientSymmetry
CHECK_DEADLOCK FALSE
