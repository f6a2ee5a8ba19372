SPECIFICATION Spec
CONSTANTS
    NoMethod = NoMethod
    NoClass = NoClass
    MaxMethods = 3
    NoCategory = NoCategory
    NoDependencies = NoDependencies
    NotImplemented = NotImplemented
    Width = 9
    FloatWidth = 6
    TaggedClass = {A, B}
    Vacant = Vacant
INVARIANTS
    SearchFollowsOrder
    
    LayoutIsThatOfC
    
    DependenciesFixWinner
    WordsKeepValues
CHECK_DEADLOCK FALSE
