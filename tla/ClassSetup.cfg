SPECIFICATION FairSpec
CONSTANTS
    Thread = {t1, t2}
    Root = Root
    Sub = Sub
    Helper = Helper
    Mixin = Mixin
    Class = {Root, Sub, Helper, Mixin}
    Super <- MCSuper
    Mixins <- MCMixins
    IsMixin = {Mixin}
    AlwaysEmpty = {Helper}
    EarlyCache = {Sub}
    Sends <- SendsAcross
    MaxCalls = 2
    NoClass = NoClass
    NoThread = NoThread
INVARIANTS
    SetupIsExclusive
    
    OtherCanFinish
PROPERTIES
    MessagesAnswered
CHECK_DEADLOCK FALSE
