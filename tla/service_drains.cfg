SPECIFICATION FairSpec
CONSTANTS
    Handlers = {h1, h2}
    MaxVisits = 2
    Environments <- SmallEnvironments
    Unset = Unset
    Invalid = Invalid
    DefaultPoolSize = 2
    DefaultTimeout = 3
    Half = 4
INVARIANT NoAnswerCut
CHECK_DEADLOCK FALSE
