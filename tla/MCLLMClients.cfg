CONSTANTS
    Callers = {c1, c2}
    failureThreshold = 2
    cooldown = 2
    LLMSpecs <- MCSpecs
    Followed <- MCFollowed
    Keys = {v1, v2}
    NoValue = NoValue
    NoClient = NoClient
    MaxChanges = 2

SPECIFICATION LLMFairSpec
INVARIANTS
    ClientsTypeOK
    FailuresBounded
    DeadlineOnlyWhenDegraded
    ClientIsCurrent
PROPERTIES
    RecoveryProbes
    ImplementsBreaker
    SelectedRecovers
