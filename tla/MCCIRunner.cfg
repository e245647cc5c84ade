SPECIFICATION Spec
CONSTANTS
    Configs <- MCConfigs
    MaxPullAttempts = 3
    MaxUpdates = 2
    TrendObserve = 2
    DefaultInterval = 60
    MinSnapshots = 1
    MinGrowing = 1
    CIWorkloads <- MCWorkloads
    Leftovers <- MCLeftovers
    MaxReconciles = 2
    MaxSent = 2
    Bodies <- MCBodies
    Synthetic <- MCSynthetic
    Size <- MCSize
    Encoded <- MCEncoded
    MaxBody = 2
    MaxLine = 8
    MaxLines = 3
    MaxRestarts = 1
    Images <- MCImages
    Others <- MCOthers
    Accepted <- MCAccepted
    K3DNodes <- MCNodes
    RetryCounts <- MCRetryCounts
    MaxImports = 3
INVARIANTS
    CITypeOK EndsProperly PassMeansSeen RecordsKept
PROPERTY CommandEnds
