CONSTANTS
    Keys = {k1}
    NoKey = NoKey
    MaxUID = 1
    MaxRestarts = 0
    MaxPoints = 0
    Retentions = {1, 2}
    DefaultRetention = 2
    StartupClient = "mock"
    PlanSpecs <- ResizingSpecs
    MaxEdits = 0

SPECIFICATION OpSpec
INVARIANTS
    NoOrphanedGrowth
