CONSTANTS
    Keys = {k1}
    NoKey = NoKey
    MaxUID = 2
    MaxRestarts = 1
    MaxPoints = 0
    Retentions = {1, 2}
    DefaultRetention = 2
    StartupClient = "mock"
    PlanSpecs <- ResizingSpecs
    MaxEdits = 1

SPECIFICATION OpSpec
INVARIANTS
    OpTypeOK
PROPERTIES
    ImplementsWatcher
