CONSTANTS
    Keys = {k1}
    NoKey = NoKey
    MaxUID = 2
    MaxRestarts = 0
    MaxPoints = 0
    Retentions = {1}
    DefaultRetention = 2
    StartupClient = "mock"
    PlanSpecs <- ResizingSpecs
    MaxEdits = 0

SPECIFICATION OpFairSpec
PROPERTIES
    StatusConverges
    NamesServed
