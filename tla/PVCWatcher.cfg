CONSTANTS
    Keys = {k1}
    NoKey = none
    MaxUID = 3
    MaxRestarts = 1
    MaxPoints = 1
    Retentions = {0, 1}
    DefaultRetention = 2
    StartupClient = "prom"
SPECIFICATION Spec
INVARIANTS TypeOK NeverForgotten ExportedTracked BuffersHonourRetention HistoryIsOwn
