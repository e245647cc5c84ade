SPECIFICATION FairSpec
CONSTANTS
    None = None
    Namespace <- MCNamespace
    Fold <- MCFold
    TopN = 2
    TrendWindow = 3
    AccelWindow = 1
    MaxDuration = 20
    Wraps <- MCWraps
    Steep <- MCSteep
    SuddenFloor <- MCFloor
    Volumes <- MCVolumes
    Start <- MCStart
    Specs <- MCSpecs
    PodsOf <- MCPodsOf
    LLMInterval = 1
    MaxChanges = 1
    MaxDays = 1
INVARIANTS ReportTypeOK 
PROPERTIES ChangesAddUp EscalationReal ReportSettles
