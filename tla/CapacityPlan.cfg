CONSTANTS
    Plans = {1, 2}
    NoPlan = NoPlan
    Risks = {r0}
    NoRisk = r0
    LLM = FALSE
    llmInterval = 1
    MaxEdits = 1
    MaxLag = 1
    MaxRestarts = 1

SPECIFICATION FairSpec
INVARIANTS
    TypeOK
PROPERTIES
    ActivePlanStays
    ActivationSettles
