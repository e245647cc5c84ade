CONSTANTS
    Plans = {1}
    NoPlan = NoPlan
    Risks = {r0}
    NoRisk = r0
    LLM = FALSE
    llmInterval = 2
    MaxEdits = 0
    MaxLag = 1
    MaxRestarts = 0

SPECIFICATION Spec
PROPERTIES
    IntervalControls
