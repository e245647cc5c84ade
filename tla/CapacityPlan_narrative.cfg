CONSTANTS
    Plans = {1}
    NoPlan = NoPlan
    Risks = {r0, r1}
    NoRisk = r0
    LLM = TRUE
    llmInterval = 1
    MaxEdits = 0
    MaxLag = 1
    MaxRestarts = 0

SPECIFICATION LLMFairSpec
PROPERTIES
    RateLimitWhenRecorded
    NarrativeCatchesUp
