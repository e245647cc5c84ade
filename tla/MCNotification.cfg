CONSTANTS
    Hashes = {h1}
    NoHash = NoHash
    NoPlan = NoPlan
    Specs <- AllSpecs
    DefaultCooldown = 1
    MaxAge = 1
    MaxEdits = 1
    MaxLag = 1

SPECIFICATION FairSpec
INVARIANTS
    TypeOK
    DeliveredTruthful
PROPERTIES
    CooldownWhenInformed
    ChangeWhenInformed
    SentTimeNeverGoesBack
    OutcomeReported
