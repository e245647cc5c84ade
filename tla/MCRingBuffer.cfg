CONSTANTS
    Sample = {s1, s2}
    ZeroSample = zero
    Retentions <- MCRetentions
    DefaultRetention = 4
SPECIFICATION Spec
INVARIANTS TypeOK CopyInv
PROPERTY ImplementsWindow
