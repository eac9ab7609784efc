SPECIFICATION Spec
CONSTANTS
    Cuentas = {c1, c2}
    Cortes = {z1}
    Streams = {c1, c2, z1}
    Ops = {op1, op2, op3, op4}
    Poison = {op4}
    ShiftNumber = 1
    SilentCuentas = {c2}
    BatchLimit = 2
    MaxVersion = 2
    MaxPowerLosses = 1
INVARIANTS
    SyncedMeansApplied
    AppliedInSequence
    NothingLeftInBuffer
    OutboxMatchesVersion
PROPERTIES
    CorteZSurvives
CHECK_DEADLOCK FALSE
SYMMETRY Symmetry
