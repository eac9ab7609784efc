SPECIFICATION FairSpec
CONSTANTS
    Cuentas = {c1, c2}
    Cortes = {z1}
    Streams = {c1, c2, z1}
    Ops = {op1, op2, op3}
    Poison = {}
    ShiftNumber = 1
    SilentCuentas = {}
    BatchLimit = 2
    MaxVersion = 3
    MaxPowerLosses = 0
INVARIANTS
    CloudIsPrefixOfEdge
PROPERTIES
    EveryEventSynced
CHECK_DEADLOCK FALSE
