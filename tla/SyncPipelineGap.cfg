SPECIFICATION FairSpec
CONSTANTS
    Cuentas = {c1}
    Cortes = {}
    Streams = {c1}
    Ops = {op1, op2}
    Poison = {}
    ShiftNumber = 1
    SilentCuentas = {c1}
    BatchLimit = 2
    MaxVersion = 4
    MaxPowerLosses = 0
PROPERTIES
    EveryEventSynced
CHECK_DEADLOCK FALSE
