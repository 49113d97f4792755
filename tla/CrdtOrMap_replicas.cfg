SPECIFICATION Spec
CONSTANTS
    Replicas = {1, 2}
    Keys = {k1}
    t1 = t1
    t2 = t2
    Tasks = {t1, t2}
    Uses <- GatewayUses
    MaxClock = 3
    Threshold = 2
    None = None
INVARIANTS
    StateDerivedFromLog
    LocalWriteWins
    KeyLockExclusive
PROPERTY
    NothingComesBack
CHECK_DEADLOCK FALSE
