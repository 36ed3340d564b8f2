SPECIFICATION Spec
CONSTANTS
    g1 = g1
    out = out
    Gets = {g1}
    StepUps = {}
    Logouts = {out}
    Controls = {}
    IdleTtl = 2
    AbsoluteTtl = 4
    LockTtl = 2
    MaxAttempts = 2
    MaxTime = 3
INVARIANTS
    RevokedStaysRevoked
CHECK_DEADLOCK FALSE
