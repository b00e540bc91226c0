CONSTANTS
    p1 = p1
    p2 = p2
    s1 = s1
    s2 = s2
    s3 = s3
    NoPath = NoPath
    None = None
    Slots <- MCSlots
    Paths <- MCOnePath
    MaxRev <- MCMaxRev

SPECIFICATION Spec

INVARIANT TypeOK
INVARIANT NoTimerAfterTeardown
PROPERTY NoPollWhileHoldingData
PROPERTY IncompletePollContinues
