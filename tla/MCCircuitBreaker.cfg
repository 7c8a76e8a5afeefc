CONSTANTS
    c1 = c1
    c2 = c2
    c3 = c3
    Callers = {c1, c2, c3}
    FailMax = 2
    ResetTimeout = 3
SPECIFICATION BreakerFairSpec
INVARIANTS
    BreakerConsistent
PROPERTIES
    ImplementsContract
    CooldownEnds
