CONSTANTS
    t1 = t1
    Tokens = {t1}
    QueryPerSec = 3
    ReadPerSec = 0
    WritePerSec = 1
    Hz = 4
    MaxWindow = 5
SPECIFICATION CSpec
INVARIANTS
    WindowBound
    PromiseAlmostKept
PROPERTIES
    ImplementsTokenBucket
