CONSTANTS
    k1 = k1
    a = a
    b = b
    NoValue = NoValue
    QueryKeys = {k1}
    Handles = {}
    Values = {0, 1, 2}
    Clients = {a, b}
    DefaultTtl = 2
    PaginationTtl = 3
    MaxEntries = 1
    MaxVersion = 2
    MaxLatency = 2
SPECIFICATION Spec
INVARIANTS
    StalenessBound
