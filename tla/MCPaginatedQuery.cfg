CONSTANTS
    k1 = k1
    h1 = h1
    h2 = h2
    v1 = v1
    a = a
    b = b
    NoValue = NoValue
    QueryKeys = {k1}
    Handles = {h1, h2}
    Values = {v1}
    Clients = {a, b}
    DefaultTtl = 1
    PaginationTtl = 2
    MaxEntries = 2
    Sizes = {1, 3, 4}
    PageSize = 2
SYMMETRY Interchangeable
SPECIFICATION Spec
INVARIANTS
    WalkIsPrefix
    WalkInOrder
    WalkComplete
    PageOffsetRight
    CacheConsistent
PROPERTIES
    HandleKept
    SetSparesHandles
