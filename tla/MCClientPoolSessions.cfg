CONSTANTS
    s1 = s1
    s2 = s2
    s3 = s3
    prod = prod
    stage = stage
    Lifespans = {s1, s2, s3}
    Clusters <- TwoClusters
    HasCapella = TRUE
SYMMETRY Interchangeable
SPECIFICATION PoolSpec
CHECK_DEADLOCK FALSE
INVARIANT
    SessionsServed
