SPECIFICATION Spec
INVARIANTS ExitTellsOutcome PoolsShut
PROPERTIES FailureEndsProcess StopsForAReason
CHECK_DEADLOCK FALSE
