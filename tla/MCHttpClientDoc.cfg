CONSTANTS
    c1 = c1
    c2 = c2
    Callers = {c1, c2}
    FailMax = 2
    ResetTimeout = 2
    MaxRetries = 2
    Statuses = {200, 304, 401, 404, 409, 503}
SPECIFICATION Spec
INVARIANTS
    ConnectionErrorsRetried
