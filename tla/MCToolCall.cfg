CONSTANTS
    a = a
    b = b
    Clients = {a, b}
    QueryPerSec = 1
    ReadPerSec = 0
    WritePerSec = 1
    Hz = 2
SYMMETRY Interchangeable
SPECIFICATION Spec
INVARIANTS
    OneRecordPerCall
    AnswersAudited
    AuditedChangesApplied
PROPERTIES
    CallsShareBuckets
    ChangesSpendWrites
