SPECIFICATION Spec
CONSTANTS
    HelloLines = 2
    TailWindows <- MCWindows
    BatchLines = 2
    MaxLines = 5
    MaxFiles = 3
INVARIANTS TypeOK StreamInOrder StreamContiguous
PROPERTIES CatchesUp NoticesRotation
CHECK_DEADLOCK FALSE
