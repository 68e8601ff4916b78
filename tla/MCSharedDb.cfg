CONSTANTS
    Procs = {"http", "https"}
    Http = "http"
    Requests = {"r1", "r2"}
    Versions = 2
    Pieces = 2
    Prunes = 2
    MaxLines = 1
    MaxInputs = 4
SPECIFICATION Spec
INVARIANTS
    AnswersKept
    NothingLeftOpen
    SchemaWhole
CHECK_DEADLOCK FALSE
