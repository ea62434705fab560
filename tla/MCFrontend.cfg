SPECIFICATION Spec
CONSTANTS
    Sources <- AllSources
    INT_MAX = 7
    MaxCalls = 4
CHECK_DEADLOCK FALSE
INVARIANTS
    TypeOK
    VerdictRight
    CallsUnambiguous
    ImportsInOrder
    ReturnsOnEveryPath
PROPERTY CompileEnds
