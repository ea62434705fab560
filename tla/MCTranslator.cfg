SPECIFICATION Spec
CONSTANTS
    Funcs = {f, g}
    Names = {x, y}
    StmtKinds <- MCStmtKinds
    MaxParams = 1
    MaxCode = 8
    MaxDepth = 3
    MaxCounter = 2
SYMMETRY MCSymmetry
INVARIANTS
    TypeOK
    LabelsUnique
    JumpsStayInScope
    JumpsResolve
    ScopeSizesAgree
PROPERTIES
    EmittedCodeIsFinal
CHECK_DEADLOCK FALSE
