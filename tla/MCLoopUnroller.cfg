SPECIFICATION Spec
CONSTANTS
    a = a
    b = b
    d = d
    Names = {a, b, d}
    Sources <- MCCountingLoops
    Conditions <- MCConditions
    LoopUnrollMax = 3
    MaxCode = 200
    Input = 2
INVARIANTS
    TypeOK
    LabelsUnique
    JumpsStayInCopy
    SameOutput
PROPERTY
    Terminates
