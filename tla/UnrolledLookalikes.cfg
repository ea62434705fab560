SPECIFICATION Spec
CONSTANTS
    a = a
    b = b
    d = d
    Names = {a, b, d}
    Sources <- MCLookalikes
    Conditions <- MCConditions
    LoopUnrollMax = 10
    MaxCode = 200
    Input = 2
INVARIANT
    SameOutput
