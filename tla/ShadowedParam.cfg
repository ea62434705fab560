SPECIFICATION Spec
CONSTANTS
    Names = {x, y}
    ParamShadowing = TRUE
    MaxParams = 2
    MaxFuncs = 2
    MaxDecls = 5
    MaxDepth = 3
SYMMETRY MCSymmetry
INVARIANT NeverNonExistent
CHECK_DEADLOCK FALSE
