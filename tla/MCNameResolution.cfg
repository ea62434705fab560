SPECIFICATION Spec
CONSTANTS
    Names = {x, y}
    ParamShadowing = FALSE
    MaxParams = 2
    MaxFuncs = 2
    MaxDecls = 5
    MaxDepth = 3
SYMMETRY MCSymmetry
INVARIANTS
    TypeOK
    UsesAgree
    SlotsDisjoint
    SlotsFitFrame
    LeftoversEmpty
    NeverNonExistent
CHECK_DEADLOCK FALSE
