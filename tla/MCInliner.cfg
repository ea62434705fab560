SPECIFICATION Spec
CONSTANTS
    f = f
    g = g
    a = a
    b = b
    x = x
    y = y
    z = z
    Names <- MCNames
    UserNames <- MCUserNames
    Expressions <- MCExpressions
    Sources <- MCSources
    InlinerMax = 20
    Input = 2
INVARIANTS
    TypeOK
    LabelsUnique
    JumpsResolve
    SameOutput
    InlinedFramesHold
    StackBalanced
PROPERTY
    WalkAdvances
