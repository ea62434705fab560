SPECIFICATION Spec
CONSTANTS
    f = f
    g = g
    a = a
    b = b
    x = x
    y = y
    z = z
    Names <- MCNames
    UserNames <- MCUserNames
    Expressions <- MCExpressions
    Sources <- MCUnhandled
    InlinerMax = 20
    Input = 2
INVARIANT
    NeverPanics
