SPECIFICATION StackSpec
CONSTANTS
    a = a
    b = b
    c = c
    d = d
    e = e
    g = g
    x = x
    y = y
    z = z
    f = f
    Funcs = {f}
    Names = {a, b, c, d, e, g, x, y, z}
    StmtKinds <- MCStmtKinds
    Programs <- MCPrograms
    MaxParams = 6
    MaxCode = 100
    MaxDepth = 3
    MaxCounter = 9
    ArgRegisters = 4
    MaxCalls = 3
INVARIANTS
    StackTypeOK
    DistanceIsStatic
    VariablesKeepValues
    SavedWordsIntact
    NeverCrashes
