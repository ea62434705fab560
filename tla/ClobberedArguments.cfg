SPECIFICATION Spec
CONSTANTS
    NumRegisters = 12
    Width = 4
    Reply = 6
    ObjectSpan = 64
    NotYet = NotYet
    Junk = Junk
    Exprs <- ClobberingExprs
    Statements <- ClobberingStatements
    Inputs <- OneInput
INVARIANTS
    ResultIsMeant
CHECK_DEADLOCK FALSE
