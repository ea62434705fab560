SPECIFICATION Spec
CONSTANTS
    NumRegisters = 12
    Width = 4
    Reply = 6
    ObjectSpan = 64
    NotYet = NotYet
    Junk = Junk
    Exprs <- MCExprs
    Statements <- MCStatements
    Inputs <- MCInputs
INVARIANTS
    TypeOK
    RegistersAccounted
    WeightsForesee
PROPERTIES
    TemporariesSurvive
    ImplementsEvaluation
CHECK_DEADLOCK FALSE
