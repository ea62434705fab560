------------------------------ MODULE IFSource ------------------------------
(***************************************************************************)
(* The instruction lists that translate() (src/backend/translator.go)      *)
(* makes of statements, for putting together the programs that are         *)
(* optimised.  Translator derives the same lists step by step.             *)
(***************************************************************************)
EXTENDS IFMachine, FiniteSets

V(x)      == VarExpr(x)
N(k)      == IntConstExpr(k)
Plus(l, r) == BinaryExpr("+", l, r)
Less(l, r) == BinaryExpr("<", l, r)

Show(x)    == <<PrintInstr(V(x))>>
Set(x, e)  == <<MoveInstr(V(x), e)>>
Decl(x, e) == <<Declare(x)>> \o Set(x, e)
Give(e)    == <<ReturnInstr(e)>>
Skip       == <<Simple("noop")>>

\* A scope that declares "names".
Block(names, body) ==
    LET size == AlignedSize(Cardinality(names))
    IN  <<PushScope(size)>> \o body \o <<PopScope(size)>>

While(n, cond, names, body) ==
    <<Label(ControlLabel("while_begin", n)),
      JmpCondInstr(ControlLabel("while_end", n), UnaryExpr("!", cond))>>
      \o Block(names, body)
      \o <<Jmp(ControlLabel("while_begin", n)), Label(ControlLabel("while_end", n))>>

If(n, cond, names, then, else) ==
    <<JmpCondInstr(ControlLabel("else_begin", n), UnaryExpr("!", cond))>> \o Block(names, then)
      \o <<Jmp(ControlLabel("ifelse_end", n)), Label(ControlLabel("else_begin", n))>>
      \o Block({}, else) \o <<Label(ControlLabel("ifelse_end", n))>>

Main(names, body) == <<Label(MainLabel), Simple("locale")>> \o Block(names, body)

\* The n-th parameter comes from a register or from the caller's stack.
ParamSource(n, params) ==
    IF n < 4 THEN RegisterExpr(n) ELSE StackArgumentExpr((Len(params) - 5) - (n - 4))

ParamCode(params) ==
    [n \in 1..(2 * Len(params)) |->
        LET k == (n + 1) \div 2
        IN  IF n % 2 = 1 THEN Declare(params[k])
            ELSE MoveInstr(V(params[k]), ParamSource(k - 1, params))]

Func(f, params, names, body) ==
    <<Label(FuncLabel(f))>>
      \o Block(names \cup {params[n] : n \in 1..Len(params)}, ParamCode(params) \o body)
=============================================================================
