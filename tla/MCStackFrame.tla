---------------------------- MODULE MCStackFrame ----------------------------
(* StackFrame on a family of programs: a function with parameters whose    *)
(* body has a nested block of every kind, and a main that calls it.        *)
EXTENDS StackFrame, TLC

CONSTANTS a, b, c, d, e, g, x, y, z, f

MCStmtKinds == {"eval", "read", "print", "noop"}

T(op) == <<Token(op)>>
D(v)  == <<DeclToken(v)>>

MCParams == {<<>>, <<a>>, <<a, b, c, d, e, g>>}

\* What stands inside the block: nothing declared, an odd and an even number
\* of variables, a name of the outer scope, a read, a call, an early return,
\* and a return out of a second block.
MCInner == {T("noop"), D(z) \o T("read"), D(z) \o D(y) \o T("eval"),
            D(x) \o T("return"), T("return"),
            D(z) \o T("while") \o D(x) \o T("return") \o T("end") \o T("read")}

MCBlocks == UNION {{T("while") \o i \o T("end"),
                    T("begin") \o i \o T("end"),
                    T("if") \o i \o T("else") \o D(y) \o T("print") \o T("fi")} : i \in MCInner}

MCBodies == {pre \o block \o D(y) \o T("return") : pre \in {<<>>, D(x)}, block \in MCBlocks}

MCMains == {T("eval"),
            D(x) \o T("while") \o D(y) \o D(z) \o T("eval") \o T("read") \o T("end") \o T("println")}

MCPrograms ==
    {<<FuncToken(f, ps)>> \o body \o T("endfunc") \o T("main") \o main \o T("endmain") :
        ps \in MCParams, body \in MCBodies, main \in MCMains}
=============================================================================
