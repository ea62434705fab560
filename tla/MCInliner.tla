------------------------------ MODULE MCInliner ------------------------------
(* Inliner on families of programs of two functions and a main.            *)
EXTENDS Inliner, IFSource

CONSTANTS f, g, a, b, x, y, z

MCUserNames == {a, b, x, y, z}
MCNames == AllNames({f, g}, 5, 8)

RECURSIVE PartsOf(_)
PartsOf(e) ==
    {e} \cup CASE e.e = "unary"  -> PartsOf(e.operand)
               [] e.e = "binary" -> PartsOf(e.left) \cup PartsOf(e.right)
               [] e.e \in {"call", "newstruct"} -> UNION {PartsOf(e.args[n]) : n \in 1..Len(e.args)}
               [] OTHER          -> {}

MCExpressions ==
    LET codes  == UNION {{p[h] : h \in DOMAIN p} : p \in Sources}
        instrs == UNION {{code[n] : n \in 1..Len(code)} : code \in codes}
    IN  UNION {PartsOf(e) : e \in UNION {ExprsOf(i) : i \in instrs}}
            \cup {VarExpr(v) : v \in {RetVal(f), RetVal(g)} \cup {ArgName(h, n) : h \in {f, g}, n \in 0..4}}

Prog(ff, gg, main) == [h \in {f, g, "main"} |-> IF h = f THEN ff ELSE IF h = g THEN gg ELSE main]

Takes(fn, v, e) == Set(v, CallExpr(fn, e))

-----------------------------------------------------------------------------
\* Functions of one parameter: a leaf with a name that main has as well, early
\* returns out of scopes that declare, a loop first, one that prints, one that
\* is too long, and a recursion.
MCF == {Func(f, <<a>>, {x}, Decl(x, Plus(V(a), N(1))) \o Set(a, N(7)) \o Give(V(x))),
        Func(f, <<a>>, {},
             If(3, Less(V(a), N(2)), {x}, Decl(x, Plus(V(a), N(5))) \o Give(V(x)), Skip)
               \o Give(V(a))),
        Func(f, <<a>>, {},
             While(3, Less(V(a), N(3)), {}, Set(a, Plus(V(a), N(1))) \o Show(a)) \o Give(V(a))),
        Func(f, <<a>>, {}, Show(a) \o Show(a) \o Give(Plus(V(a), V(a)))),
        Func(f, <<a>>, {x}, Decl(x, V(a)) \o Show(x) \o Show(x) \o Show(x) \o Show(x) \o Show(x)
               \o Show(x) \o Show(x) \o Show(x) \o Show(x) \o Show(x) \o Show(x) \o Show(x)
               \o Show(x) \o Give(V(x))),
        Func(f, <<a>>, {y},
             If(3, Less(V(a), N(1)), {}, Give(N(0)), Skip)
               \o Decl(y, CallExpr(f, <<Plus(V(a), N(-1))>>)) \o Give(Plus(V(y), V(a))))}

\* Functions of two parameters: one that calls f first, one that calls it
\* later, one that does not.
MCG == {Func(g, <<a, b>>, {y}, Decl(y, CallExpr(f, <<V(b)>>)) \o Give(Plus(V(y), V(a)))),
        Func(g, <<a, b>>, {x, y},
             Decl(x, V(b)) \o Decl(y, N(4)) \o Takes(f, y, <<V(x)>>) \o Show(y)
               \o Give(Plus(V(y), V(a)))),
        Func(g, <<a, b>>, {}, Give(Plus(V(a), V(b))))}

\* Calls that set their own argument, two in one scope, one in a loop with a
\* variable of its own, and one in a block that hides a name.
MCMains ==
    {Main({x, y}, Decl(x, N(1)) \o Takes(f, x, <<V(x)>>) \o Decl(y, CallExpr(f, <<V(x)>>))
                    \o Show(x) \o Show(y)),
     Main({x}, Decl(x, N(0))
                 \o While(0, Less(V(x), N(2)), {y},
                          Decl(y, CallExpr(g, <<V(x), N(1)>>)) \o Show(y) \o Set(x, Plus(V(x), N(1))))
                 \o Show(x)),
     Main({x, y}, Decl(x, N(2)) \o Decl(y, N(3))
                 \o Block({x}, Decl(x, CallExpr(g, <<V(y), V(x)>>)) \o Takes(f, y, <<V(x)>>) \o Show(x))
                 \o Show(x) \o Show(y))}

MCSources == {Prog(ff, gg, main) : ff \in MCF, gg \in MCG, main \in MCMains}

-----------------------------------------------------------------------------
\* Functions whose calls, or whose mere presence, the inliner does not stand:
\* an array element first, an assignment first, an exit, a struct's member, a
\* new struct or a number with a fraction behind the first statement, and more
\* parameters than all functions together have in registers.
MCPlain == Func(g, <<>>, {}, Give(N(1)))
MCUnhandled ==
    {Prog(ff, MCPlain, Main({x}, Decl(x, CallExpr(f, <<N(1)>>)) \o Show(x))) :
        ff \in {Func(f, <<a>>, {x}, Decl(x, ElemExpr(a)) \o Give(V(x))),
                Func(f, <<a>>, {}, Set(a, N(5)) \o Give(V(a))),
                Func(f, <<a>>, {}, <<Simple("exit")>> \o Give(V(a)))}
               \cup {Func(f, <<a>>, {x}, Decl(x, N(1)) \o Set(x, e) \o Give(V(x))) :
                        e \in {FieldExpr(a), NewStructExpr(<<V(x)>>), Plus(V(x), FloatConstExpr)}}}
    \cup {Prog(Func(f, <<a, b, x, y, z>>, {}, Give(V(z))), MCPlain,
               Main({x}, Decl(x, CallExpr(f, <<N(1), N(2), N(3), N(4), N(5)>>)) \o Show(x)))}
-----------------------------------------------------------------------------
\* The frames of these programs hold what is declared in them, as the theorem
\* about InlinedFramesHold demands.
ASSUME MCSourcesFit == SourcesFit
=============================================================================
