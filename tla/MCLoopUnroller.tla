--------------------------- MODULE MCLoopUnroller ---------------------------
(* LoopUnroller on families of programs, built as the translator builds    *)
(* them: a variable set to a constant, a loop on it, and its value after.  *)
EXTENDS LoopUnroller, IFSource

CONSTANTS a, b, d

Add(x, k) == Set(x, Plus(V(x), N(k)))
LessThan(x, k) == Less(V(x), N(k))
Conds(x, ks) == {BinaryExpr(o, V(x), N(k)) : o \in {"<", "<="}, k \in ks}

-----------------------------------------------------------------------------
(* Loops whose variable is set once before the loop and only ever added to,*)
(* once each time round.                                                   *)

\* A declaration in the body, an if, an inner loop to unroll, and one not to.
Inner == {Show(a), Decl(d, V(a)) \o Show(d),
          If(1, Less(V(a), V(b)), {}, Show(a), Show(b)),
          Set(b, N(0)) \o While(1, LessThan(b, 2), {d}, Decl(d, V(b)) \o Show(d) \o Add(b, 1)),
          While(1, BinaryExpr("!=", V(b), N(3)), {}, Show(b) \o Add(b, 1))}

BodyNames(body) == IF body \in {Decl(d, V(a)) \o Show(d)} THEN {d} ELSE {}

Steps == {Add(a, 1), Add(a, 3), Set(a, Plus(N(2), V(a))),
          Add(a, 1) \o Show(a) \o Add(a, 1)}

\* A body with labels is not copied for a negative number: see MCNegative.
Starts(inner) == {0, 4, IF \E n \in 1..Len(inner) : IsLabel(inner[n]) THEN 1 ELSE -1}

Loop(start, cond, inner, step) ==
    Main({a, b}, Decl(a, N(start)) \o Decl(b, N(1))
                   \o While(0, cond, BodyNames(inner), inner \o step) \o Show(a) \o Show(b))

MCCountingLoops == UNION {
    {Loop(start, cond, inner, step) : start \in Starts(inner), cond \in Conds(a, {1, 3, 4, 20}) \cup {Less(N(5), V(a))},
        step \in Steps} : inner \in Inner}

-----------------------------------------------------------------------------
(* Programs that only look like it, and loops like those above of which the
   copies do not fit the frame, or their labels are no names.              *)

MCIfs == {Main({a}, Decl(a, N(0)) \o If(0, LessThan(a, 2), {}, Add(a, 1), Show(a)) \o Show(a))}

MCNegated == {Main({a}, Decl(a, N(0))
                    \o While(0, UnaryExpr("!", LessThan(a, 2)), {}, Show(a) \o Add(a, 1)) \o Show(a))}

MCReads == {Main({a}, Decl(a, N(0)) \o <<ReadInstr(a)>>
                    \o While(0, LessThan(a, 2), {}, Show(a) \o Add(a, 1)) \o Show(a))}

\* A local variable that is still needed after a call of the C library.
MCLocals == {Main({a}, Decl(a, N(0))
                    \o While(0, LessThan(a, 6), {d}, Decl(d, V(a)) \o Show(d) \o Show(d) \o Add(a, 1)))}

\* Copies for -1 of a body with labels.
MCNegative == {Loop(-1, LessThan(a, 2), If(1, Less(V(a), V(b)), {}, Show(a), Show(b)), Add(a, 1))}

MCLookalikes == MCIfs \cup MCNegated \cup MCReads \cup MCLocals \cup MCNegative

\* What the jumps depend on: a negated condition, perhaps twice.
Operands(cs) == {c.operand : c \in {x \in cs : x.e = "unary"}}
MCConditions ==
    LET cs == {i.cond : i \in {x \in SourceInstrs : x.op = "jmpcond"}}
    IN  cs \cup Operands(cs) \cup Operands(Operands(cs))
=============================================================================
