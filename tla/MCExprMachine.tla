--------------------------- MODULE MCExprMachine ----------------------------
(***************************************************************************)
(* Words of four bits, so that overflow is near; an address is a number    *)
(* above all of them.  The expressions are the operators over variables,   *)
(* nested either way, and long and broad ones that use up the registers.   *)
(***************************************************************************)
EXTENDS ExprMachine

RECURSIVE Within(_), Chain(_, _, _), Tree(_)

\* An expression with its subexpressions.
Within(e) ==
    {e} \cup
    CASE e.kind = "unary"  -> Within(e.operand)
      [] e.kind = "binary" -> Within(e.left) \cup Within(e.right)
      [] e.kind = "elem"   -> Within(e.array) \cup Within(e.index)
      [] e.kind \in {"new", "call"} -> UNION {Within(e.args[n]) : n \in 1..Len(e.args)}
      [] OTHER -> {}

Closure(statements) ==
    UNION {(IF s.kind = "read" THEN {} ELSE Within(s.expr))
           \cup (IF s.kind \in {"move", "read"} THEN Within(s.lhs) ELSE {}) : s \in statements}

x == Var("x")
y == Var("y")
Arith(op, a, b) == Binary(op, a, b, "int")
Bool(op, a, b)  == Binary(op, a, b, "bool")
Float(op, a, b) == Binary(op, a, b, "float")
Minus(e)    == Unary("-", e, "int")
Negation(e) == Unary("!", e, "bool")
LenOf(a)    == Unary("len", a, "int")

\* Leaning to one side, so that the heavier operand is always that side.
Chain(n, leansLeft, e) ==
    IF n = 0 THEN e
    ELSE LET c == Chain(n - 1, leansLeft, e) IN
         IF leansLeft THEN Arith("-", c, e) ELSE Arith("-", e, c)

\* A tree of 2^(n+1) - 1 nodes.
Tree(n) == IF n = 0 THEN Const(n + 1) ELSE Arith(IF n % 2 = 0 THEN "+" ELSE "-", Tree(n - 1), Tree(n - 1))

IntOps == {"+", "-", "*", "/", "%"}

Nested ==
    {Arith(p, Arith(o, x, y), Const(2)) : o \in IntOps, p \in IntOps}
    \cup {Arith(p, Const(3), Arith(o, x, y)) : o \in IntOps, p \in IntOps}
    \cup {Arith(p, Arith(o, x, y), Arith("-", y, x)) : o \in IntOps, p \in IntOps}

Logical ==
    {Negation(Var("b")), Negation(Bool("&&", Var("b"), Negation(Var("c")))),
     Bool("||", Arith("<", x, y), Var("c")), Bool("&&", Var("b"), Arith("==", Arith("/", x, y), x)),
     Bool("||", Negation(Var("b")), Bool("&&", Var("c"), Arith(">=", Arith("+", x, y), y)))}
    \cup {Arith(o, Arith("-", x, y), y) : o \in CompareOps}

Floats ==
    {Float(o, Var("f"), Var("g")) : o \in ArithmeticOps}
    \cup {Float("-", Var("f"), Float(o, Var("g"), Var("f"))) : o \in ArithmeticOps}

ArrayOf(e) == Elem(Var("arr"), e)
Matrix(a, b) == Elem(Elem(Var("mat"), a), b)
Elements == {ArrayOf(x), ArrayOf(Arith("-", x, y)), ArrayOf(ArrayOf(x)), ArrayOf(Matrix(y, x))}
Fields == {Field("pair", 0), Field("pair", 4), Field("nil", 4)}

\* Only elements of one index and fields can be assigned to or read into.
Places == Elements \cup Fields

Loads ==
    Elements \cup
    {Matrix(x, y), Matrix(ArrayOf(y), Arith("+", x, Const(1))),
     Arith("*", ArrayOf(x), ArrayOf(y)), Arith("-", Matrix(x, y), ArrayOf(x)),
     LenOf(Var("arr")), LenOf(Elem(Var("mat"), x)),
     Unary("ord", Var("c"), "int"), Minus(x), Minus(Arith("+", x, y))}

\* Arguments go through registers of their own; / and % and floats would go
\* through those of other arguments.
Calls ==
    {Call(<<>>), Call(<<Arith("-", x, y)>>), Call(<<x, ArrayOf(y)>>),
     Call(<<ArrayOf(x), Arith("*", y, y), Minus(y), Matrix(x, y)>>),
     Call(<<y, x, Arith("+", x, y), Negation(Var("b")), Arith("-", y, x), ArrayOf(Arith("-", x, y)), Const(2)>>)}

\* Array literals, pairs, and a structure of three members.
News ==
    {New(<<>>, 4), New(<<x, Arith("/", x, y)>>, 4),
     New(<<Arith("%", y, x), ArrayOf(y)>>, 0), New(<<Float("+", Var("f"), Var("g")), LenOf(Var("arr"))>>, 0),
     New(<<x, ArrayOf(y), Const(5)>>, 0)}

Deep == {Chain(12, TRUE, x), Chain(12, FALSE, x), Chain(12, TRUE, Arith("%", x, y)),
         ArrayOf(ArrayOf(ArrayOf(x))), ArrayOf(ArrayOf(ArrayOf(ArrayOf(x))))}

MCStatements ==
    {Show(e) : e \in Nested \cup Logical \cup Floats \cup Loads \cup Deep \cup {Tree(7)}}
    \cup {Printed(e) : e \in {Const(3), LongConst(3), x, Arith("*", x, y)}}
    \cup {Freed(Var(v)) : v \in {"pair", "nil"}}
    \cup {Eval(e) : e \in Calls}
    \cup {Move(x, e) : e \in {Arith("*", x, y), Tree(7)} \cup Calls \cup Fields}
    \cup {Move(Var("pair"), e) : e \in News}
    \cup {Move(p, e) : p \in Places, e \in {Const(1), LongConst(0), Arith("%", x, y), Matrix(y, x)}}
    \cup {Move(p, Call(<<y, ArrayOf(x)>>)) : p \in Places}
    \cup {Read(p) : p \in {x} \cup Places}

MCExprs == Closure(MCStatements)

\* A quotient as an argument, or after an argument.
ClobberingStatements ==
    {Eval(Call(<<Arith("/", x, y)>>)), Eval(Call(<<y, Arith("/", x, y)>>)),
     Eval(Call(<<y, Const(1), Float("+", Var("f"), Var("g"))>>))}
ClobberingExprs == Closure(ClobberingStatements)

\* Arrays of 2, 1 and 2 elements and a pair.
MCHeap ==
    64 :> 2 @@ 68 :> 1 @@ 72 :> 0 @@
    128 :> 1 @@ 132 :> 3 @@
    192 :> 2 @@ 196 :> 64 @@ 200 :> 128 @@
    256 :> 5 @@ 260 :> -3

Given(m, n) ==
    [store |-> "x" :> m @@ "y" :> n
               @@ "b" :> (IF m > n THEN 1 ELSE 0) @@ "c" :> (IF m = n THEN 1 ELSE 0)
               @@ "f" :> m @@ "g" :> n
               @@ "arr" :> 64 @@ "mat" :> 192 @@ "pair" :> 256 @@ "nil" :> 0,
     heap |-> MCHeap]

MCInputs == {Given(m, n) : m \in {-8, -1, 0, 1, 6}, n \in {-3, 0, 1, 2, 7}}

\* One state of the program is enough to see an argument lost.
OneInput == {Given(6, 2)}
=============================================================================
