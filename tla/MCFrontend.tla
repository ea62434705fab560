----------------------------- MODULE MCFrontend -----------------------------
(* Instances for TLC: imports of every shape, overloads and calls of them,  *)
(* every statement in two and three, bodies that return or not, expressions *)
(* of every operator, and the driver's flags.  Functions have names of the  *)
(* letters that also stand for types, as in f(int) and fi().                *)
EXTENDS Verdict

Num(n) == Lit(INT, n)
Yes    == Lit(BOOL, 1)
Letter == Lit(CHAR, 7)
Text   == Lit(STR, 7)
Real   == Lit(FLOAT, 7)
Null   == Lit(PAIR, 0)
X == Ident("x")

Give(n) == With("return", Num(n))
Program(ss, fs, body) == [input |-> File(<<>>, ss, fs, body), modules |-> <<>>, flags |-> {}]

S == Struct("S", <<Typed(INT, "n"), Typed(CHAR, "c")>>)
OtherS == Struct("S", <<Typed(INT, "n")>>)
NewS == NewStruct("S", <<Num(1), Letter>>)

-----------------------------------------------------------------------------
(* Imports: chains, diamonds, cycles, a missing module, one that does not parse. *)

Module(name, imports) ==
    File(imports, <<>>, <<Function(name, INT, <<name>>, <<>>, <<Give(1)>>)>>, <<Skip>>)

Garbled(file) == [file EXCEPT !.garbled = TRUE]

\* A module with nothing left of its function.
Lost == File(<<>>, <<>>, <<Function("c", INT, <<"c">>, <<>>, <<Broken, Give(1)>>)>>, <<Skip>>)

ImportSources ==
    {[input |-> File(i, <<S>>, <<Function("input", INT, <<"m">>, <<>>, <<Give(1)>>)>>, <<Skip>>),
      modules |-> ("a" :> Module("a", a)) @@ ("b" :> Module("b", b)) @@ ("c" :> c),
      flags |-> flags] :
        i \in {<<"a">>, <<"b", "a">>},
        a \in {<<>>, <<"b">>, <<"b", "c">>, <<"a">>, <<"x">>},
        b \in {<<>>, <<"c">>, <<"a">>},
        c \in {Module("c", <<>>), [Module("c", <<>>) EXCEPT !.structs = <<S>>], Garbled(Module("c", <<>>)), Lost},
        flags \in {{}, {"unchecked"}}}

-----------------------------------------------------------------------------
(* What the parser stumbles over, in a function, the main program, a module:*)
(* tokens that are no statement at every place of a list, fst and snd of    *)
(* what is no name; with and without an error behind that ends the parse.   *)

Halves == {PairElem("fst", e) : e \in {Ident("p"), ArrayElem(Ident("a"), Num(0)), Num(1)}}
          \cup {PairElem("snd", Binary("+", Ident("p"), Num(1)))}
Stumbles ==
    {<<Broken, Skip>>, <<Skip, Broken, Skip>>, <<Broken, Broken, Skip>>, <<Skip>>,
     <<If(Yes, <<Broken, Skip>>, <<Skip>>)>>, <<While(Yes, <<Skip, Broken, Skip>>), Broken>>}
    \cup {<<Decl(INT, "x", e)>> : e \in Halves} \cup {<<Broken, Assign(e, Num(1))>> : e \in Halves}
    \cup {<<Scope(<<Assign(e, Num(1))>>)>> : e \in Halves} \cup {<<Skip, Broken, Decl(INT, "x", e)>> : e \in Halves}

StumbleSources ==
    {[input |-> [File(<<"m">>, <<>>, <<Function("input", t, <<"f">>, <<>>, body \o after)>>, main \o <<Skip>>)
                   EXCEPT !.garbled = garbled],
      modules |-> ("m" :> File(<<>>, <<>>, <<Function("m", INT, <<"m">>, <<>>, module \o <<Give(1)>>)>>, <<Skip>>)),
      flags |-> {}] :
        t \in {INT, Void}, body \in Stumbles, after \in {<<Skip>>, <<Give(1)>>},
        main \in {<<Skip>>, <<Broken>>, <<Decl(INT, "x", PairElem("fst", Num(1)))>>},
        module \in {<<Skip>>, <<Broken>>, <<Skip, Broken>>}, garbled \in BOOLEAN}

-----------------------------------------------------------------------------
(* Overloads, also with labels that run together, and calls of them.       *)

Fun(name, ts) ==
    Function("input", INT, name, [n \in 1..Len(ts) |-> Typed(ts[n], IF n = 1 THEN "x" ELSE "y")], <<Give(1)>>)

Overloads ==
    {Fun(<<"f">>, ts) : ts \in {<<>>, <<INT>>, <<CHAR>>, <<STR>>, <<ArrayType(CHAR)>>, <<INT, INT>>,
                                <<PairType(INT, INT)>>, <<PairType(CHAR, CHAR)>>, <<StructType("S")>>}}
    \cup {Fun(<<"f", "i">>, ts) : ts \in {<<>>, <<INT>>}}
    \cup {External("input", INT, <<"f">>, <<Typed(CHAR, "x")>>),
          External("input", INT, <<"f", "i">>, <<Typed(INT, "x")>>),
          Function("input", Void, <<"f">>, <<Typed(BOOL, "x")>>, <<Skip>>)}

Calls ==
    {Call(<<"f">>, args) : args \in {<<>>, <<Num(1)>>, <<Letter>>, <<Text>>, <<Null>>, <<Yes>>, <<Num(1), Num(1)>>,
                                     <<Ident("s")>>, <<Ident("p")>>, <<Ident("u")>>}}
    \cup {Call(<<"f", "i">>, args) : args \in {<<>>, <<Num(1)>>}}

CallSources ==
    {Program(<<S>>, IF f = g THEN <<f>> ELSE <<f, g>>,
             <<Decl(StructType("S"), "s", NewS), Decl(PairType(INT, CHAR), "p", NewPair(Num(1), Letter)),
               Decl(INT, "x", call)>>) :
        f \in Overloads, g \in Overloads, call \in Calls}
    \cup {Program(<<S>>, <<f>>, <<Eval(call)>>) : f \in Overloads, call \in Calls}

-----------------------------------------------------------------------------
(* Statements, in the main program and in a function of a parameter x.     *)

DeclareX(t, e) == Decl(t, "x", e)
Stmts ==
    {Skip, DeclareX(INT, Num(1)), DeclareX(BOOL, Yes), DeclareX(BOOL, Num(1)), Decl(INT, "y", X),
     Assign(X, Num(2)), Assign(X, Letter), Scope(<<DeclareX(BOOL, Yes)>>), Scope(<<Decl(INT, "y", Num(1))>>),
     If(Binary("<", X, Num(1)), <<DeclareX(INT, Num(1))>>, <<Assign(X, Yes)>>),
     If(X, <<Skip>>, <<Skip>>), While(X, <<DeclareX(INT, X)>>), While(Yes, <<Assign(X, Yes)>>), Give(1)}
    \cup {With(kind, X) : kind \in {"read", "free", "exit", "print", "return"}}
    \cup {With("print", Ident("y"))}

Bodies ==
    {<<s, t>> : s \in Stmts, t \in Stmts}
    \cup {<<DeclareX(t, e), s, With(kind, X)>> :
            t \in {INT, BOOL}, e \in {Num(1), Yes}, s \in Stmts, kind \in {"read", "exit"}}

StmtSources ==
    {Program(<<>>, <<>>, body) : body \in Bodies}
    \cup {Program(<<>>, <<Function("input", INT, <<"f">>, <<Typed(t, "x")>>, body \o <<Give(1)>>)>>, <<Skip>>) :
            t \in {INT, BOOL}, body \in Bodies}

-----------------------------------------------------------------------------
(* Bodies that return on all paths, on some, on none.                      *)

Leaves == {<<Skip>>, <<Give(1)>>, <<With("exit", Num(1))>>}
Nested == Leaves \cup {<<If(Yes, a, b)>> : a \in Leaves, b \in Leaves}
Blocks == {<<If(Yes, a, b)>> : a \in Nested, b \in Nested}
          \cup {<<While(Yes, a)>> : a \in Nested} \cup {<<Scope(a)>> : a \in Nested} \cup Nested

ReturnSources ==
    {Program(<<>>, <<Function("input", t, <<"f">>, <<>>, a \o b)>>, <<Skip>>) :
        t \in {INT, Void}, a \in {<<>>, <<Skip>>}, b \in Blocks}

-----------------------------------------------------------------------------
(* Expressions.                                                            *)

Operands == {Num(1), Yes, Letter, Text, Real, Null, Ident("a"), Ident("e"), Ident("s"), Ident("p"), Ident("u")}
Exprs ==
    {Unary(op, e) : op \in {"!", "-", "+", "len", "ord", "chr"}, e \in Operands}
    \cup {Binary(op, Num(1), e) : op \in {"+", "<", "==", "&&"}, e \in Operands}
    \cup {Binary(op, e, Num(1)) : op \in {"/", ">="}, e \in Operands}
    \cup {Binary(op, e, e) : op \in {"*", "<", "!=", "||"}, e \in Operands}
    \cup {ArrayElem(e, i) : e \in {Ident("a"), Ident("e"), Ident("s"), Text}, i \in {Num(1), Yes, Ident("u"), Num(8)}}
    \cup {Num(8), Unary("-", Num(8)), Unary("-", Num(9)), Unary("-", Unary("-", Num(8))), Unary("!", Num(8)),
          Binary("*", Num(2), Num(8)), Binary("*", Num(8), Num(2)), Binary("+", Num(2), Num(8)),
          Binary("*", Num(2), Binary("+", Num(8), Num(1))), Unary("-", Binary("+", Num(8), Num(1)))}

Rights ==
    {PairElem(half, v) : half \in {"fst", "snd"}, v \in {Ident("p"), Ident("s")}}
    \cup {StructElem(Ident(v), m) : v \in {"s", "p", "t"}, m \in {"n", "z"}}
    \cup {ArrayLit(<<>>), ArrayLit(<<Num(1)>>), ArrayLit(<<Num(1), Yes>>), ArrayLit(<<Ident("u")>>),
          ArrayLit(<<Text, Ident("c")>>), NewPair(Num(1), Letter), NewPair(Null, Num(1)),
          NewStruct("T", <<>>), NewS, NewStruct("S", <<Ident("u")>>), Text, Ident("c"), Null}

Before ==
    <<Decl(ArrayType(INT), "a", ArrayLit(<<Num(1), Num(2)>>)), Decl(ArrayType(CHAR), "c", ArrayLit(<<Letter>>)),
      Decl(STR, "e", Text), Decl(StructType("S"), "s", NewS), Decl(StructType("T"), "t", NewStruct("T", <<>>)),
      Decl(PairType(INT, PAIR), "p", NewPair(Num(1), Null))>>

ExprSources ==
    {Program(<<S>>, <<>>, Before \o <<With("print", e)>>) : e \in Exprs}
    \cup {Program(<<S>>, <<>>, Before \o <<Decl(t, "v", e)>>) :
            e \in Rights, t \in {INT, PairType(INT, CHAR), ArrayType(INT), ArrayType(STR), STR, StructType("T")}}
    \cup {Program(<<S>>, <<>>, Before \o <<Assign(l, Num(1))>>) :
            l \in {ArrayElem(Ident("a"), Num(1)), PairElem("fst", Ident("p")), PairElem("snd", Ident("p")),
                   StructElem(Ident("s"), "n"), StructElem(Ident("s"), "c")}}
    \cup {Program(<<S>>, <<>>, Before \o <<With("free", e)>>) : e \in Operands}

-----------------------------------------------------------------------------
(* The flags.                                                              *)

FlagSources ==
    {[Program(ss, <<>>, <<s>>) EXCEPT !.flags = flags] :
        flags \in SUBSET {"unchecked", "ast", "if"}, s \in {Skip, With("print", X)}, ss \in {<<S>>, <<S, OtherS>>}}

AllSources ==
    ImportSources \cup StumbleSources \cup CallSources \cup StmtSources \cup ReturnSources \cup ExprSources \cup FlagSources

-----------------------------------------------------------------------------
(* Programs that are accepted with an error in a part nobody looks at.     *)

UncheckedSources ==
    {Program(<<S>>, <<>>, <<Decl(ArrayType(INT), "a", ArrayLit(<<Num(1)>>)), Decl(INT, "x", ArrayElem(Ident("a"), i))>>) :
        i \in {Ident("u"), Yes}}
    \cup {Program(<<S>>, <<>>, <<Decl(StructType("S"), "s", NewStruct("S", args))>>) :
        args \in {<<>>, <<Ident("u"), Letter>>, <<Yes, Letter>>}}
    \cup {Program(<<>>, <<>>, <<Decl(StructType("S"), "s", NewS)>>),
          Program(<<>>, <<Fun(<<"f">>, <<INT>>)>>, <<Decl(INT, "x", Call(<<"f", "i">>, <<Num(1)>>))>>),
          Program(<<>>, <<>>, <<With("print", Binary("*", Num(2), Num(8)))>>)}
=============================================================================
