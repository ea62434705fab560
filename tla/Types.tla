------------------------------- MODULE Types -------------------------------
(***************************************************************************)
(* The types of the checker: their comparison (src/frontend/ast.go) and    *)
(* the codes that overloads are told apart by (src/frontend/semantic.go).  *)
(***************************************************************************)
EXTENDS Sequences

Basic(id)    == [kind |-> "basic", id |-> id]
INT          == Basic("int")
FLOAT        == Basic("float")
BOOL         == Basic("bool")
CHAR         == Basic("char")
STR          == Basic("string")
PAIR         == Basic("pair")     \* null, and pairs inside the type of a pair
StructType(name) == [kind |-> "struct", name |-> name]
ArrayType(base)  == [kind |-> "array", base |-> base]
PairType(fst, snd) == [kind |-> "pair", fst |-> fst, snd |-> snd]
AnyType      == [kind |-> "any"]    \* of the elements of []
ErrorType    == [kind |-> "error"]
\* What the grammar gives void functions is a pointer to a basic type, which
\* no comparison recognises.
Void         == [kind |-> "void"]

\* a.Equals(b).  Arrays and pairs compare the parts the other way round, which
\* matters to AnyType only: it equals everything, and nothing else equals it.
RECURSIVE Equals(_, _)
Equals(a, b) ==
    CASE a.kind = "basic" ->
            \/ b.kind = "pair" /\ a = PAIR
            \/ b.kind = "basic" /\ a.id = b.id
            \/ b.kind = "array" /\ a = STR /\ Equals(b.base, CHAR)
      [] a.kind = "struct" -> b.kind = "struct" /\ a.name = b.name
      [] a.kind = "array" ->
            \/ b.kind = "array" /\ Equals(b.base, a.base)
            \/ b = STR /\ Equals(a.base, CHAR)
      [] a.kind = "pair" ->
            \/ b = PAIR
            \/ b.kind = "pair" /\ Equals(b.fst, a.fst) /\ Equals(b.snd, a.snd)
      [] a.kind = "any" -> TRUE
      [] a.kind \in {"error", "void"} -> FALSE

Numeric(t)    == Equals(t, INT) \/ Equals(t, FLOAT)
Comparable(t) == Numeric(t) \/ Equals(t, CHAR)
Freeable(t)   == Equals(t, PairType(AnyType, AnyType)) \/ Equals(t, ArrayType(AnyType))

\* encodeType gives up on the others, with a panic of the compiler.
RECURSIVE Encodable(_)
Encodable(t) ==
    t.kind \in {"basic", "pair"} \/ (t.kind = "array" /\ Encodable(t.base))

\* A letter per type constructor; the parts of a pair are not looked at.
RECURSIVE Code(_)
Code(t) ==
    CASE t = STR -> <<"a", "c">>
      [] t.kind = "basic" /\ t # STR ->
            <<CASE t = INT -> "i" [] t = FLOAT -> "f" [] t = BOOL -> "b"
                [] t = CHAR -> "c" [] t = PAIR -> "p">>
      [] t.kind = "array" -> <<"a">> \o Code(t.base)
      [] t.kind = "pair" -> <<"p">>
=============================================================================
