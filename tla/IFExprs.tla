------------------------------- MODULE IFExprs -------------------------------
(***************************************************************************)
(* Expressions of the IF, src/backend/if.go, and the instructions that     *)
(* carry one, as far as the optimiser looks at them.                       *)
(***************************************************************************)
EXTENDS IFInstr, Integers

IntConstExpr(k)      == [e |-> "int", value |-> k]
VarExpr(v)           == [e |-> "var", name |-> v]
RegisterExpr(n)      == [e |-> "register", id |-> n]
StackArgumentExpr(n) == [e |-> "stackarg", id |-> n]
UnaryExpr(o, x)      == [e |-> "unary", op |-> o, operand |-> x]
BinaryExpr(o, l, r)  == [e |-> "binary", op |-> o, left |-> l, right |-> r]
CallExpr(f, args)    == [e |-> "call", func |-> f, args |-> args]

MoveInstr(d, s)      == [op |-> "move", dst |-> d, src |-> s]
PrintInstr(x)        == [op |-> "print", expr |-> x]
ReadInstr(v)         == [op |-> "read", dst |-> VarExpr(v)]
ReturnInstr(x)       == [op |-> "return", expr |-> x]
JmpCondInstr(l, c)   == [op |-> "jmpcond", dst |-> l, cond |-> c]

IsVarMove(i)  == i.op = "move" /\ i.dst.e = "var"
IsCallMove(i) == i.op = "move" /\ i.src.e = "call"
=============================================================================
