------------------------------ MODULE IFLayout ------------------------------
(***************************************************************************)
(* What the allocator (src/backend/registers.go) and the generator         *)
(* (src/backend/generator.go) count as they go along the text of a         *)
(* function: the scopes with their slots, and the words between the frame  *)
(* and the stack pointer.                                                  *)
(***************************************************************************)
EXTENDS VariableScope, IFExprs

\* The scopes once instruction i has been visited.  The types of variables
\* play no part here.
ScopesPast(s, i) ==
    CASE i.op = "pushscope" -> PushVarScope(s)
      [] i.op = "popscope"  -> PopVarScope(s)
      [] i.op = "declare"   -> CreateVariable(s, i.var, 1)
      [] IsVarMove(i)       -> InitialiseVariable(s, i.dst.name)
      [] OTHER              -> s

\* stackDistance, in words, once instruction i has been visited.
DistancePast(d, i) == CASE i.op = "pushscope" -> d + i.size \div RegWidth
                        [] i.op = "popscope"  -> d - i.size \div RegWidth
                        [] OTHER -> d

\* The branch opens a scope of its own.
NewLayout == [scopes |-> PushVarScope(<<>>), dist |-> 0]

LayoutPast(l, i) == [scopes |-> ScopesPast(l.scopes, i), dist |-> DistancePast(l.dist, i)]

\* Where the walk has come to behind the first n instructions of code.
Layouts(code) ==
    LET at[n \in 0..Len(code)] ==
            IF n = 0 THEN NewLayout ELSE LET here == at[n - 1] IN LayoutPast(here, code[n])
    IN  at

\* Every variable declared has a word in the frame of its moment.
FrameHoldsSlots(code) ==
    LET at == Layouts(code)
    IN  \A n \in 1..Len(code) :
            code[n].op = "declare" => NextSlot(at[n - 1].scopes) < at[n - 1].dist
=============================================================================
