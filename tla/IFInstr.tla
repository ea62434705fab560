------------------------------- MODULE IFInstr -------------------------------
(***************************************************************************)
(* The intermediate form (IF) of the WACC compiler, src/backend/if.go, as  *)
(* far as control flow and stack scopes are concerned.  An instruction is  *)
(* a record whose "op" names its Go type; expressions are abstracted away. *)
(***************************************************************************)
EXTENDS Naturals

CONSTANT Names       \* variable and parameter names

\* translator.go uses regWidth as the size of every variable.
RegWidth == 4

\* The frame bytes of a scope that declares n distinct names: popScope rounds
\* n * regWidth up to a multiple of 8 ("double-word aligned").
AlignedSize(n) == LET bytes == n * RegWidth
                  IN  IF bytes % 8 = 0 THEN bytes ELSE bytes + (8 - (bytes % 8))

-----------------------------------------------------------------------------
(* Labels.  _else_begin%d, _ifelse_end%d, _while_begin%d and _while_end%d   *)
(* carry the number of the statement; a function's label carries its name. *)

ControlKinds == {"else_begin", "ifelse_end", "while_begin", "while_end"}

ControlLabel(kind, n) == [kind |-> kind, n |-> n]
FuncLabel(f) == [kind |-> "func", func |-> f]
MainLabel == [kind |-> "main"]

-----------------------------------------------------------------------------
(* Instructions.                                                            *)

Label(l)     == [op |-> "label", label |-> l]
Jmp(l)       == [op |-> "jmp", dst |-> l]
JmpCond(l)   == [op |-> "jmpcond", dst |-> l]
PushScope(n) == [op |-> "pushscope", size |-> n]
PopScope(n)  == [op |-> "popscope", size |-> n]
Declare(v)   == [op |-> "declare", var |-> v]

\* An instruction that neither transfers control within the function nor
\* opens, closes or extends a scope: NoOpInstr, EvalInstr, MoveInstr,
\* ReadInstr, FreeInstr, PrintInstr, ExitInstr, ReturnInstr, LocaleInstr, and
\* the MoveInstr of a parameter ("param").
SimpleKinds == {"noop", "eval", "move", "read", "free", "print", "exit",
                "return", "locale", "param"}
Simple(kind) == [op |-> kind]

IsJump(i)  == i.op \in {"jmp", "jmpcond"}
IsLabel(i) == i.op = "label"
=============================================================================
