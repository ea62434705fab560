------------------------------ MODULE ExprCode ------------------------------
(***************************************************************************)
(* The register allocator's second half (src/backend/registers.go): how    *)
(* allocateRegisters turns the expressions of one instruction into code    *)
(* for registers.  Go's recursion is the sequence frames: an action is     *)
(* what a call of allocateRegisters or translateLValue does up to its next *)
(* recursive call, or after the last.  A frame's regs are the registers it *)
(* has allocated and must free.                                            *)
(***************************************************************************)
EXTENDS Integers, Sequences, FiniteSets

CONSTANTS
    NumRegisters,  \* the length of registerUseList, 12 in the code
    Exprs,         \* the expressions that occur, subexpressions included
    Statements     \* the instructions of the IF to allocate, one at a time

ArgRegisters == 0..3

ASSUME RegistersAssumption == NumRegisters \in Nat /\ NumRegisters > 3

\* The registers that allocateRegister hands out.
Pool == 4..(NumRegisters - 1)

VARIABLES
    stmt,             \* the instruction
    frames,           \* the calls in progress, innermost last
    registerUseList,  \* the registers marked as in use
    code,             \* the second-stage instructions pushed before stmt
    stage             \* "compiling", "panicked", "compiled"

vars == <<stmt, frames, registerUseList, code, stage>>

-----------------------------------------------------------------------------
(* Expressions.  Element accesses of pairs and structs are fields of the   *)
(* object a variable points to; NewPair, NewStruct and array literals are  *)
(* "new", whose arguments go to the words from `base` on.                  *)

Const(n)             == [kind |-> "const", value |-> n, immediate |-> TRUE]
LongConst(n)         == [Const(n) EXCEPT !.immediate = FALSE]  \* a float, a string, null
Var(v)               == [kind |-> "var", name |-> v]
Unary(op, e, type)   == [kind |-> "unary", op |-> op, operand |-> e, type |-> type]
Binary(op, a, b, type) == [kind |-> "binary", op |-> op, left |-> a, right |-> b, type |-> type]
Elem(array, index)   == [kind |-> "elem", array |-> array, index |-> index]
Field(v, offset)     == [kind |-> "field", object |-> v, offset |-> offset]
New(args, base)      == [kind |-> "new", args |-> args, base |-> base]
Call(args)           == [kind |-> "call", args |-> args]

\* The number of nodes, as far as it is looked at: operands of operators.
Weight[e \in Exprs] ==
    CASE e.kind = "unary"  -> Weight[e.operand] + 1
      [] e.kind = "binary" -> Weight[e.left] + Weight[e.right] + 1
      [] OTHER -> 1

\* Expressions are finite trees: there is no way down by operands forever.
ASSUME TreesAssumption ==
    \A e \in Exprs :
        /\ Weight[e] \in Nat
        /\ e.kind = "unary" => Weight[e.operand] < Weight[e]
        /\ e.kind = "binary" => Weight[e.left] < Weight[e] /\ Weight[e.right] < Weight[e]

\* Mutation: the lighter side first.
LeftFirstIfLighter(e) == Weight[e.left] < Weight[e.right]

\* The heavier side is evaluated first, the right one if they are equal.
LeftFirst(e) == Weight[e.left] > Weight[e.right]
FirstSide(e)  == IF LeftFirst(e) THEN e.left ELSE e.right
SecondSide(e) == IF LeftFirst(e) THEN e.right ELSE e.left

\* Statements: what an instruction evaluates and where it puts it.
Show(e)      == [kind |-> "show", expr |-> e]     \* Return, Exit, JmpCond
Printed(e)   == [kind |-> "print", expr |-> e]
Freed(e)     == [kind |-> "free", expr |-> e]
Eval(e)      == [kind |-> "eval", expr |-> e]
Move(lhs, e) == [kind |-> "move", lhs |-> lhs, expr |-> e]
Read(lhs)    == [kind |-> "read", lhs |-> lhs]

OneExprKinds == {"show", "print", "free", "eval"}

ExprKinds     == {"const", "var", "unary", "binary", "elem", "field", "new", "call"}
UnaryOps      == {"!", "-", "len", "ord", "chr"}
ArithmeticOps == {"+", "-", "*", "/"}
CompareOps    == {"<", "<=", ">", ">=", "==", "!="}
BinaryOps     == ArithmeticOps \cup CompareOps \cup {"%", "&&", "||"}

\* Exprs contains what its members and Statements are made of.
ASSUME ExprsAssumption ==
    /\ \A e \in Exprs :
          /\ e.kind \in ExprKinds
          /\ e.kind = "unary" => e.op \in UnaryOps /\ e.operand \in Exprs
          /\ e.kind = "binary" => e.op \in BinaryOps /\ e.left \in Exprs /\ e.right \in Exprs
          /\ e.kind = "elem" => e.array \in Exprs /\ e.index \in Exprs
          /\ e.kind \in {"new", "call"} => e.args \in Seq(Exprs)
    /\ \A s \in Statements :
          /\ s.kind \in OneExprKinds \cup {"move", "read"}
          /\ s.kind \in OneExprKinds \cup {"move"} => s.expr \in Exprs
          /\ s.kind \in {"move", "read"} => s.lhs \in Exprs

-----------------------------------------------------------------------------
(* Second-stage instructions.  Constants and variables (stack locations)   *)
(* are operands as they are.                                               *)

RegisterExpr(r)   == [kind |-> "reg", id |-> r]
MemExpr(r, offset) == [kind |-> "mem", id |-> r, offset |-> offset]

MoveInstr(dst, src) == [op |-> "move", dst |-> dst, src |-> src]
Load(r, src)        == MoveInstr(RegisterExpr(r), src)
BinInstr(op, dst, op1, op2, type) == [op |-> op, dst |-> dst, op1 |-> op1, op2 |-> op2, type |-> type]
OneInstr(op, r)     == [op |-> op, dst |-> r]
NegInstr(r, type)   == [op |-> "neg", dst |-> r, type |-> type]
HeapAllocInstr(r, size) == [op |-> "alloc", dst |-> r, size |-> size]
CallInstr(n)        == [op |-> "call", args |-> n]
ReadInstr(place)    == [op |-> "read", dst |-> place]
ImmediateInstr(e)   == [op |-> "immediate", value |-> e.value]

\* smull's high half goes to an operand that is not the destination.
OverflowReg(i) == IF i.dst = i.op1 THEN i.op2 ELSE i.op1

\* The registers an instruction's machine code overwrites, library routines
\* (division, floats, malloc, functions) taking all of r0-r3.
Writes(i) ==
    CASE i.op = "move" -> IF i.dst.kind = "reg" THEN {i.dst.id} ELSE {}
      [] i.op \in {"+", "-", "*"} /\ i.type = "int" ->
            {i.dst} \cup (IF i.op = "*" THEN {OverflowReg(i)} ELSE {})
      [] i.op \in ArithmeticOps /\ (i.op = "/" \/ i.type # "int") -> {i.dst} \cup ArgRegisters
      [] i.op = "alloc" -> {i.dst} \cup ArgRegisters
      [] i.op \in {"call", "read", "show", "print", "immediate", "free"} -> ArgRegisters
      [] i.op = "bounds" -> {1}
      [] i.op \in {"push", "null"} -> {}
      [] OTHER -> {i.dst}

-----------------------------------------------------------------------------
(* Frames.                                                                 *)

Frame(task, node, dst) == [task |-> task, node |-> node, dst |-> dst, at |-> 0, regs |-> <<>>]

Top == frames[Len(frames)]
At(task, kind, n) ==
    /\ stage = "compiling"
    /\ Top.task = task /\ Top.node.kind = kind /\ Top.at = n

FreeRegisters == Pool \ registerUseList
Lowest == CHOOSE r \in FreeRegisters : \A q \in FreeRegisters : r <= q
CanAllocate == FreeRegisters # {}

\* The frame of a call that goes on, with the same registers or one more.
Further(f) == [f EXCEPT !.at = @ + 1]
FurtherWith(f, r) == [f EXCEPT !.at = @ + 1, !.regs = Append(@, r)]

\* The caller goes on with one more register of its own, and perhaps calls.
Allocating(callee) ==
    /\ CanAllocate
    /\ registerUseList' = registerUseList \cup {Lowest}
    /\ frames' = [frames EXCEPT ![Len(frames)] = FurtherWith(@, Lowest)] \o callee

\* The caller calls without allocating anything.
Calling(callee) ==
    /\ frames' = [frames EXCEPT ![Len(frames)] = Further(@)] \o <<callee>>
    /\ UNCHANGED registerUseList

Held(f) == {f.regs[n] : n \in 1..Len(f.regs)}

\* The call returns, having freed what it allocated.
Returning ==
    /\ registerUseList' = registerUseList \ Held(Top)
    /\ frames' = SubSeq(frames, 1, Len(frames) - 1)
    /\ stage' = IF Len(frames) = 1 THEN "compiled" ELSE stage

Pushing(instrs) == code' = code \o instrs

-----------------------------------------------------------------------------
(* Expressions: allocateRegisters(ctx, dst).                               *)

Leaf ==
    /\ \E k \in {"const", "var"} : At("expr", k, 0)
    /\ Pushing(<<Load(Top.dst, Top.node)>>)
    /\ Returning /\ UNCHANGED stmt

\* Mutation: a unary operator evaluates its operand into no register.
UnaryOperandNowhere ==
    /\ At("expr", "unary", 0)
    /\ Calling(Frame("expr", Top.node.operand, NumRegisters))
    /\ UNCHANGED <<stmt, code, stage>>

UnaryOperand ==
    /\ At("expr", "unary", 0)
    /\ Calling(Frame("expr", Top.node.operand, Top.dst))
    /\ UNCHANGED <<stmt, code, stage>>

\* Not needs a register for the mask, which it frees at once.
UnaryOperator ==
    /\ At("expr", "unary", 1)
    /\ Top.node.op = "!" => CanAllocate
    /\ LET r == Top.dst IN
       Pushing(CASE Top.node.op = "!" -> <<OneInstr("not", r), Load(Lowest, Const(1)),
                                           BinInstr("&&", r, r, Lowest, "bool")>>
                 [] Top.node.op = "-" -> <<NegInstr(r, Top.node.type)>>
                 [] Top.node.op = "len" -> <<Load(r, MemExpr(r, 0))>>
                 [] OTHER -> <<>>)   \* ord, chr
    /\ Returning /\ UNCHANGED stmt

BinaryFirst ==
    /\ At("expr", "binary", 0)
    /\ Calling(Frame("expr", FirstSide(Top.node), Top.dst))
    /\ UNCHANGED <<stmt, code, stage>>

\* Mutation: the second side is evaluated into the same register.
BinarySecondSameRegister ==
    /\ At("expr", "binary", 1)
    /\ Allocating(<<Frame("expr", SecondSide(Top.node), Top.dst)>>)
    /\ UNCHANGED <<stmt, code, stage>>

BinarySecond ==
    /\ At("expr", "binary", 1)
    /\ Allocating(<<Frame("expr", SecondSide(Top.node), Lowest)>>)
    /\ UNCHANGED <<stmt, code, stage>>

\* Mod is made of a division, a product and a difference.
BinaryOperator ==
    /\ At("expr", "binary", 2)
    /\ Top.node.op = "%" => CanAllocate
    /\ LET dst == Top.dst
           helper == Top.regs[1]
           op1 == IF LeftFirst(Top.node) THEN dst ELSE helper
           op2 == IF LeftFirst(Top.node) THEN helper ELSE dst
           type == Top.node.type
       IN  Pushing(IF Top.node.op = "%"
                   THEN <<BinInstr("/", Lowest, op1, op2, type),
                          BinInstr("*", Lowest, Lowest, op2, type),
                          BinInstr("-", dst, op1, Lowest, type)>>
                   ELSE <<BinInstr(Top.node.op, dst, op1, op2, type)>>)
    /\ Returning /\ UNCHANGED stmt

\* The operand through which a place is read or written once translateLValue
\* has left the object's address in register r.
PlaceOf(e, r) == CASE e.kind = "elem"  -> MemExpr(r, 4)
                   [] e.kind = "field" -> MemExpr(r, e.offset)
                   [] OTHER -> e

ElementPlace ==
    /\ \E k \in {"elem", "field"} : At("expr", k, 0)
    /\ Allocating(<<Frame("place", Top.node, Lowest)>>)
    /\ UNCHANGED <<stmt, code, stage>>

ElementLoad ==
    /\ \E k \in {"elem", "field"} : At("expr", k, 1)
    /\ Pushing(<<Load(Top.dst, PlaceOf(Top.node, Top.regs[1]))>>)
    /\ Returning /\ UNCHANGED stmt

\* Array literals store their length in the first word.
NewObject ==
    /\ At("expr", "new", 0)
    /\ Allocating(<<>>)
    /\ LET n == Len(Top.node.args) IN
       Pushing(<<HeapAllocInstr(Top.dst, 4 * n + Top.node.base)>>
               \o IF Top.node.base = 0 THEN <<>>
                  ELSE <<Load(Lowest, Const(n)), MoveInstr(MemExpr(Top.dst, 0), RegisterExpr(Lowest))>>)
    /\ UNCHANGED <<stmt, stage>>

\* What is left to do for the argument evaluated last.
StoreLast ==
    IF Top.at = 1 THEN <<>>
    ELSE <<MoveInstr(MemExpr(Top.dst, Top.node.base + 4 * (Top.at - 2)), RegisterExpr(Top.regs[1]))>>

NewArgument ==
    /\ At("expr", "new", Top.at) /\ Top.at \in 1..Len(Top.node.args)
    /\ Pushing(StoreLast)
    /\ Calling(Frame("expr", Top.node.args[Top.at], Top.regs[1]))
    /\ UNCHANGED <<stmt, stage>>

NewDone ==
    /\ At("expr", "new", Top.at) /\ Top.at = Len(Top.node.args) + 1
    /\ Pushing(StoreLast)
    /\ Returning /\ UNCHANGED stmt

-----------------------------------------------------------------------------
(* Calls: four arguments in r0-r3, the others pushed.                      *)

AtArgument == Top.node.kind = "call" /\ Top.regs = <<>> /\ Top.at < Len(Top.node.args)

RegisterArgument ==
    /\ \E n \in ArgRegisters : At("expr", "call", n)
    /\ AtArgument
    /\ Calling(Frame("expr", Top.node.args[Top.at + 1], Top.at))
    /\ UNCHANGED <<stmt, code, stage>>

StackArgument ==
    /\ At("expr", "call", Top.at) /\ Top.at \notin ArgRegisters
    /\ AtArgument
    /\ Allocating(<<Frame("expr", Top.node.args[Top.at + 1], Lowest)>>)
    /\ UNCHANGED <<stmt, code, stage>>

\* Mutation: the register of a stack argument stays taken.
PushArgumentKeepsRegister ==
    /\ At("expr", "call", Top.at) /\ Top.regs # <<>>
    /\ Pushing(<<OneInstr("push", Top.regs[1])>>)
    /\ frames' = [frames EXCEPT ![Len(frames)].regs = <<>>]
    /\ UNCHANGED <<stmt, registerUseList, stage>>

PushArgument ==
    /\ At("expr", "call", Top.at) /\ Top.regs # <<>>
    /\ Pushing(<<OneInstr("push", Top.regs[1])>>)
    /\ registerUseList' = registerUseList \ Held(Top)
    /\ frames' = [frames EXCEPT ![Len(frames)].regs = <<>>]
    /\ UNCHANGED <<stmt, stage>>

\* The arguments on the stack are popped into a register that nobody uses.
CallDone ==
    /\ At("expr", "call", Top.at) /\ Top.regs = <<>> /\ Top.at = Len(Top.node.args)
    /\ Len(Top.node.args) > 4 => CanAllocate
    /\ Pushing(<<CallInstr(Len(Top.node.args)), Load(Top.dst, RegisterExpr(0))>>
               \o [n \in 1..(Len(Top.node.args) - 4) |-> OneInstr("pop", Lowest)])
    /\ Returning /\ UNCHANGED stmt

-----------------------------------------------------------------------------
(* Places: translateLValue(e, r), which leaves an address in r.            *)

PlaceArray ==
    /\ At("place", "elem", 0)
    /\ Allocating(<<Frame("expr", Top.node.array, Top.dst)>>)
    /\ UNCHANGED <<stmt, code, stage>>

PlaceIndex ==
    /\ At("place", "elem", 1)
    /\ Calling(Frame("expr", Top.node.index, Top.regs[1]))
    /\ UNCHANGED <<stmt, code, stage>>

\* The runtime checks may come while r0 and r1 hold arguments.
PlaceElement ==
    /\ At("place", "elem", 2)
    /\ LET ptr == Top.dst
           index == Top.regs[1]
       IN  Pushing(<<OneInstr("push", 0), OneInstr("push", 1),
                     Load(1, RegisterExpr(ptr)), Load(0, RegisterExpr(index)),
                     OneInstr("bounds", 0), OneInstr("null", ptr),
                     OneInstr("pop", 1), OneInstr("pop", 0),
                     BinInstr("+4*", ptr, ptr, index, "int")>>)
    /\ Returning /\ UNCHANGED stmt

PlaceField ==
    /\ At("place", "field", 0)
    /\ Pushing(<<Load(Top.dst, Var(Top.node.object)), OneInstr("null", Top.dst)>>)
    /\ Returning /\ UNCHANGED stmt

PlaceVariable ==
    /\ At("place", "var", 0)
    /\ Pushing(<<>>)
    /\ Returning /\ UNCHANGED stmt

-----------------------------------------------------------------------------
(* Instructions: allocateRegisters(ctx).                                   *)

\* Only a character, a truth value or an integer is printed without a register.
PrintsImmediate ==
    Top.node.kind = "print" /\ Top.node.expr.kind = "const" /\ Top.node.expr.immediate

PrintImmediate ==
    /\ At("stmt", "print", 0) /\ PrintsImmediate
    /\ Pushing(<<ImmediateInstr(Top.node.expr)>>)
    /\ Returning /\ UNCHANGED stmt

StmtExpr ==
    /\ \E k \in OneExprKinds : At("stmt", k, 0)
    /\ ~PrintsImmediate
    /\ Allocating(<<Frame("expr", Top.node.expr, Lowest)>>)
    /\ UNCHANGED <<stmt, code, stage>>

StmtDone ==
    /\ \E k \in OneExprKinds : At("stmt", k, 1)
    /\ Pushing(IF Top.node.kind = "eval" THEN <<>> ELSE <<OneInstr(Top.node.kind, Top.regs[1])>>)
    /\ Returning /\ UNCHANGED stmt

MoveSource ==
    /\ At("stmt", "move", 0)
    /\ Allocating(<<>>)
    /\ UNCHANGED <<stmt, code, stage>>

MoveExpr ==
    /\ At("stmt", "move", 1)
    /\ Allocating(<<Frame("expr", Top.node.expr, Top.regs[1])>>)
    /\ UNCHANGED <<stmt, code, stage>>

MovePlace ==
    /\ At("stmt", "move", 2)
    /\ Calling(Frame("place", Top.node.lhs, Top.regs[2]))
    /\ UNCHANGED <<stmt, code, stage>>

MoveDone ==
    /\ At("stmt", "move", 3)
    /\ Pushing(<<MoveInstr(PlaceOf(Top.node.lhs, Top.regs[2]), RegisterExpr(Top.regs[1]))>>)
    /\ Returning /\ UNCHANGED stmt

\* The number read goes straight to a variable.
ReadVariable ==
    /\ At("stmt", "read", 0) /\ Top.node.lhs.kind = "var"
    /\ Pushing(<<ReadInstr(Top.node.lhs)>>)
    /\ Returning /\ UNCHANGED stmt

ReadPlace ==
    /\ At("stmt", "read", 0) /\ Top.node.lhs.kind # "var"
    /\ Allocating(<<Frame("place", Top.node.lhs, Lowest)>>)
    /\ UNCHANGED <<stmt, code, stage>>

ReadDone ==
    /\ At("stmt", "read", 1)
    /\ Pushing(<<ReadInstr(PlaceOf(Top.node.lhs, Top.regs[1]))>>)
    /\ Returning /\ UNCHANGED stmt

-----------------------------------------------------------------------------
(* panic("Ran out of registers - need to spill").                          *)

Allocates ==
    \/ \E k \in {"elem", "field", "new"} : At("expr", k, 0)
    \/ At("expr", "binary", 1)
    \/ At("expr", "unary", 1) /\ Top.node.op = "!"
    \/ At("expr", "binary", 2) /\ Top.node.op = "%"
    \/ At("expr", "call", Top.at) /\ AtArgument /\ Top.at \notin ArgRegisters
    \/ At("expr", "call", Top.at) /\ Top.regs = <<>> /\ Top.at = Len(Top.node.args) /\ Top.at > 4
    \/ At("place", "elem", 0)
    \/ At("stmt", Top.node.kind, 0) /\ ~PrintsImmediate
          /\ (Top.node.kind = "read" => Top.node.lhs.kind # "var")
    \/ At("stmt", "move", 1)

Panic ==
    /\ stage = "compiling" /\ Allocates /\ ~CanAllocate
    /\ stage' = "panicked"
    /\ UNCHANGED <<stmt, frames, registerUseList, code>>

CompileInit ==
    /\ stmt \in Statements
    /\ frames = <<Frame("stmt", stmt, 0)>>
    /\ registerUseList = {}
    /\ code = <<>>
    /\ stage = "compiling"

CompileNext ==
    \/ Leaf \/ UnaryOperand \/ UnaryOperator
    \/ BinaryFirst \/ BinarySecond \/ BinaryOperator
    \/ ElementPlace \/ ElementLoad
    \/ NewObject \/ NewArgument \/ NewDone
    \/ RegisterArgument \/ StackArgument \/ PushArgument \/ CallDone
    \/ PlaceArray \/ PlaceIndex \/ PlaceElement \/ PlaceField \/ PlaceVariable
    \/ PrintImmediate \/ StmtExpr \/ StmtDone \/ MoveSource \/ MoveExpr \/ MovePlace \/ MoveDone
    \/ ReadVariable \/ ReadPlace \/ ReadDone
    \/ Panic

CompileSpec == CompileInit /\ [][CompileNext]_vars

-----------------------------------------------------------------------------
(* Properties.                                                             *)

\* Frames are calls of the three kinds with a destination register and
\* registers of the pool, and there are none left exactly when the
\* instruction is done.
TypeOK ==
    /\ stmt \in Statements
    /\ stage \in {"compiling", "panicked", "compiled"}
    /\ registerUseList \subseteq Pool
    /\ \A n \in 1..Len(frames) :
          /\ frames[n].task \in {"expr", "place", "stmt"}
          /\ frames[n].dst \in ArgRegisters \cup Pool
          /\ frames[n].at \in Nat
          /\ frames[n].regs \in Seq(Pool)
    /\ (stage = "compiled") = (frames = <<>>)

\* registerUseList is what the calls in progress have allocated, each
\* register by one of them: freeRegister never meets a free register, and
\* after the instruction every register is free again.
RegistersAccounted ==
    /\ registerUseList = UNION {Held(frames[n]) : n \in 1..Len(frames)}
    /\ \A m, n \in 1..Len(frames) : m # n => Held(frames[m]) \cap Held(frames[n]) = {}

\* Made of operators that take one register more than their operands at most.
Plain[e \in Exprs] ==
    CASE e.kind = "unary"  -> e.op # "!" /\ Plain[e.operand]
      [] e.kind = "binary" -> e.op # "%" /\ Plain[e.left] /\ Plain[e.right]
      [] OTHER -> e.kind \in {"const", "var"}

\* The registers free when the expression of the instruction is reached, with
\* the one that gets its value.
ExprRegisters == Cardinality(Pool) - (IF stmt.kind = "move" THEN 1 ELSE 0)

\* The weight of a perfect tree of n + 1 levels.
Perfect[n \in -1..NumRegisters] == IF n = -1 THEN 0 ELSE 2 * Perfect[n - 1] + 1

\* Whether the instruction is past its expression, at the place it writes to.
InPlace == stmt.kind = "read" \/ \E n \in 1..Len(frames) : frames[n].task = "place"

\* With n registers the allocator gets by for every expression lighter than a
\* perfect tree of n + 1 levels, however it leans: the compiler panics with
\* "Ran out of registers - need to spill" on no smaller one.  (Elements, objects,
\* calls, ! and % need registers the weight knows nothing of, and so may the
\* place that is assigned to or read into.)
WeightsForesee ==
    stage = "panicked" =>
        InPlace \/ ~Plain[stmt.expr] \/ Weight[stmt.expr] >= Perfect[ExprRegisters]

\* The registers whose contents a call still needs after the call it waits for.
Needs(f) ==
    CASE f.task = "expr" /\ f.node.kind = "binary" /\ f.at = 2 -> {f.dst}
      [] f.task = "expr" /\ f.node.kind = "new" /\ f.at > 1 -> {f.dst}
      [] f.task = "place" /\ f.node.kind = "elem" /\ f.at = 2 -> {f.dst}
      [] f.task = "stmt" /\ f.node.kind = "move" /\ f.at = 3 -> {f.regs[1]}
      [] OTHER -> {}

Waiting == UNION {Needs(frames[n]) : n \in 1..(Len(frames) - 1)}

\* No code is generated that overwrites a register of the pool in which a part
\* of the expression evaluated earlier waits to be used: the left operand of
\* an operator, the address of an object being filled or indexed, the value
\* to be assigned.  (Arguments wait in r0-r3, which are not of the pool.)
TemporariesSurvive ==
    [][\A n \in (Len(code) + 1)..Len(code') :
          Writes(code'[n]) \cap Waiting \cap Pool = {}]_vars
=============================================================================
