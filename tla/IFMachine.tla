------------------------------ MODULE IFMachine ------------------------------
(***************************************************************************)
(* What a piece of IF does when it runs: the instructions of               *)
(* src/backend/if.go with the expressions the optimiser looks at, the      *)
(* allocator's choice of a slot for every name (src/backend/registers.go)  *)
(* and the effect of the code generated for them                           *)
(* (src/backend/generator.go) on the stack and on the output.  It is the   *)
(* yardstick of the optimiser's modules: IF before and after a pass is to  *)
(* behave alike.                                                           *)
(***************************************************************************)
EXTENDS IFLayout

CONSTANT Input     \* the number every read yields

-----------------------------------------------------------------------------
(* The text of a function, walked by the allocator and by the generator.   *)

RECURSIVE NamesOf(_)
NamesOf(x) ==
    CASE x.e = "var"    -> {x.name}
      [] x.e = "unary"  -> NamesOf(x.operand)
      [] x.e = "binary" -> NamesOf(x.left) \cup NamesOf(x.right)
      [] x.e = "call"   -> UNION {NamesOf(x.args[n]) : n \in 1..Len(x.args)}
      [] OTHER          -> {}

NamesRead(i) == CASE i.op = "move"    -> NamesOf(i.src)
                  [] i.op = "jmpcond" -> NamesOf(i.cond)
                  [] i.op \in {"print", "return"} -> NamesOf(i.expr)
                  [] OTHER            -> {}

NamesWritten(i) == IF i.op \in {"move", "read"} THEN NamesOf(i.dst) ELSE {}

\* lookupVariable, where it does not panic.
SlotsIn(s, names) ==
    [v \in {n \in names : Readable(s, n) # {}} |-> s[Greatest(Readable(s, v))].vars[v].stack]

\* A walk that has not begun; the branch opens a scope of its own.
NewWalk == [scopes |-> PushVarScope(<<>>), dist |-> 0, rows |-> <<>>]

\* A walk visits instruction i and notes the slots of the names its source
\* reads and of those it writes, and the distance.
Visit(walk, i) ==
    LET past == ScopesPast(walk.scopes, i)
    IN  [scopes |-> past,
         dist   |-> DistancePast(walk.dist, i),
         rows   |-> Append(walk.rows, [reads |-> SlotsIn(walk.scopes, NamesRead(i)),
                                       writes |-> SlotsIn(past, NamesWritten(i)),
                                       dist |-> walk.dist])]

-----------------------------------------------------------------------------
(* The machine.  "mem" holds the words of the stack, deepest first; the    *)
(* word at the stack pointer is mem[sp].                                   *)

Junk == -99          \* stands for a word that was not computed by the program
SavedWords == 9      \* push {r4-r11,lr}

Machine(entry) ==
    [frames |-> <<[fn |-> entry, pc |-> 1, args |-> <<>>]>>,
     sp |-> SavedWords, mem |-> [k \in 1..SavedWords |-> Junk],
     out |-> <<>>, running |-> TRUE]

Frame(m) == m.frames[Len(m.frames)]

WordAt(m, k) == IF k \in 1..Len(m.mem) THEN m.mem[k] ELSE Junk

\* str: the memory beyond the stack pointer can be written, but not relied on.
Store(mem, k, w) ==
    [j \in 1..(IF k > Len(mem) THEN k ELSE Len(mem)) |->
        IF j = k THEN w ELSE IF j <= Len(mem) THEN mem[j] ELSE Junk]

\* A callee, of the program or of the C library, uses the stack below sp.
Keep(m, sp) == SubSeq(m.mem, 1, IF sp < Len(m.mem) THEN sp ELSE Len(m.mem))

\* generateStackOffset.
Address(m, here, slot) == m.sp - here.dist + slot

Apply(o, l, r) == CASE o = "+"  -> l + r
                    [] o = "-"  -> l - r
                    [] o = "<"  -> l < r
                    [] o = "<=" -> l <= r
                    [] o = "!=" -> l # r

RECURSIVE ValueOf(_, _, _)
ValueOf(m, here, x) ==
    CASE x.e = "int" -> x.value
      [] x.e = "var" -> WordAt(m, Address(m, here, here.reads[x.name]))
      [] x.e \in {"register", "stackarg"} ->
            IF x.id < Len(Frame(m).args) THEN Frame(m).args[x.id + 1] ELSE Junk
      [] x.e = "unary" -> ~ValueOf(m, here, x.operand)
      [] x.e = "binary" -> Apply(x.op, ValueOf(m, here, x.left), ValueOf(m, here, x.right))

\* The frames with the innermost one at instruction n.
At(m, n) == [m.frames EXCEPT ![Len(m.frames)].pc = n]
Following(m) == At(m, Frame(m).pc + 1)

LabelAt(m, code, l) == At(m, CHOOSE n \in 1..Len(code) : code[n] = Label(l))

Assign(m, here, v, w) ==
    [m EXCEPT !.mem = Store(@, Address(m, here, here.writes[v]), w), !.frames = Following(m)]

\* The callee's frame lies beyond the saved registers.
Enter(m, f, args) ==
    [m EXCEPT !.frames = Append(@, [fn |-> f, pc |-> 1, args |-> args]),
              !.sp = @ + SavedWords,
              !.mem = Keep(m, m.sp)]

\* add sp, #stackDistance and pop {r4-r11,pc}: back to the Move that called.
Leave(m, here, prog, layouts, w) ==
    LET back == [m EXCEPT !.frames = SubSeq(@, 1, Len(@) - 1),
                          !.sp = @ - here.dist - SavedWords]
        caller == Frame(back)
    IN  Assign(back, layouts[caller.fn][caller.pc], prog[caller.fn][caller.pc].dst.name, w)

\* One instruction.  "prog" is the code of each function and "layouts" the
\* rows of its walk.
Step(prog, layouts, m) ==
    LET code == prog[Frame(m).fn]
        i    == code[Frame(m).pc]
        here == layouts[Frame(m).fn][Frame(m).pc]
        Val(x) == ValueOf(m, here, x)
    IN  CASE Frame(m).pc > Len(code) -> [m EXCEPT !.running = FALSE]
          [] i.op \in {"label", "declare", "noop", "locale"} -> [m EXCEPT !.frames = Following(m)]
          [] i.op = "pushscope" ->
                [m EXCEPT !.sp = @ + i.size \div RegWidth, !.frames = Following(m)]
          [] i.op = "popscope" ->
                [m EXCEPT !.sp = @ - i.size \div RegWidth, !.frames = Following(m)]
          [] i.op = "jmp" -> [m EXCEPT !.frames = LabelAt(m, code, i.dst)]
          [] i.op = "jmpcond" ->
                [m EXCEPT !.frames = IF Val(i.cond) THEN LabelAt(m, code, i.dst) ELSE Following(m)]
          [] i.op = "print" ->
                [m EXCEPT !.out = Append(@, Val(i.expr)), !.mem = Keep(m, m.sp),
                          !.frames = Following(m)]
          [] i.op = "read" ->
                Assign([m EXCEPT !.mem = Store(Keep(m, m.sp), m.sp, Input)],
                       here, i.dst.name, Input)
          [] i.op = "exit" -> [m EXCEPT !.running = FALSE]
          [] i.op = "return" -> Leave(m, here, prog, layouts, Val(i.expr))
          [] IsCallMove(i) ->
                Enter(m, i.src.func, [n \in 1..Len(i.src.args) |-> Val(i.src.args[n])])
          [] i.op = "move" /\ i.src.e # "call" -> Assign(m, here, i.dst.name, Val(i.src))
=============================================================================
