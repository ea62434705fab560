------------------------------ MODULE Unroller ------------------------------
(***************************************************************************)
(* The loop unroller (fpWhileUnrollerContext in src/backend/optimiser.go). *)
(* It walks the instruction list of one function; at a conditional jump it *)
(* decides from the text around it whether this is the head of a counting  *)
(* loop, and if so replaces the loop by copies of its body.  The lists of  *)
(* different functions are treated alike and have nothing in common, so    *)
(* one is enough.                                                          *)
(***************************************************************************)
EXTENDS IFExprs, Sequences

CONSTANTS
    Sources,       \* instruction lists of main, as the translator emits them
    Conditions,    \* what their jumps depend on, with the operands
    LoopUnrollMax, \* OPTIMISER_LOOPUNROLL_MAX
    MaxCode        \* bound: a list that has grown beyond this is given up

ASSUME LimitsAssumption == LoopUnrollMax \in Nat /\ MaxCode \in Nat

VARIABLES
    source,   \* the list the translator made
    code,     \* the list as the walk is changing it
    node,     \* the instruction the walk is at
    loop,     \* the loop being unrolled, or NoLoop
    stage     \* "walk", and what comes after it

unrolling == <<source, code, node, loop, stage>>

-----------------------------------------------------------------------------
(* What the lists are like.                                                *)

Kinds == SimpleKinds \cup {"label", "jmp", "jmpcond", "pushscope", "popscope", "declare"}

SourceInstrs == UNION {{p[n] : n \in 1..Len(p)} : p \in Sources}

\* What the first n elements of a sequence of integers add up to.
Sums(t) ==
    LET s[n \in 0..Len(t)] == IF n = 0 THEN 0 ELSE s[n - 1] + t[n]
    IN  s

Turn(i) == CASE i.op = "pushscope" -> 1
             [] i.op = "popscope"  -> -1
             [] OTHER -> 0

\* The scopes opened and not closed by the first n instructions of p.
Depth(p) == Sums([n \in 1..Len(p) |-> Turn(p[n])])

\* Behind instructions m and n the same scope instance is the innermost one.
SameScope(p, m, n) ==
    LET depth == Depth(p)
    IN  depth[m] = depth[n] /\ \A k \in (m..n) \cup (n..m) : depth[m] <= depth[k]

\* Every jump has its label, in the scope instance it is in itself.
Resolved(p) ==
    \A n \in 1..Len(p) : IsJump(p[n]) =>
        \E k \in 1..Len(p) : p[k] = Label(p[n].dst) /\ SameScope(p, n, k)

\* A conditional jump leads past a scope and a jump that follow it, which is
\* how while and if statements begin.
Structured(p) ==
    \A n \in 1..Len(p) : p[n].op = "jmpcond" =>
        \E k \in (n + 4)..Len(p) :
            /\ p[k] = Label(p[n].dst) /\ p[k - 1].op = "jmp" /\ p[k - 2].op = "popscope"
            /\ p[n + 1].op = "pushscope" /\ SameScope(p, n + 1, k - 3)

\* The integer constants of what is moved are integers.
ConstantsOf(x) ==
    CASE x.e = "int"    -> {x.value}
      [] x.e = "binary" -> {y.value : y \in {z \in {x.left, x.right} : z.e = "int"}}
      [] OTHER          -> {}

ASSUME InstrsAssumption ==
    \A i \in SourceInstrs :
        /\ i.op \in Kinds
        /\ IsLabel(i) => i = Label(i.label) /\ i.label.kind # "copy"
        /\ i.op = "jmp" => i = Jmp(i.dst)
        /\ i.op = "jmpcond" => i = JmpCondInstr(i.dst, i.cond) /\ i.cond \in Conditions
        /\ IsVarMove(i) => ConstantsOf(i.src) \subseteq Int

\* What the translator emits.
ASSUME SourcesAssumption ==
    \A p \in Sources :
        /\ p \in Seq(SourceInstrs)
        /\ \A m, n \in 1..Len(p) : IsLabel(p[m]) /\ p[m] = p[n] => m = n
        /\ Resolved(p) /\ Structured(p)

-----------------------------------------------------------------------------
(* conditionalIsSimple.                                                    *)

\* A condition without the negations around it.
Stripped[c \in Conditions] ==
    IF c.e # "unary" THEN c ELSE IF c.op = "!" THEN Stripped[c.operand] ELSE c

\* A variable on the left of < or <= and a constant on the right.
ConditionalIsSimple(cond) ==
    LET c == Stripped[cond]
    IN  /\ c.e = "binary"
        /\ c.left.e = "var" /\ c.right.e = "int"
        /\ c.op \in {"<", "<="}

LoopVariable(cond) == Stripped[cond].left.name

\* Mutation: <= taken for <.
LvEndExclusive(cond) == Stripped[cond].right.value

LvEnd(cond) == Stripped[cond].right.value + (IF Stripped[cond].op = "<=" THEN 1 ELSE 0)

-----------------------------------------------------------------------------
(* checkInitialisesLoopVariable and checkLoopVariableIncrements.           *)

MovesTo(v, from, to) == {n \in from..to : IsVarMove(code[n]) /\ code[n].dst.name = v}

\* The nearest Move to v in the text before the jump, whatever lies between.
LastMove(v, n) == CHOOSE k \in MovesTo(v, 1, n) : \A j \in MovesTo(v, 1, n) : j <= k

InitialisesLoopVariable(v, n) ==
    MovesTo(v, 1, n) # {} /\ code[LastMove(v, n)].src.e = "int"

LvStart(v, n) == code[LastMove(v, n)].src.value

\* Where the jump leads, the end of the body; the end of the list if nowhere.
EndOfLoop(n) ==
    LET ends == {k \in n..Len(code) : code[k] = Label(code[n].dst)}
    IN  IF ends = {} THEN Len(code) + 1 ELSE CHOOSE k \in ends : \A j \in ends : k <= j

\* variable + constant, either way round.
IsIncrement(x, v) ==
    /\ x.e = "binary" /\ x.op = "+"
    /\ \/ x.left = VarExpr(v) /\ x.right.e = "int"
       \/ x.right = VarExpr(v) /\ x.left.e = "int"

IncrementOf(x) == IF x.left.e = "int" THEN x.left.value ELSE x.right.value

LoopVariableIncrements(v, n) ==
    \A k \in MovesTo(v, n, EndOfLoop(n) - 1) : IsIncrement(code[k].src, v)

\* Mutation: only the last increment of the body counts.
LvIncrementLast(v, n) ==
    LET moves == MovesTo(v, n, EndOfLoop(n) - 1)
    IN  IF moves = {} THEN 0
        ELSE IncrementOf(code[CHOOSE k \in moves : \A j \in moves : j <= k].src)

\* What the increments before the end of the body add up to.
LvIncrement(v, n) ==
    LET moves == MovesTo(v, n, EndOfLoop(n) - 1)
    IN  Sums([k \in 1..Len(code) |-> IF k \in moves THEN IncrementOf(code[k].src) ELSE 0])
            [Len(code)]

\* Go's division truncates towards zero.
Quotient(a, b) ==
    LET abs(k) == IF k < 0 THEN -k ELSE k
        q == abs(a) \div abs(b)
    IN  IF (a < 0) = (b < 0) THEN q ELSE -q

Unrollable(n) ==
    /\ code[n].op = "jmpcond" /\ ConditionalIsSimple(code[n].cond)
    /\ LET v == LoopVariable(code[n].cond)
       IN  /\ InitialisesLoopVariable(v, n)
           /\ LoopVariableIncrements(v, n) /\ LvIncrement(v, n) # 0
           /\ Quotient(LvEnd(code[n].cond) - LvStart(v, n), LvIncrement(v, n)) <= LoopUnrollMax

-----------------------------------------------------------------------------
(* optimizeLoop: the copies.                                               *)

\* A label that was copied, and the loop variables it was copied for so far.
Origin(l) == IF l.kind = "copy" THEN l.of ELSE l
Path(l)   == IF l.kind = "copy" THEN l.path ELSE <<>>

\* The label of the copy made for loop variable i: %s_loop_%d.  No label of the
\* translator's has _loop_ in it, so that names differ when these records do;
\* but not every name is one to the assembler.
CopiedLabel(l, i) == [kind |-> "copy", of |-> Origin(l), path |-> Append(Path(l), i)]

\* The assembler takes a list's labels, as it does not if one was copied for a
\* negative number: the sign does not belong in a name.
Assembles(p) ==
    \A n \in 1..Len(p) : IsLabel(p[n]) =>
        \A k \in 1..Len(Path(p[n].label)) : Path(p[n].label)[k] >= 0

KnownLabels(body) == {body[n].label : n \in {k \in 1..Len(body) : IsLabel(body[k])}}

\* Instr.Copy() keeps everything but the sizes of scopes.
Copy(i) == CASE i.op = "pushscope" -> PushScope(0)
             [] i.op = "popscope"  -> PopScope(0)
             [] OTHER -> i

\* Mutation: the labels are renamed, the jumps to them are not.
RenamedLabelsOnly(i, known, lv) ==
    IF IsLabel(i) THEN Label(CopiedLabel(i.label, lv)) ELSE i

\* Mutation: the labels stay as they are.
RenamedNothing(i, known, lv) == i

\* Labels get the iteration's suffix, and so do the jumps to them.
Renamed(i, known, lv) ==
    CASE IsLabel(i) -> Label(CopiedLabel(i.label, lv))
      [] i.op = "jmp" /\ i.dst \in known -> Jmp(CopiedLabel(i.dst, lv))
      [] i.op = "jmpcond" /\ i.dst \in known -> JmpCondInstr(CopiedLabel(i.dst, lv), i.cond)
      [] OTHER -> i

BodyCopy(body, lv) == [n \in 1..Len(body) |-> Renamed(Copy(body[n]), KnownLabels(body), lv)]

NoLoop == [open |-> FALSE]

\* The loop at the jump n, of which nothing has been copied yet.
LoopAt(n) ==
    LET v == LoopVariable(code[n].cond)
    IN  [open |-> TRUE, last |-> n, body |-> SubSeq(code, n + 2, EndOfLoop(n) - 3),
         i |-> LvStart(v, n), end |-> LvEnd(code[n].cond), by |-> LvIncrement(v, n)]

\* Mutation: of the two instructions before the end, the wrong one goes.
BeginUnrollDropsPopScope ==
    /\ stage = "walk" /\ ~loop.open /\ node <= Len(code) /\ Unrollable(node)
    /\ loop' = LoopAt(node)
    /\ code' = SubSeq(code, 1, node - 1) \o <<code[node + 1], code[EndOfLoop(node) - 1]>>
                 \o SubSeq(code, EndOfLoop(node), Len(code))
    /\ UNCHANGED <<source, node, stage>>

\* The head's jump and the jump back go; of the loop there remain its labels,
\* its PushScope, which is where the walk will go on, and its PopScope.
BeginUnroll ==
    /\ stage = "walk" /\ ~loop.open /\ node <= Len(code) /\ Unrollable(node)
    /\ loop' = LoopAt(node)
    /\ code' = SubSeq(code, 1, node - 1) \o <<code[node + 1], code[EndOfLoop(node) - 2]>>
                 \o SubSeq(code, EndOfLoop(node), Len(code))
    /\ UNCHANGED <<source, node, stage>>

\* One more copy, after the last one.
CopyBody ==
    /\ loop.open /\ loop.i < loop.end /\ Len(code) <= MaxCode
    /\ code' = SubSeq(code, 1, loop.last) \o BodyCopy(loop.body, loop.i)
                 \o SubSeq(code, loop.last + 1, Len(code))
    /\ loop' = [loop EXCEPT !.i = @ + loop.by, !.last = @ + Len(loop.body)]
    /\ UNCHANGED <<source, node, stage>>

\* The caller's walk goes on behind the jump that has been taken out.
EndUnroll ==
    /\ loop.open /\ loop.i >= loop.end
    /\ loop' = NoLoop
    /\ UNCHANGED <<source, code, node, stage>>

\* Mutation: the walk does not leave a jump it has decided not to unroll.
PassOnStuck ==
    /\ stage = "walk" /\ ~loop.open /\ node <= Len(code) /\ ~Unrollable(node)
    /\ node' = IF code[node].op = "jmpcond" THEN node ELSE node + 1
    /\ UNCHANGED <<source, code, loop, stage>>

PassOn ==
    /\ stage = "walk" /\ ~loop.open /\ node <= Len(code) /\ ~Unrollable(node)
    /\ node' = node + 1
    /\ UNCHANGED <<source, code, loop, stage>>

\* The walk has come to the end of the list, which goes to the allocator.
HandOn ==
    /\ stage = "walk" /\ ~loop.open /\ node > Len(code)
    /\ stage' = "allocate"
    /\ UNCHANGED <<source, code, node, loop>>

-----------------------------------------------------------------------------
UnrollInit ==
    /\ source \in Sources
    /\ code = source /\ node = 1 /\ loop = NoLoop /\ stage = "walk"

Unroll == BeginUnroll \/ CopyBody \/ EndUnroll \/ PassOn

\* What comes after the walk leaves the list alone.
MoveOn ==
    /\ stage # "walk" /\ stage' \in {"allocate", "run", "done"}
    /\ UNCHANGED <<source, code, node, loop>>

UnrollNext == Unroll \/ HandOn \/ MoveOn

UnrollSpec == UnrollInit /\ [][UnrollNext]_unrolling

-----------------------------------------------------------------------------
(* Type correctness and safety.                                            *)

\* The walk stays within the list, and the copies within the loop.
TypeOK ==
    /\ stage \in {"walk", "allocate", "run", "done"}
    /\ node \in 1..(Len(code) + 1)
    /\ \A n \in 1..Len(code) : code[n].op \in Kinds
    /\ loop.open => /\ loop.last \in node..Len(code)
                    /\ code[node].op = "pushscope" /\ code[loop.last + 1].op = "popscope"

\* No label twice, though a body is copied many times and its inner loops are
\* copied and unrolled again.
LabelsUnique ==
    stage = "walk" =>
      \A m, n \in 1..Len(code) :
        IsLabel(code[m]) /\ IsLabel(code[n]) /\ code[m].label = code[n].label => m = n

\* When the walk is over, every jump has its label, in the same scope instance
\* and therefore in the same copy of the body as the jump itself.
JumpsStayInCopy == stage = "walk" /\ node > Len(code) => Resolved(code)
=============================================================================
