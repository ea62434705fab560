----------------------------- MODULE ExprMachine ----------------------------
(***************************************************************************)
(* The code of ExprCode, run.  An action is the machine code that          *)
(* generateCode (src/backend/generator.go) gives one instruction, with the *)
(* runtime routines it calls; variables and objects of the heap have       *)
(* addresses of their own.  What runs is shown to implement Evaluation.    *)
(***************************************************************************)
EXTENDS ExprCode, Words, Bitwise, TLC

CONSTANTS Inputs, Reply, ObjectSpan, NotYet,
          Junk  \* what a register holds that nobody can rely on

VARIABLES
    given,   \* the store and the heap the instruction starts with
    regs,    \* r0 to r11
    store,   \* the words of the variables
    heap,    \* the words of the heap
    stack,   \* the words pushed
    pc,      \* the instruction of code to execute
    shown,   \* what a callee, the user or the exit code gets to see
    status   \* "waiting", "running", "done", a runtime error, or a crash

machine == <<given, regs, store, heap, stack, pc, shown, status>>

Meant == INSTANCE Evaluation WITH result <- NotYet

Start(g) ==
    /\ stage = "compiled" /\ status = "waiting"
    /\ given' = g /\ store' = g.store /\ heap' = g.heap
    /\ status' = "running"
    /\ UNCHANGED <<vars, regs, stack, pc, shown>>

\* The program stops: _wacc_throw_runtime_error, or a fault of the machine.
Stop(error) ==
    /\ status' = error
    /\ UNCHANGED <<vars, given, regs, store, heap, stack, pc, shown>>

Goes(newRegs) ==
    /\ regs' = newRegs /\ pc' = pc + 1
    /\ UNCHANGED <<vars, given, status>>

\* Only registers change.
Computes(newRegs) == Goes(newRegs) /\ UNCHANGED <<store, heap, stack, shown>>

Instr == code[pc]

\* The registers an instruction relies on.
Reads(i) ==
    CASE i.op = "move" -> {o.id : o \in {x \in {i.src, i.dst} : x.kind = "mem"}}
                          \cup {o.id : o \in {x \in {i.src} : x.kind = "reg"}}
      [] i.op = "read" -> IF i.dst.kind = "mem" THEN {i.dst.id} ELSE {}
      [] i.op = "bounds" -> {0, 1}
      [] i.op = "call" -> {r \in ArgRegisters : r < i.args}
      [] i.op \in {"not", "neg", "null", "show", "print", "free"} -> {i.dst}
      [] i.op \in {"push", "pop", "alloc", "immediate"} -> {}
      [] OTHER -> {i.op1, i.op2}

\* The next instruction relies on a register whose contents were lost.
UsesJunk == pc <= Len(code) /\ \E r \in Reads(Instr) : regs[r] = Junk

\* The machine is about to execute an instruction with one of these operations.
Executes(ops) ==
    /\ status = "running" /\ pc <= Len(code)
    /\ Instr.op \in ops
    /\ ~UsesJunk

AddressOf(o) == regs[o.id] + o.offset
OperandValue(o) == CASE o.kind = "const" -> o.value
                     [] o.kind = "var" -> store[o.name]
                     [] o.kind = "reg" -> regs[o.id]
                     [] o.kind = "mem" -> heap[AddressOf(o)]

Faults(o) == o.kind = "mem" /\ AddressOf(o) \notin DOMAIN heap

\* The word v goes to operand o.
Writing(o, v) ==
    /\ Goes(IF o.kind = "reg" THEN [regs EXCEPT ![o.id] = v] ELSE regs)
    /\ store' = IF o.kind = "var" THEN [store EXCEPT ![o.name] = v] ELSE store
    /\ heap' = IF o.kind = "mem" THEN [heap EXCEPT ![AddressOf(o)] = v] ELSE heap
    /\ UNCHANGED <<stack, shown>>

ExecMove ==
    /\ Executes({"move"})
    /\ IF Faults(Instr.src) \/ Faults(Instr.dst) THEN Stop("segfault")
       ELSE Writing(Instr.dst, OperandValue(Instr.src))

ExecRead ==
    /\ Executes({"read"})
    /\ IF Faults(Instr.dst) THEN Stop("segfault") ELSE Writing(Instr.dst, Reply)

-----------------------------------------------------------------------------
(* Arithmetic.                                                             *)

\* A routine that follows the procedure call standard: result in r0, r1-r3 lost.
AfterLibrary(dst, value) ==
    [r \in DOMAIN regs |-> CASE r \in {0, dst} -> value
                             [] r \in ArgRegisters \ {0, dst} -> Junk
                             [] OTHER -> regs[r]]

\* mov r0, op1 and mov r1, op2, in this order.
FirstArgument  == regs[Instr.op1]
SecondArgument == [regs EXCEPT ![0] = regs[Instr.op1]][Instr.op2]

\* The flags are those of the whole sum; the register gets its low bits.
ExecAddSub ==
    /\ Executes({"+", "-"}) /\ Instr.type = "int"
    /\ LET a == regs[Instr.op1]
           b == regs[Instr.op2]
           n == IF Instr.op = "+" THEN a + b ELSE a - b
       IN  IF ~Fits(n) THEN Stop("Overflow") ELSE Computes([regs EXCEPT ![Instr.dst] = n])

\* Scaled addition to an address, which the heap's place keeps from overflowing.
ExecAddScaled ==
    /\ Executes({"+4*"})
    /\ Computes([regs EXCEPT ![Instr.dst] = regs[Instr.op1] + 4 * regs[Instr.op2]])

\* Mutation: the high half goes to the first operand even if that is the destination.
ExecMulFirstOperand ==
    /\ Executes({"*"}) /\ Instr.type = "int"
    /\ LET n == regs[Instr.op1] * regs[Instr.op2] IN
       IF ~Fits(n) THEN Stop("Overflow")
       ELSE Computes([[regs EXCEPT ![Instr.dst] = Wrapped(n)] EXCEPT ![Instr.op1] = n \div 2 ^ Width])

\* smull; the product fits if the high half only repeats the low half's sign.
ExecMul ==
    /\ Executes({"*"}) /\ Instr.type = "int"
    /\ LET n == regs[Instr.op1] * regs[Instr.op2]
           high == n \div 2 ^ Width
           low == Wrapped(n)
       IN  IF high # (IF low < 0 THEN -1 ELSE 0) THEN Stop("Overflow")
           ELSE Computes([[regs EXCEPT ![OverflowReg(Instr)] = high] EXCEPT ![Instr.dst] = low])

ExecDiv ==
    /\ Executes({"/"}) /\ Instr.type = "int"
    /\ IF SecondArgument = 0 THEN Stop("DivideByZero")
       ELSE Computes(AfterLibrary(Instr.dst, Wrapped(TruncatedQuotient(FirstArgument, SecondArgument))))

ExecFloat ==
    /\ Executes(ArithmeticOps) /\ Instr.type = "float"
    /\ Computes(AfterLibrary(Instr.dst, FloatResult(Instr.op, FirstArgument, SecondArgument)))

\* rsbs, whatever the type.
ExecNeg ==
    /\ Executes({"neg"})
    /\ IF ~Fits(-regs[Instr.dst]) THEN Stop("Overflow")
       ELSE Computes([regs EXCEPT ![Instr.dst] = -@])

Unsigned(w) == w % (2 ^ Width)

ExecLogic ==
    \/ /\ Executes({"not"})
       /\ Computes([regs EXCEPT ![Instr.dst] = -1 - @])
    \/ /\ Executes({"&&"})
       /\ Computes([regs EXCEPT ![Instr.dst] =
                       Wrapped(Unsigned(regs[Instr.op1]) & Unsigned(regs[Instr.op2]))])
    \/ /\ Executes({"||"})
       /\ Computes([regs EXCEPT ![Instr.dst] =
                       Wrapped(Unsigned(regs[Instr.op1]) | Unsigned(regs[Instr.op2]))])

\* Words are compared as signed integers, whatever they stand for.
Holds(op, a, b) ==
    CASE op = "<"  -> a < b  [] op = "<=" -> a <= b
      [] op = ">"  -> a > b  [] op = ">=" -> a >= b
      [] op = "==" -> a = b  [] op = "!=" -> a # b

ExecCompare ==
    /\ Executes(CompareOps)
    /\ Computes([regs EXCEPT ![Instr.dst] =
                    IF Holds(Instr.op, regs[Instr.op1], regs[Instr.op2]) THEN 1 ELSE 0])

-----------------------------------------------------------------------------
(* Runtime checks, objects and calls.                                      *)

\* _wacc_check_array_bounds: index in r0, array in r1, whose length it loads.
ExecBounds ==
    /\ Executes({"bounds"})
    /\ CASE regs[0] < 0 -> Stop("NegativeIndex")
         [] regs[0] >= 0 /\ regs[1] \notin DOMAIN heap -> Stop("segfault")
         [] OTHER -> IF regs[0] >= heap[regs[1]] THEN Stop("IndexTooLarge")
                     ELSE Computes([regs EXCEPT ![1] = heap[regs[1]]])

\* _wacc_check_null_pointer, around which r0 is saved.
ExecNull ==
    /\ Executes({"null"})
    /\ IF regs[Instr.dst] = 0 THEN Stop("NullReference") ELSE Computes(regs)

ExecPush ==
    /\ Executes({"push"})
    /\ Goes(regs)
    /\ stack' = Append(stack, regs[Instr.dst])
    /\ UNCHANGED <<store, heap, shown>>

ExecPop ==
    /\ Executes({"pop"})
    /\ Goes([regs EXCEPT ![Instr.dst] = stack[Len(stack)]])
    /\ stack' = SubSeq(stack, 1, Len(stack) - 1)
    /\ UNCHANGED <<store, heap, shown>>

\* malloc returns words nobody uses yet.
ExecAlloc ==
    /\ Executes({"alloc"})
    /\ LET object == Meant!Fresh(heap) IN
       /\ Goes(AfterLibrary(Instr.dst, object))
       /\ heap' = [a \in {object + 4 * n : n \in 0..(Instr.size \div 4 - 1)} |-> Junk] @@ heap
    /\ UNCHANGED <<store, stack, shown>>

\* The callee sees its arguments, restores r4-r11 and returns.
ExecCall ==
    /\ Executes({"call"})
    /\ Goes(AfterLibrary(0, Reply))
    /\ shown' = [n \in 1..Instr.args |->
                    IF n <= 4 THEN regs[n - 1] ELSE stack[Len(stack) - Instr.args + n]]
    /\ UNCHANGED <<store, heap, stack>>

ExecShow ==
    /\ Executes({"show", "print"})
    /\ Goes(regs)
    /\ shown' = <<regs[Instr.dst]>>
    /\ UNCHANGED <<store, heap, stack>>

ExecImmediate ==
    /\ Executes({"immediate"})
    /\ Goes(regs)
    /\ shown' = <<Instr.value>>
    /\ UNCHANGED <<store, heap, stack>>

ExecFree ==
    /\ Executes({"free"})
    /\ IF regs[Instr.dst] = 0 THEN Stop("NullReference")
       ELSE /\ Goes(regs)
            /\ shown' = <<regs[Instr.dst]>>
            /\ UNCHANGED <<store, heap, stack>>

\* The end of the instruction's code, or of what can be said about it.
Finish ==
    /\ status = "running"
    /\ pc > Len(code) \/ UsesJunk
    /\ Stop(IF UsesJunk THEN "undefined" ELSE "done")

-----------------------------------------------------------------------------
Init ==
    /\ CompileInit
    /\ given = NotYet
    /\ regs = [r \in 0..(NumRegisters - 1) |-> Junk]
    /\ store = NotYet /\ heap = NotYet
    /\ stack = <<>> /\ shown = <<>>
    /\ pc = 1
    /\ status = "waiting"

Compile == CompileNext /\ UNCHANGED machine

Next ==
    \/ Compile
    \/ \E g \in Inputs : Start(g)
    \/ ExecMove \/ ExecRead
    \/ ExecAddSub \/ ExecAddScaled \/ ExecMul \/ ExecDiv \/ ExecFloat \/ ExecNeg
    \/ ExecLogic \/ ExecCompare
    \/ ExecBounds \/ ExecNull \/ ExecPush \/ ExecPop
    \/ ExecAlloc \/ ExecCall \/ ExecShow \/ ExecImmediate \/ ExecFree
    \/ Finish

Spec == Init /\ [][Next]_<<vars, machine>>

-----------------------------------------------------------------------------
(* Properties.                                                             *)

\* The result of the abstract evaluation, once the machine has stopped.
Result ==
    CASE status \in {"waiting", "running"} -> NotYet
      [] status = "done" /\ stack = <<>> -> Meant!Done(store, heap, shown)
      [] OTHER -> Meant!Stopped(status)

Abstract == INSTANCE Evaluation WITH result <- Result

\* The code generated for an instruction computes what the instruction means:
\* the same words in the same places, the same arguments, or one of the runtime
\* errors its operands give rise to; it never uses a register whose contents
\* were lost, never faults, and leaves nothing on the stack.
ImplementsEvaluation == Abstract!Spec

\* The same for the final state only.
ResultIsMeant == Result # NotYet => Result \in Abstract!Outcomes(stmt, given)
=============================================================================
