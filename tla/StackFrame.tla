----------------------------- MODULE StackFrame -----------------------------
(***************************************************************************)
(* The stack of the running program.  The translator (Translator) builds   *)
(* the IF of a program; AllocateRegisters gives every variable a slot      *)
(* (src/backend/registers.go); GenerateCode walks the text once, counting  *)
(* stackDistance to turn slots into offsets from sp                        *)
(* (src/backend/generator.go); and the machine executes the result, jumps, *)
(* calls and early returns included.  The stack is a sequence of words,    *)
(* deepest caller first, so that sp is its length and a push appends.      *)
(***************************************************************************)
EXTENDS Translator, VariableScope, Integers

CONSTANTS
    Programs,      \* source programs, as sequences of tokens in text order
    ArgRegisters,  \* arguments passed in registers: r0-r3, 4 in the code
    MaxCalls       \* bound: activations on the stack

ASSUME StackBoundsAssumption == ArgRegisters \in Nat /\ MaxCalls \in Nat \ {0}

Tokens == UNION {{p[n] : n \in 1..Len(p)} : p \in Programs}

\* What the parser makes of a source file: the functions, then main.
ASSUME ProgramsAssumption ==
    /\ \A p \in Programs : p \in Seq(Tokens) /\ p # <<>> /\ p[Len(p)].op = "endmain"
    /\ \A t \in Tokens : t.op = "func" => t.func \in Funcs /\ t.params \in ParamLists
    /\ \A t \in Tokens : t.op = "decl" => t.var \in Names

VARIABLES
    source,  \* the tokens not translated yet
    phase,   \* "translate", "allocate", "generate", "run", "exited", "crashed"
    slot,    \* StackLocationExpr.Id of the variable that Declare code[i] declares
    dist,    \* ctx.stackDistance when the generator comes to code[i]
    pc,      \* the instruction to execute
    stack,   \* the words of the stack
    acts,    \* history: the activations, main first
    call,    \* the call whose arguments are being pushed, if any
    r4       \* whose value r4 holds: an activation's, or Clobbered

machine == <<pc, stack, acts, call, r4>>
svars == <<vars, source, phase, slot, dist, machine>>

-----------------------------------------------------------------------------
(* Translation, driven by the source program.                              *)

\* Tokens.  "end" closes a loop or a begin-end; an if has an "else" and a "fi".
Token(op)      == [op |-> op]
FuncToken(f, ps) == [op |-> "func", func |-> f, params |-> ps]
DeclToken(v)   == [op |-> "decl", var |-> v]

TranslateToken(t) ==
    \/ t.op = "func"    /\ BeginFunction(t.func, t.params)
    \/ t.op = "endfunc" /\ EndFunction
    \/ t.op = "main"    /\ BeginMain
    \/ t.op = "endmain" /\ EndMain
    \/ t.op \in StmtKinds /\ Statement(t.op)
    \/ t.op = "println" /\ PrintLn
    \/ t.op = "return"  /\ ReturnStmt
    \/ t.op = "decl"    /\ DeclStmt(t.var)
    \/ t.op = "if"      /\ IfBegin
    \/ t.op = "else"    /\ IfElse
    \/ t.op = "fi"      /\ IfEnd
    \/ t.op = "while"   /\ WhileBegin
    \/ t.op = "begin"   /\ ScopeBegin
    \/ t.op = "end"     /\ (WhileEnd \/ ScopeEnd)

Translate ==
    /\ phase = "translate" /\ source # <<>>
    /\ TranslateToken(Head(source))
    /\ source' = Tail(source)
    /\ phase' = IF source' = <<>> THEN "allocate" ELSE "translate"
    /\ UNCHANGED <<slot, dist, machine>>

-----------------------------------------------------------------------------
(* Allocation.                                                             *)

\* The allocator's scope stack after code[1..n]: every function and main
\* starts with a scope of its own; the last PopScope of a function is not
\* visited, but the scope is dropped all the same.
ScopesAfter[n \in 0..Len(code)] ==
    IF n = 0 THEN <<>>
    ELSE LET s == ScopesAfter[n - 1]
             i == code[n]
         IN  CASE i.op = "pushscope" -> PushVarScope(s)
               [] i.op = "popscope" -> PopVarScope(s)
               [] i.op = "label" /\ i.label.kind \in {"func", "main"} -> PushVarScope(s)
               [] i.op = "declare" -> CreateVariable(s, i.var, n)
               [] OTHER -> s

Allocate ==
    /\ phase = "allocate"
    /\ slot' = [i \in 1..Len(code) |-> NextSlot(ScopesAfter[i - 1])]
    /\ phase' = "generate"
    /\ UNCHANGED <<vars, source, dist, machine>>

-----------------------------------------------------------------------------
(* Generation.                                                             *)

\* Mutation: PopScopeInstr's code gives the bytes back, but does not count.
CountedNoPop(d, i) == IF i.op = "pushscope" THEN d + i.size ELSE d

\* Mutation: the two signs are swapped.
CountedSwapped(d, i) == CASE i.op = "pushscope" -> d - i.size
                          [] i.op = "popscope" -> d + i.size
                          [] OTHER -> d

\* What an instruction's generateCode makes of ctx.stackDistance.
Counted(d, i) == CASE i.op = "pushscope" -> d + i.size
                   [] i.op = "popscope" -> d - i.size
                   [] OTHER -> d

\* The walk is over the text, in whatever order the program will run.
DistanceAt[n \in 1..(Len(code) + 1)] ==
    IF n = 1 THEN 0 ELSE Counted(DistanceAt[n - 1], code[n - 1])

-----------------------------------------------------------------------------
(* The words of the stack.                                                 *)

Junk          == [kind |-> "junk"]
Saved(reg, d) == [kind |-> "saved", reg |-> reg, act |-> d]
Value(d, i)   == [kind |-> "value", act |-> d, decl |-> i]
Argument(d, n) == [kind |-> "arg", act |-> d, n |-> n]

\* push {r4-r11,lr}: the lowest register at the lowest address, which is the
\* end of the sequence.
SavedWords == 9
PushRegisters(d) == <<Saved("lr", d), Saved("r11", d), Saved("r10", d), Saved("r9", d),
                      Saved("r8", d), Saved("r7", d), Saved("r6", d), Saved("r5", d), r4>>

Owned(d)  == [kind |-> "register", act |-> d]
Clobbered == [kind |-> "clobbered"]

NoCall == [pending |-> FALSE]

Here     == Len(acts)
Top      == acts[Here]
EntryOf(l) == CHOOSE i \in 1..Len(code) : code[i] = Label(l)
Params(l)  == Cardinality({i \in 1..Len(code) : code[i].op = "param"
                             /\ home[i] = EntryOf(l) + 1})
StackArgs(l) == IF Params(l) > ArgRegisters THEN Params(l) - ArgRegisters ELSE 0

\* The end label of the current function.
StartsFunction(j) == IsLabel(code[j]) /\ code[j].label.kind \in {"func", "main"}
AtEnd == IF pc > Len(code) THEN TRUE ELSE StartsFunction(pc)

\* bl: the label and push {r4-r11,lr} of generateFunction.
Enter(l, words) ==
    /\ stack' = words \o PushRegisters(Here + 1)
    /\ acts' = Append(acts, [label |-> l, base |-> Len(words) + SavedWords,
                             ret |-> pc, live |-> {}])
    /\ pc' = EntryOf(l) + 1
    /\ call' = NoCall

Generate ==
    /\ phase = "generate"
    /\ dist' = [i \in 1..(Len(code) + 1) |-> DistanceAt[i]]
    /\ Enter(MainLabel, <<>>)
    /\ phase' = "run"
    /\ UNCHANGED <<vars, source, slot, r4>>

-----------------------------------------------------------------------------
(* Execution: one action per kind of instruction of the current function.  *)

Running(op) == phase = "run" /\ call = NoCall /\ ~AtEnd /\ code[pc].op = op

Unmoved == UNCHANGED <<vars, source, phase, slot, dist>>

\* Mutation: offsets grow with the slot instead of shrinking.
WordOfUpwards(id) == Len(stack) - dist[pc] \div RegWidth - id

\* generateStackOffset: where [sp, #stackDistance - 4 * Id] points.
WordOf(id) == Len(stack) - dist[pc] \div RegWidth + id

\* str: a word below the stack pointer does not keep its value.
Put(st, k, w) == IF k \in 1..Len(st) THEN [st EXCEPT ![k] = w] ELSE st

DropWords(n) == SubSeq(stack, 1, Len(stack) - n)

SetLive(decls) == acts' = [acts EXCEPT ![Here].live = decls]

\* An expression is evaluated into r4 upwards.
UseRegisters == r4' = Owned(Here)

ExecSimple ==
    /\ \E op \in {"noop", "eval", "print", "free", "locale"} : Running(op)
    /\ pc' = pc + 1 /\ UseRegisters
    /\ UNCHANGED <<stack, acts, call>> /\ Unmoved

\* A label and a Declare emit no instruction.
ExecNothing ==
    /\ Running("label") \/ Running("declare")
    /\ pc' = pc + 1
    /\ UNCHANGED <<stack, acts, call, r4>> /\ Unmoved

ExecJmp ==
    /\ Running("jmp")
    /\ pc' = CHOOSE j \in 1..Len(code) : code[j] = Label(code[pc].dst)
    /\ UNCHANGED <<stack, acts, call, r4>> /\ Unmoved

\* The condition goes either way.
ExecJmpCond ==
    /\ Running("jmpcond")
    /\ \/ pc' = pc + 1
       \/ pc' = CHOOSE j \in 1..Len(code) : code[j] = Label(code[pc].dst)
    /\ UseRegisters
    /\ UNCHANGED <<stack, acts, call>> /\ Unmoved

ExecPushScope ==
    /\ Running("pushscope")
    /\ stack' = stack \o [k \in 1..(code[pc].size \div RegWidth) |-> Junk]
    /\ pc' = pc + 1
    /\ UNCHANGED <<acts, call, r4>> /\ Unmoved

\* The scope's variables are gone.
ExecPopScope ==
    /\ Running("popscope")
    /\ stack' = DropWords(code[pc].size \div RegWidth)
    /\ SetLive({i \in Top.live : home[i] # home[pc]})
    /\ pc' = pc + 1
    /\ UNCHANGED <<call, r4>> /\ Unmoved

\* The Move of a declaration: store the initialiser's value.
ExecInitialise ==
    /\ Running("move") /\ code[pc - 1].op = "declare"
    /\ stack' = Put(stack, WordOf(slot[pc - 1]), Value(Here, pc - 1))
    /\ SetLive(Top.live \cup {pc - 1})
    /\ pc' = pc + 1 /\ UseRegisters
    /\ UNCHANGED call /\ Unmoved

\* The Move of the n-th parameter, from its register or from the stack
\* argument with Id (len - 1 - registers) - (n - registers), which lies beyond
\* the frame and the saved registers.
ExecParam ==
    /\ Running("param")
    /\ LET l == Top.label
           n == (pc - EntryOf(l) - 3) \div 2
           id == (Params(l) - 1 - ArgRegisters) - (n - ArgRegisters)
           loaded == IF n < ArgRegisters THEN Argument(Here, n)
                     ELSE stack[Len(stack) - dist[pc] \div RegWidth - (id + SavedWords)]
       IN  stack' = Put(stack, WordOf(slot[pc - 1]),
                        IF loaded = Argument(Here, n) THEN Value(Here, pc - 1) ELSE Junk)
    /\ SetLive(Top.live \cup {pc - 1})
    /\ pc' = pc + 1 /\ UseRegisters
    /\ UNCHANGED call /\ Unmoved

\* wscanf writes to the word at sp, which is then copied to the variable.
ExecRead ==
    /\ Running("read")
    /\ \E i \in Top.live :
            stack' = Put(Put(stack, Len(stack), Junk), WordOf(slot[i]), Value(Here, i))
    /\ pc' = pc + 1
    /\ UNCHANGED <<acts, call, r4>> /\ Unmoved

\* An expression that calls f starts on its arguments, r4 holding what the
\* rest of the expression still needs.
ExecCallBegin ==
    /\ Running("eval") /\ Here < MaxCalls
    /\ \E f \in functions : call' = [pending |-> TRUE, func |-> f, pushed |-> 0]
    /\ UseRegisters
    /\ UNCHANGED <<pc, stack, acts>> /\ Unmoved

\* The arguments beyond the registers are pushed in their order.
ExecPushArgument ==
    /\ phase = "run" /\ call.pending
    /\ call.pushed < StackArgs(FuncLabel(call.func))
    /\ stack' = Append(stack, Argument(Here + 1, ArgRegisters + call.pushed))
    /\ call' = [call EXCEPT !.pushed = @ + 1]
    /\ UNCHANGED <<pc, acts, r4>> /\ Unmoved

ExecCall ==
    /\ phase = "run" /\ call.pending
    /\ call.pushed = StackArgs(FuncLabel(call.func))
    /\ Enter(FuncLabel(call.func), stack)
    /\ UNCHANGED r4 /\ Unmoved

EndOfFunction ==
    CHOOSE j \in pc..(Len(code) + 1) :
        /\ IF j > Len(code) THEN TRUE ELSE StartsFunction(j)
        /\ \A i \in pc..(j - 1) : ~StartsFunction(i)

\* Mutation: a return leaves the scopes it stands in on the stack.
ExecReturnKeepsScopes ==
    /\ Running("return")
    /\ SetLive({})
    /\ pc' = EndOfFunction /\ UseRegisters
    /\ UNCHANGED <<stack, call>> /\ Unmoved

\* A return, in whatever scope: add sp, #stackDistance; b _f_end.
ExecReturn ==
    /\ Running("return")
    /\ stack' = DropWords(dist[pc] \div RegWidth)
    /\ SetLive({})
    /\ pc' = EndOfFunction /\ UseRegisters
    /\ UNCHANGED call /\ Unmoved

\* pop {r4-r11,pc}; the caller then pops the arguments it pushed.  Main
\* returns to the C runtime.
ExecEnd ==
    /\ phase = "run" /\ call = NoCall /\ AtEnd
    /\ IF Len(stack) < SavedWords \/ stack[Len(stack) - SavedWords + 1] # Saved("lr", Here)
       THEN phase' = "crashed" /\ UNCHANGED machine
       ELSE /\ stack' = DropWords(SavedWords + StackArgs(Top.label))
            /\ r4' = (IF stack[Len(stack)].kind = "register" THEN stack[Len(stack)]
                      ELSE Clobbered)
            /\ acts' = SubSeq(acts, 1, Here - 1)
            /\ pc' = Top.ret + 1
            /\ phase' = (IF Here = 1 THEN "exited" ELSE "run")
            /\ UNCHANGED call
    /\ UNCHANGED <<vars, source, slot, dist>>

\* Every program runs until main returns; only then may nothing happen.
Finished == phase = "exited" /\ UNCHANGED svars

-----------------------------------------------------------------------------
StackInit ==
    /\ Init
    /\ source \in Programs
    /\ phase = "translate" /\ slot = <<>> /\ dist = <<>>
    /\ pc = 0 /\ stack = <<>> /\ acts = <<>> /\ call = NoCall /\ r4 = Owned(0)

StackNext ==
    \/ Translate \/ Allocate \/ Generate
    \/ ExecSimple \/ ExecNothing \/ ExecJmp \/ ExecJmpCond
    \/ ExecPushScope \/ ExecPopScope \/ ExecInitialise \/ ExecParam \/ ExecRead
    \/ ExecCallBegin \/ ExecPushArgument \/ ExecCall \/ ExecReturn \/ ExecEnd
    \/ Finished

StackSpec == StackInit /\ [][StackNext]_svars

-----------------------------------------------------------------------------
(* Type correctness.                                                       *)

StackWords ==
    LET ds == 1..MaxCalls IN
    {Junk, Clobbered}
      \cup {Owned(n) : n \in ds \cup {0}}
      \cup {Saved(reg, n) : reg \in {"lr", "r11", "r10", "r9", "r8", "r7", "r6", "r5"}, n \in ds}
      \cup {Value(n, i) : n \in ds, i \in 1..Len(code)}
      \cup {Argument(n, i) : n \in ds, i \in 0..(MaxParams - 1)}

\* The state of the generator and of the machine has its type: stackDistance
\* is never negative, and sp never above the frame of the function.
StackTypeOK ==
    /\ phase \in {"translate", "allocate", "generate", "run", "exited", "crashed"}
    /\ slot \in Seq(Nat) /\ dist \in Seq(Nat)
    /\ pc \in 0..(Len(code) + 1)
    /\ \A k \in 1..Len(stack) : stack[k] \in StackWords
    /\ Here <= MaxCalls
    /\ \A n \in 1..Here : /\ acts[n].base <= Len(stack)
                          /\ acts[n].live \subseteq 1..Len(code)
    /\ call = NoCall \/ (call.func \in functions /\ call.pushed \in 0..MaxParams)

-----------------------------------------------------------------------------
(* Safety.                                                                 *)

\* The stackDistance of the straight walk over the text is the distance the
\* run has put between sp and the frame's base, by whatever jumps it came;
\* a function ends with the two equal again.
DistanceIsStatic ==
    phase = "run" =>
        Len(stack) - Top.base =
            IF AtEnd THEN 0
            ELSE dist[pc] \div RegWidth + (IF call.pending THEN call.pushed ELSE 0)

\* Every variable that is in scope and initialised, in every activation,
\* holds what was last stored to it: no other variable, no argument, saved
\* register, read buffer or callee's frame overlaps it.
VariablesKeepValues ==
    phase = "run" =>
        \A d \in 1..Here : \A i \in acts[d].live :
            LET k == acts[d].base + slot[i]
            IN  k <= Len(stack) /\ stack[k] = Value(d, i)

\* Every activation finds the return address and the registers r5 to r11
\* that it saved where the epilogue pops them.
SavedWordsIntact ==
    phase = "run" =>
        \A d \in 1..Here : SubSeq(stack, acts[d].base - SavedWords + 1, acts[d].base - 1)
                             = SubSeq(PushRegisters(d), 1, SavedWords - 1)

\* No function returns to anything but its caller.
NeverCrashes == phase # "crashed"
=============================================================================
