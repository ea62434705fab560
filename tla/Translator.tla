----------------------------- MODULE Translator -----------------------------
(***************************************************************************)
(* TranslateToIF (src/backend/translator.go): the walk over a checked      *)
(* program that appends IF instructions to the list of the current         *)
(* function.  The input program is chosen while it is walked: every action *)
(* is the part of one case of translate() that runs up to its first        *)
(* recursive call, between two of them, or after the last one, and         *)
(* "frames" is the Go call stack of translate() in between.                *)
(***************************************************************************)
EXTENDS IFInstr, Sequences, FiniteSets

CONSTANTS
    Funcs,       \* function names after mangling
    StmtKinds,   \* the kinds of straight-line statement enumerated
    MaxParams,   \* bound: parameters of a function
    MaxCode,     \* bound: beyond this many instructions a block gets no further statement
    MaxDepth,    \* bound: nested scopes
    MaxCounter   \* bound: if and while statements

ASSUME BoundsAssumption ==
    /\ MaxParams \in Nat /\ MaxCode \in Nat /\ MaxDepth \in Nat /\ MaxCounter \in Nat

ASSUME StmtKindsAssumption ==
    StmtKinds \subseteq {"noop", "eval", "move", "read", "free", "print", "exit"}

ASSUME NamesAssumption == IsFiniteSet(Names)

VARIABLES
    code,            \* the instructions emitted so far, function after function
    scope,           \* ctx.scope: the names declared in each open scope
    scopePushInstr,  \* ctx.scopePushInstr: where each open scope's PushScope is
    frames,          \* the statements being translated, outermost first
    currentCounter,  \* ctx.currentCounter
    functions,       \* the keys of ctx.functions
    stage,           \* "between" functions, in a "func", in "main", or "done"
    home             \* history: the PushScope in force when code[i] was appended

vars == <<code, scope, scopePushInstr, frames, currentCounter, functions,
          stage, home>>

-----------------------------------------------------------------------------
(* Helpers.                                                                *)

Depth == Len(scopePushInstr)

\* The PushScope of the innermost open scope and of the one around it; 0 is
\* the function level outside every scope.
Innermost == IF Depth = 0 THEN 0 ELSE scopePushInstr[Depth]
Around    == IF Depth <= 1 THEN 0 ELSE scopePushInstr[Depth - 1]

\* addInstr / appendNode: append "instrs", all in the innermost scope.
Emit(instrs) ==
    /\ code' = code \o instrs
    /\ home' = home \o [i \in 1..Len(instrs) |-> Innermost]

\* The frame bytes of the scope being closed.
StackSize == AlignedSize(Cardinality(scope[Depth]))

\* Mutation: popScope patches the outermost PushScope.
CloseAndEmitPatchesOutermost(after) ==
    /\ code' = [code EXCEPT ![scopePushInstr[1]] = PushScope(StackSize)]
                 \o (<<PopScope(StackSize)>> \o after)
    /\ home' = home \o (<<Innermost>> \o [i \in 1..Len(after) |-> Around])

\* Mutation: popScope leaves the PushScope at the size pushScope gave it.
CloseAndEmitNoPatch(after) ==
    /\ code' = code \o (<<PopScope(StackSize)>> \o after)
    /\ home' = home \o (<<Innermost>> \o [i \in 1..Len(after) |-> Around])

\* ctx.popScope, then appending "after" in the surrounding scope: the size of
\* the scope goes into its PopScope and, retroactively, into its PushScope.
CloseAndEmit(after) ==
    /\ code' = [code EXCEPT ![scopePushInstr[Depth]] = PushScope(StackSize)]
                 \o (<<PopScope(StackSize)>> \o after)
    /\ home' = home \o (<<Innermost>> \o [i \in 1..Len(after) |-> Around])

\* ctx.pushScope, its PushScope being the k-th instruction this step appends.
\* "frame" is the statement or body whose block this is.
OpenAt(k, frame) ==
    /\ scope' = Append(scope, {})
    /\ scopePushInstr' = Append(scopePushInstr, Len(code) + k)
    /\ frames' = Append(frames, frame)

DropTop ==
    /\ scope' = SubSeq(scope, 1, Depth - 1)
    /\ scopePushInstr' = SubSeq(scopePushInstr, 1, Depth - 1)
    /\ frames' = SubSeq(frames, 1, Len(frames) - 1)

Frame(kind, n) == [kind |-> kind, n |-> n]
InBlock(kind)  == frames # <<>> /\ frames[Len(frames)].kind = kind

\* The grammar has no empty statement list: a block may end only once it has
\* emitted something other than the moves of its parameters.
HasBody == \E i \in (Innermost + 1)..Len(code) : code[i].op \notin {"declare", "param"}

\* Every statement list belongs to the program body or to a function body.
\* The bound leaves a block room for the one statement it must have, which
\* must then be one without a block of its own.
InStmtList  == frames # <<>> /\ (Len(code) < MaxCode \/ ~HasBody)
RoomToNest  == InStmtList /\ Len(code) < MaxCode /\ Depth < MaxDepth

-----------------------------------------------------------------------------
(* translate(): the program level.                                         *)

\* beginFunction, pushScope, and a Declare and a Move for each parameter.
\* ps may name a parameter twice: nothing in the front end rejects that.
BeginFunction(f, ps) ==
    /\ stage = "between" /\ f \notin functions /\ Len(code) < MaxCode
    /\ LET moves == [i \in 1..(2 * Len(ps)) |->
                        IF i % 2 = 1 THEN Declare(ps[(i + 1) \div 2]) ELSE Simple("param")]
       IN  /\ code' = code \o (<<Label(FuncLabel(f)), PushScope(0)>> \o moves)
           /\ home' = home \o (<<0, 0>> \o [i \in 1..Len(moves) |-> Len(code) + 2])
    /\ scope' = <<{ps[i] : i \in 1..Len(ps)}>>
    /\ scopePushInstr' = <<Len(code) + 2>>
    /\ frames' = <<Frame("func", 0)>>
    /\ functions' = functions \cup {f}
    /\ stage' = "func"
    /\ UNCHANGED currentCounter

EndFunction ==
    /\ InBlock("func") /\ HasBody
    /\ CloseAndEmit(<<>>) /\ DropTop
    /\ stage' = "between"
    /\ UNCHANGED <<currentCounter, functions>>

\* beginMain and pushScope.
BeginMain ==
    /\ stage = "between"
    /\ Emit(<<Label(MainLabel), Simple("locale"), PushScope(0)>>)
    /\ OpenAt(3, Frame("main", 0))
    /\ stage' = "main"
    /\ UNCHANGED <<currentCounter, functions>>

EndMain ==
    /\ InBlock("main") /\ HasBody
    /\ CloseAndEmit(<<>>) /\ DropTop
    /\ stage' = "done"
    /\ UNCHANGED <<currentCounter, functions>>

-----------------------------------------------------------------------------
(* translate(): statements.                                                *)

\* Skip, eval, assignment, read, free, exit and print.
Statement(kind) ==
    /\ InStmtList
    /\ Emit(<<Simple(kind)>>)
    /\ UNCHANGED <<scope, scopePushInstr, frames, currentCounter, functions, stage>>

\* println: the expression, then a second PrintInstr for the newline.
PrintLn ==
    /\ InStmtList /\ "print" \in StmtKinds
    /\ Emit(<<Simple("print"), Simple("print")>>)
    /\ UNCHANGED <<scope, scopePushInstr, frames, currentCounter, functions, stage>>

\* return: the semantic check lets it through only inside a function.
ReturnStmt ==
    /\ InStmtList /\ stage = "func"
    /\ Emit(<<Simple("return")>>)
    /\ UNCHANGED <<scope, scopePushInstr, frames, currentCounter, functions, stage>>

\* AddVariable has rejected a second declaration of v in one scope.  Parameters
\* do not count: the checker keeps them elsewhere, so a body may redeclare one.
Redeclared(v) ==
    \E i \in (Innermost + 1)..(Len(code) - 1) :
        home[i] = Innermost /\ code[i] = Declare(v) /\ code[i + 1] = Simple("move")

DeclStmt(v) ==
    /\ InStmtList /\ ~Redeclared(v)
    /\ Emit(<<Declare(v), Simple("move")>>)
    /\ scope' = [scope EXCEPT ![Depth] = @ \cup {v}]
    /\ UNCHANGED <<scopePushInstr, frames, currentCounter, functions, stage>>

\* Mutation: the statement counter is not advanced.
IfBeginNoCount ==
    /\ RoomToNest
    /\ Emit(<<JmpCond(ControlLabel("else_begin", currentCounter)), PushScope(0)>>)
    /\ OpenAt(2, Frame("then", currentCounter))
    /\ UNCHANGED <<currentCounter, functions, stage>>

IfBegin ==
    /\ RoomToNest /\ currentCounter < MaxCounter
    /\ Emit(<<JmpCond(ControlLabel("else_begin", currentCounter)), PushScope(0)>>)
    /\ OpenAt(2, Frame("then", currentCounter))
    /\ currentCounter' = currentCounter + 1
    /\ UNCHANGED <<functions, stage>>

\* Mutation: the else branch is emitted without entering a scope of its own.
IfElseNoPush ==
    /\ InBlock("then") /\ HasBody
    /\ LET n == frames[Len(frames)].n
       IN  /\ CloseAndEmit(<<Jmp(ControlLabel("ifelse_end", n)),
                             Label(ControlLabel("else_begin", n)),
                             PushScope(0)>>)
           /\ frames' = [frames EXCEPT ![Len(frames)] = Frame("else", n)]
    /\ scope' = SubSeq(scope, 1, Depth - 1)
    /\ scopePushInstr' = SubSeq(scopePushInstr, 1, Depth - 1)
    /\ UNCHANGED <<currentCounter, functions, stage>>

IfElse ==
    /\ InBlock("then") /\ HasBody
    /\ LET n == frames[Len(frames)].n
       IN  /\ CloseAndEmit(<<Jmp(ControlLabel("ifelse_end", n)),
                             Label(ControlLabel("else_begin", n)),
                             PushScope(0)>>)
           /\ frames' = [frames EXCEPT ![Len(frames)] = Frame("else", n)]
    /\ scope' = [scope EXCEPT ![Depth] = {}]
    /\ scopePushInstr' = [scopePushInstr EXCEPT ![Depth] = Len(code) + 4]
    /\ UNCHANGED <<currentCounter, functions, stage>>

\* Mutation: the end label is made but never appended.
IfEndNoLabel ==
    /\ InBlock("else") /\ HasBody
    /\ CloseAndEmit(<<>>) /\ DropTop
    /\ UNCHANGED <<currentCounter, functions, stage>>

IfEnd ==
    /\ InBlock("else") /\ HasBody
    /\ CloseAndEmit(<<Label(ControlLabel("ifelse_end", frames[Len(frames)].n))>>)
    /\ DropTop
    /\ UNCHANGED <<currentCounter, functions, stage>>

WhileBegin ==
    /\ RoomToNest /\ currentCounter < MaxCounter
    /\ Emit(<<Label(ControlLabel("while_begin", currentCounter)),
              JmpCond(ControlLabel("while_end", currentCounter)),
              PushScope(0)>>)
    /\ OpenAt(3, Frame("while", currentCounter))
    /\ currentCounter' = currentCounter + 1
    /\ UNCHANGED <<functions, stage>>

\* Mutation: the jump back is emitted before popScope.
WhileEndJumpInside ==
    /\ InBlock("while") /\ HasBody
    /\ LET n == frames[Len(frames)].n
       IN  /\ code' = [code EXCEPT ![Innermost] = PushScope(StackSize)]
                        \o <<Jmp(ControlLabel("while_begin", n)), PopScope(StackSize),
                             Label(ControlLabel("while_end", n))>>
           /\ home' = home \o <<Innermost, Innermost, Around>>
    /\ DropTop
    /\ UNCHANGED <<currentCounter, functions, stage>>

WhileEnd ==
    /\ InBlock("while") /\ HasBody
    /\ LET n == frames[Len(frames)].n
       IN  CloseAndEmit(<<Jmp(ControlLabel("while_begin", n)),
                          Label(ControlLabel("while_end", n))>>)
    /\ DropTop
    /\ UNCHANGED <<currentCounter, functions, stage>>

ScopeBegin ==
    /\ RoomToNest
    /\ Emit(<<PushScope(0)>>)
    /\ OpenAt(1, Frame("scope", 0))
    /\ UNCHANGED <<currentCounter, functions, stage>>

ScopeEnd ==
    /\ InBlock("scope") /\ HasBody
    /\ CloseAndEmit(<<>>) /\ DropTop
    /\ UNCHANGED <<currentCounter, functions, stage>>

-----------------------------------------------------------------------------
Init ==
    /\ code = <<>> /\ scope = <<>> /\ scopePushInstr = <<>> /\ frames = <<>>
    /\ currentCounter = 0 /\ functions = {} /\ stage = "between" /\ home = <<>>

ParamLists == UNION {[1..k -> Names] : k \in 0..MaxParams}

Next ==
    \/ \E f \in Funcs, ps \in ParamLists : BeginFunction(f, ps)
    \/ EndFunction
    \/ BeginMain
    \/ EndMain
    \/ \E kind \in StmtKinds : Statement(kind)
    \/ PrintLn
    \/ ReturnStmt
    \/ \E v \in Names : DeclStmt(v)
    \/ IfBegin
    \/ IfElse
    \/ IfEnd
    \/ WhileBegin
    \/ WhileEnd
    \/ ScopeBegin
    \/ ScopeEnd

Spec == Init /\ [][Next]_vars

-----------------------------------------------------------------------------
(* Type correctness.                                                       *)

CodeLabels == [kind : ControlKinds, n : Nat]
                \cup [kind : {"func"}, func : Funcs] \cup [kind : {"main"}]

Instrs == [op : {"label"}, label : CodeLabels]
            \cup [op : {"jmp", "jmpcond"}, dst : CodeLabels]
            \cup [op : {"pushscope", "popscope"}, size : Nat]
            \cup [op : {"declare"}, var : Names]
            \cup [op : SimpleKinds \cup {"move"}]

\* Indices into the code; 0 stands for none.
Positions == Nat

Frames == [kind : {"func", "main", "then", "else", "while", "scope"}, n : Nat]

\* The variables have their types, the three stacks move together, and every
\* open scope refers to a PushScope of the code.
TypeOK ==
    /\ code \in Seq(Instrs)
    /\ home \in Seq(Positions) /\ Len(home) = Len(code)
    /\ scope \in Seq(SUBSET Names)
    /\ frames \in Seq(Frames)
    /\ scopePushInstr \in Seq(Positions)
    /\ Len(scope) = Depth /\ Len(frames) = Depth
    /\ \A k \in 1..Depth : /\ scopePushInstr[k] \in 1..Len(code)
                           /\ code[scopePushInstr[k]].op = "pushscope"
    /\ currentCounter \in Nat
    /\ functions \subseteq Funcs
    /\ stage \in {"between", "func", "main", "done"}

-----------------------------------------------------------------------------
(* Safety.                                                                 *)

\* No two labels of the whole program are equal: the statement counter is
\* shared by all functions and never reused.  A duplicate would be rejected
\* by the assembler, or bind a jump to another function.
LabelsUnique ==
    \A i, j \in 1..Len(code) :
        IsLabel(code[i]) /\ IsLabel(code[j]) /\ code[i].label = code[j].label => i = j

\* A jump and its target lie in the same scope instance: control that leaves
\* a then branch, an else branch or a loop body has passed the PopScope, so
\* the generator's static stackDistance is right on both sides of the jump.
JumpsStayInScope ==
    \A i, j \in 1..Len(code) :
        IsJump(code[i]) /\ IsLabel(code[j]) /\ code[j].label = code[i].dst
            => home[i] = home[j]

\* Between functions every jump emitted so far has its label: the labels made
\* ahead by makeNode are all appended by the time the statement is finished.
JumpsResolve ==
    frames = <<>> =>
        \A i \in 1..Len(code) : IsJump(code[i]) =>
            \E j \in 1..Len(code) : IsLabel(code[j]) /\ code[j].label = code[i].dst

\* The names declared by code of the scope that opens at p.
DeclaredIn(p) ==
    {code[j].var : j \in {d \in 1..Len(code) : home[d] = p /\ code[d].op = "declare"}}

\* A scope gives back what it took: a PopScope and the PushScope it closes
\* agree on a size, which is that of the distinct names the scope declares.
ScopeSizesAgree ==
    \A i \in 1..Len(code) : code[i].op = "popscope" =>
        /\ home[i] \in 1..(i - 1)
        /\ code[home[i]] = PushScope(code[i].size)
        /\ code[i].size = AlignedSize(Cardinality(DeclaredIn(home[i])))

\* Emitted code is final, except that closing the innermost scope sets the
\* size of its own PushScope.  A popScope that patched another scope's
\* instruction would unbalance the stack of code already emitted.
EmittedCodeIsFinal ==
    [][\A i \in 1..Len(code) :
            code'[i] = code[i] \/ (i = Innermost /\ code'[i].op = "pushscope"
                                     /\ i \notin {scopePushInstr'[k] : k \in 1..Len(scopePushInstr')})]_vars

-----------------------------------------------------------------------------
(* The inductive strengthening of LabelsUnique, JumpsStayInScope and       *)
(* JumpsResolve: who still owes which label, and in which scope.           *)

StatementFrames == {"then", "else", "while"}

\* The scope in which the statement of frames[k] stands.
Outside(k) == IF k = 1 THEN 0 ELSE scopePushInstr[k - 1]

\* The labels the rest of a frame will append, and the one of them that code
\* already jumps to.
OwedKinds(kind) == CASE kind = "then"  -> {"else_begin", "ifelse_end"}
                     [] kind = "else"  -> {"ifelse_end"}
                     [] kind = "while" -> {"while_end"}
                     [] OTHER          -> {}
AwaitedKind(kind) == CASE kind = "then"  -> "else_begin"
                       [] kind = "else"  -> "ifelse_end"
                       [] kind = "while" -> "while_end"
                       [] OTHER          -> "none"

\* The frames nest as translate() recurses: one function or the program body
\* at the bottom, statements above it.
FramesNest ==
    /\ Depth = 0 <=> stage \in {"between", "done"}
    /\ \A k \in 1..Depth : k = 1 => frames[k].kind = stage
    /\ \A k \in 2..Depth : frames[k].kind \notin {"func", "main"}

\* Statement numbers in use are below the counter and not shared by frames.
LabelNumbersFresh ==
    \A i \in 1..Len(code) : IsLabel(code[i]) /\ code[i].label.kind \in ControlKinds
            => code[i].label.n < currentCounter
FrameNumbersFresh ==
    /\ \A k \in 1..Depth : frames[k].kind \in StatementFrames => frames[k].n < currentCounter
    /\ \A k, l \in 1..Depth :
            (/\ frames[k].kind \in StatementFrames /\ frames[l].kind \in StatementFrames
             /\ frames[k].n = frames[l].n) => k = l

\* Function and main labels in the code are accounted for.
FunctionLabels ==
    \A i \in 1..Len(code) : IsLabel(code[i]) =>
        /\ code[i].label.kind = "func" => code[i].label.func \in functions
        /\ code[i].label.kind = "main" => stage \in {"main", "done"}

OwedLabelsAbsent ==
    \A k \in 1..Depth : \A kind \in OwedKinds(frames[k].kind) :
        \A i \in 1..Len(code) : code[i] # Label(ControlLabel(kind, frames[k].n))

LoopsBegun ==
    \A k \in 1..Depth : frames[k].kind = "while" =>
        \E j \in 1..Len(code) : /\ code[j] = Label(ControlLabel("while_begin", frames[k].n))
                                /\ home[j] = Outside(k)

\* Every jump has its label, in the jump's own scope, or some frame that
\* stands in that scope still owes it.
JumpsAccounted ==
    \A i \in 1..Len(code) : IsJump(code[i]) =>
        \/ \E j \in 1..Len(code) : code[j] = Label(code[i].dst) /\ home[j] = home[i]
        \/ \E k \in 1..Depth : /\ frames[k].kind \in StatementFrames
                               /\ code[i].dst = ControlLabel(AwaitedKind(frames[k].kind),
                                                             frames[k].n)
                               /\ home[i] = Outside(k)

JumpInv ==
    /\ TypeOK /\ FramesNest /\ LabelsUnique /\ LabelNumbersFresh
    /\ FrameNumbersFresh /\ FunctionLabels /\ OwedLabelsAbsent /\ LoopsBegun /\ JumpsAccounted

-----------------------------------------------------------------------------
(* The inductive strengthening of ScopeSizesAgree.                         *)

\* Open scopes are distinct, nested in the order of the code, still unclosed,
\* and ctx.scope holds exactly the names their Declares name.
ScopeInv ==
    /\ TypeOK /\ FramesNest
    /\ \A i \in 1..Len(code) : home[i] < i
    /\ \A k, l \in 1..Depth : k < l => scopePushInstr[k] < scopePushInstr[l]
    /\ \A i \in 1..Len(code) : code[i].op = "popscope" =>
            \A k \in 1..Depth : home[i] # scopePushInstr[k]
    /\ \A k \in 1..Depth : scope[k] = DeclaredIn(scopePushInstr[k])
    /\ ScopeSizesAgree
=============================================================================
