----------------------------- MODULE InlinerWalk -----------------------------
(***************************************************************************)
(* The inliner (fpInlinerContext in src/backend/optimiser.go).  It first   *)
(* looks at every function and keeps the code to replace calls of it by,   *)
(* then walks every function and main and replaces the calls.  Both times  *)
(* the functions come in the order of a Go map's iteration, which is any   *)
(* order.                                                                  *)
(***************************************************************************)
EXTENDS IFLayout, FiniteSets, SequencesExt

CONSTANTS
    Sources,      \* programs: the code of "main" and of each function
    Expressions,  \* those in Sources with their parts, and the generated names
    UserNames,    \* the names of variables in Sources
    InlinerMax    \* OPTIMISER_INLINER_MAX

ASSUME InlinerAssumption == InlinerMax \in Nat /\ UserNames \subseteq Names

NoPath == "none"

VARIABLES
    source,             \* the program as the translator made it
    prog,               \* the program as the passes change it
    stage,              \* "check", "inline", "main", "allocate", "run", "done", "panic"
    visited,            \* the functions this stage is finished with
    replacementCode,    \* ctx.replacementCode
    functionArguments,  \* ctx.functionArguments: the parameters of all functions
    inlineCount,        \* ctx.inlineCount
    path,               \* the function being walked, or NoPath
    node,               \* the instruction the walk is at
    pushScopeStack      \* where the PushScopes open at node are

inlining == <<replacementCode, functionArguments, inlineCount>>
walking  == <<path, node, pushScopeStack>>
optimising == <<source, prog, stage, visited, inlining, walking>>

Functions == DOMAIN source \ {"main"}

-----------------------------------------------------------------------------
(* What the lists are like.                                                *)

SourceCodes  == UNION {{p[f] : f \in DOMAIN p} : p \in Sources}
SourceInstrs == UNION {{code[n] : n \in 1..Len(code)} : code \in SourceCodes}

DepthBehind(code, n) == Len(Layouts(code)[n].scopes)

\* Behind instructions m and n the same scope instance is the innermost one.
SameScope(code, m, n) ==
    /\ DepthBehind(code, m) = DepthBehind(code, n)
    /\ \A k \in (m..n) \cup (n..m) : DepthBehind(code, m) <= DepthBehind(code, k)

\* Every PopScope closes a scope of its size, and calls are inside of scopes.
Scoped(code) ==
    \A n \in 1..Len(code) :
        /\ code[n].op = "popscope" =>
              \E m \in 1..(n - 1) : code[m] = PushScope(code[n].size) /\ SameScope(code, m, n - 1)
        /\ IsCallMove(code[n]) => DepthBehind(code, n) > 1

\* Every jump has its label, in the scope instance it is in itself.
Resolved(code) ==
    \A n \in 1..Len(code) : IsJump(code[n]) =>
        \E k \in 1..Len(code) : code[k] = Label(code[n].dst) /\ SameScope(code, n, k)

\* A function is a label, to which no jump leads, and a scope.
IsFunction(code) ==
    /\ Len(code) >= 3
    /\ IsLabel(code[1]) /\ \A n \in 1..Len(code) : IsJump(code[n]) => code[1] # Label(code[n].dst)
    /\ code[Len(code)].op = "popscope" /\ DepthBehind(code, Len(code)) = 1
    /\ \A n \in 2..(Len(code) - 1) : DepthBehind(code, n) > 1

\* What is declared in the open scopes has words in the frame.
Fits(code) ==
    LET at == Layouts(code)
    IN  \A n \in 0..Len(code) : NextSlot(at[n].scopes) <= at[n].dist

ASSUME InstrsAssumption ==
    \A i \in SourceInstrs :
        /\ i.op = "label"     => i = Label(i.label) /\ i.label.kind \notin {"end", "ins"}
        /\ i.op = "jmp"       => i = Jmp(i.dst)
        /\ i.op = "jmpcond"   => i = JmpCondInstr(i.dst, i.cond)
        /\ i.op = "pushscope" => i = PushScope(i.size) /\ i.size \in Nat
        /\ i.op = "popscope"  => i = PopScope(i.size) /\ i.size \in Nat
        /\ i.op = "declare"   => i = Declare(i.var)
        /\ i.op = "move"      => i = MoveInstr(i.dst, i.src)
        /\ i.op = "print"     => i = PrintInstr(i.expr)
        /\ i.op = "read"      => i = [op |-> "read", dst |-> i.dst]
        /\ i.op = "return"    => i = ReturnInstr(i.expr)
        /\ IsCallMove(i)      => i.src.args \in Seq(Expressions)

\* What the translator emits.
ASSUME SourcesAssumption ==
    /\ \A code \in SourceCodes : code \in Seq(SourceInstrs) /\ Scoped(code) /\ Resolved(code)
    /\ \A p \in Sources :
          /\ "main" \in DOMAIN p /\ NoPath \notin DOMAIN p
          /\ \A f \in DOMAIN p \ {"main"} : IsFunction(p[f])
          /\ \A f, g \in DOMAIN p : \A m \in 1..Len(p[f]), n \in 1..Len(p[g]) :
                IsLabel(p[f][m]) /\ p[f][m] = p[g][n] => f = g /\ m = n

\* Before the inliner no declaration is without a word of its frame.
SourcesFit == \A code \in SourceCodes : Fits(code)

-----------------------------------------------------------------------------
(* Generated names.  Those of the arguments and of the result begin with   *)
(* the function's name, which keeps fixLabelsExpr from renaming them.      *)

ArgName(f, n)       == [kind |-> "arg", func |-> f, n |-> n]
RetVal(f)           == [kind |-> "retVal", func |-> f]
InlinedName(f, c, v) == [kind |-> "ins", func |-> f, count |-> c, name |-> v]

EndLabel(f)          == [kind |-> "end", func |-> f]
InlinedLabel(f, c, l) == [kind |-> "ins", func |-> f, count |-> c, of |-> l]

GeneratedFor(v, f) == v \notin UserNames /\ v.func = f

\* Everything that may be declared when at most c calls are looked at.
AllNames(fs, args, c) ==
    UserNames \cup {ArgName(f, n) : f \in fs, n \in 0..(args - 1)} \cup {RetVal(f) : f \in fs}
      \cup {InlinedName(f, k, v) : f \in fs, k \in 0..(c - 1), v \in UserNames}

-----------------------------------------------------------------------------
(* exprDoesCall and checkInlinable.                                        *)

ElemExpr(v)         == [e |-> "elem", name |-> v]
FieldExpr(v)        == [e |-> "field", name |-> v]
FloatConstExpr      == [e |-> "float"]
NewStructExpr(args) == [e |-> "newstruct", args |-> args]

\* What the search for a call in x comes to, from left to right; a new struct
\* counts as one.
ExprDoesCall[x \in Expressions] ==
    CASE x.e \in {"call", "newstruct"}       -> "call"
      [] x.e \in {"elem", "field", "float"} -> "panic"
      [] x.e = "unary"  -> ExprDoesCall[x.operand]
      [] x.e = "binary" -> LET left == ExprDoesCall[x.left]
                           IN  IF left # "none" THEN left ELSE ExprDoesCall[x.right]
      [] OTHER          -> "none"

IsParam(i) == i.op = "move" /\ i.src.e \in {"register", "stackarg"}

\* The code of a function begins with its label, a PushScope, and a Declare
\* and a Move for each parameter.
ParamMoves(code) == {n \in 1..Len(code) : IsParam(code[n])}
BodyStart(code)  == 3 + 2 * Cardinality(ParamMoves(code))

\* Where the search for arguments ends: labels and scopes are passed over.
SearchEnd(code) ==
    Min({n \in BodyStart(code)..Len(code) : code[n].op \notin {"label", "pushscope"}})

\* The Move that decides: that of a declaration, or an assignment.
DecidingMove(code) ==
    IF code[SearchEnd(code)].op = "declare" THEN SearchEnd(code) + 1 ELSE SearchEnd(code)

MoveDoesCall(code) ==
    LET i == code[DecidingMove(code)]
    IN  IF i.op = "move" THEN ExprDoesCall[i.src] ELSE "none"

\* A call in the first statement makes checkInlinable give up.
Aborts(code) == MoveDoesCall(code) = "call"

\* An assignment is taken for the Move of the Declare last seen, which is
\* forgotten once its parameter has come from a register.
HasDeclarePending(code) ==
    \E n \in ParamMoves(code) : n = BodyStart(code) - 1 /\ code[n].src.e = "stackarg"

CheckPanics(code) ==
    \/ MoveDoesCall(code) = "panic"
    \/ /\ code[SearchEnd(code)].op = "move" /\ ~Aborts(code)
       /\ ~HasDeclarePending(code)

FirstNode(code) ==
    IF code[SearchEnd(code)].op = "move" THEN BodyStart(code) - 2 ELSE SearchEnd(code)

RegisterParams(code) ==
    [k \in 1..Cardinality({n \in ParamMoves(code) : code[n].src.e = "register"}) |->
        code[1 + 2 * k].var]

\* Mutation: scopes keep their sizes.
CopyWithSizes(i) == i

\* Instr.Copy() keeps everything but the sizes of scopes.
Copy(i) == CASE i.op = "pushscope" -> PushScope(0)
             [] i.op = "popscope"  -> PopScope(0)
             [] OTHER -> i

\* Mutation: an early return does not end the inlined function.
ReplacementNoJump(f, n) ==
    LET code == source[f]
    IN  CASE code[n].op = "return" ->
                <<MoveInstr(VarExpr(RetVal(f)), code[n].expr)>>
          [] IsParam(code[n]) /\ n < FirstNode(code) ->
                <<MoveInstr(code[n].dst, VarExpr(ArgName(f, (n - 4) \div 2)))>>
          [] OTHER -> <<Copy(code[n])>>

\* What the n-th instruction of f becomes: a parameter comes from a variable
\* of the caller, a return sets the result and jumps to the end.
Replacement(f, n) ==
    LET code == source[f]
    IN  CASE code[n].op = "return" ->
                <<MoveInstr(VarExpr(RetVal(f)), code[n].expr), Jmp(EndLabel(f))>>
          [] IsParam(code[n]) /\ n < FirstNode(code) ->
                <<MoveInstr(code[n].dst, VarExpr(ArgName(f, (n - 4) \div 2)))>>
          [] OTHER -> <<Copy(code[n])>>

\* Without the function's label, and with the end label before the PopScope.
ReplacementCode(f) ==
    LET len == Len(source[f])
        parts == [n \in 1..(len - 1) |-> Replacement(f, n + 1)]
    IN  FlattenSeq(SubSeq(parts, 1, len - 2)) \o <<Label(EndLabel(f))>> \o parts[len - 1]

CheckInlinable(f) ==
    /\ stage = "check" /\ f \in Functions \ visited
    /\ IF CheckPanics(source[f])
       THEN stage' = "panic" /\ UNCHANGED <<visited, inlining>>
       ELSE /\ visited' = visited \cup {f}
            /\ functionArguments' = functionArguments \o RegisterParams(source[f])
            /\ replacementCode' =
                  [g \in DOMAIN replacementCode
                          \cup (IF Aborts(source[f]) \/ Len(source[f]) > InlinerMax THEN {} ELSE {f})
                     |-> IF g = f THEN ReplacementCode(f) ELSE replacementCode[g]]
            /\ UNCHANGED <<stage, inlineCount>>
    /\ UNCHANGED <<source, prog, walking>>

EndCheck ==
    /\ stage = "check" /\ visited = Functions
    /\ stage' = "inline" /\ visited' = {}
    /\ UNCHANGED <<source, prog, inlining, walking>>

-----------------------------------------------------------------------------
(* fixLabels and fixLabelsExpr.                                            *)

FixName(f, c, v) == IF GeneratedFor(v, f) THEN v ELSE InlinedName(f, c, v)

\* A callee that is none of the program's functions is renamed like a label.
FixLabelsExpr(f, c, expr) ==
    LET fix[x \in Expressions] ==
            CASE x.e \in {"var", "elem"} -> [x EXCEPT !.name = FixName(f, c, @)]
              [] x.e = "unary"  -> [x EXCEPT !.operand = fix[@]]
              [] x.e = "binary" -> [x EXCEPT !.left = fix[@], !.right = fix[@]]
              [] x.e = "call"   ->
                    [x EXCEPT !.func = IF @ \in Functions THEN @ ELSE InlinedLabel(f, c, @),
                              !.args = [n \in 1..Len(@) |-> fix[@[n]]]]
              [] OTHER -> x
    IN  fix[expr]

\* Mutation: labels get the function's prefix without the call's number.
FixLabelUncounted(f, c, l) == InlinedLabel(f, 0, l)

FixLabel(f, c, l) == InlinedLabel(f, c, l)

\* Mutation: a conditional jump keeps its label.
FixLabelsJmpOnly(f, c, i) ==
    CASE i.op = "label"   -> [i EXCEPT !.label = FixLabel(f, c, @)]
      [] i.op = "jmp"     -> [i EXCEPT !.dst = FixLabel(f, c, @)]
      [] i.op = "jmpcond" -> [i EXCEPT !.cond = FixLabelsExpr(f, c, @)]
      [] i.op = "move"    -> [i EXCEPT !.src = FixLabelsExpr(f, c, @), !.dst = FixLabelsExpr(f, c, @)]
      [] i.op = "print"   -> [i EXCEPT !.expr = FixLabelsExpr(f, c, @)]
      [] i.op = "read"    -> [i EXCEPT !.dst = FixLabelsExpr(f, c, @)]
      [] i.op = "declare" -> [i EXCEPT !.var = InlinedName(f, c, @)]
      [] OTHER -> i

FixLabels(f, c, i) ==
    CASE i.op = "label"   -> [i EXCEPT !.label = FixLabel(f, c, @)]
      [] i.op = "jmp"     -> [i EXCEPT !.dst = FixLabel(f, c, @)]
      [] i.op = "jmpcond" -> [i EXCEPT !.dst = FixLabel(f, c, @), !.cond = FixLabelsExpr(f, c, @)]
      [] i.op = "move"    -> [i EXCEPT !.src = FixLabelsExpr(f, c, @), !.dst = FixLabelsExpr(f, c, @)]
      [] i.op = "print"   -> [i EXCEPT !.expr = FixLabelsExpr(f, c, @)]
      [] i.op = "read"    -> [i EXCEPT !.dst = FixLabelsExpr(f, c, @)]
      [] i.op = "declare" -> [i EXCEPT !.var = InlinedName(f, c, @)]
      [] OTHER -> i

ExprsOf(i) == CASE i.op = "move"    -> {i.dst, i.src}
                [] i.op = "jmpcond" -> {i.cond}
                [] i.op = "read"    -> {i.dst}
                [] i.op \in {"print", "return"} -> {i.expr}
                [] OTHER            -> {}

\* What fixLabelsExpr does not know, or something in it.
UnrecognizedExpr[x \in Expressions] ==
    CASE x.e = "unary"  -> UnrecognizedExpr[x.operand]
      [] x.e = "binary" -> UnrecognizedExpr[x.left] \/ UnrecognizedExpr[x.right]
      [] x.e = "call"   -> \E n \in 1..Len(x.args) : UnrecognizedExpr[x.args[n]]
      [] OTHER          -> x.e \in {"field", "float", "newstruct"}

\* What fixLabels does not know.
Unrecognized(i) == i.op \in {"eval", "exit"} \/ \E x \in ExprsOf(i) : UnrecognizedExpr[x]

-----------------------------------------------------------------------------
(* inlineInPath.                                                           *)

Here == prog[path][node]
Walking == stage \in {"inline", "main"} /\ path # NoPath /\ node <= Len(prog[path])
Inlinable == Here.src.func \in DOMAIN replacementCode

StartPath(f) ==
    /\ path = NoPath
    /\ \/ stage = "inline" /\ f \in Functions \ visited
       \/ stage = "main" /\ f = "main" /\ f \notin visited
    /\ path' = f /\ node' = 1 /\ pushScopeStack' = <<>>
    /\ UNCHANGED <<source, prog, stage, visited, inlining>>

\* Mutation: the place is taken after the walk has gone on.
WalkPushScopeLate ==
    /\ Walking /\ Here.op = "pushscope"
    /\ pushScopeStack' = Append(pushScopeStack, node + 1)
    /\ node' = node + 1
    /\ UNCHANGED <<source, prog, stage, visited, inlining, path>>

WalkPushScope ==
    /\ Walking /\ Here.op = "pushscope"
    /\ pushScopeStack' = Append(pushScopeStack, node)
    /\ node' = node + 1
    /\ UNCHANGED <<source, prog, stage, visited, inlining, path>>

\* Mutation: a PopScope keeps the size the translator gave it.
WalkPopScopeKeepsSize ==
    /\ Walking /\ Here.op = "popscope"
    /\ pushScopeStack' = Front(pushScopeStack)
    /\ node' = node + 1
    /\ UNCHANGED <<source, prog, stage, visited, inlining, path>>

WalkPopScope ==
    /\ Walking /\ Here.op = "popscope"
    /\ prog' = [prog EXCEPT ![path][node] = PopScope(prog[path][Last(pushScopeStack)].size)]
    /\ pushScopeStack' = Front(pushScopeStack)
    /\ node' = node + 1
    /\ UNCHANGED <<source, stage, visited, inlining, path>>

WalkOther ==
    /\ Walking /\ Here.op \notin {"pushscope", "popscope"} /\ ~IsCallMove(Here)
    /\ node' = node + 1
    /\ UNCHANGED <<source, prog, stage, visited, inlining, path, pushScopeStack>>

\* The calls that stay are counted as well.
WalkCallKept ==
    /\ Walking /\ IsCallMove(Here) /\ ~Inlinable
    /\ inlineCount' = inlineCount + 1
    /\ node' = node + 1
    /\ UNCHANGED <<source, prog, stage, visited, replacementCode, functionArguments,
                   path, pushScopeStack>>

\* Declare and set a variable for each argument.
ArgumentCode(call) ==
    FlattenSeq([n \in 1..Len(call.args) |->
        LET v == ArgName(call.func, n - 1)
        IN  <<Declare(v), MoveInstr(VarExpr(v), call.args[n])>>])

\* The callee's code with its names made those of this call, and its result
\* set where the call's was.
InlinedCode(f, dst) ==
    LET fixed(n) == FixLabels(f, inlineCount, replacementCode[f][n])
    IN  [n \in 1..Len(replacementCode[f]) |->
            IF fixed(n).op = "move" /\ fixed(n).dst = VarExpr(RetVal(f))
            THEN [fixed(n) EXCEPT !.dst = dst] ELSE fixed(n)]

\* "TODO: unbreak usage of stack...": room for 48 variables, and the arguments.
ExtraSize(call) == 48 * RegWidth + RegWidth * Len(call.args)

\* Mutation: the caller's frame does not grow.
InlineCallNoRoom ==
    /\ Walking /\ IsCallMove(Here) /\ Inlinable
    /\ LET call == Here.src
           new  == ArgumentCode(call) \o InlinedCode(call.func, Here.dst)
       IN  /\ prog' = [prog EXCEPT ![path] =
                          SubSeq(@, 1, node - 1) \o new \o SubSeq(@, node + 1, Len(@))]
           /\ node' = node + Len(new)
           /\ inlineCount' = inlineCount + 1
    /\ UNCHANGED <<source, stage, visited, replacementCode, functionArguments,
                   path, pushScopeStack>>

\* Mutation: the walk goes on at the code that has been put in.
InlineCallRevisits ==
    /\ Walking /\ IsCallMove(Here) /\ Inlinable
    /\ LET call  == Here.src
           new   == ArgumentCode(call) \o InlinedCode(call.func, Here.dst)
           scope == Last(pushScopeStack)
           grown == [prog[path] EXCEPT ![scope] = PushScope(@.size + ExtraSize(call))]
       IN  IF \/ Len(call.args) > Len(functionArguments)
              \/ \E i \in Range(replacementCode[call.func]) : Unrecognized(i)
           THEN stage' = "panic" /\ UNCHANGED <<prog, node, inlineCount>>
           ELSE /\ prog' = [prog EXCEPT ![path] =
                              SubSeq(grown, 1, node - 1) \o new
                                \o SubSeq(grown, node + 1, Len(grown))]
                /\ node' = node
                /\ inlineCount' = inlineCount + 1
                /\ UNCHANGED stage
    /\ UNCHANGED <<source, visited, replacementCode, functionArguments,
                   path, pushScopeStack>>

InlineCall ==
    /\ Walking /\ IsCallMove(Here) /\ Inlinable
    /\ LET call  == Here.src
           new   == ArgumentCode(call) \o InlinedCode(call.func, Here.dst)
           scope == Last(pushScopeStack)
           grown == [prog[path] EXCEPT ![scope] = PushScope(@.size + ExtraSize(call))]
       IN  IF \/ Len(call.args) > Len(functionArguments)
              \/ \E i \in Range(replacementCode[call.func]) : Unrecognized(i)
           THEN stage' = "panic" /\ UNCHANGED <<prog, node, inlineCount>>
           ELSE /\ prog' = [prog EXCEPT ![path] =
                              SubSeq(grown, 1, node - 1) \o new
                                \o SubSeq(grown, node + 1, Len(grown))]
                /\ node' = node + Len(new)
                /\ inlineCount' = inlineCount + 1
                /\ UNCHANGED stage
    /\ UNCHANGED <<source, visited, replacementCode, functionArguments,
                   path, pushScopeStack>>

EndPath ==
    /\ path # NoPath /\ stage \in {"inline", "main"} /\ node > Len(prog[path])
    /\ visited' = visited \cup {path} /\ path' = NoPath
    /\ UNCHANGED <<source, prog, stage, inlining, node, pushScopeStack>>

EndInline ==
    /\ stage = "inline" /\ path = NoPath /\ visited = Functions
    /\ stage' = "main"
    /\ UNCHANGED <<source, prog, visited, inlining, walking>>

\* Every path has been walked.
Inlined == stage = "main" /\ path = NoPath /\ "main" \in visited

\* The lists go to the allocator.
HandOn ==
    /\ Inlined
    /\ stage' = "allocate"
    /\ UNCHANGED <<source, prog, visited, inlining, walking>>

-----------------------------------------------------------------------------
InlineInit ==
    /\ source \in Sources
    /\ prog = source /\ stage = "check" /\ visited = {}
    /\ replacementCode = <<>> /\ functionArguments = <<>> /\ inlineCount = 0
    /\ path = NoPath /\ node = 1 /\ pushScopeStack = <<>>

Optimise ==
    \/ \E f \in Functions : CheckInlinable(f)
    \/ EndCheck
    \/ \E f \in DOMAIN source : StartPath(f)
    \/ WalkPushScope \/ WalkPopScope \/ WalkOther \/ WalkCallKept \/ InlineCall
    \/ EndPath \/ EndInline

\* What comes after the inliner leaves the program alone.
MoveOn ==
    /\ stage \in {"allocate", "run", "done"} /\ stage' \in {"allocate", "run", "done"}
    /\ UNCHANGED <<source, prog, visited, inlining, walking>>

InlineNext == Optimise \/ HandOn \/ MoveOn

InlineSpec == InlineInit /\ [][InlineNext]_optimising

-----------------------------------------------------------------------------
(* Type correctness.                                                       *)

\* The walk is within its list, and the open scopes are PushScopes before it.
TypeOK ==
    /\ stage \in {"check", "inline", "main", "allocate", "run", "done", "panic"}
    /\ visited \subseteq DOMAIN source
    /\ DOMAIN replacementCode \subseteq Functions
    /\ inlineCount \in Nat
    /\ path \in DOMAIN source \cup {NoPath}
    /\ path # NoPath => node \in 1..(Len(prog[path]) + 1)
    /\ path # NoPath => \A k \in 1..Len(pushScopeStack) :
                            /\ pushScopeStack[k] < node
                            /\ prog[path][pushScopeStack[k]].op = "pushscope"

-----------------------------------------------------------------------------
(* Safety.                                                                 *)

\* No label twice in the whole program, however many calls of one function
\* are replaced, in whatever order.
LabelsUnique ==
    Inlined =>
        \A f, g \in DOMAIN prog : \A m \in 1..Len(prog[f]), n \in 1..Len(prog[g]) :
            IsLabel(prog[f][m]) /\ IsLabel(prog[g][n]) /\ prog[f][m].label = prog[g][n].label
                => f = g /\ m = n

\* Every jump finds its label in the function it is in.
JumpsResolve ==
    Inlined =>
        \A f \in DOMAIN prog : \A m \in 1..Len(prog[f]) : IsJump(prog[f][m]) =>
            \E n \in 1..Len(prog[f]) : prog[f][n] = Label(prog[f][m].dst)

\* The frames have room for the variables of the functions inlined.
InlinedFramesHold == Inlined => \A f \in DOMAIN prog : FrameHoldsSlots(prog[f])

\* checkInlinable and the functions it and inlineInPath call do not panic.
NeverPanics == stage # "panic"

-----------------------------------------------------------------------------
(* Action property.                                                        *)

\* Every step of a walk leaves less of its list to walk, although a list may
\* grow under it: code that has just been put in is not looked at again, which
\* is what keeps a recursive function from being inlined for ever.
WalkAdvances ==
    [][path # NoPath /\ path' = path /\ stage' = stage =>
          Len(prog'[path]) - node' < Len(prog[path]) - node]_optimising
=============================================================================
