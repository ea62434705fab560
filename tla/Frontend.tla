------------------------------ MODULE Frontend ------------------------------
(***************************************************************************)
(* The compiler from the input file to the verdict on it: the driver       *)
(* (src/main.go), the import of modules (src/frontend/frontend.go), the    *)
(* checks made while parsing (src/frontend/syntax.go, parser.y) and the    *)
(* semantic checks (src/frontend/semantic.go).  A file is what the grammar *)
(* makes of it, with a mark for what it makes nothing of; names are        *)
(* sequences of letters.                                                   *)
(***************************************************************************)
EXTENDS Types, Integers, FiniteSets, SequencesExt

CONSTANTS
    Sources,   \* what may be compiled: [input, modules, flags]
    INT_MAX,   \* INT_MIN is -INT_MAX - 1
    MaxCalls   \* the calls of GenerateAST that stack and file descriptors allow

VARIABLES
    source,    \* what is being compiled
    stage,     \* what the compiler is doing, or how it has ended
    reading,   \* the calls of GenerateAST in progress, innermost last
    program,   \* the declarations read, imported ones first
    toAdd,     \* the declarations not yet added to the tables
    structs,   \* the table of structs, a set: names are unique
    functions, \* the table of functions, from labels to functions
    work,      \* what is left to verify
    currentFunction,
    types,     \* the scopes, innermost last, from names to types
    err,       \* an error has been reported
    bound      \* the calls that were given a function

vars == <<source, stage, reading, program, toAdd, structs, functions, work,
          currentFunction, types, err, bound>>

Ended == {"syntax_error", "semantic_error", "panicked", "interrupted", "written"}

-----------------------------------------------------------------------------
(* The tree.                                                               *)

Ident(v)            == [kind |-> "ident", name |-> v]
Lit(type, n)        == [kind |-> "lit", type |-> type, value |-> n]
ArrayElem(v, i)     == [kind |-> "elem", volume |-> v, index |-> i]
PairElem(half, v)   == [kind |-> "half", half |-> half, operand |-> v]
StructElem(v, m)    == [kind |-> "field", operand |-> v, member |-> m]
ArrayLit(values)    == [kind |-> "array", values |-> values]
Unary(op, e)        == [kind |-> "unary", op |-> op, operand |-> e]
Binary(op, l, r)    == [kind |-> "binary", op |-> op, left |-> l, right |-> r]
NewPair(l, r)       == [kind |-> "newpair", left |-> l, right |-> r]
NewStruct(name, args) == [kind |-> "newstruct", struct |-> name, args |-> args]
Call(name, args)    == [kind |-> "call", name |-> name, args |-> args]

Skip                == [kind |-> "skip"]
Eval(e)             == [kind |-> "eval", right |-> e]
Decl(t, v, e)       == [kind |-> "decl", type |-> t, name |-> v, right |-> e]
Assign(l, e)        == [kind |-> "assign", left |-> l, right |-> e]
With(kind, e)       == [kind |-> kind, expr |-> e]   \* read, free, exit, return, print
If(c, body, else)   == [kind |-> "if", cond |-> c, body |-> body, else |-> else]
While(c, body)      == [kind |-> "while", cond |-> c, body |-> body]
Scope(body)         == [kind |-> "scope", body |-> body]
\* Tokens up to a semicolon that are no statement; another statement follows.
Broken              == [kind |-> "error"]

Typed(t, v)         == [type |-> t, name |-> v]      \* a parameter, a member
Struct(name, members) == [name |-> name, members |-> members]
Function(pos, t, name, params, body) ==
    [pos |-> pos, type |-> t, name |-> name, params |-> params, body |-> body, external |-> FALSE]
External(pos, t, name, params) ==
    [pos |-> pos, type |-> t, name |-> name, params |-> params, body |-> <<>>, external |-> TRUE]
\* A garbled file has an error after all this that the parser gives up at.
File(imports, ss, fs, body) ==
    [imports |-> imports, structs |-> ss, funcs |-> fs, body |-> body, garbled |-> FALSE]

ParamTypes(f) == [n \in 1..Len(f.params) |-> f.params[n].type]

-----------------------------------------------------------------------------
(* The checks of the parser.                                               *)

\* Mutation: a return in one branch of an if is enough.
RECURSIVE EitherReturns(_)
EitherReturns(s) ==
    \/ s.kind \in {"exit", "return"}
    \/ s.kind = "if" /\ \E b \in {s.body, s.else} : \E n \in 1..Len(b) : EitherReturns(b[n])

\* A statement that returns wherever it is left.  Loops and scopes never do.
RECURSIVE VerifyStatementReturns(_)
VerifyStatementReturns(s) ==
    \/ s.kind \in {"exit", "return"}
    \/ s.kind = "if" /\ \A b \in {s.body, s.else} : \E n \in 1..Len(b) : VerifyStatementReturns(b[n])

\* What is left of a statement list: the parser goes on behind the semicolon
\* and forgets what it reads there (error ';' statement_list, with no action).
Recovered(stmts) ==
    LET IsBroken(s) == s.kind = "error" IN
    IF \E n \in 1..Len(stmts) : IsBroken(stmts[n])
    THEN SubSeq(stmts, 1, SelectInSeq(stmts, IsBroken) - 1) ELSE stmts

VerifyFunctionReturns(f) ==
    LET body == Recovered(f.body) IN
    f.type = Void \/ f.external \/ \E n \in 1..Len(body) : VerifyStatementReturns(body[n])

\* Minus changes the limit for a literal, and hides what is behind another operator.
RECURSIVE StaticExprOverflows(_)
StaticExprOverflows(e) ==
    \/ e.kind = "lit" /\ e.type = INT /\ e.value > INT_MAX
    \/ e.kind = "unary" /\ IF e.op = "-" /\ e.operand.kind = "lit"
                           THEN e.operand.type = INT /\ e.operand.value > INT_MAX + 1
                           ELSE StaticExprOverflows(e.operand)

\* Where the parser looks for overflows: at what begins a product, written
\* without parentheses that precedence does not need.
RECURSIVE Checks(_)
Checks(e) ==
    LET Inside(x) == IF x.kind = "binary" THEN Checks(x) ELSE Checks(x) \ {x} IN
    CASE e.kind = "binary" ->
            Checks(e.left) \cup (IF e.op \in {"*", "/", "%"} THEN Inside(e.right) ELSE Checks(e.right))
      [] e.kind = "unary" -> {e} \cup Inside(e.operand)
      [] e.kind = "elem" -> {e} \cup Inside(e.volume) \cup Checks(e.index)
      [] e.kind = "array" -> UNION {Checks(e.values[n]) : n \in 1..Len(e.values)}
      [] e.kind = "newpair" -> Checks(e.left) \cup Checks(e.right)
      [] e.kind \in {"newstruct", "call"} -> UNION {Checks(e.args[n]) : n \in 1..Len(e.args)}
      [] OTHER -> {e}

\* The expressions of a statement and the statement lists in it.
ExprsOf(s) ==
    CASE s.kind \in {"eval", "decl"} -> <<s.right>>
      [] s.kind = "assign" -> <<s.left, s.right>>
      [] s.kind \in {"if", "while"} -> <<s.cond>>
      [] s.kind \in {"skip", "scope", "error"} -> <<>>
      [] OTHER -> <<s.expr>>

BodiesOf(s) ==
    CASE s.kind = "if" -> <<s.body, s.else>>
      [] s.kind \in {"while", "scope"} -> <<s.body>>
      [] OTHER -> <<>>

RECURSIVE Within(_)
Within(stmts) ==
    ToSet(stmts) \cup UNION {Within(b) : b \in UNION {ToSet(BodiesOf(s)) : s \in ToSet(stmts)}}

\* All statements of a file, and the expressions written in them.
StmtsOf(file) == UNION {Within(body) : body \in {file.body} \cup {f.body : f \in ToSet(file.funcs)}}
Written(file) == UNION {ToSet(ExprsOf(s)) : s \in StmtsOf(file)}

Parses(file) ==
    /\ ~file.garbled
    /\ Broken \notin StmtsOf(file)
    /\ \A f \in ToSet(file.funcs) : VerifyFunctionReturns(f)
    /\ \A e \in Written(file) : \A x \in Checks(e) : ~StaticExprOverflows(x)

\* The parser takes the place of a missing return from the first statement,
\* and what follows fst and snd for a name.
ParserPanics(file) ==
    \/ \E f \in ToSet(file.funcs) : f.type # Void /\ ~f.external /\ Recovered(f.body) = <<>>
    \/ \E e \in Written(file) : e.kind = "half" /\ e.operand.kind # "ident"

\* The stage after a file has been parsed.  Errors are noted, panics stop it.
Parsed(file) ==
    CASE ParserPanics(file) -> "panicked"
      [] ~ParserPanics(file) /\ Parses(file) -> "reading"
      [] OTHER -> "syntax_error"

-----------------------------------------------------------------------------
(* GenerateAST.  A call has parsed its file when imported > 0, and has     *)
(* imported modules up to imported - 1.                                    *)

Reading(file) == [file |-> file, imported |-> 0, structs |-> <<>>, funcs |-> <<>>]
Reader == reading[Len(reading)]
Imports == Reader.file.imports

Parse ==
    /\ stage = "reading" /\ Reader.imported = 0
    /\ stage' = Parsed(Reader.file)
    /\ reading' = IF stage' = "reading" THEN [reading EXCEPT ![Len(reading)].imported = 1] ELSE reading
    /\ UNCHANGED <<source, program, toAdd, structs, functions, work, currentFunction, types, err, bound>>

\* Files stay open, so that a cycle of imports may end for want of descriptors
\* ("module does not exist") or of stack.
Import ==
    /\ stage = "reading" /\ Reader.imported \in 1..Len(Imports)
    /\ LET name == Imports[Reader.imported] IN
       IF name \in DOMAIN source.modules /\ Len(reading) < MaxCalls
       THEN /\ reading' = Append(reading, Reading(source.modules[name]))
            /\ UNCHANGED stage
       ELSE /\ stage' \in {"syntax_error"} \cup (IF Len(reading) < MaxCalls THEN {} ELSE {"panicked"})
            /\ UNCHANGED reading
    /\ UNCHANGED <<source, program, toAdd, structs, functions, work, currentFunction, types, err, bound>>

\* Mutation: the file's own declarations come before the imported ones.
OwnFirst == [structs |-> Reader.file.structs \o Reader.structs,
             funcs |-> Reader.file.funcs \o Reader.funcs]

\* The declarations of the modules and the file's own; a module's main is dropped.
Merged == [structs |-> Reader.structs \o Reader.file.structs,
           funcs |-> Reader.funcs \o Reader.file.funcs]

Imported ==
    /\ stage = "reading" /\ Reader.imported = Len(Imports) + 1
    /\ IF Len(reading) = 1
       THEN /\ program' = Merged
            /\ toAdd' = Merged
            /\ stage' = IF "unchecked" \in source.flags THEN "translating" ELSE "adding"
            /\ reading' = <<>>
       ELSE /\ reading' = [n \in 1..(Len(reading) - 1) |->
                             IF n < Len(reading) - 1 THEN reading[n]
                             ELSE [reading[n] EXCEPT !.imported = @ + 1,
                                                     !.structs = @ \o Merged.structs,
                                                     !.funcs = @ \o Merged.funcs]]
            /\ UNCHANGED <<stage, program, toAdd>>
    /\ UNCHANGED <<source, structs, functions, work, currentFunction, types, err, bound>>

-----------------------------------------------------------------------------
(* The tables.                                                             *)

\* encodeFunctionName
Encoded(name, ts) == name \o FlattenSeq([n \in 1..Len(ts) |-> Code(ts[n])])

Label(f) == IF f.external THEN f.name ELSE Encoded(f.name, ParamTypes(f))
AllEncodable(ts) == \A n \in 1..Len(ts) : Encodable(ts[n])

\* Mutation: a second struct of a name is added too.
AddStructAgain ==
    /\ stage = "adding" /\ toAdd.structs # <<>>
    /\ structs' = structs \cup {Head(toAdd.structs)}
    /\ toAdd' = [toAdd EXCEPT !.structs = Tail(@)]
    /\ UNCHANGED <<source, stage, reading, program, functions, work, currentFunction, types, err, bound>>

AddStruct ==
    /\ stage = "adding" /\ toAdd.structs # <<>>
    /\ LET s == Head(toAdd.structs) IN
       IF \E t \in structs : t.name = s.name
       THEN err' = TRUE /\ UNCHANGED structs
       ELSE structs' = structs \cup {s} /\ UNCHANGED err
    /\ toAdd' = [toAdd EXCEPT !.structs = Tail(@)]
    /\ UNCHANGED <<source, stage, reading, program, functions, work, currentFunction, types, bound>>

AddFunction ==
    /\ stage = "adding" /\ toAdd.structs = <<>> /\ toAdd.funcs # <<>>
    /\ LET f == Head(toAdd.funcs) IN
       /\ f.external \/ AllEncodable(ParamTypes(f))
       /\ IF Label(f) \in DOMAIN functions
          THEN err' = TRUE /\ UNCHANGED functions
          ELSE functions' = (Label(f) :> f) @@ functions /\ UNCHANGED err
    /\ toAdd' = [toAdd EXCEPT !.funcs = Tail(@)]
    /\ UNCHANGED <<source, stage, reading, program, structs, work, currentFunction, types, bound>>

\* panic("Unhandled type in encodeType"), for a struct.
AddFunctionPanics ==
    /\ stage = "adding" /\ toAdd.structs = <<>> /\ toAdd.funcs # <<>>
    /\ ~Head(toAdd.funcs).external /\ ~AllEncodable(ParamTypes(Head(toAdd.funcs)))
    /\ stage' = "panicked"
    /\ UNCHANGED <<source, reading, program, toAdd, structs, functions, work, currentFunction, types, err, bound>>

None == [kind |-> "none"]
Enter(f) == [kind |-> "function", func |-> f]
Push == [kind |-> "push"]
Pop == [kind |-> "pop"]

\* Every function, whether or not it could be added, then the main program.
StartVerifying ==
    /\ stage = "adding" /\ toAdd.structs = <<>> /\ toAdd.funcs = <<>>
    /\ stage' = "verifying"
    /\ LET own == SelectSeq(program.funcs, LAMBDA f : ~f.external) IN
       work' = FlattenSeq([n \in 1..Len(own) |-> <<Push, Enter(own[n])>> \o own[n].body
                                                 \o <<Enter(None), Pop>>])
               \o <<Push>> \o source.input.body \o <<Pop>>
    /\ UNCHANGED <<source, reading, program, toAdd, structs, functions, currentFunction, types, err, bound>>

-----------------------------------------------------------------------------
(* DeriveType.  An environment has the types of the variables in scope and *)
(* the tables.                                                             *)

FieldType(st, member, env) ==
    LET Named(m) == m.name = member
        found == {s \in env.structs : s.name = st.name /\ \E n \in 1..Len(s.members) : Named(s.members[n])}
    IN  IF found = {} THEN ErrorType
        ELSE LET ms == (CHOOSE s \in found : TRUE).members IN ms[SelectInSeq(ms, Named)].type

\* Mutation: the name as it is written goes first.
LabelAsWritten(name, ts, env) ==
    IF name \in DOMAIN env.functions THEN name ELSE Encoded(name, ts)

\* The label that a call stands for: the overload's, or else what is written.
CalledLabel(name, ts, env) ==
    IF Encoded(name, ts) \in DOMAIN env.functions THEN Encoded(name, ts) ELSE name

RECURSIVE TypeOf(_, _)
TypeOf(e, env) ==
    LET Operand == TypeOf(e.operand, env)
        Left == TypeOf(e.left, env)
        Right == TypeOf(e.right, env)
    IN
    CASE e.kind = "ident" -> IF e.name \in DOMAIN env.vars THEN env.vars[e.name] ELSE ErrorType
      [] e.kind = "lit" -> e.type
      [] e.kind = "elem" ->    \* the index is not looked at
            LET t == TypeOf(e.volume, env) IN
            CASE Equals(t, STR) -> CHAR
              [] ~Equals(t, STR) /\ t.kind = "array" -> t.base
              [] OTHER -> ErrorType
      [] e.kind = "half" -> IF Operand.kind = "pair" THEN Operand[e.half] ELSE ErrorType
      [] e.kind = "field" -> IF Operand.kind = "struct" THEN FieldType(Operand, e.member, env) ELSE ErrorType
      [] e.kind = "array" ->
            IF e.values = <<>> THEN ArrayType(AnyType)
            ELSE LET t == TypeOf(e.values[1], env) IN
                 IF \A n \in 2..Len(e.values) : Equals(t, TypeOf(e.values[n], env))
                 THEN ArrayType(t) ELSE ErrorType
      [] e.kind = "unary" ->
            CASE e.op = "!" /\ Equals(Operand, BOOL) -> BOOL
              [] e.op = "-" /\ Numeric(Operand) -> Operand
              [] e.op = "len" /\ Equals(Operand, ArrayType(AnyType)) -> INT
              [] e.op = "ord" /\ Equals(Operand, CHAR) -> INT
              [] e.op = "chr" /\ Equals(Operand, INT) -> CHAR
              [] OTHER -> ErrorType
      [] e.kind = "binary" ->
            CASE e.op \in {"*", "/", "%", "+", "-"} /\ Numeric(Left) /\ Equals(Right, Left) -> Left
              [] e.op \in {"<", "<=", ">", ">="} /\ Comparable(Left) /\ Equals(Right, Left) -> BOOL
              [] e.op \in {"==", "!="} /\ Equals(Left, Right) -> BOOL
              [] e.op \in {"&&", "||"} /\ Equals(Left, BOOL) /\ Equals(Right, BOOL) -> BOOL
              [] OTHER -> ErrorType
      [] e.kind = "newpair" -> PairType(Left, Right)
      [] e.kind = "newstruct" -> StructType(e.struct)  \* the arguments are not looked at
      [] e.kind = "call" ->
            LET ts == [n \in 1..Len(e.args) |-> TypeOf(e.args[n], env)] IN
            IF \E n \in 1..Len(ts) : ~Equals(ts[n], ts[n]) THEN ErrorType
            ELSE LET label == CalledLabel(e.name, ts, env) IN
                 IF /\ label \in DOMAIN env.functions
                    /\ LET params == env.functions[label].params IN
                       Len(params) = Len(ts) /\ \A n \in 1..Len(ts) : Equals(ts[n], params[n].type)
                 THEN env.functions[label].type ELSE ErrorType

\* The expressions whose types are derived for that of e.
RECURSIVE Derived(_)
Derived(e) ==
    {e} \cup CASE e.kind = "elem" -> Derived(e.volume)
               [] e.kind \in {"half", "field", "unary"} -> Derived(e.operand)
               [] e.kind \in {"binary", "newpair"} -> Derived(e.left) \cup Derived(e.right)
               [] e.kind = "array" -> UNION {Derived(e.values[n]) : n \in 1..Len(e.values)}
               [] e.kind = "call" -> UNION {Derived(e.args[n]) : n \in 1..Len(e.args)}
               [] OTHER -> {}

\* Each error type that comes up is reported.
Faulty(e, env) == \E x \in Derived(e) : TypeOf(x, env) = ErrorType

ArgTypes(e, env) == [n \in 1..Len(e.args) |-> TypeOf(e.args[n], env)]

\* encodeType panics at an argument that is a struct.
CallPanics(e, env) ==
    /\ e.kind = "call"
    /\ LET ts == ArgTypes(e, env) IN (\A n \in 1..Len(ts) : Equals(ts[n], ts[n])) /\ ~AllEncodable(ts)

\* The function a call without faults is given.
Binding(e, env) ==
    IF e.kind # "call" \/ Faulty(e, env) THEN {}
    ELSE {[called |-> e.name, args |-> ArgTypes(e, env),
           label |-> CalledLabel(e.name, ArgTypes(e, env), env)]}

-----------------------------------------------------------------------------
(* The statements.                                                         *)

Verifying(kind) == stage = "verifying" /\ work # <<>> /\ Head(work).kind = kind
Now == Head(work)
Then(items) == work' = items \o Tail(work)

PushScope ==
    /\ Verifying("push")
    /\ types' = Append(types, <<>>)
    /\ Then(<<>>)
    /\ UNCHANGED <<source, stage, reading, program, toAdd, structs, functions, currentFunction, err, bound>>

\* Mutation: the scope stays.
PopScopeKeeps ==
    /\ Verifying("pop")
    /\ Then(<<>>)
    /\ UNCHANGED <<source, stage, reading, program, toAdd, structs, functions, currentFunction, types, err, bound>>

PopScope ==
    /\ Verifying("pop")
    /\ types' = Front(types)
    /\ Then(<<>>)
    /\ UNCHANGED <<source, stage, reading, program, toAdd, structs, functions, currentFunction, err, bound>>

EnterFunction ==
    /\ Verifying("function")
    /\ currentFunction' = Now.func
    /\ Then(<<>>)
    /\ UNCHANGED <<source, stage, reading, program, toAdd, structs, functions, types, err, bound>>

Parameters == IF currentFunction = None THEN <<>> ELSE currentFunction.params
InScopes == UNION {DOMAIN types[n] : n \in 1..Len(types)}

\* The innermost scope that has the variable, or else the first parameter.
LookupVariable(v) ==
    LET Has(scope) == v \in DOMAIN scope
        Named(p) == p.name = v
    IN  IF v \in InScopes
        THEN LET inner == Reverse(types) IN inner[SelectInSeq(inner, Has)][v]
        ELSE Parameters[SelectInSeq(Parameters, Named)].type

Env == [vars |-> [v \in InScopes \cup {Parameters[n].name : n \in 1..Len(Parameters)} |-> LookupVariable(v)],
        structs |-> structs, functions |-> functions]

\* A statement that derives the types of some expressions and wants something
\* of them.
Verify(exprs, fine, items) ==
    /\ ~\E e \in exprs : CallPanics(e, Env)
    /\ err' = (err \/ ~fine \/ \E e \in exprs : Faulty(e, Env))
    /\ bound' = bound \cup UNION {Binding(e, Env) : e \in exprs}
    /\ Then(items)
    /\ UNCHANGED <<source, stage, reading, program, toAdd, structs, functions, currentFunction>>

Is(e, t) == Equals(TypeOf(e, Env), t)

\* Mutation: a skip is looked at for ever.
VerifySkipStays == Verifying("skip") /\ UNCHANGED vars

VerifySkip   == Verifying("skip") /\ Verify({}, TRUE, <<>>) /\ UNCHANGED types
VerifyEval   == Verifying("eval") /\ Verify({Now.right}, TRUE, <<>>) /\ UNCHANGED types
VerifyAssign == Verifying("assign")
                /\ Verify({Now.left, Now.right}, Is(Now.left, TypeOf(Now.right, Env)), <<>>)
                /\ UNCHANGED types
VerifyRead   == Verifying("read")
                /\ Verify({Now.expr}, Is(Now.expr, INT) \/ Is(Now.expr, CHAR), <<>>) /\ UNCHANGED types
VerifyFree   == Verifying("free")
                /\ Verify({Now.expr}, Freeable(TypeOf(Now.expr, Env)), <<>>) /\ UNCHANGED types
VerifyExit   == Verifying("exit") /\ Verify({Now.expr}, Is(Now.expr, INT), <<>>) /\ UNCHANGED types
VerifyPrint  == Verifying("print") /\ Verify({Now.expr}, TRUE, <<>>) /\ UNCHANGED types

VerifyReturn ==
    /\ Verifying("return")
    /\ IF currentFunction = None THEN Verify({}, FALSE, <<>>)
       ELSE Verify({Now.expr}, Is(Now.expr, currentFunction.type), <<>>)
    /\ UNCHANGED types

\* AddVariable, if the value fits.
VerifyDecl ==
    /\ Verifying("decl")
    /\ LET fits == Equals(Now.type, TypeOf(Now.right, Env))
           new == Now.name \notin DOMAIN Last(types)
       IN  /\ Verify({Now.right}, fits /\ new, <<>>)
           /\ types' = IF fits /\ new
                       THEN [types EXCEPT ![Len(types)] = (Now.name :> Now.type) @@ @]
                       ELSE types

VerifyIf ==
    /\ Verifying("if")
    /\ Verify({Now.cond}, Is(Now.cond, BOOL),
              <<Push>> \o Now.body \o <<Pop, Push>> \o Now.else \o <<Pop>>)
    /\ UNCHANGED types

VerifyWhile ==
    /\ Verifying("while")
    /\ Verify({Now.cond}, Is(Now.cond, BOOL), <<Push>> \o Now.body \o <<Pop>>)
    /\ UNCHANGED types

VerifyScope ==
    /\ Verifying("scope")
    /\ Verify({}, TRUE, <<Push>> \o Now.body \o <<Pop>>)
    /\ UNCHANGED types

VerifyPanics ==
    /\ \E k \in {"eval", "decl", "assign"} : Verifying(k)
    /\ CallPanics(Now.right, Env)
    /\ stage' = "panicked"
    /\ UNCHANGED <<source, reading, program, toAdd, structs, functions, work, currentFunction, types, err, bound>>

Verified ==
    /\ stage = "verifying" /\ work = <<>>
    /\ stage' = IF err THEN "semantic_error" ELSE "translating"
    /\ UNCHANGED <<source, reading, program, toAdd, structs, functions, work, currentFunction, types, err, bound>>

-----------------------------------------------------------------------------
(* What is left for the driver: to stop after the tree or the intermediate *)
(* form if it was told to, or to write the assembly.  The passes of the     *)
(* back end are the matter of other modules; here they may panic.          *)

Translate ==
    /\ stage = "translating"
    /\ stage' \in IF "ast" \in source.flags THEN {"interrupted"}
                  ELSE {"panicked", IF "if" \in source.flags THEN "interrupted" ELSE "written"}
    /\ UNCHANGED <<source, reading, program, toAdd, structs, functions, work, currentFunction, types, err, bound>>

Init ==
    /\ source \in Sources
    /\ stage = "reading"
    /\ reading = <<Reading(source.input)>>
    /\ program = [structs |-> <<>>, funcs |-> <<>>]
    /\ toAdd = [structs |-> <<>>, funcs |-> <<>>]
    /\ structs = {} /\ functions = <<>>
    /\ work = <<>> /\ currentFunction = None /\ types = <<>>
    /\ err = FALSE /\ bound = {}

Next ==
    \/ Parse \/ Import \/ Imported
    \/ AddStruct \/ AddFunction \/ AddFunctionPanics \/ StartVerifying
    \/ PushScope \/ PopScope \/ EnterFunction
    \/ VerifySkip \/ VerifyEval \/ VerifyDecl \/ VerifyAssign \/ VerifyRead \/ VerifyFree
    \/ VerifyExit \/ VerifyReturn \/ VerifyPrint \/ VerifyIf \/ VerifyWhile \/ VerifyScope
    \/ VerifyPanics \/ Verified \/ Translate

\* The compiler is one thread that nothing holds up.
Spec == Init /\ [][Next]_vars /\ WF_vars(Next)
=============================================================================
