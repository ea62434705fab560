------------------------------ MODULE Verdict ------------------------------
(***************************************************************************)
(* What the front end promises of the programs it accepts and rejects: a   *)
(* judgement of whole programs, made without tables, work lists or a stack *)
(* of scopes, which the steps of Frontend must come to.                    *)
(***************************************************************************)
EXTENDS Frontend

-----------------------------------------------------------------------------
(* The files.                                                              *)

RECURSIVE Reached(_)
Reached(files) ==
    LET more == files \cup {source.modules[n] : n \in
                    UNION {ToSet(f.imports) : f \in files} \cap DOMAIN source.modules}
    IN  IF more = files THEN files ELSE Reached(more)

AllFiles == Reached({source.input})

\* An import that does not come back to the same file ends.
Cyclic ==
    \E name \in DOMAIN source.modules :
        /\ source.modules[name] \in AllFiles
        /\ \E f \in Reached({source.modules[name]}) : name \in ToSet(f.imports)

\* What becomes of a file and all that it imports: the first of them that does
\* not parse, or is not there, in the order they are read.
RECURSIVE ReadingOf(_)
ReadingOf(file) ==
    LET AndThen(sofar, name) ==
            CASE sofar # "reading" -> sofar
              [] sofar = "reading" /\ name \in DOMAIN source.modules -> ReadingOf(source.modules[name])
              [] OTHER -> "syntax_error"
    IN  FoldLeft(AndThen, Parsed(file), file.imports)

\* The number of ways to come from a file to a module by imports.
RECURSIVE Chains(_, _)
Chains(file, name) ==
    FoldSeq(LAMBDA i, sum : sum + (IF i = name THEN 1 ELSE 0) + Chains(source.modules[i], name), 0,
            file.imports)

-----------------------------------------------------------------------------
(* The judgement.  Strictly, an expression is looked at down to its last   *)
(* part; the code leaves some parts out.                                   *)

RECURSIVE Parts(_)
Parts(e) ==
    {e} \cup CASE e.kind = "elem" -> Parts(e.volume) \cup Parts(e.index)
               [] e.kind \in {"half", "field", "unary"} -> Parts(e.operand)
               [] e.kind \in {"binary", "newpair"} -> Parts(e.left) \cup Parts(e.right)
               [] e.kind = "array" -> UNION {Parts(e.values[n]) : n \in 1..Len(e.values)}
               [] e.kind \in {"call", "newstruct"} -> UNION {Parts(e.args[n]) : n \in 1..Len(e.args)}
               [] OTHER -> {}

\* Some literal of an expression, less those that a minus makes fit.
HasLargeLiteral(e) ==
    LET Value(x) == IF x.kind = "lit" /\ x.type = INT THEN x.value ELSE 0
        negated == {x.operand : x \in {y \in Parts(e) : y.kind = "unary" /\ y.op = "-"}}
    IN  \E x \in Parts(e) : Value(x) > INT_MAX + (IF x \in negated THEN 1 ELSE 0)

MembersOf(e, env) ==
    LET found == {s \in env.structs : s.name = e.struct} IN
    IF found = {} THEN <<>> ELSE LET s == CHOOSE t \in found : TRUE IN s.members

Unsound(e, env) ==
    \/ HasLargeLiteral(e)
    \/ \E x \in Parts(e) :
          \/ TypeOf(x, env) = ErrorType
          \/ x.kind = "elem" /\ ~Equals(TypeOf(x.index, env), INT)
          \/ /\ x.kind = "newstruct"
             /\ LET ms == MembersOf(x, env) IN
                \/ Len(x.args) # Len(ms)
                \/ \E n \in 1..Len(x.args) : ~Equals(ms[n].type, TypeOf(x.args[n], env))
          \/ /\ x.kind = "call"
             /\ \A f \in Range(env.functions) : f.name # x.name

\* "ok", "wrong", or "panics" for what the compiler gives up on.
Both(a, b) == IF a = "ok" THEN b ELSE a
When(condition) == IF condition THEN "ok" ELSE "wrong"

JudgeExprs(exprs, env, strictly) ==
    IF \E e \in exprs : CallPanics(e, env) THEN "panics"
    ELSE When(\A e \in exprs : ~Faulty(e, env) /\ ~(strictly /\ Unsound(e, env)))

\* What a statement wants of the types of its expressions.
Fits(s, ts, ctx) ==
    CASE s.kind = "decl" -> Equals(s.type, ts[1]) /\ s.name \notin DOMAIN ctx.own
      [] s.kind = "assign" -> Equals(ts[1], ts[2])
      [] s.kind = "read" -> \E t \in {INT, CHAR} : Equals(ts[1], t)
      [] s.kind = "free" -> Freeable(ts[1])
      [] s.kind = "exit" -> Equals(ts[1], INT)
      [] s.kind = "return" -> ctx.result # None /\ Equals(ts[1], ctx.result)
      [] s.kind \in {"if", "while"} -> Equals(ts[1], BOOL)
      [] OTHER -> TRUE

\* A statement list under its context: the variables around it, those of its
\* own scope, the tables, the result of the function it is in, how to look.
RECURSIVE Judge(_, _)
Judge(stmts, ctx) ==
    IF stmts = <<>> THEN "ok"
    ELSE LET s == Head(stmts)
             env == [vars |-> ctx.own @@ ctx.outer, structs |-> ctx.structs, functions |-> ctx.functions]
             ts == [n \in 1..Len(ExprsOf(s)) |-> TypeOf(ExprsOf(s)[n], env)]
             InBody(body, after) == Both(Judge(body, [ctx EXCEPT !.outer = env.vars, !.own = <<>>]), after)
             verdict == Both(JudgeExprs(ToSet(ExprsOf(s)), env, ctx.strictly),
                             Both(When(Fits(s, ts, ctx)), FoldRight(InBody, BodiesOf(s), "ok")))
         IN  Both(verdict, Judge(Tail(stmts),
                  IF s.kind = "decl" THEN [ctx EXCEPT !.own = (s.name :> s.type) @@ @] ELSE ctx))

Distinct(names) == Cardinality(ToSet(names)) = Len(names)

\* The declarations that a file stands for.
RECURSIVE Declared(_)
Declared(file) ==
    LET imported == [n \in 1..Len(file.imports) |-> Declared(source.modules[file.imports[n]])] IN
    [structs |-> FlattenSeq([n \in 1..Len(imported) |-> imported[n].structs]) \o file.structs,
     funcs   |-> FlattenSeq([n \in 1..Len(imported) |-> imported[n].funcs]) \o file.funcs]

Judgement(strictly) ==
    LET decls == Declared(source.input)
        own == SelectSeq(decls.funcs, LAMBDA f : ~f.external)
        ss == [n \in 1..Len(decls.structs) |-> decls.structs[n].name]
        labels == [n \in 1..Len(decls.funcs) |-> Label(decls.funcs[n])]
        ctx == [outer |-> <<>>, own |-> <<>>, structs |-> ToSet(decls.structs),
                functions |-> [l \in ToSet(labels) |-> CHOOSE f \in ToSet(decls.funcs) : Label(f) = l],
                result |-> None, strictly |-> strictly]
        Vars(f) == [v \in {f.params[n].name : n \in 1..Len(f.params)} |->
                       LET Named(p) == p.name = v IN f.params[SelectInSeq(f.params, Named)].type]
        InFunction(f, after) ==
            Both(Judge(f.body, [ctx EXCEPT !.outer = Vars(f), !.result = f.type]), after)
    IN  IF ~\A n \in 1..Len(own) : AllEncodable(ParamTypes(own[n])) THEN "panics"
        ELSE IF ~(Distinct(ss) /\ Distinct(labels)) THEN "wrong"
        ELSE FoldRight(InFunction, own, Judge(source.input.body, ctx))

-----------------------------------------------------------------------------
(* The properties.                                                         *)

Accepted == stage \in {"interrupted", "written"}
Checked == "unchecked" \notin source.flags

\* The type invariant: the scopes and tables exist as long as they are used,
\* and a name has one struct.
TypeOK ==
    /\ stage \in Ended \cup {"reading", "adding", "verifying", "translating"}
    /\ stage # "panicked" => (reading # <<>> <=> stage \in {"reading", "syntax_error"})
    /\ Len(reading) <= MaxCalls
    /\ \A s, t \in structs : s.name = t.name => s = t
    /\ \A l \in DOMAIN functions : functions[l] \in ToSet(program.funcs)
    /\ currentFunction # None => currentFunction \in ToSet(program.funcs)
    /\ err \in BOOLEAN

\* The compiler ends with the verdict that the judgement of the whole program
\* calls for: scopes are left where they end, tables are complete before they
\* are used, errors are not forgotten (GenerateAST, VerifyProgram,
\* compilerFactory).
VerdictRight ==
    LET finished == IF "ast" \in source.flags THEN {"interrupted"}
                    ELSE {"panicked", IF "if" \in source.flags THEN "interrupted" ELSE "written"}
    IN
    stage \in Ended =>
        stage \in IF Cyclic THEN {"syntax_error", "panicked"}
                  ELSE IF ReadingOf(source.input) # "reading" THEN {ReadingOf(source.input)}
                  ELSE IF ~Checked THEN finished
                  ELSE CASE Judgement(FALSE) = "ok" -> finished
                         [] Judgement(FALSE) = "panics" -> {"panicked"}
                         [] Judgement(FALSE) = "wrong" -> {"semantic_error", "panicked"}

\* A call for which a function of its name and arguments is declared gets such
\* a function, although functions are told apart by labels that run names and
\* type codes together (encodeFunctionName, the CallCmd case of DeriveType).
CallsUnambiguous ==
    Accepted => \A b \in bound :
        LET meant == {f \in ToSet(program.funcs) :
                         /\ f.name = b.called /\ Len(f.params) = Len(b.args)
                         /\ \A n \in 1..Len(b.args) : Equals(b.args[n], f.params[n].type)}
        IN  meant # {} => functions[b.label] \in meant

\* The functions of a module come after those of the modules it imports, and as
\* often as there are ways to come to it by imports (GenerateAST).
ImportsInOrder ==
    stage \notin {"reading", "syntax_error", "panicked"} =>
        LET funcs == program.funcs IN
        /\ \A n \in 1..Len(funcs) : funcs[n].pos \in DOMAIN source.modules =>
              \A i \in ToSet(source.modules[funcs[n].pos].imports) :
                  \E k \in 1..(n - 1) : funcs[k].pos = i
        /\ \A m \in DOMAIN source.modules :
              Cardinality({n \in 1..Len(funcs) : funcs[n].pos = m})
                  = Chains(source.input, m) * Len(source.modules[m].funcs)

\* The simple statements that a statement list may come by, loops once at most.
RECURSIVE Paths(_)
Paths(stmts) ==
    IF stmts = <<>> THEN {<<>>}
    ELSE LET s == Head(stmts)
             first == (IF BodiesOf(s) = <<>> THEN {<<s.kind>>} ELSE UNION {Paths(b) : b \in ToSet(BodiesOf(s))})
                      \cup (IF s.kind = "while" THEN {<<>>} ELSE {})
         IN  {p \o q : p \in first, q \in Paths(Tail(stmts))}

\* A function with a result that comes through does not run off its end on any
\* path, which nothing after the parser would notice (VerifyFunctionReturns).
ReturnsOnEveryPath ==
    Accepted => \A n \in 1..Len(program.funcs) :
        LET f == program.funcs[n] IN
        f.type # Void /\ ~f.external =>
            \A p \in Paths(f.body) : \E k \in 1..Len(p) : p[k] \in {"return", "exit"}

\* The compiler comes to an end on every input: work lists run empty, and the
\* import of modules that import each other stops, if only by failing.
CompileEnds == <>(stage \in Ended)

\* An accepted program has no error in any of its parts: "use of undeclared
\* variable" and "use of undefined function" (DeriveType), "integer literal
\* does not fit in an int variable" (VerifyNoOverflows) leave nothing out.
AcceptedIsSound == Accepted /\ Checked => Judgement(TRUE) = "ok"
=============================================================================
