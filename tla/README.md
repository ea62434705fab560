# A TLA+ model of the WACC compiler

The repository is a compiler for the WACC language, written in Go: it reads a
program (and the modules it imports), checks it, translates it to an
intermediate form (IF), optimises that, allocates stack slots and registers and
writes ARM assembly. This directory models the part of it where correctness
depends on several passes agreeing with one another, from the input file to the
registers of an expression, checks it with TLC on small
instances, and proves what holds for every program with TLAPS.

## The system

`src/src/main.go` runs the passes one after the other (`compile`, lines 15-74);
nothing is concurrent and nothing persists, so the difficulties are not races
but *agreements*: a pass relies on facts another pass established, by counting,
naming or ordering things the same way, and nothing checks that they do.

| Component | Code | State it keeps | Operations | Correct when |
|---|---|---|---|---|
| Lexer, grammar, AST | `frontend/lexer.nex`, `parser.y`, `ast.go`, `position.go` | the lexer's error flag | generated automata | the tree and the comparison of types are modelled, the automata not |
| Imports | `frontend/frontend.go` | none but the recursion over files | `GenerateAST` | declarations come after those they may use, and reading ends |
| Syntax checks | `frontend/syntax.go`, `parser.y` | none | `VerifyFunctionReturns`, `VerifyNoOverflows` | every path of a non-void function returns; every literal is in range |
| Semantic checker | `frontend/semantic.go` | `types` (a map per scope), `functions`, `structs`, `currentFunction`, `err` | `AddFunction`, `PushScope`, `AddVariable`, `LookupVariable`, `DeriveType`, `VerifyStatement` | the verdict is the one the language calls for; calls get the function they name |
| Translator | `backend/translator.go`, `if.go` | `scope`, `scopePushInstr`, `depth`, `currentCounter`, the instruction lists | `translate`, `pushScope`, `popScope`, `addInstr`, `beginFunction` | labels are unique and resolved, scopes balanced, frames large enough |
| Optimiser | `backend/optimiser.go` | the loop unroller's and the inliner's tables | `Optimize` of each | the program means the same before and after |
| Register allocator | `backend/registers.go` | `scope` (variables, next slot), `registerUseList`, `currentNode`, `dataStore` | `allocateRegisters` of each instruction and expression | names resolve as in the checker, slots and registers do not collide |
| Code generator | `backend/generator.go` | `stackDistance`, `currentFunction`, the text | `generateCode` of each instruction | offsets hit the variable's word; the stack is balanced on every path |
| Error reports | `frontend/errors.go` | the lines of the file read last | printing | not modelled: formatting |
| Driver | `main.go` | none | `compile` | passes in order, stops at the first error |

How they interact: each pass takes the whole output of the one before it, by
call. State is shared in three hidden ways: the *names* of variables, resolved
by the checker and again by the allocator; the *number of variables* of a scope,
counted by the translator (distinct names) and by the allocator (declarations);
and the *distance of sp* from a frame's base, computed by the generator along
the text and used at run time along the control flow.

## The modules

Three groups of modules: the front end, which decides whether a program is
compiled; the agreements of checker, translator, allocator and generator about
labels, names and frames, and the optimiser, which must keep them; and the code of
expressions.

| Module | What it is |
|---|---|
| `Types` | types, when they are equal, and the letters that stand for them in labels |
| `Frontend` | driver, imports, the parser's checks and the semantic checker as one state machine |
| `Verdict` | what the front end promises: a judgement of whole programs, and the properties |
| `IFInstr` | instructions and labels of the IF, and the size of a frame |
| `Translator` | `TranslateToIF` as a state machine that emits code |
| `VariableScope` | the allocator's scope stack: operators for push, pop, create, initialise, look up |
| `NameResolution` | checker, translator and allocator walking the same program |
| `StackFrame` | `Translator` and `VariableScope` composed, then the generator's walk, then the program running on a stack |
| `IFLayout` | the scopes with their slots and the words of frame, as they change along the text of a function |
| `IFMachine` | IF with its expressions, the slots and frames it gets, and what it does when it runs |
| `IFSource` | instruction lists as the translator makes them of statements |
| `IFExprs` | expressions of the IF and the instructions that carry one |
| `Unroller` | the loop unroller's walk over a list |
| `LoopUnroller` | `Unroller`, then the list before and after on `IFMachine` |
| `InlinerWalk` | the inliner's two rounds over all functions |
| `Inliner` | `InlinerWalk`, then the program before and after on `IFMachine` |
| `ExprCode` | the allocator's walk over one instruction: registers, order of evaluation, the code emitted |
| `Words` | words and the arithmetic on them |
| `Evaluation` | the abstract specification: what one instruction means, in one step |
| `ExprMachine` | the generated code of `ExprCode` executed; it implements `Evaluation` |
| `Translator_proofs`, `NameResolution_proofs`, `StackFrame_proofs`, `Unroller_proofs`, `InlinerWalk_proofs`, `ExprCode_proofs` | the theorems |
| `Walk_proofs`, `Recursion_proofs` | lemmas: what the walks over finished code yield; recursive functions and least elements |
| `MC*` | instances for TLC |

**Frontend.** A file is the tree the grammar makes of it, so parsing is one step
that makes the checks of `syntax.go` where the grammar calls them. What the parser
does with a syntax error is part of that step. An error is noted and the parser goes
on, so that a file with one may still make it panic: behind a semicolon it takes up
statements again (`Broken`), but the action-less production yields an empty list
(`Recovered`), in which `VerifyFunctionReturns` looks for the place of a missing return;
and it takes what follows `fst` and `snd` for a name without asking (`ParserPanics`). An
error that it gives up at stands behind all that it has read (`garbled`). `reading` is
the recursion of `GenerateAST`; a call has its file, the imports done and the
declarations got so far. Files stay open in the code, so a cycle of imports ends
when descriptors run out, or the stack; `MaxCalls` is that limit. `work` is what
`VerifyProgram` has left to do: statements, the scopes to push and pop around
bodies, the functions to enter. One action is one statement without its bodies.
`TypeOf` is `DeriveType`, a function of the expression and the environment: it
changes nothing but the error flag and the labels of calls, which are the sets
`Derived` and `bound` here. A panic of the parser or of `encodeType` is an end of its own. What
the back end does with an accepted program is nondeterministic (it writes or
panics); the other modules are about that.

**Verdict.** `Judgement` reads the whole program as a function of its tree: scopes
are environments handed down, modules a fold over the imports. It shares with
`Frontend` what becomes of one file in the parser and what an expression's type is, and
nothing of tables, stacks, work lists
or flags. With `strictly` it also looks at the parts of expressions that the code
leaves out.

**Translator.** The program is chosen while it is walked. Go's recursion is the
sequence `frames`: an action is the part of one `case` of `translate` up to its
first recursive call (`IfBegin`, `WhileBegin`, `ScopeBegin`), between two of them
(`IfElse`), or after the last (`IfEnd`, ...); statements without a body are one
action. `code` is the concatenation of the instruction lists, `scope` and
`scopePushInstr` are the fields of `IFContext` (a pointer to a `PushScopeInstr`
is its index in `code`), and `CloseAndEmit` is `popScope` with its retroactive
patch. `home` is a history variable: the `PushScope` whose scope an instruction
belongs to. Expressions have no effect on this state and are left out.

**NameResolution.** One action is what the three passes do with one statement.
This is sound because each pass walks the statements in the same order and what
it does with one depends on earlier ones only; across functions, the order the
allocator takes them from a Go map does not matter because it shares nothing
between them but the leftover scopes, which are modelled. Types are what tells
declarations apart: each declaration has its own, so "the same type" means "the
same declaration". What the checker demands (a known name, no second declaration
in a scope) is a guard, since a rejected program is not compiled.

**StackFrame.** A source program is a sequence of tokens that drives
`Translator`'s actions. `Allocate` folds the operators of `VariableScope` over
the code to give each `Declare` its slot; `Generate` computes `stackDistance`
along the text; the `Exec...` actions then run the program, one per kind of
instruction. The stack is a sequence of words, and a word is a tag saying what
was stored there last: a saved register, a value of a declared variable of one
activation, an argument, or junk. So overlaps show as a wrong tag.
Conditions go either way; an expression may call any function.

These three leave out the optimiser, which `main.go` always runs between
translation and allocation. They describe the compilation of programs on which
it finds nothing to do. Library routines (`wscanf`, `printf`, `malloc`) are
modelled only as far as the stack goes.

**IFLayout and IFMachine.** What the optimiser's output is judged by. It needs values, which
`StackFrame` has not: expressions on integers, `print` to a list of numbers, and
`read`, which always yields `Input`. `Layouts`, in `IFLayout`, is where the allocator and
the generator are behind each instruction of a list; `Visit` is one step of the
allocator's walk together with the generator's count of `stackDistance`; `Step` is the effect of
one instruction. Names are resolved to slots and slots to words of the stack, as
in the code, so a variable without room in its frame is overwritten by the next
call. Numbers stay small, so the overflow checks of the arithmetic never fire and
are left out, as are characters, arrays, pairs, structs and floats.

**Unroller and LoopUnroller.** `Unrollable` is the conjunction of the tests of
`optimizeLoop`; `BeginUnroll`, `CopyBody` and `EndUnroll` are its three parts, one
copy to a step, and `PassOn` is the step of `optimizePath`. The linked list is a
sequence: the walk's node is an index, and since it stands on a removed node
when a loop has been unrolled, the index is that of its successor. `Unroller` has
the walk alone, so that it can be proved about; `LoopUnroller` adds the
allocation and the two runs, which are conjoined to `HandOn` and `MoveOn` or leave
the walk's variables alone, so that each of its steps is one of `UnrollNext` or a
stutter. The name of a copied label, `%s_loop_%d`, is a record of the label it is a copy
of and the numbers it was copied for: no label of the translator's has `_loop_` in it,
so names differ where records do. One that was copied for a negative number has a minus
sign and is no name to the assembler; a list with such a label (`Assembles`) yields no
program, and prints nothing.

**InlinerWalk and Inliner.** `CheckInlinable` is one call of `checkInlinable`, the `Walk...`
actions and `InlineCall` are the iterations of `inlineInPath`. Both loops over
the map of functions take any function not yet visited. A panic is a stage of its
own. `GeneratedFor` is the test for the prefix `_<function>_`; it is assumed that
no variable of the user has such a name. Of the expressions on the heap and the floats the
model has what the inliner makes of them and not their values: array elements
(`ElemExpr`), struct members (`FieldExpr`) and floats are what `exprDoesCall` panics on,
members, floats and new structs what `fixLabelsExpr` panics on (`UnrecognizedExpr`). Elements of
pairs and new pairs are walked like operators, array literals are passed over like numbers,
and neither is in the model. As with the unroller, `InlinerWalk` has the
passes alone, to be proved about, and `Inliner` what comes after them: each of its
steps is one of `InlineNext` or a stutter, `Walk` being `Optimise`, `StartAllocation`
`HandOn`, and the rest, which leaves the program alone, `MoveOn`. `InlinedFramesHold` is a
statement about the text of the lists when the last path has been walked, as are
`LabelsUnique` and `JumpsResolve`.

**ExprCode.** `frames` are the calls of `allocateRegisters` and `translateLValue`
in progress, `registerUseList` is the pool r4-r11, `code` what `pushInstr` has
appended. Each action is the part of one case between two recursive calls. The
weights are a function on the expressions. Variables and constants stay operands,
as their stack locations do in the code, so the module needs no frame. `Writes`
says which registers the machine code of an instruction overwrites, which for
calls of the library are r0-r3.

**Evaluation and ExprMachine.** `Evaluation` has one step, `Execute`: from the
variables and the heap given, the instruction yields new ones or one of the
runtime errors its operands are liable to. `ExprMachine` compiles the same
instruction, then executes the code on registers, stack and heap, runtime checks
included; what a library call leaves in r0-r3 is junk, and an instruction that
reads junk stops the machine. `ImplementsEvaluation` is the refinement: `stmt` and
`given` map to themselves and `result` to what the machine has when it stops.
Left out are arguments that contain a division or a float operation, whose code is
wrong (`clobbered_arguments`), the least integer divided by -1, negation of floats
and comparison of two negative ones (wrong as well, by a single instruction),
arrays that are null, and operators in the arguments of a struct, which have no
type. Elements nested four deep in each other's indices take more registers than there
are: the compiler ends with "Ran out of registers", and nothing is executed.

## Runs

| Run | Shows | Bounds |
|---|---|---|
| `translator` | `LabelsUnique`, `JumpsStayInScope`, `JumpsResolve`, `ScopeSizesAgree`, `EmittedCodeIsFinal` on every program within the bounds | two functions and main, two names, three nested scopes, two if/while statements, and no optional statement beyond 8 instructions (a block that has none yet may still get one, so that every structure begun can be completed, an if inside the then branch of another included). The ways a number or a patch could be wrong need no more. One statement kind stands for all that emit a single instruction. The proofs lift the bounds. |
| `names` | `UsesAgree`, `NeverNonExistent`, `SlotsDisjoint`, `SlotsFitFrame`, `LeftoversEmpty` when no parameter is declared again | two names, up to two parameters, two functions, five declarations, three nested scopes: shadowing at two levels, a sibling scope, an odd and an even number of variables, and a leftover scope |
| `shadowed_param` | violates `NeverNonExistent` | the same with `ParamShadowing = TRUE` |
| `frames` | `DistanceIsStatic`, `VariablesKeepValues`, `SavedWordsIntact`, `NeverCrashes`; and no deadlock, so every program runs until main returns | 216 programs: a function with 0, 1 or 6 parameters (4 in registers, 2 on the stack), a block of each kind with each of six bodies, two mains; up to three activations, so main calls and the function calls itself |
| `unroller` | `SameOutput`, `LabelsUnique`, `JumpsStayInCopy`, `Terminates` | 540 programs: a variable set to 0 or 4, and to -1 before a body without labels or 1 before one with labels, a loop with `<` or `<=` and one of four limits, or one that is not of that form, four ways to increment, five bodies (a declaration, an if, an inner loop to unroll, one not to). At most 3 iterations are unrolled instead of 10, so that loops on both sides of the limit are small; `MaxCode` is never reached, as the variable grows in all of them |
| `unrolled_lookalikes` | violates `SameOutput` | five programs, with the code's limit of 10; each of them violates it by itself |
| `inliner` | `SameOutput`, `LabelsUnique`, `JumpsResolve`, `InlinedFramesHold`, `StackBalanced`, `WalkAdvances` | 54 programs: six functions of one parameter (early returns out of scopes, a loop, a recursion, one above the limit of 20 instructions), three of two parameters, three mains with calls in loops and blocks; all orders of the functions. `MCSourcesFit`, which TLC evaluates, is the hypothesis of the theorem about frames |
| `inliner_panics` | violates `NeverPanics` | seven programs |
| `exprs` | `RegistersAccounted`, `WeightsForesee`, `TemporariesSurvive`, `ImplementsEvaluation` | 182 instructions, each in 25 states of the program: every operator nested left and right in every other, chains of twelve, a tree of seven levels, elements up to four deep, objects, calls of up to seven arguments. All eight registers of the code. Words of 4 bits, so that sums and products overflow with operands that are small |
| `clobbered_arguments` | violates `ResultIsMeant` | three calls, each of which violates it by itself |
| `frontend` | `VerdictRight`, `CallsUnambiguous`, `ImportsInOrder`, `ReturnsOnEveryPath`, `CompileEnds` | 7095 programs: three modules importing each other in 15 ways, missing or garbled ones, ones the parser stumbles over with or without a panic, before, in and behind others; every pair of 14 overloads under 12 calls; every statement before every other, in main and in a function; bodies of ifs two deep; every operator on eleven operands; all flags. `INT_MAX` is 7, so that literals on both sides of the limit are small. `MaxCalls` is 4, as many as the longest chain without a cycle has files, so that only cycles meet it |
| `unchecked_parts` | violates `AcceptedIsSound` | eight programs, each of which violates it by itself |

Deadlock is not checked in `translator`, `names`, `exprs` and `frontend`, where
compilation is over in the end. There are two liveness properties: `CompileEnds`
of the front end and `Terminates` of the loop unroller, both under
`WF_vars(Next)`: one thread of control executes the compiler (and, for the unroller,
the program after it) and is never kept waiting, and the programs chosen for the
unroller end. The inliner's walk
is shown to end by a measure instead (`WalkAdvances`). Of the others nothing is
claimed about progress: whether the generated program goes on is up to the
program.

## Findings

- **A parameter declared again** (`shadowed_param`). `int f(int x) is int x = x
  + 1; ...` is accepted, because the checker keeps parameters outside its scope
  map, and the allocator panics with its own "Trying to access non-existent
  variable" (`registers.go:93`).
- **The loop unroller takes too much for a loop** (`unrolled_lookalikes`). It
  ignores a `!`; unrolls an if statement and runs both branches; does not see a
  `read` between the declaration and the loop; gives each copy of a
  declaration a slot in a frame that has one; and copies labels under names such as
  `_else_begin1_loop_-1`, which do not assemble, if the loop starts below zero.
- **The inliner panics** (`inliner_panics`) on short functions that begin with an
  array element or an assignment, contain `exit`, have more parameters than its
  table, or have a struct's member, a new struct or a float behind the first statement.
- **Arguments overwrite each other** (`clobbered_arguments`). An argument of a call
  that contains `/`, `%` or an operation on floats is computed by way of r0 and
  r1, where the arguments before it already are, and perhaps its own operand.
- **Errors in parts that nobody looks at** (`unchecked_parts`). The checker does not
  come to array indices and to the arguments of `newstruct`, a call may mean a
  function by its label, and literals are only checked where a product begins.

Seen while modelling, and not part of a run: the unroller does not end on a loop
that counts away from its limit (`i = i + -1` under `i < 2`); the inliner renames
calls of external functions as if they were labels, and leaves the names in the elements
of an array literal as they are; the parser panics on `int f() is x x ;
return 1 end` (`parser.y:148`, 114, `syntax.go:91`), after it has reported the error, and on
`fst a[0]` (`parser.y:247`); two parameters that the body declares again take four slots in
a frame of two words, of which `names` sees nothing, as no parameter is declared again in it; the prologue pushes nine words,
so that in main the stack is off the alignment that `popScope` rounds frames to;
`f(int)` and `fi()` cannot be declared together, having the same label, and are
reported as the same function; a module that is imported on two ways brings its
functions in twice and the program is rejected; a function whose body is a block
that returns is rejected; floats are negated and compared as integers; and the bounds
check of a null array reads address 0.

What holds of the unroller holds for the loops they are meant for: with one
declaration of the loop variable, increments only, no declarations in the body
beyond the spare words of the frame, and no copies of labels for negative numbers.

The first variable of a function lies on the word where the prologue saved r4, which
no caller needs, as calls stand alone in their statements. It also explains why
`read` may use the word at sp as its buffer: slots are shifted by one word, which leaves the lowest one free.

## Proofs

`Translator_proofs` proves, for every set of functions and names and all bounds:

- `TypeCorrect`: the type invariant.
- `JumpInvariant`, an inductive invariant, and from it `UniqueLabels`,
  `JumpsBalanced` and `JumpsHaveTargets`. The three properties are not inductive:
  that a new label is new needs to know that numbers in use are below the counter
  and that a label still to be appended is absent; that a jump has its target
  needs to know which open statement still owes it. `JumpInv` says who owes what:
  a frame `then` owes `_else_begin` and `_ifelse_end`, `else` owes `_ifelse_end`,
  `while` owes `_while_end` and has appended `_while_begin`.
- `ScopeInvariant`, and from it `ScopesBalanced`: the names in `ctx.scope` are
  those of the Declares of that scope, open scopes are distinct and unclosed.

Its second half goes on about the layout of the code that `Translator` emits:

- `CodeIsFinal`: the action property `EmittedCodeIsFinal`.
- `LayoutInvariant`: `LayoutInv`, what the later passes can rely on when they go
  along the text. Homes follow the text (`HomesFollow`): a `PushScope` opens one, a
  `PopScope` goes back to the one around it, everything else stays. A closed scope
  has the bytes of its names (`ClosedScopesSized`). No declaration stands between a
  jump and its label in their scope (`JumpsPassNoDeclare`), which is not inductive
  without `OwedJumpsQuiet`, the same for jumps whose label is still owed. A function
  is a label, a `PushScope` and its parameters (`ParamsInFront`), and a function that
  may be called has its label (`FunctionsLabelled`).
- `OnlyParamsRepeat`: of two declarations of a name in one scope the first is a
  parameter.

`NameResolution_proofs` proves, for every finite set of names and all bounds:

- `NamesTypeCorrect`, `SlotsStayDisjoint` and `LeftoversStayEmpty`, whether or not
  parameters are declared again, from `SlotInvariant`. Disjointness alone says
  nothing of the slot handed out next. `SlotInv` says that each scope goes on
  where the one around it had arrived when it opened, and that its variables lie
  from there up to its own `next`.
- `NamesAgree`, `NamesFound` and `FramesFit`, under the hypothesis
  `~ParamShadowing` (no function has two parameters of one name or declares one
  again in its outermost scope), from `NameInvariant`. `NameInv` puts the scopes
  side by side: scope `Base + k` of the allocator has what scope `k` of the
  checker has, the first one also the parameters moved so far; all are
  initialised between statements; and the translator's count is the number of
  slots. `shadowed_param` shows that the hypothesis cannot be dropped.

`StackFrame_proofs` proves of the whole pipeline, for every set of source programs
that the grammar can make (`ProgramsAssumption`: declarations of known names, `main`
at the end), any number of argument registers and of activations:

- `StackTypes`, `DistancesAreStatic`, `SavedWordsStay`, `ReturnsReachCallers`: the
  invariants of run `frames`.
- `VariablesKeep`: `VariablesKeepValues`, if no parameter shares its name with another
  declaration of its scope (`ParamsApart`). Otherwise two declarations
  share a variable, as the finding `shadowed_param` says of the names alone.
- `StackTranslates`: `StackSpec => Spec`. Tokens only choose among the translator's
  actions, and the later phases leave its variables alone. So what is proved of every
  translation holds of the code that is run.

They follow from `StackInvariant`. While main runs, `RunInv` says of each activation
on the stack: it stands in its own function and its frame has the size that
`DistanceAt` has for the place where it stands (`PlacesRight`); the frames follow each
other and the place a callee returns to is a call of it (`BasesGrow`,
`CallersWait`); the words above a frame are the registers saved (`SavedRight`) and
the arguments (`ArgumentsRight`, `PushedRight`); and the variables alive have their
values (`ValuesKept`). That all of it survives a step takes facts about the walks
that hold of finished code alone and are proved in `Walk_proofs` from `LayoutInv`: the
distance is the same at a jump and at its label (`JumpsPassNoDeclare`
again); at the end of a function it is that of its start; the slots of
the variables in scope lie inside the frame and differ. Those are statements about
folds over the text, proved by taking the first place where they would fail
(`LeastOf`, `AllBelow` in `Recursion_proofs`).

`Unroller_proofs` proves of the loop unroller's walk, for every instruction list that
has the form of translated code, every limit on the unrolling and every `MaxCode`:

- `UnrollTypes`, `LabelsStayUnique`, `JumpsStayTogether`: the invariants `TypeOK`,
  `LabelsUnique` and `JumpsStayInCopy` of run `unroller`.

The invariant, `UnrollInvariant`, is that the list has this form all the time
(`Sound`): labels are unique, every jump has its label in its own scope
instance (`Resolved`), and a conditional jump leads past a scope and a jump that
follow it (`Structured`). That is what keeps `BeginUnroll` from cutting the list in the
wrong place. Two parts are stronger than the properties. That
labels are unique does not survive a copy: a label beside one that is a copy of
it would meet its own copy. So no label's path of loop variables continues that of
another with the same origin (`Apart`). And while a loop is being unrolled, the
copies made so far have labels of values left behind already, the loop variable
moving one way (`LoopInv`). Jumps keep their scope instance because a copy turns into
and out of scopes like its body (`Parallel`), whatever depth it is put at.

`InlinerWalk_proofs` proves of the inliner, for every program whose lists have the form
of translated code, every order of the functions, any `InlinerMax` and any sets of
names:

- `TypeCorrect` and `AdvancesAlways`: the invariant `TypeOK` and the action property
  `WalkAdvances` of run `inliner`, from `WalkInvariant`.
- `LabelsAlwaysUnique` and `JumpsAlwaysResolve`: `LabelsUnique` and `JumpsResolve`, from
  `LabelInvariant`.
- `FramesAlwaysHold`: `InlinedFramesHold`, from `FrameInvariant`, if every frame had
  room before (`SourcesFit`) and `InlinerMax` is at most 48. The code's is 20
  (`constants.go:41`); 48 is the number of words that `inlineInPath` adds to the scope of
  a call, so the theorem says how far the one constant may be raised without
  the other.

The second and the third invariant rest on the first. `WalkInvariant` says that what is kept
of a function is its own code (`Records`), that a list not walked yet is the
source's (`Course`), and, of the list being walked, that from the place of the walk on it is
still the source's, with the PushScopes open there on `pushScopeStack`
(`Walked`): a PopScope pops what it closes, and a call always has a scope to
grow. That `ReplacementCode` of a function is its code, instruction by instruction, is
a statement about `FlattenSeq` of parts of one or two instructions; `Replacing` names
for each instruction of the result the one it came from. `LabelInvariant` adds to
uniqueness that a generated label's number is below `inlineCount` (`Counted`), which is
why the labels of the next call are new, also beside those in a body that had calls
replaced before. What is put in is made of the callee as it was checked, without those
calls, so a label is never prefixed twice.
`FrameInvariant` compares the list with its source at the place of the walk, scope
by scope: in each open scope the slots taken in addition are at most the words its
frame got in addition (`Roomy`). The difficulty is that one PushScope grows after
instructions behind it have been passed, so that every distance behind it changes (`WiderWithin`),
and that the scopes of an inlined body have lost their sizes, so its variables
lie in the frame around it, nested or not: they have room there because a body has
no more declarations than instructions and these are at most `InlinerMax`
(`BodyPassed`, `RoomyBlock`). Variables of sibling scopes reuse slots, which makes the bound
generous, never short. `SourcesFit` is what `FramesFit` proves of translated
code without parameters declared again; the unroller's copies of declarations break it
(`unrolled_lookalikes`), and for lists that it has lengthened so, nothing is claimed.

`NameResolution_proofs` and the slots of `Walk_proofs` rest on lemmas about the operators of `VariableScope`: each says what one
operator does to a sequence of scopes (`PushFacts`, `CreateFacts`, ...), that it
keeps the numbering (`PushNumbered`, ...), and what a lookup finds afterwards
(`LookupInnermost`, `CreateLookup`, `LookupAgrees`). That `Greatest` finds a
greatest index is proved from the well-foundedness of the naturals.

`ExprCode_proofs` proves, for any number of registers above three and every set of
expressions closed under taking parts:

- `CompileTypeCorrect`: the type invariant.
- `CompileAccountsRegisters`: `RegistersAccounted`.
- `CompileKeepsTemporaries`: the action property `TemporariesSurvive`.
- `CompileForeseesWeights`: `WeightsForesee`, if expressions are trees
  (`TreesAssumption`: the weight of a part is less than that of the whole).

The first three come from one invariant, `IInv`. That no code overwrites a value that
waits cannot be seen from the innermost call alone: it writes its destination,
which some caller holds. So `Sound` says of the whole stack of calls that a
register has one holder, that a destination is an argument register or held further
out, and that no caller needs what is in the destination of a call inside it.
`Shaped` says which calls have the registers their next part refers to. There is a
lemma for each action (`<Action>Keeps`), resting on what any of them does to
the stack (`SoundTop`, `SoundCall`, `SoundReturn`) and to the code (`PushingClean`,
`WaitingNotWritable`). The last one needs `SpillInv` beside it: every call in progress
on an expression of plain operators has one lighter than the perfect tree that fits
the registers left to it. It is kept because the heavier side comes first: the other
one, evaluated with a register less, has at most half the weight. That the weight of
an operator is what its two sides give (`WeightEquation`) is the equation of a
recursive function, and that of `Perfect` likewise. The library's theorems about
recursion take an operator as a parameter, which the provers do not instantiate, so
`FixedPoint` in `Recursion_proofs` proves with sets of functions that the equation has a
solution whenever the recursion goes down in some measure.

The assumptions are those of the modules: `BoundsAssumption`,
`StmtKindsAssumption`, `NamesAssumption`, `NameBoundsAssumption`, `NamesFinite`
(finitely many names, so that a scope has a size), `RegistersAssumption` and
`ExprsAssumption`; for `Unroller_proofs` also `LimitsAssumption`, and for it and
`InlinerWalk_proofs` (with `InlinerAssumption`) `InstrsAssumption` and
`SourcesAssumption`. The last says of the lists that the walks are given what
`Translator_proofs` proves of translated code (unique labels, jumps resolved in
their scope, a function being a label and a scope), and for the unroller of conditional
jumps what the cases of `translate` for if and while put
around them; TLC evaluates it on the programs of runs `unroller` and `inliner`. As to labels
and jumps, what the unroller makes of a list is of this form again (`Sound`). That a function's label differs from `main` and from the control
labels is built into the label records; the code relies on names for it.

Only model-checked: of the loop unroller `SameOutput` and `Terminates`, and of the
inliner `SameOutput` and `StackBalanced`, which go through the operators of `IFMachine`,
recursive ones among them, and are about runs of programs of any length. Then
`Verdict`, whose judgement and types are recursive: what a recursive operator yields
for every input needs induction over data with an operator as its subject, which the
provers at hand do not do. `ImplementsEvaluation` compares the code of a tree with the meaning of the tree, an
induction over trees as well. Liveness is out of their reach altogether.

## Not modelled

The lexer and the tables of the parser are generated; which trees there are is
what the grammar says, and `MCFrontend` enumerates such trees. Positions, printing and
error messages have no effect on what is compiled. Of the driver, opening the input and
naming the output are left out, of the generator the data section, the formats of
printing and the encodings of immediates (a frame of more than 256 words yields
`add sp, sp, #1032`, which has none). Of the parser's recovery it is left out that an
error may hide what comes after it in other ways than a statement list, and what values the
productions without an action hand on from the parser's stack where the model has an empty
list. `translateExpr` maps a tree to a tree. Character
escapes are text.

## Further work

1. An abstract machine with named variables that `StackFrame` implements; `StackInv`
   has what its refinement needs.
2. That the operators behind `SameOutput` agree for each kind of instruction, with
   `IFMachine`'s recursion written as recursive functions.
3. Several instructions in a row in `ExprMachine`, on the frames of `StackFrame`.
