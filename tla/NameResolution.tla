--------------------------- MODULE NameResolution ---------------------------
(***************************************************************************)
(* Who means what by a name.  A name is resolved twice: by the semantic    *)
(* checker (src/frontend/semantic.go: types, currentFunction.Params) and   *)
(* again, on the IF, by the register allocator (src/backend/registers.go:  *)
(* scope), with the translator (src/backend/translator.go: scope) counting *)
(* names in between to size the frame.  The three walk the program one     *)
(* after the other, each statement depending on the statements before it,  *)
(* so one action here is what all three do with one statement, a program   *)
(* being chosen as it goes.  A program the checker rejects is not compiled:*)
(* what it requires of a statement is the guard of the action.             *)
(***************************************************************************)
EXTENDS VariableScope, FiniteSets

CONSTANTS
    ParamShadowing,  \* may a function's own scope declare a parameter's name again?
    MaxParams,       \* bound: parameters of a function
    MaxFuncs,        \* bound: functions of a program
    MaxDecls,        \* bound: declarations and parameters of a program
    MaxDepth         \* bound: nested scopes

ASSUME NameBoundsAssumption ==
    /\ MaxParams \in Nat /\ MaxFuncs \in Nat /\ MaxDecls \in Nat /\ MaxDepth \in Nat
    /\ ParamShadowing \in BOOLEAN

ASSUME NamesFinite == IsFiniteSet(Names)

VARIABLES
    types,      \* checker, ctx.types: a map from name to type per open scope
    params,     \* checker, ctx.currentFunction.Params
    moved,      \* translator: how many parameters have been declared
    frameNames, \* translator, ctx.scope: the names declared per open scope
    scope,      \* allocator, ctx.scope
    decls,      \* how many declarations and parameters the program has so far
    funcs,      \* how many functions have been visited
    stage,      \* "between" functions, in a "func", in "main", "done", "panic"
    uses        \* history: how the last step resolved the names it read or wrote

vars == <<types, params, moved, frameNames, scope, decls, funcs, stage, uses>>

-----------------------------------------------------------------------------
(* Lookups.                                                                *)

EmptyMap == [n \in Names |-> NoType]

\* Context.LookupVariable: each scope from the innermost outwards, then the
\* first parameter of that name.
CheckedType(name) ==
    LET scopes == {k \in 1..Len(types) : types[k][name] # NoType}
        named  == {i \in 1..Len(params) : params[i].name = name}
    IN  IF scopes # {} THEN types[Greatest(scopes)][name]
        ELSE IF named # {} THEN params[CHOOSE i \in named : \A j \in named : i <= j].type
        ELSE NoType

Known(name) == CheckedType(name) # NoType

Use(name, checked, allocated) ==
    [name |-> name, checked |-> checked, allocated |-> allocated]

\* Both resolve the names in "used", the allocator in the scopes s.
Resolve(s, used) == {Use(n, CheckedType(n), LookupType(s, n)) : n \in used}

\* A lookup that finds nothing panics and ends the compilation.
Record(us) ==
    /\ uses' = us
    /\ stage' = IF \E u \in us : u.allocated = NoType THEN "panic" ELSE stage

-----------------------------------------------------------------------------
(* Functions.                                                              *)

\* VerifyProgram's PushScope; beginFunction and pushScope; and the scope of
\* allocateRegistersForBranch, then the one of the function's PushScope.
BeginFunction(names) ==
    /\ stage = "between" /\ funcs < MaxFuncs /\ decls + Len(names) <= MaxDecls
    /\ ParamShadowing \/ \A i, j \in 1..Len(names) : names[i] = names[j] => i = j
    /\ types' = <<EmptyMap>>
    /\ params' = [i \in 1..Len(names) |-> [name |-> names[i], type |-> decls + i]]
    /\ moved' = 0
    /\ frameNames' = <<{}>>
    /\ scope' = PushVarScope(PushVarScope(scope))
    /\ decls' = decls + Len(names)
    /\ funcs' = funcs + 1
    /\ stage' = "func"
    /\ uses' = {}

\* Ready for the next statement of a body.
InBody == stage \in {"func", "main"} /\ moved = Len(params)

\* Mutation: a parameter's Move does not initialise it.
DeclareParamUninitialised ==
    /\ stage = "func" /\ moved < Len(params)
    /\ LET p  == params[moved + 1]
           s1 == CreateVariable(scope, p.name, p.type)
       IN  /\ scope' = s1
           /\ frameNames' = [frameNames EXCEPT ![1] = @ \cup {p.name}]
           /\ Record({Use(p.name, p.type, LookupType(s1, p.name))})
    /\ moved' = moved + 1
    /\ UNCHANGED <<types, params, decls, funcs>>

\* The Declare and the Move of the next parameter.
DeclareParam ==
    /\ stage = "func" /\ moved < Len(params)
    /\ LET p  == params[moved + 1]
           s1 == CreateVariable(scope, p.name, p.type)
           s2 == InitialiseVariable(s1, p.name)
       IN  /\ scope' = s2
           /\ frameNames' = [frameNames EXCEPT ![1] = @ \cup {p.name}]
           /\ Record({Use(p.name, p.type, LookupType(s2, p.name))})
    /\ moved' = moved + 1
    /\ UNCHANGED <<types, params, decls, funcs>>

\* Mutation: the allocator forgets to drop a function's scope.
EndFunctionNoPop ==
    /\ InBody /\ stage = "func" /\ Len(types) = 1
    /\ types' = <<>> /\ params' = <<>> /\ moved' = 0
    /\ frameNames' = <<>>
    /\ uses' = {} /\ stage' = "between"
    /\ UNCHANGED <<scope, decls, funcs>>

\* The allocator's walk stops before the last instruction, which is the
\* function's PopScope: of its two scopes only the inner one is dropped.
EndFunction ==
    /\ InBody /\ stage = "func" /\ Len(types) = 1
    /\ types' = <<>> /\ params' = <<>> /\ moved' = 0
    /\ frameNames' = <<>>
    /\ scope' = PopVarScope(scope)
    /\ uses' = {} /\ stage' = "between"
    /\ UNCHANGED <<decls, funcs>>

BeginMain ==
    /\ stage = "between"
    /\ types' = <<EmptyMap>>
    /\ frameNames' = <<{}>>
    /\ scope' = PushVarScope(PushVarScope(scope))
    /\ uses' = {} /\ stage' = "main"
    /\ UNCHANGED <<params, moved, decls, funcs>>

EndMain ==
    /\ InBody /\ stage = "main" /\ Len(types) = 1
    /\ types' = <<>>
    /\ frameNames' = <<>>
    /\ scope' = PopVarScope(scope)
    /\ uses' = {} /\ stage' = "done"
    /\ UNCHANGED <<params, moved, decls, funcs>>

-----------------------------------------------------------------------------
(* Statements.  "used" are the variables its expressions read.             *)

\* Mutation: the translator does not count the variable.
DeclStmtUncounted(name, used) ==
    /\ InBody /\ decls < MaxDecls
    /\ \A n \in used : Known(n)
    /\ types[Len(types)][name] = NoType
    /\ ParamShadowing \/ Len(types) > 1 \/ \A i \in 1..Len(params) : params[i].name # name
    /\ types' = [types EXCEPT ![Len(types)][name] = decls + 1]
    /\ decls' = decls + 1
    /\ LET s1 == CreateVariable(scope, name, decls + 1)
           s2 == InitialiseVariable(s1, name)
       IN  /\ scope' = s2
           /\ Record(Resolve(s1, used) \cup {Use(name, decls + 1, LookupType(s2, name))})
    /\ UNCHANGED <<params, moved, funcs, frameNames>>

\* The checker types the initialiser, then adds the variable (AddVariable
\* rejects a name this scope already has, parameters not counted).  The
\* translator counts the name and emits Declare, then Move.  The allocator
\* creates the variable, evaluates the initialiser with it in place but not
\* initialised, then initialises and looks up the destination.
DeclStmt(name, used) ==
    /\ InBody /\ decls < MaxDecls
    /\ \A n \in used : Known(n)
    /\ types[Len(types)][name] = NoType
    /\ ParamShadowing \/ Len(types) > 1 \/ \A i \in 1..Len(params) : params[i].name # name
    /\ types' = [types EXCEPT ![Len(types)][name] = decls + 1]
    /\ frameNames' = [frameNames EXCEPT ![Len(frameNames)] = @ \cup {name}]
    /\ decls' = decls + 1
    /\ LET s1 == CreateVariable(scope, name, decls + 1)
           s2 == InitialiseVariable(s1, name)
       IN  /\ scope' = s2
           /\ Record(Resolve(s1, used) \cup {Use(name, decls + 1, LookupType(s2, name))})
    /\ UNCHANGED <<params, moved, funcs>>

\* x = e: the source first, then the destination, which is initialised again.
AssignStmt(name, used) ==
    /\ InBody
    /\ Known(name) /\ \A n \in used : Known(n)
    /\ LET s1 == InitialiseVariable(scope, name)
       IN  /\ scope' = s1
           /\ Record(Resolve(scope, used) \cup Resolve(s1, {name}))
    /\ UNCHANGED <<types, params, moved, frameNames, decls, funcs>>

\* A statement that only reads variables: eval, free, return, exit, print;
\* read, which never declares its destination; and an assignment to an
\* element of an array, a pair or a struct, whose base is looked up.
UseStmt(used) ==
    /\ InBody
    /\ \A n \in used : Known(n)
    /\ Record(Resolve(scope, used))
    /\ UNCHANGED <<types, params, moved, frameNames, scope, decls, funcs>>

\* The condition of an if or a while, if any, then the scope of a branch, of
\* a loop's body or of a begin-end.
BlockBegin(used) ==
    /\ InBody /\ Len(types) < MaxDepth
    /\ \A n \in used : Known(n)
    /\ Record(Resolve(scope, used))
    /\ types' = Append(types, EmptyMap)
    /\ frameNames' = Append(frameNames, {})
    /\ scope' = PushVarScope(scope)
    /\ UNCHANGED <<params, moved, decls, funcs>>

\* Mutation: the translator stays in the scope that ends.
BlockEndNamesStay ==
    /\ InBody /\ Len(types) > 1
    /\ types' = SubSeq(types, 1, Len(types) - 1)
    /\ scope' = PopVarScope(scope)
    /\ uses' = {}
    /\ UNCHANGED <<params, moved, frameNames, decls, funcs, stage>>

BlockEnd ==
    /\ InBody /\ Len(types) > 1
    /\ types' = SubSeq(types, 1, Len(types) - 1)
    /\ frameNames' = SubSeq(frameNames, 1, Len(frameNames) - 1)
    /\ scope' = PopVarScope(scope)
    /\ uses' = {}
    /\ UNCHANGED <<params, moved, decls, funcs, stage>>

-----------------------------------------------------------------------------
Init ==
    /\ types = <<>> /\ params = <<>> /\ moved = 0 /\ frameNames = <<>> /\ scope = <<>>
    /\ decls = 0 /\ funcs = 0 /\ stage = "between" /\ uses = {}

ParamNames == UNION {[1..k -> Names] : k \in 0..MaxParams}

Next ==
    \/ \E names \in ParamNames : BeginFunction(names)
    \/ DeclareParam
    \/ EndFunction
    \/ BeginMain
    \/ EndMain
    \/ \E name \in Names, used \in SUBSET Names : DeclStmt(name, used)
    \/ \E name \in Names, used \in SUBSET Names : AssignStmt(name, used)
    \/ \E used \in SUBSET Names : UseStmt(used)
    \/ \E used \in SUBSET Names : BlockBegin(used)
    \/ BlockEnd

Spec == Init /\ [][Next]_vars

-----------------------------------------------------------------------------
(* Type correctness.                                                       *)

UseRecords == [name : Names, checked : Nat, allocated : Nat]

\* The variables have their types and the three scope stacks move together.
TypeOK ==
    /\ types \in Seq([Names -> Nat])
    /\ params \in Seq([name : Names, type : Nat \ {0}])
    /\ moved \in 0..Len(params)
    /\ frameNames \in Seq(SUBSET Names)
    /\ scope \in Seq(VarScopes)
    /\ decls \in Nat /\ funcs \in Nat
    /\ stage \in {"between", "func", "main", "done", "panic"}
    /\ uses \subseteq UseRecords
    /\ Len(types) = Len(frameNames)
    /\ types # <<>> => Len(types) < Len(scope)

-----------------------------------------------------------------------------
(* Safety.                                                                 *)

\* The scopes of the allocator that are not the program's: what the walks of
\* earlier functions left behind, and the one the current walk started with.
Base == Len(scope) - Len(types)

\* The allocator means by a name the declaration the checker meant by it: in
\* "int x = x + 1" in a nested scope the x on the right is the outer one for
\* both, though the inner one is already in the allocator's map.
UsesAgree == \A u \in uses : u.allocated = u.checked

\* No two variables that are visible or shadowed share a stack slot.
SlotsDisjoint ==
    \A k, l \in 1..Len(scope) :
        \A m \in VarsOf(scope[k]), n \in VarsOf(scope[l]) :
            scope[k].vars[m].stack = scope[l].vars[n].stack => k = l /\ m = n

\* The slots the allocator hands out in a scope fit into the bytes the
\* translator reserves for that scope; a slot too many would lie under the
\* stack pointer.
SlotsFitFrame ==
    \A k \in 1..Len(frameNames) :
        (scope[Base + k].next - scope[Base + k - 1].next) * RegWidth
            <= AlignedSize(Cardinality(frameNames[k]))

\* The scope each function leaves on the allocator's stack holds no variable
\* and no slot: later functions neither see an earlier one's variables nor
\* start their frame after it.
LeftoversEmpty ==
    \A k \in 1..Base : VarsOf(scope[k]) = {} /\ scope[k].next = 0

\* registers.go's own assertion: a name that passed the semantic check is
\* never "non-existent" to the allocator.
NeverNonExistent == stage # "panic"

-----------------------------------------------------------------------------
(* The inductive strengthening of SlotsDisjoint and LeftoversEmpty.        *)

\* A body is being walked exactly in the stages that have one, and only a
\* function has parameters.
BodyOpen ==
    /\ types = <<>> <=> stage \in {"between", "done"}
    /\ stage \in {"between", "main", "done"} => params = <<>>

SlotInv == TypeOK /\ BodyOpen /\ LeftoversEmpty /\ SlotsNumbered(scope)

-----------------------------------------------------------------------------
(* With it, when parameters are not declared again, the inductive          *)
(* strengthening of SlotsFitFrame, UsesAgree and NeverNonExistent: the     *)
(* passes' scopes, side by side.                                           *)

\* Parameters have distinct names, are declared before anything else, and
\* are not declared again in the function's own scope.
ParamsFirst ==
    /\ \A i, j \in 1..Len(params) : params[i].name = params[j].name => i = j
    /\ types # <<>> => \A i \in 1..Len(params) : types[1][params[i].name] = NoType
    /\ moved < Len(params) => Len(types) = 1

MovedNames == {params[i].name : i \in 1..moved}

\* The allocator's scope Base + k is the checker's scope k, with the
\* parameters; all its variables are initialised; the translator has counted
\* them, and so has "next".
ScopeMatches(k) ==
    /\ \A n \in Names : types[k][n] # NoType =>
          scope[Base + k].vars[n].typeInfo = types[k][n]
    /\ \A n \in VarsOf(scope[Base + k]) :
          /\ scope[Base + k].vars[n].initialised
          /\ types[k][n] # NoType \/ (k = 1 /\ n \in MovedNames)
    /\ frameNames[k] = VarsOf(scope[Base + k])
    /\ scope[Base + k].next = scope[Base + k - 1].next + Cardinality(frameNames[k])

ScopesMatch ==
    /\ \A k \in 1..Len(types) : ScopeMatches(k)
    /\ types # <<>> => \A i \in 1..moved :
          scope[Base + 1].vars[params[i].name].typeInfo = params[i].type

NameInv == SlotInv /\ ParamsFirst /\ ScopesMatch /\ UsesAgree /\ NeverNonExistent
=============================================================================
