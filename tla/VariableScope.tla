---------------------------- MODULE VariableScope ----------------------------
(***************************************************************************)
(* The scope stack of the register allocator (src/backend/registers.go):   *)
(* VariableScope and the methods of RegisterAllocatorContext that read and *)
(* change it, as operators on a sequence of scopes, innermost last.        *)
(*                                                                         *)
(* A variable's typeInfo is the one field that tells declarations apart,   *)
(* so every declaration is given a type of its own, a positive number.     *)
(***************************************************************************)
EXTENDS IFInstr, Sequences

\* The zero values of Go's maps: what m[name] yields where name is no key.
NoType     == 0
NoVariable == [stack |-> 0, typeInfo |-> NoType, initialised |-> FALSE]

\* The index at which a search from the innermost scope outwards stops.
Greatest(S) == CHOOSE m \in S : \A k \in S : k <= m

NextSlot(s) == IF s = <<>> THEN 0 ELSE s[Len(s)].next

\* Mutation: a nested scope hands out its slots from 0 again.
PushVarScopeFromZero(s) == Append(s, [vars |-> [n \in Names |-> NoVariable], next |-> 0])

\* pushScope: start at the next available stack address of the parent scope.
PushVarScope(s) == Append(s, [vars |-> [n \in Names |-> NoVariable],
                             next |-> NextSlot(s)])

\* popScope.
PopVarScope(s) == SubSeq(s, 1, Len(s) - 1)

Variable(slot, type) == [stack |-> slot, typeInfo |-> type, initialised |-> FALSE]

\* createVariable: a second declaration of the name in this scope replaces
\* the first, and takes a slot of its own.
CreateVariable(s, name, type) ==
    [s EXCEPT ![Len(s)] = [vars |-> [@.vars EXCEPT ![name] = Variable(NextSlot(s), type)],
                       next |-> @.next + 1]]

\* The keys of a scope's variableMap, and the scopes that have the name.
VarsOf(sc) == {n \in Names : sc.vars[n].typeInfo # NoType}
Declaring(s, name) == {k \in 1..Len(s) : name \in VarsOf(s[k])}

\* initialiseVariable: the innermost variable of that name, initialised or
\* not.  Where the code panics for want of one, the lookup that always
\* follows finds none either.
InitialiseVariable(s, name) ==
    IF Declaring(s, name) = {} THEN s
    ELSE [s EXCEPT ![Greatest(Declaring(s, name))].vars[name].initialised = TRUE]

\* Mutation: a variable can be read before it is initialised.
ReadableIgnoresInitialised(s, name) == Declaring(s, name)

\* innerLookupVariable passes over variables that are not initialised yet.
Readable(s, name) == {k \in Declaring(s, name) : s[k].vars[name].initialised}

\* The type lookupVariable's result was declared with; NoType where it panics.
LookupType(s, name) ==
    IF Readable(s, name) = {} THEN NoType
    ELSE s[Greatest(Readable(s, name))].vars[name].typeInfo

-----------------------------------------------------------------------------
Variables == [stack : Nat, typeInfo : Nat, initialised : BOOLEAN]
VarScopes == [vars : [Names -> Variables], next : Nat]

\* How slots are numbered: each scope goes on where the one around it had
\* arrived when it opened, and its variables have slots from there on, each
\* its own.
SlotsNumbered(s) ==
    /\ \A k, l \in 1..Len(s) : k <= l => s[k].next <= s[l].next
    /\ \A k \in 1..Len(s) : \A n \in VarsOf(s[k]) :
            /\ s[k].vars[n].stack < s[k].next
            /\ \A j \in 1..(k - 1) : s[j].next <= s[k].vars[n].stack
            /\ \A m \in VarsOf(s[k]) : s[k].vars[m].stack = s[k].vars[n].stack => m = n
=============================================================================
