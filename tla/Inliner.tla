------------------------------- MODULE Inliner -------------------------------
(***************************************************************************)
(* The program as it was before InlinerWalk and as it is afterwards: the   *)
(* allocator walks over both and both are run, the former first.           *)
(***************************************************************************)
EXTENDS InlinerWalk, IFMachine

VARIABLES
    walks,              \* the allocator's walks over source and prog
    before, after       \* the machines that run source and prog

machines == <<before, after>>
vars == <<optimising, walks, machines>>

-----------------------------------------------------------------------------
(* Allocating and running both programs.                                   *)

StartAllocation == HandOn /\ UNCHANGED <<walks, machines>>

ListOf(which, f) == IF which = "source" THEN source[f] ELSE prog[f]

Unallocated == {w \in {"source", "prog"} \X DOMAIN source :
                   Len(walks[w[1]][w[2]].rows) < Len(ListOf(w[1], w[2]))}

\* The walks are independent of each other: one order stands for all.
AllocateNext ==
    /\ stage = "allocate" /\ Unallocated # {}
    /\ LET w == CHOOSE u \in Unallocated : TRUE
           walk == walks[w[1]][w[2]]
       IN  walks' = [walks EXCEPT ![w[1]][w[2]] =
                        Visit(walk, ListOf(w[1], w[2])[Len(walk.rows) + 1])]
    /\ UNCHANGED <<source, prog, stage, visited, inlining, walking, machines>>

StartRuns ==
    /\ stage = "allocate" /\ Unallocated = {}
    /\ stage' = "run"
    /\ before' = Machine("main") /\ after' = Machine("main")
    /\ UNCHANGED <<source, prog, visited, inlining, walking, walks>>

RowsOf(which) == [f \in DOMAIN source |-> walks[which][f].rows]

RunSource ==
    /\ stage = "run" /\ before.running
    /\ before' = Step(source, RowsOf("source"), before)
    /\ UNCHANGED <<source, prog, stage, visited, inlining, walking, walks, after>>

RunInlined ==
    /\ stage = "run" /\ ~before.running /\ after.running
    /\ after' = Step(prog, RowsOf("prog"), after)
    /\ stage' = IF after'.running THEN "run" ELSE "done"
    /\ UNCHANGED <<source, prog, visited, inlining, walking, walks, before>>

Done == stage = "done" /\ UNCHANGED vars

-----------------------------------------------------------------------------
Idle == [running |-> FALSE, out |-> <<>>]

Init ==
    /\ InlineInit
    /\ walks = [which \in {"source", "prog"} |-> [f \in DOMAIN source |-> NewWalk]]
    /\ before = Idle /\ after = Idle

Walk == Optimise /\ UNCHANGED <<walks, machines>>

Next ==
    \/ Walk \/ StartAllocation \/ AllocateNext \/ StartRuns \/ RunSource \/ RunInlined \/ Done

Spec == Init /\ [][Next]_vars

-----------------------------------------------------------------------------
(* Safety.                                                                 *)

\* What the program prints with its calls replaced is what it printed before.
SameOutput ==
    /\ Len(after.out) <= Len(before.out)
    /\ after.out = SubSeq(before.out, 1, Len(after.out))
    /\ stage = "done" => after.out = before.out

\* In main the stack pointer is where the walk over the text has it, although
\* the jump that a return has become leaves scopes without their PopScope.
StackBalanced ==
    stage = "run" /\ after.running /\ Len(after.frames) = 1
        /\ Frame(after).pc <= Len(prog["main"])
      => after.sp = SavedWords + walks.prog["main"].rows[Frame(after).pc].dist
=============================================================================
