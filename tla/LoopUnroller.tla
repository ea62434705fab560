---------------------------- MODULE LoopUnroller ----------------------------
(***************************************************************************)
(* The list that Unroller walks, run before and after: when the walk has   *)
(* ended, the allocator walks over both lists and both are run, the source *)
(* first, if the assembler has made programs of them.                      *)
(***************************************************************************)
EXTENDS Unroller, IFMachine

VARIABLES
    walks,    \* the allocator's walks over the two lists
    before,   \* the machine that runs source
    after     \* the machine that runs code

machines == <<walks, before, after>>
vars == <<unrolling, machines>>

\* A machine with no program.
Idle == [running |-> FALSE, out |-> <<>>]

-----------------------------------------------------------------------------
(* Running the two lists.                                                  *)

StartAllocation ==
    /\ HandOn
    /\ walks' = [source |-> NewWalk, code |-> NewWalk]
    /\ UNCHANGED <<before, after>>

\* The next instruction of "list", of which "field" is the walk.
Allocate(field, list) ==
    /\ stage = "allocate" /\ Len(walks[field].rows) < Len(list)
    /\ walks' = [walks EXCEPT ![field] = Visit(@, list[Len(@.rows) + 1])]
    /\ UNCHANGED <<unrolling, before, after>>

AllocateNext ==
    \/ Allocate("source", source)
    \/ Len(walks.source.rows) = Len(source) /\ Allocate("code", code)

\* The translator's own labels are names that always assemble.
StartRuns ==
    /\ stage = "allocate" /\ Len(walks.code.rows) = Len(code)
    /\ stage' = "run"
    /\ before' = Machine("main")
    /\ after' = IF Assembles(code) THEN Machine("main") ELSE Idle
    /\ UNCHANGED <<source, code, node, loop, walks>>

StepOf(list, walk, m) ==
    Step([fn \in {"main"} |-> list], [fn \in {"main"} |-> walk.rows], m)

RunSource ==
    /\ stage = "run" /\ before.running
    /\ before' = StepOf(source, walks.source, before)
    /\ stage' = IF before'.running \/ after.running THEN "run" ELSE "done"
    /\ UNCHANGED <<source, code, node, loop, walks, after>>

RunUnrolled ==
    /\ stage = "run" /\ ~before.running /\ after.running
    /\ after' = StepOf(code, walks.code, after)
    /\ stage' = IF after'.running THEN "run" ELSE "done"
    /\ UNCHANGED <<source, code, node, loop, walks, before>>

Done == stage = "done" /\ UNCHANGED vars

-----------------------------------------------------------------------------
Init ==
    /\ UnrollInit
    /\ walks = [source |-> NewWalk, code |-> NewWalk] /\ before = Idle /\ after = Idle

Walk == Unroll /\ UNCHANGED machines

Next ==
    \/ Walk \/ StartAllocation \/ AllocateNext \/ StartRuns \/ RunSource \/ RunUnrolled \/ Done

\* One thread of control that never waits: first the compiler, then the
\* program it has made.
Spec == Init /\ [][Next]_vars /\ WF_vars(Next)

-----------------------------------------------------------------------------
(* Safety.                                                                 *)

\* What the unrolled list has printed is what the source prints, from its
\* first number on, and in the end nothing is missing.
SameOutput ==
    /\ Len(after.out) <= Len(before.out)
    /\ after.out = SubSeq(before.out, 1, Len(after.out))
    /\ stage = "done" => after.out = before.out

-----------------------------------------------------------------------------
(* Liveness.                                                               *)

\* The walk comes to the end of the list it is lengthening, and the unrolled
\* program ends like the one it was made from.
Terminates == <>(stage = "done")
=============================================================================
