-------------------------- MODULE StackFrame_proofs --------------------------
(***************************************************************************)
(* The stack of the running program, for every program: the distance that  *)
(* the generator counts along the text is the one of the run, whatever     *)
(* path it takes; every function finds the registers it saved and returns  *)
(* to its caller; and, where no scope declares a name twice, every         *)
(* variable keeps its value.  The inductive invariant is StackInv.         *)
(***************************************************************************)
EXTENDS Walk_proofs

-----------------------------------------------------------------------------
(* The invariant of a run.                                                 *)

Activations == [label : FrameLabels, base : Nat, ret : 0..Len(code),
                live : SUBSET (1..Len(code))]

\* Where an activation is: at the instruction that calls the next one.
At(n) == IF n = Here THEN pc ELSE acts[n + 1].ret

\* The words pushed for the call that is being prepared.
Pushed == IF call.pending THEN call.pushed ELSE 0

\* Where the frame of an activation ends, below the arguments of its callee.
Height(n) == IF n = Here THEN Len(stack) - Pushed
             ELSE acts[n + 1].base - SavedWords - StackArgs(acts[n + 1].label)

RunTyped ==
    /\ acts \in Seq(Activations) /\ Here \in 1..MaxCalls
    /\ stack \in Seq(StackWords) /\ r4 \in StackWords

\* Each activation is in its own function, its frame has the size that the
\* generator counted for the place where it is, and its variables are ones
\* of scopes open there.
PlacesRight ==
    \A n \in 1..Here :
        /\ At(n) \in 1..(Len(code) + 1)
        /\ InFunction(acts[n].label, At(n))
        /\ Height(n) = acts[n].base + WordsAt(At(n))
        /\ LiveAt(At(n), acts[n].live)

\* Below a frame there is room for what its function saves and is passed,
\* and frames do not overlap.
BasesGrow ==
    /\ \A n \in 1..Here : acts[n].base >= SavedWords + StackArgs(acts[n].label)
    /\ \A n, k \in 1..Here : n < k => acts[n].base + SavedWords <= acts[k].base

\* Callers are at a call.
CallersWait ==
    /\ \A n \in 1..Here : n # Here => At(n) \in 1..Len(code) /\ code[At(n)].op = "eval"
    /\ call # NoCall =>
          /\ call \in [pending : {TRUE}, func : functions, pushed : Nat]
          /\ call.pushed <= StackArgs(FuncLabel(call.func))
          /\ pc \in 1..Len(code) /\ code[pc].op = "eval"
          /\ Here < MaxCalls

SavedAt(n, m) == <<Saved("lr", n), Saved("r11", n), Saved("r10", n), Saved("r9", n),
                   Saved("r8", n), Saved("r7", n), Saved("r6", n), Saved("r5", n)>>[m]

\* The words below a frame: the registers saved, but for r4, and before them
\* the arguments that were pushed.
SavedRight ==
    \A n \in 1..Here : \A m \in 1..(SavedWords - 1) :
        stack[acts[n].base - SavedWords + m] = SavedAt(n, m)
ArgumentsRight ==
    \A n \in 1..Here : \A m \in ArgRegisters..(Params(acts[n].label) - 1) :
        stack[acts[n].base - SavedWords - (Params(acts[n].label) - 1 - m)] = Argument(n, m)

\* The arguments pushed so far for a call.
PushedRight ==
    call # NoCall => \A m \in 1..call.pushed :
        stack[Height(Here) + m] = Argument(Here + 1, ArgRegisters + m - 1)

\* The variables' words.
ValuesKept ==
    \A n \in 1..Here : \A i \in acts[n].live : stack[acts[n].base + slot[i]] = Value(n, i)

RunInv ==
    /\ WalksDone /\ RunTyped /\ PlacesRight /\ BasesGrow /\ CallersWait
    /\ SavedRight /\ ArgumentsRight /\ PushedRight
    /\ DeclaredOnce => ValuesKept

\* The machine has not started.
Idle == pc = 0 /\ stack = <<>> /\ acts = <<>> /\ call = NoCall /\ r4 = Owned(0)

\* Translation ends with main; then the walks, the run, and the exit.
StackInv ==
    /\ JumpInv /\ ScopeInv /\ LayoutInv
    /\ phase \in {"translate", "allocate", "generate", "run", "exited"}
    /\ phase # "translate" => stage = "done"
    /\ phase = "translate" =>
          source \in Seq(Tokens) /\ source # <<>> /\ source[Len(source)].op = "endmain"
    /\ phase \in {"translate", "allocate"} => Idle /\ slot = <<>> /\ dist = <<>>
    /\ phase = "generate" => Idle /\ slot = [i \in 1..Len(code) |-> SlotAt(i)] /\ dist = <<>>
    /\ phase = "run" => RunInv
    /\ phase = "exited" => /\ WalksDone /\ acts = <<>> /\ call = NoCall
                           /\ pc \in 1..(Len(code) + 1) /\ stack \in Seq(StackWords)
-----------------------------------------------------------------------------
(* A run does not change the code, the slots and the distances.            *)

Static == <<vars, slot, dist>>

LEMMA StaticTexts ==
    ASSUME UNCHANGED vars
    PROVE  /\ ScopesAfter' = ScopesAfter /\ DistanceAt' = DistanceAt
           /\ CodeDone => CodeDone'
           /\ JumpInv /\ ScopeInv /\ LayoutInv => JumpInv' /\ ScopeInv' /\ LayoutInv'
  <1>1. ScopesAfter' = ScopesAfter
    BY DEF ScopesAfter, vars
  <1>2. DistanceAt' = DistanceAt
    BY DEF DistanceAt, vars
  <1>3. JumpInv => JumpInv'
    BY NextJumps
  <1>4. JumpInv /\ ScopeInv => ScopeInv'
    BY NextScopes
  <1>5. LayoutInv => LayoutInv'
    BY StayLayout
  <1>6. stage' = stage
    BY DEF vars
  <1> QED
    BY <1>1, <1>2, <1>3, <1>4, <1>5, <1>6 DEF CodeDone

LEMMA StaticTables ==
    ASSUME UNCHANGED Static
    PROVE  /\ WalksDone => WalksDone'
           /\ \A p : WordsAt(p)' = WordsAt(p)
           /\ \A p, live : LiveAt(p, live)' <=> LiveAt(p, live)
           /\ \A l, p : InFunction(l, p)' <=> InFunction(l, p)
           /\ \A l : Params(l)' = Params(l) /\ StackArgs(l)' = StackArgs(l)
           /\ StackWords' = StackWords /\ Activations' = Activations
           /\ DeclaredOnce' <=> DeclaredOnce
           /\ Len(code') = Len(code) /\ code' = code /\ slot' = slot /\ functions' = functions
  <1>1. UNCHANGED vars /\ slot' = slot /\ dist' = dist /\ code' = code /\ home' = home
        /\ functions' = functions
    BY DEF Static, vars
  <1>2. WalksDone => WalksDone'
    <2>1. CodeDone => CodeDone'
      BY <1>1, StaticTexts
    <2>2. \A i : SlotAt(i)' = SlotAt(i)
      BY <1>1, StaticTexts DEF SlotAt
    <2>3. DistanceAt' = DistanceAt
      BY <1>1, StaticTexts
    <2> QED
      BY <1>1, <2>1, <2>2, <2>3 DEF WalksDone
  <1>3. \A p : WordsAt(p)' = WordsAt(p)
    BY <1>1 DEF WordsAt
  <1>4. \A p, live : LiveAt(p, live)' <=> LiveAt(p, live)
    BY <1>1 DEF LiveAt, Ends, OpenScope
  <1>5. \A l, p : InFunction(l, p)' <=> InFunction(l, p)
    BY <1>1 DEF InFunction
  <1>6. \A l : EntryOf(l)' = EntryOf(l)
    BY <1>1 DEF EntryOf
  <1>7. \A l : Params(l)' = Params(l)
    BY <1>1, <1>6 DEF Params
  <1>8. \A l : StackArgs(l)' = StackArgs(l)
    BY <1>7 DEF StackArgs
  <1>9. StackWords' = StackWords /\ Activations' = Activations
    BY <1>1 DEF StackWords, Activations, FrameLabels
  <1>10. DeclaredOnce' <=> DeclaredOnce
    BY <1>1 DEF DeclaredOnce
  <1> QED
    BY <1>1, <1>2, <1>3, <1>4, <1>5, <1>7, <1>8, <1>9, <1>10
-----------------------------------------------------------------------------
(* A step inside the function that runs.                                   *)

LEMMA RunFacts ==
    ASSUME RunInv
    PROVE  /\ CodeDone /\ Len(code) \in Nat
           /\ Here \in Nat /\ Here \in 1..Here /\ Here <= MaxCalls /\ MaxCalls \in Nat
           /\ \A n \in 1..Here :
                 /\ acts[n].label \in FrameLabels /\ acts[n].base \in Nat
                 /\ acts[n].ret \in 0..Len(code) /\ acts[n].live \subseteq 1..Len(code)
                 /\ StackArgs(acts[n].label) \in Nat /\ Params(acts[n].label) \in 0..MaxParams
           /\ Len(stack) \in Nat
           /\ pc \in 1..(Len(code) + 1) /\ InFunction(Top.label, pc) /\ LiveAt(pc, Top.live)
           /\ \A p \in 1..(Len(code) + 1) : WordsAt(p) \in Nat
  <1>1. WalksDone /\ CodeDone /\ Len(code) \in Nat
    BY WalkFacts, DoneFacts DEF RunInv
  <1>2. MaxCalls \in Nat /\ Here \in 1..MaxCalls /\ Here \in Nat
    BY StackBoundsAssumption DEF RunInv, RunTyped
  <1>3. Here \in 1..Here /\ Here <= MaxCalls
    BY <1>2
  <1>4. ASSUME NEW n \in 1..Here
        PROVE  /\ acts[n].label \in FrameLabels /\ acts[n].base \in Nat
               /\ acts[n].ret \in 0..Len(code) /\ acts[n].live \subseteq 1..Len(code)
               /\ StackArgs(acts[n].label) \in Nat /\ Params(acts[n].label) \in 0..MaxParams
    <2>1. acts[n] \in Activations
      BY DEF RunInv, RunTyped, Here
    <2>2. /\ acts[n].label \in FrameLabels /\ acts[n].base \in Nat
          /\ acts[n].ret \in 0..Len(code) /\ acts[n].live \subseteq 1..Len(code)
      BY <2>1 DEF Activations
    <2> QED
      BY <1>1, <2>2, ParamCount, StackArgCount
  <1>5. Len(stack) \in Nat
    BY DEF RunInv, RunTyped
  <1>6. pc \in 1..(Len(code) + 1) /\ InFunction(Top.label, pc) /\ LiveAt(pc, Top.live)
    BY <1>3 DEF RunInv, PlacesRight, At, Top
  <1>7. \A p \in 1..(Len(code) + 1) : WordsAt(p) \in Nat
    <2> SUFFICES ASSUME NEW p \in 1..(Len(code) + 1) PROVE WordsAt(p) \in Nat
      OBVIOUS
    <2>1. CASE p \in 1..Len(code)
      BY <1>1, <2>1, WordSteps
    <2>2. CASE p = Len(code) + 1
      <3>1. HomeAt(p) = 0
        BY <1>1, <2>2 DEF HomeAt
      <3> QED
        BY <1>1, <3>1, NoWordsAtEnd
    <2> QED
      BY <1>1, <2>1, <2>2
  <1> QED
    BY <1>1, <1>2, <1>3, <1>4, <1>5, <1>6, <1>7

\* No call is being prepared.
LEMMA Quiet ==
    ASSUME call = NoCall
    PROVE  Pushed = 0 /\ call.pending = FALSE
  BY DEF Pushed, NoCall

\* The step of an instruction that leaves the words below the frame alone and
\* the frame as the generator counted it.
TopMove(live) ==
    /\ UNCHANGED Static /\ call = NoCall /\ call' = NoCall
    /\ acts' = [acts EXCEPT ![Here].live = live]
    /\ pc' \in 1..(Len(code) + 1) /\ InFunction(Top.label, pc') /\ LiveAt(pc', live)
    /\ stack' \in Seq(StackWords) /\ Len(stack') = Top.base + WordsAt(pc')
    /\ \A k \in 1..(Top.base - 1) : stack'[k] = stack[k]
    /\ DeclaredOnce => \A i \in live : stack'[Top.base + slot[i]] = Value(Here, i)
    /\ r4' \in StackWords

LEMMA TopActs ==
    ASSUME RunInv, NEW live, TopMove(live)
    PROVE  /\ Here' = Here /\ Len(acts') = Len(acts)
           /\ \A n \in 1..Here :
                 /\ acts'[n].label = acts[n].label /\ acts'[n].base = acts[n].base
                 /\ acts'[n].ret = acts[n].ret
                 /\ acts'[n].live = IF n = Here THEN live ELSE acts[n].live
           /\ acts' \in Seq(Activations)
           /\ \A n \in 1..Here : At(n)' = IF n = Here THEN pc' ELSE At(n)
           /\ \A n \in 1..Here : Height(n)' = IF n = Here THEN Len(stack') ELSE Height(n)
  <1>1. Here \in 1..Here /\ Here \in Nat /\ acts \in Seq(Activations) /\ Here = Len(acts)
    BY RunFacts DEF RunInv, RunTyped, Here
  <1>2. acts' = [acts EXCEPT ![Here].live = live]
    BY DEF TopMove
  <1>3. Len(acts') = Len(acts) /\ Here' = Here
    BY <1>1, <1>2 DEF Here
  <1>4. acts[Here] \in Activations
    BY <1>1
  <1>5. ASSUME NEW n \in 1..Here
        PROVE  /\ acts'[n].label = acts[n].label /\ acts'[n].base = acts[n].base
               /\ acts'[n].ret = acts[n].ret
               /\ acts'[n].live = IF n = Here THEN live ELSE acts[n].live
    <2>1. acts'[n] = IF n = Here THEN [acts[n] EXCEPT !.live = live] ELSE acts[n]
      BY <1>1, <1>2
    <2>2. acts[n] \in Activations
      BY <1>1
    <2> QED
      BY <2>1, <2>2 DEF Activations
  <1>6. acts' \in Seq(Activations)
    <2>1. live \subseteq 1..Len(code)
      BY DEF TopMove, LiveAt
    <2>2. [acts[Here] EXCEPT !.live = live] \in Activations
      BY <1>4, <2>1 DEF Activations
    <2> QED
      BY <1>1, <1>2, <2>2
  <1>7. ASSUME NEW n \in 1..Here
        PROVE  /\ At(n)' = IF n = Here THEN pc' ELSE At(n)
               /\ Height(n)' = IF n = Here THEN Len(stack') ELSE Height(n)
    <2>1. CASE n = Here
      <3>1. Pushed' = 0
        BY DEF TopMove, Pushed, NoCall
      <3>2. Len(stack') \in Nat
        BY DEF TopMove
      <3> QED
        BY <1>3, <2>1, <3>1, <3>2 DEF At, Height
    <2>2. CASE n # Here
      <3>1. n + 1 \in 1..Here
        BY <1>1, <2>2
      <3>2. \A l : StackArgs(l)' = StackArgs(l)
        BY StaticTables DEF TopMove
      <3> QED
        BY <1>3, <1>5, <2>2, <3>1, <3>2 DEF At, Height
    <2> QED
      BY <2>1, <2>2
  <1> QED
    BY <1>3, <1>5, <1>6, <1>7

\* The frame on top.
LEMMA TopFacts ==
    ASSUME RunInv
    PROVE  /\ Top.base \in Nat /\ WordsAt(pc) \in Nat /\ Pushed \in Nat /\ Len(stack) \in Nat
           /\ Len(stack) = Top.base + WordsAt(pc) + Pushed
           /\ Top.base <= Len(stack) /\ Height(Here) = Top.base + WordsAt(pc)
           /\ Top.label \in FrameLabels /\ Top.live \subseteq 1..Len(code)
           /\ StackArgs(Top.label) \in Nat /\ Top.base >= SavedWords + StackArgs(Top.label)
  <1>1. Here \in 1..Here /\ Len(stack) \in Nat
    BY RunFacts
  <1>2. /\ Top.base \in Nat /\ Top.label \in FrameLabels /\ Top.live \subseteq 1..Len(code)
        /\ StackArgs(Top.label) \in Nat
    BY <1>1, RunFacts DEF Top
  <1>3. WordsAt(pc) \in Nat
    <2>1. pc \in 1..(Len(code) + 1)
      BY RunFacts
    <2> QED
      BY <2>1, RunFacts
  <1>4. Pushed \in Nat
    <2>1. CASE call = NoCall
      BY <2>1, Quiet
    <2>2. CASE call # NoCall
      <3>1. call \in [pending : {TRUE}, func : functions, pushed : Nat]
        BY <2>2 DEF RunInv, CallersWait
      <3> QED
        BY <3>1 DEF Pushed
    <2> QED
      BY <2>1, <2>2
  <1>5. Height(Here) = Top.base + WordsAt(pc)
    BY <1>1 DEF RunInv, PlacesRight, At, Top
  <1>6. Height(Here) = Len(stack) - Pushed
    BY DEF Height
  <1>7. Top.base >= SavedWords + StackArgs(Top.label)
    BY <1>1 DEF RunInv, BasesGrow, Top
  <1> QED
    BY SMTT(40), <1>1, <1>2, <1>3, <1>4, <1>5, <1>6, <1>7

\* Frames end where the next one's registers and arguments begin.
LEMMA HeightBelow ==
    ASSUME RunInv, NEW n \in 1..Here, n # Here
    PROVE  /\ Height(n) \in Nat /\ Height(n) < Top.base /\ Height(n) < Len(stack)
           /\ acts[n].base \in Nat /\ acts[n].base <= Height(n) /\ acts[n].base < Top.base
           /\ Height(n) + SavedWords + StackArgs(acts[n + 1].label) = acts[n + 1].base
           /\ n + 1 \in 1..Here /\ acts[n + 1].base <= Top.base
  <1>1. Here \in Nat /\ Here \in 1..Here
    BY RunFacts
  <1>2. n + 1 \in 1..Here /\ n \in Nat
    BY <1>1
  <1>3. acts[n].base \in Nat /\ acts[n + 1].base \in Nat /\ StackArgs(acts[n + 1].label) \in Nat
    BY <1>2, RunFacts
  <1>4. Height(n) = acts[n].base + WordsAt(At(n)) /\ WordsAt(At(n)) \in Nat
    <2>1. At(n) \in 1..(Len(code) + 1) /\ Height(n) = acts[n].base + WordsAt(At(n))
      BY DEF RunInv, PlacesRight
    <2> QED
      BY <2>1, RunFacts
  <1>5. Height(n) = acts[n + 1].base - 9 - StackArgs(acts[n + 1].label)
    BY DEF Height, SavedWords
  <1>6. acts[n + 1].base <= Top.base /\ Top.base \in Nat
    <2>1. CASE n + 1 = Here
      BY <1>1, <1>3, <2>1 DEF Top
    <2>2. CASE n + 1 < Here
      <3>1. acts[n + 1].base + SavedWords <= acts[Here].base
        BY <1>1, <1>2, <2>2 DEF RunInv, BasesGrow
      <3>2. Top.base \in Nat
        BY TopFacts
      <3> QED
        BY <1>3, <3>1, <3>2 DEF Top, SavedWords
    <2> QED
      BY <1>1, <1>2, <2>1, <2>2
  <1>7. Top.base <= Len(stack) /\ Len(stack) \in Nat
    BY TopFacts
  <1>8. Height(n) \in Nat /\ acts[n].base <= Height(n)
    BY <1>3, <1>4
  <1>9. Height(n) + 9 + StackArgs(acts[n + 1].label) = acts[n + 1].base
    BY <1>3, <1>5, <1>8
  <1>10. Height(n) < acts[n + 1].base
    BY <1>3, <1>8, <1>9
  <1>11. Height(n) < Top.base
    BY <1>3, <1>6, <1>8, <1>10
  <1>12. Height(n) < Len(stack) /\ acts[n].base < Top.base
    BY <1>3, <1>6, <1>7, <1>8, <1>11
  <1>13. Height(n) + SavedWords + StackArgs(acts[n + 1].label) = acts[n + 1].base
    BY <1>9 DEF SavedWords
  <1> QED
    BY <1>2, <1>3, <1>6, <1>8, <1>11, <1>12, <1>13

\* Where the words of an activation are, relative to its frame and below the
\* frame on top.
LEMMA WordsBelow ==
    ASSUME RunInv, NEW n \in 1..Here
    PROVE  /\ acts[n].base \in Nat /\ acts[n].base <= Top.base
           /\ SavedWords + StackArgs(acts[n].label) <= acts[n].base
           /\ \A m \in 1..(SavedWords - 1) :
                 acts[n].base - SavedWords + m \in 1..(Top.base - 1)
           /\ \A m \in ArgRegisters..(Params(acts[n].label) - 1) :
                 acts[n].base - SavedWords - (Params(acts[n].label) - 1 - m) \in 1..(Top.base - 1)
  <1>1. acts[n].base \in Nat /\ acts[n].base <= Top.base /\ Top.base \in Nat
    <2>1. CASE n = Here
      BY <2>1, TopFacts DEF Top
    <2>2. CASE n # Here
      BY SMTT(40), <2>2, HeightBelow, TopFacts
    <2> QED
      BY <2>1, <2>2
  <1>2. SavedWords + StackArgs(acts[n].label) <= acts[n].base /\ StackArgs(acts[n].label) \in Nat
    BY RunFacts DEF RunInv, BasesGrow
  <1>3. ASSUME NEW m \in 1..(SavedWords - 1)
        PROVE  acts[n].base - SavedWords + m \in 1..(Top.base - 1)
    BY <1>1, <1>2 DEF SavedWords
  <1>4. ASSUME NEW m \in ArgRegisters..(Params(acts[n].label) - 1)
        PROVE  acts[n].base - SavedWords - (Params(acts[n].label) - 1 - m) \in 1..(Top.base - 1)
    <2>1. Params(acts[n].label) \in Nat
      BY RunFacts, BoundsAssumption
    <2>2. StackArgs(acts[n].label) = Params(acts[n].label) - ArgRegisters
      BY <2>1, StackBoundsAssumption DEF StackArgs
    <2> QED
      BY <1>1, <1>2, <2>1, <2>2, StackBoundsAssumption DEF SavedWords
  <1> QED
    BY <1>1, <1>2, <1>3, <1>4
\* A variable's word is inside the frame.
LEMMA LiveWord ==
    ASSUME WalksDone, DeclaredOnce, NEW p \in 1..(Len(code) + 1), NEW live, LiveAt(p, live),
           NEW i \in live
    PROVE  /\ slot[i] \in Nat /\ slot[i] < slot[p] /\ slot[p] <= WordsAt(p)
           /\ slot[i] < WordsAt(p) /\ slot[p] \in Nat /\ WordsAt(p) \in Nat
           /\ p \in 1..Len(code) /\ ~Ends(p)
  <1>1. Len(code) \in Nat /\ CodeDone
    BY WalkFacts, DoneFacts
  <1>2. ~Ends(p)
    BY DEF LiveAt
  <1>3. p \in 1..Len(code)
    BY <1>1, <1>2 DEF Ends
  <1>4. i \in 1..Len(code) /\ slot[i] < slot[p]
    BY DEF LiveAt
  <1>5. slot[i] \in Nat
    BY <1>4, WalkFacts
  <1>6. slot[p] \in Nat /\ slot[p] <= WordsAt(p)
    BY <1>3, SlotWord
  <1>7. WordsAt(p) \in Nat
    BY <1>3, WordSteps
  <1> QED
    BY <1>2, <1>3, <1>4, <1>5, <1>6, <1>7

LEMMA ValueWords ==
    ASSUME RunInv, DeclaredOnce, NEW n \in 1..Here, NEW i \in acts[n].live
    PROVE  /\ slot[i] \in Nat /\ acts[n].base + slot[i] \in 1..Len(stack)
           /\ acts[n].base + slot[i] < Height(n)
           /\ n # Here => acts[n].base + slot[i] \in 1..(Top.base - 1)
  <1>1. WalksDone /\ At(n) \in 1..(Len(code) + 1) /\ LiveAt(At(n), acts[n].live)
    BY DEF RunInv, PlacesRight
  <1>2. slot[i] \in Nat /\ slot[i] < WordsAt(At(n)) /\ WordsAt(At(n)) \in Nat
    BY <1>1, LiveWord
  <1>3. acts[n].base \in Nat /\ acts[n].base > 0
    <2>1. acts[n].base \in Nat /\ SavedWords + StackArgs(acts[n].label) <= acts[n].base
      BY WordsBelow
    <2>2. StackArgs(acts[n].label) \in Nat
      BY RunFacts
    <2> QED
      BY <2>1, <2>2 DEF SavedWords
  <1>4. Height(n) = acts[n].base + WordsAt(At(n))
    BY DEF RunInv, PlacesRight
  <1>5. acts[n].base + slot[i] < Height(n) /\ Height(n) \in Nat
    BY <1>2, <1>3, <1>4
  <1>6. CASE n = Here
    <2>1. Height(n) <= Len(stack) /\ Len(stack) \in Nat
      BY <1>6, TopFacts
    <2> QED
      BY <1>2, <1>3, <1>5, <1>6, <2>1
  <1>7. CASE n # Here
    <2>1. Height(n) < Top.base /\ Height(n) < Len(stack) /\ Top.base \in Nat /\ Len(stack) \in Nat
      BY <1>7, HeightBelow, TopFacts
    <2> QED
      BY <1>2, <1>3, <1>5, <2>1
  <1> QED
    BY <1>6, <1>7

LEMMA TopStep ==
    ASSUME RunInv, NEW live, TopMove(live)
    PROVE  RunInv'
  <1> USE DEF RunInv
  <1>1. WalksDone' /\ code' = code /\ slot' = slot
    BY StaticTables DEF TopMove
  <1>2. /\ Here' = Here /\ Here \in Nat /\ Here \in 1..Here
        /\ call = NoCall /\ call' = NoCall
    BY TopActs, RunFacts DEF TopMove
  <1>3. /\ \A l : Params(l)' = Params(l) /\ StackArgs(l)' = StackArgs(l)
        /\ DeclaredOnce' <=> DeclaredOnce
    BY StaticTables DEF TopMove
  <1>4. \A n \in 1..Here :
           /\ acts'[n].label = acts[n].label /\ acts'[n].base = acts[n].base
           /\ acts'[n].ret = acts[n].ret
           /\ acts'[n].live = IF n = Here THEN live ELSE acts[n].live
    BY TopActs
  <1>5. RunTyped'
    <2>1. acts' \in Seq(Activations') /\ StackWords' = StackWords
      BY TopActs, StaticTables DEF TopMove
    <2>2. stack' \in Seq(StackWords') /\ r4' \in StackWords'
      BY <2>1 DEF TopMove
    <2>3. Here' \in 1..MaxCalls
      BY <1>2 DEF RunTyped
    <2> QED
      BY <2>1, <2>2, <2>3 DEF RunTyped
  <1>6. PlacesRight'
    <2>1. ASSUME NEW n \in 1..Here
          PROVE  /\ (At(n) \in 1..(Len(code) + 1))'
                 /\ InFunction(acts[n].label, At(n))'
                 /\ (Height(n) = acts[n].base + WordsAt(At(n)))'
                 /\ LiveAt(At(n), acts[n].live)'
      <3> DEFINE p == At(n)'
                 l == acts'[n].label
                 lv == acts'[n].live
      <3>1. /\ p \in 1..(Len(code) + 1) /\ InFunction(l, p)
            /\ Height(n)' = acts'[n].base + WordsAt(p) /\ LiveAt(p, lv)
        <4>1. CASE n = Here
          <5>1. p = pc' /\ Height(n)' = Len(stack') /\ lv = live
            BY <4>1, <1>4, TopActs
          <5>2. l = Top.label /\ acts'[n].base = Top.base
            BY <4>1, <1>4 DEF Top
          <5> QED
            BY <5>1, <5>2 DEF TopMove
        <4>2. CASE n # Here
          <5>1. p = At(n) /\ Height(n)' = Height(n) /\ lv = acts[n].live
            BY <4>2, <1>4, TopActs
          <5>2. l = acts[n].label /\ acts'[n].base = acts[n].base
            BY <1>4
          <5> QED
            BY <5>1, <5>2 DEF PlacesRight
        <4> QED
          BY <4>1, <4>2
      <3> QED
        BY <1>1, <3>1, StaticTables DEF TopMove
    <2> QED
      BY <1>1, <1>2, <2>1 DEF PlacesRight
  <1>7. BasesGrow'
    BY <1>2, <1>3, <1>4 DEF BasesGrow
  <1>8. CallersWait'
    <2> SUFFICES ASSUME NEW n \in 1..Here, n # Here
                 PROVE  At(n)' \in 1..Len(code) /\ code[At(n)'].op = "eval"
      BY <1>1, <1>2 DEF CallersWait
    <2>1. At(n)' = At(n)
      BY TopActs
    <2> QED
      BY <2>1 DEF CallersWait
  <1>9. \A k \in 1..(Top.base - 1) : stack'[k] = stack[k]
    BY DEF TopMove
  <1>10. SavedRight'
    <2> SUFFICES ASSUME NEW n \in 1..Here, NEW m \in 1..(SavedWords - 1)
                 PROVE  stack'[acts[n].base - SavedWords + m] = SavedAt(n, m)
      BY <1>2, <1>4 DEF SavedRight
    <2> QED
      BY <1>9, WordsBelow DEF SavedRight
  <1>11. ArgumentsRight'
    <2> SUFFICES ASSUME NEW n \in 1..Here, NEW m \in ArgRegisters..(Params(acts[n].label) - 1)
                 PROVE  stack'[acts[n].base - SavedWords - (Params(acts[n].label) - 1 - m)] = Argument(n, m)
      BY <1>2, <1>3, <1>4 DEF ArgumentsRight
    <2> QED
      BY <1>9, WordsBelow DEF ArgumentsRight
  <1>12. PushedRight'
    BY <1>2 DEF PushedRight
  <1>13. ASSUME DeclaredOnce PROVE ValuesKept'
    <2> SUFFICES ASSUME NEW n \in 1..Here, NEW i \in acts'[n].live
                 PROVE  stack'[acts[n].base + slot[i]] = Value(n, i)
      BY <1>1, <1>2, <1>4 DEF ValuesKept
    <2>1. CASE n = Here
      BY <1>4, <1>13, <2>1 DEF TopMove, Top
    <2>2. CASE n # Here
      <3>1. i \in acts[n].live
        BY <1>4, <2>2
      <3>2. acts[n].base + slot[i] \in 1..(Top.base - 1)
        BY <1>13, <2>2, <3>1, ValueWords
      <3> QED
        BY <1>9, <1>13, <3>1, <3>2 DEF ValuesKept
    <2> QED
      BY <2>1, <2>2
  <1> QED
    BY <1>1, <1>3, <1>5, <1>6, <1>7, <1>8, <1>10, <1>11, <1>12, <1>13
-----------------------------------------------------------------------------
(* The instructions of a function, but for calls and its end.              *)

LEMMA RunningFacts ==
    ASSUME RunInv, NEW op, Running(op)
    PROVE  /\ pc \in 1..Len(code) /\ ~Ends(pc) /\ code[pc].op = op
           /\ call = NoCall /\ Pushed = 0 /\ Len(stack) = Top.base + WordsAt(pc)
  <1>1. call = NoCall /\ ~AtEnd /\ code[pc].op = op
    BY DEF Running
  <1>2. pc \in 1..(Len(code) + 1) /\ Len(code) \in Nat
    BY RunFacts
  <1>3. pc \in 1..Len(code) /\ ~Ends(pc)
    BY <1>1, <1>2 DEF AtEnd, Ends, StartsFunction, StartLabel
  <1>4. Pushed = 0
    BY <1>1, Quiet
  <1>5. Len(stack) = Top.base + WordsAt(pc)
    BY <1>4, TopFacts
  <1> QED
    BY <1>1, <1>3, <1>4, <1>5

\* The words that expressions leave in r4.
LEMMA OwnedWord ==
    ASSUME RunInv
    PROVE  /\ Owned(Here) \in StackWords /\ Junk \in StackWords /\ Clobbered \in StackWords
           /\ \A i \in 1..Len(code) : Value(Here, i) \in StackWords
  <1>1. Here \in 1..MaxCalls
    BY DEF RunInv, RunTyped
  <1> QED
    BY <1>1 DEF StackWords

LEMMA SameLive ==
    ASSUME RunInv
    PROVE  acts = [acts EXCEPT ![Here].live = Top.live]
  <1>1. acts \in Seq(Activations) /\ Here \in 1..Len(acts)
    BY RunFacts DEF RunInv, RunTyped, Here
  <1> DEFINE a == acts[Here]
             same == [acts EXCEPT ![Here] = [a EXCEPT !.live = a.live]]
  <1>2. a \in Activations
    BY <1>1
  <1>3. [a EXCEPT !.live = a.live] = a
    <2> HIDE DEF a
    <2> QED
      BY <1>2 DEF Activations
  <1>4. acts = same
    BY <1>1, <1>3
  <1>5. [acts EXCEPT ![Here].live = Top.live] = same
    BY DEF Top
  <1> QED
    BY <1>4, <1>5

\* A step that moves neither the stack nor the activations.
LEMMA StillStep ==
    ASSUME RunInv, Unmoved, call = NoCall, call' = NoCall, acts' = acts, stack' = stack,
           pc' \in 1..(Len(code) + 1), InFunction(Top.label, pc'), LiveAt(pc', Top.live),
           WordsAt(pc') = WordsAt(pc), r4' \in StackWords
    PROVE  RunInv'
  <1>1. UNCHANGED Static
    BY DEF Unmoved, Static
  <1>2. Len(stack') = Top.base + WordsAt(pc')
    BY TopFacts, Quiet
  <1>3. DeclaredOnce => \A i \in Top.live : stack'[Top.base + slot[i]] = Value(Here, i)
    BY RunFacts DEF RunInv, ValuesKept, Top
  <1>4. stack' \in Seq(StackWords)
    BY DEF RunInv, RunTyped
  <1>5. acts' = [acts EXCEPT ![Here].live = Top.live]
    BY SameLive
  <1>6. TopMove(Top.live)
    BY <1>1, <1>2, <1>3, <1>4, <1>5 DEF TopMove
  <1> QED
    BY <1>6, TopStep

LEMMA NextPlace ==
    ASSUME RunInv, pc \in 1..Len(code), ~Ends(pc), code[pc].op \notin {"pushscope", "popscope"}
    PROVE  /\ pc + 1 \in 1..(Len(code) + 1) /\ InFunction(Top.label, pc + 1)
           /\ LiveAt(pc + 1, Top.live) /\ WordsAt(pc + 1) = WordsAt(pc)
  <1>1. WalksDone /\ CodeDone /\ InFunction(Top.label, pc) /\ LiveAt(pc, Top.live)
    BY RunFacts DEF RunInv
  <1>2. pc + 1 \in 1..(Len(code) + 1)
    BY SMTT(40), RunFacts
  <1>3. InFunction(Top.label, pc + 1)
    BY <1>1, InFunctionNext
  <1>4. LiveAt(pc + 1, Top.live)
    BY <1>1, LiveInside
  <1>5. WordsAt(pc + 1) = WordsAt(pc)
    BY <1>1, WordSteps
  <1> QED
    BY <1>2, <1>3, <1>4, <1>5

LEMMA JumpPlace ==
    ASSUME RunInv, pc \in 1..Len(code), IsJump(code[pc]),
           NEW r, r = CHOOSE j \in 1..Len(code) : code[j] = Label(code[pc].dst)
    PROVE  /\ r \in 1..(Len(code) + 1) /\ InFunction(Top.label, r)
           /\ LiveAt(r, Top.live) /\ WordsAt(r) = WordsAt(pc)
  <1>1. WalksDone /\ CodeDone /\ InFunction(Top.label, pc) /\ LiveAt(pc, Top.live)
        /\ Top.label \in FrameLabels
    BY RunFacts, TopFacts DEF RunInv
  <1>2. r \in 1..Len(code) /\ code[r] = Label(code[pc].dst)
    BY <1>1, JumpTarget
  <1>3. r \in 1..(Len(code) + 1)
    BY <1>2, RunFacts
  <1>4. home[pc] = home[r] /\ home[pc] # 0 /\ dist[pc] = dist[r] /\ LiveAt(r, Top.live)
    BY <1>1, <1>2, LiveJumping
  <1>5. StartLabel(Label(Top.label))
    BY <1>1, Entries
  <1>6. InFunction(Top.label, r)
    BY <1>1, <1>2, <1>4, <1>5, InFunctionSame
  <1> QED
    BY <1>3, <1>4, <1>6 DEF WordsAt

LEMMA PlainStep ==
    ASSUME RunInv, ExecSimple
    PROVE  RunInv'
  <1>1. PICK op \in {"noop", "eval", "print", "free", "locale"} : Running(op)
    BY DEF ExecSimple
  <1>2. pc \in 1..Len(code) /\ ~Ends(pc) /\ code[pc].op = op /\ call = NoCall
    BY <1>1, RunningFacts
  <1>3. /\ pc' = pc + 1 /\ r4' = Owned(Here) /\ Unmoved
        /\ stack' = stack /\ acts' = acts /\ call' = call
    BY DEF ExecSimple, UseRegisters
  <1>4. code[pc].op \notin {"pushscope", "popscope"}
    BY <1>2
  <1>5. r4' \in StackWords
    BY <1>3, OwnedWord
  <1> QED
    BY <1>2, <1>3, <1>4, <1>5, NextPlace, StillStep

LEMMA NothingStep ==
    ASSUME RunInv, ExecNothing
    PROVE  RunInv'
  <1>1. PICK op \in {"label", "declare"} : Running(op)
    BY DEF ExecNothing
  <1>2. pc \in 1..Len(code) /\ ~Ends(pc) /\ code[pc].op = op /\ call = NoCall
    BY <1>1, RunningFacts
  <1>3. /\ pc' = pc + 1 /\ r4' = r4 /\ Unmoved
        /\ stack' = stack /\ acts' = acts /\ call' = call
    BY DEF ExecNothing
  <1>4. code[pc].op \notin {"pushscope", "popscope"}
    BY <1>2
  <1>5. r4' \in StackWords
    BY <1>3 DEF RunInv, RunTyped
  <1> QED
    BY <1>2, <1>3, <1>4, <1>5, NextPlace, StillStep

LEMMA JmpStep ==
    ASSUME RunInv, ExecJmp
    PROVE  RunInv'
  <1>1. Running("jmp")
    BY DEF ExecJmp
  <1>2. pc \in 1..Len(code) /\ ~Ends(pc) /\ code[pc].op = "jmp" /\ call = NoCall
    BY <1>1, RunningFacts
  <1>3. /\ pc' = CHOOSE j \in 1..Len(code) : code[j] = Label(code[pc].dst)
        /\ r4' = r4 /\ Unmoved /\ stack' = stack /\ acts' = acts /\ call' = call
    BY DEF ExecJmp
  <1>4. IsJump(code[pc])
    BY <1>2 DEF IsJump
  <1>5. r4' \in StackWords
    BY <1>3 DEF RunInv, RunTyped
  <1>6. /\ pc' \in 1..(Len(code) + 1) /\ InFunction(Top.label, pc')
        /\ LiveAt(pc', Top.live) /\ WordsAt(pc') = WordsAt(pc)
    BY <1>2, <1>3, <1>4, JumpPlace
  <1> QED
    BY <1>2, <1>3, <1>5, <1>6, StillStep

LEMMA JmpCondStep ==
    ASSUME RunInv, ExecJmpCond
    PROVE  RunInv'
  <1>1. Running("jmpcond")
    BY DEF ExecJmpCond
  <1>2. pc \in 1..Len(code) /\ ~Ends(pc) /\ code[pc].op = "jmpcond" /\ call = NoCall
    BY <1>1, RunningFacts
  <1>3. r4' = Owned(Here) /\ Unmoved /\ stack' = stack /\ acts' = acts /\ call' = call
    BY DEF ExecJmpCond, UseRegisters
  <1>4. IsJump(code[pc]) /\ code[pc].op \notin {"pushscope", "popscope"}
    BY <1>2 DEF IsJump
  <1>5. r4' \in StackWords
    BY <1>3, OwnedWord
  <1>6. /\ pc' \in 1..(Len(code) + 1) /\ InFunction(Top.label, pc')
        /\ LiveAt(pc', Top.live) /\ WordsAt(pc') = WordsAt(pc)
    <2>1. CASE pc' = pc + 1
      BY <1>2, <1>4, <2>1, NextPlace
    <2>2. CASE pc' = CHOOSE j \in 1..Len(code) : code[j] = Label(code[pc].dst)
      BY <1>2, <1>4, <2>2, JumpPlace
    <2> QED
      BY <2>1, <2>2 DEF ExecJmpCond
  <1> QED
    BY <1>2, <1>3, <1>5, <1>6, StillStep

\* The words of variables that a step leaves where they are.
LEMMA KeptValues ==
    ASSUME RunInv, DeclaredOnce, NEW p \in 1..(Len(code) + 1), NEW live, LiveAt(p, live),
           live \subseteq Top.live, NEW st, Len(st) = Top.base + WordsAt(p),
           \A k \in 1..Len(stack) : k <= Len(st) => st[k] = stack[k]
    PROVE  \A i \in live : st[Top.base + slot[i]] = Value(Here, i)
  <1> SUFFICES ASSUME NEW i \in live PROVE st[Top.base + slot[i]] = Value(Here, i)
    OBVIOUS
  <1>1. Here \in 1..Here /\ i \in acts[Here].live
    BY RunFacts DEF Top
  <1>2. stack[Top.base + slot[i]] = Value(Here, i) /\ Top.base + slot[i] \in 1..Len(stack)
    BY <1>1, ValueWords DEF RunInv, ValuesKept, Top
  <1>3. slot[i] \in Nat /\ slot[i] < WordsAt(p) /\ WordsAt(p) \in Nat /\ Top.base \in Nat
    BY LiveWord, TopFacts DEF RunInv
  <1>4. Top.base + slot[i] <= Len(st)
    BY <1>3
  <1> QED
    BY <1>2, <1>4

LEMMA PushedOn ==
    ASSUME NEW S, NEW st \in Seq(S), NEW w \in Nat, NEW x \in S, NEW t,
           t = st \o [k \in 1..w |-> x]
    PROVE  /\ t \in Seq(S) /\ Len(t) = Len(st) + w
           /\ \A k \in 1..Len(st) : t[k] = st[k]
  <1> DEFINE more == [k \in 1..w |-> x]
  <1>1. more \in Seq(S) /\ Len(more) = w
    OBVIOUS
  <1> HIDE DEF more
  <1>2. t = st \o more
    BY DEF more
  <1>3. st \o more \in Seq(S)
    BY <1>1
  <1>4. Len(st \o more) = Len(st) + w
    BY <1>1
  <1>5. \A k \in 1..Len(st) : (st \o more)[k] = st[k]
    BY <1>1
  <1> QED
    BY <1>2, <1>3, <1>4, <1>5

LEMMA PushScopeStep ==
    ASSUME RunInv, ExecPushScope
    PROVE  RunInv'
  <1>1. /\ Running("pushscope")
        /\ pc' = pc + 1 /\ r4' = r4 /\ Unmoved /\ acts' = acts /\ call' = call
        /\ stack' = stack \o [k \in 1..(code[pc].size \div RegWidth) |-> Junk]
    BY DEF ExecPushScope
  <1>2. /\ pc \in 1..Len(code) /\ ~Ends(pc) /\ code[pc].op = "pushscope" /\ call = NoCall
        /\ Len(stack) = Top.base + WordsAt(pc)
    BY <1>1, RunningFacts
  <1>3. WalksDone /\ CodeDone /\ InFunction(Top.label, pc) /\ LiveAt(pc, Top.live)
    BY RunFacts DEF RunInv
  <1>4. pc + 1 \in 1..(Len(code) + 1)
    BY <1>2, RunFacts
  <1>5. InFunction(Top.label, pc + 1) /\ LiveAt(pc + 1, Top.live)
    BY <1>2, <1>3, InFunctionNext, LiveEntering
  <1> DEFINE w == code[pc].size \div RegWidth
  <1>6. w \in Nat /\ WordsAt(pc + 1) = WordsAt(pc) + w /\ WordsAt(pc) \in Nat
    BY <1>2, <1>3, SizeWords, WordSteps
  <1>7. stack' = stack \o [k \in 1..w |-> Junk]
    BY <1>1
  <1> HIDE DEF w
  <1>8. stack \in Seq(StackWords) /\ Junk \in StackWords /\ Top.base \in Nat
    BY OwnedWord, TopFacts DEF RunInv, RunTyped
  <1>9. /\ stack' \in Seq(StackWords) /\ Len(stack') = Len(stack) + w
        /\ \A k \in 1..Len(stack) : stack'[k] = stack[k]
    BY <1>6, <1>7, <1>8, PushedOn
  <1>10. Len(stack') = Top.base + WordsAt(pc + 1)
    BY SMTT(40), <1>2, <1>6, <1>8, <1>9
  <1>11. DeclaredOnce => \A i \in Top.live : stack'[Top.base + slot[i]] = Value(Here, i)
    BY <1>4, <1>5, <1>9, <1>10, KeptValues
  <1>12. \A k \in 1..(Top.base - 1) : stack'[k] = stack[k]
    <2>1. \A k \in 1..(Top.base - 1) : k \in 1..Len(stack)
      BY SMTT(40), <1>2, <1>6, <1>8
    <2> QED
      BY <1>9, <2>1
  <1>13. acts' = [acts EXCEPT ![Here].live = Top.live] /\ UNCHANGED Static /\ r4' \in StackWords
    BY <1>1, SameLive DEF Unmoved, Static, RunInv, RunTyped
  <1>14. TopMove(Top.live)
    BY <1>1, <1>2, <1>4, <1>5, <1>9, <1>10, <1>11, <1>12, <1>13 DEF TopMove
  <1> QED
    BY <1>14, TopStep

LEMMA DroppedOff ==
    ASSUME NEW S, NEW st \in Seq(S), NEW w \in 0..Len(st), NEW t, t = SubSeq(st, 1, Len(st) - w)
    PROVE  /\ t \in Seq(S) /\ Len(t) = Len(st) - w
           /\ \A k \in 1..Len(t) : t[k] = st[k]
  OBVIOUS

LEMMA PopScopeStep ==
    ASSUME RunInv, ExecPopScope
    PROVE  RunInv'
  <1> DEFINE rest == {i \in Top.live : home[i] # home[pc]}
             w == code[pc].size \div RegWidth
  <1>1. /\ Running("popscope")
        /\ pc' = pc + 1 /\ r4' = r4 /\ Unmoved /\ call' = call
        /\ acts' = [acts EXCEPT ![Here].live = rest]
        /\ stack' = SubSeq(stack, 1, Len(stack) - w)
    BY DEF ExecPopScope, SetLive, DropWords
  <1>2. /\ pc \in 1..Len(code) /\ ~Ends(pc) /\ code[pc].op = "popscope" /\ call = NoCall
        /\ Len(stack) = Top.base + WordsAt(pc)
    BY <1>1, RunningFacts
  <1>3. WalksDone /\ CodeDone /\ InFunction(Top.label, pc) /\ LiveAt(pc, Top.live)
    BY RunFacts DEF RunInv
  <1>4. pc + 1 \in 1..(Len(code) + 1)
    BY <1>2, RunFacts
  <1>5. InFunction(Top.label, pc + 1) /\ LiveAt(pc + 1, rest)
    BY <1>2, <1>3, InFunctionNext, LiveLeaving
  <1>6. w \in Nat /\ WordsAt(pc) = WordsAt(pc + 1) + w /\ WordsAt(pc + 1) \in Nat
    BY <1>2, <1>3, SizeWords, WordSteps
  <1>7. rest \subseteq Top.live
    OBVIOUS
  <1> HIDE DEF w, rest
  <1>8. stack \in Seq(StackWords) /\ Top.base \in Nat /\ Len(stack) \in Nat
    BY TopFacts DEF RunInv, RunTyped
  <1>9. w \in 0..Len(stack)
    BY <1>2, <1>6, <1>8
  <1>10. /\ stack' \in Seq(StackWords) /\ Len(stack') = Len(stack) - w
         /\ \A k \in 1..Len(stack') : stack'[k] = stack[k]
    BY <1>1, <1>8, <1>9, DroppedOff
  <1>11. Len(stack') = Top.base + WordsAt(pc + 1)
    BY <1>2, <1>6, <1>8, <1>10
  <1>12. \A k \in 1..Len(stack) : k <= Len(stack') => stack'[k] = stack[k]
    BY <1>8, <1>10
  <1>13. DeclaredOnce => \A i \in rest : stack'[Top.base + slot[i]] = Value(Here, i)
    BY <1>4, <1>5, <1>7, <1>11, <1>12, KeptValues
  <1>14. \A k \in 1..(Top.base - 1) : stack'[k] = stack[k]
    BY <1>6, <1>8, <1>10, <1>11
  <1>15. UNCHANGED Static /\ r4' \in StackWords
    BY <1>1 DEF Unmoved, Static, RunInv, RunTyped
  <1>16. TopMove(rest)
    BY <1>1, <1>2, <1>4, <1>5, <1>10, <1>11, <1>13, <1>14, <1>15 DEF TopMove
  <1> QED
    BY <1>16, TopStep

LEMMA PutWord ==
    ASSUME NEW S, NEW st \in Seq(S), NEW k \in Int, NEW x \in S
    PROVE  /\ Put(st, k, x) \in Seq(S) /\ Len(Put(st, k, x)) = Len(st)
           /\ \A j \in 1..Len(st) : j # k => Put(st, k, x)[j] = st[j]
           /\ k \in 1..Len(st) => Put(st, k, x)[k] = x
  <1>1. CASE k \in 1..Len(st)
    <2>1. Put(st, k, x) = [st EXCEPT ![k] = x]
      BY <1>1 DEF Put
    <2> QED
      BY <1>1, <2>1
  <1>2. CASE k \notin 1..Len(st)
    <2>1. Put(st, k, x) = st
      BY <1>2 DEF Put
    <2> QED
      BY <1>2, <2>1
  <1> QED
    BY <1>1, <1>2

\* A variable gets its first value, in a word that no other one has.
LEMMA StoreStep ==
    ASSUME RunInv, pc \in 1..Len(code), ~Ends(pc), call = NoCall, call' = NoCall,
           code[pc].op \in {"move", "param"}, code[pc - 1].op = "declare",
           Unmoved, pc' = pc + 1, r4' \in StackWords,
           stack' = Put(stack, WordOf(slot[pc - 1]), Value(Here, pc - 1)),
           SetLive(Top.live \cup {pc - 1})
    PROVE  RunInv'
  <1> DEFINE d == pc - 1
             live == Top.live \cup {d}
             k == Top.base + slot[d]
  <1>1. WalksDone /\ CodeDone /\ InFunction(Top.label, pc) /\ LiveAt(pc, Top.live)
    BY RunFacts DEF RunInv
  <1>2. /\ d \in 1..Len(code) /\ LiveAt(pc + 1, live)
        /\ \A i \in Top.live : slot[i] < slot[d]
    BY <1>1, LiveInitialised
  <1>3. slot[d] \in Nat
    BY <1>1, <1>2, WalkFacts
  <1>4. code[pc].op \notin {"pushscope", "popscope"}
    OBVIOUS
  <1>5. pc + 1 \in 1..(Len(code) + 1) /\ InFunction(Top.label, pc + 1)
        /\ WordsAt(pc + 1) = WordsAt(pc)
    BY <1>4, NextPlace
  <1>6. Len(stack) = Top.base + WordsAt(pc) /\ Top.base \in Nat /\ WordsAt(pc) \in Nat
    BY TopFacts, Quiet
  <1>7. stack' = Put(stack, k, Value(Here, d))
    <2>1. WordOf(slot[d]) = k
      BY <1>3, <1>6 DEF WordOf, WordsAt
    <2> QED
      BY <2>1
  <1>8. k \in Nat /\ k >= Top.base
    BY SMTT(40), <1>3, <1>6
  <1>9. Value(Here, d) \in StackWords
    BY <1>2, OwnedWord
  <1> HIDE DEF k, d, live
  <1>10. stack \in Seq(StackWords) /\ k \in Int
    BY <1>8 DEF RunInv, RunTyped
  <1>11. /\ stack' \in Seq(StackWords) /\ Len(stack') = Len(stack)
         /\ \A j \in 1..Len(stack) : j # k => stack'[j] = stack[j]
         /\ k \in 1..Len(stack) => stack'[k] = Value(Here, d)
    BY <1>7, <1>9, <1>10, PutWord
  <1>12. Len(stack') = Top.base + WordsAt(pc + 1)
    BY <1>5, <1>6, <1>11
  <1>13. \A j \in 1..(Top.base - 1) : stack'[j] = stack[j]
    <2> SUFFICES ASSUME NEW j \in 1..(Top.base - 1) PROVE stack'[j] = stack[j]
      OBVIOUS
    <2>1. j \in 1..Len(stack) /\ j # k
      BY <1>6, <1>8
    <2> QED
      BY <1>11, <2>1
  <1>14. ASSUME DeclaredOnce, NEW i \in live PROVE stack'[Top.base + slot[i]] = Value(Here, i)
    <2>1. slot[i] \in Nat /\ slot[i] < WordsAt(pc + 1)
      BY <1>1, <1>2, <1>5, <1>14, LiveWord
    <2>2. CASE i = d
      <3>1. k \in 1..Len(stack)
        <4>1. k < Len(stack) /\ k >= 1
          <5>1. Top.base >= 1
            BY TopFacts DEF SavedWords
          <5> QED
            BY SMTT(40), <1>5, <1>6, <2>1, <2>2, <5>1 DEF k
        <4> QED
          BY <1>6, <1>8, <4>1
      <3> QED
        BY <1>11, <2>2, <3>1 DEF k
    <2>3. CASE i # d
      <3>1. i \in Top.live /\ Here \in 1..Here
        BY <2>3, RunFacts DEF live
      <3>2. stack[Top.base + slot[i]] = Value(Here, i) /\ Top.base + slot[i] \in 1..Len(stack)
        BY <1>14, <3>1, ValueWords DEF RunInv, ValuesKept, Top
      <3>3. Top.base + slot[i] # k
        BY SMTT(40), <1>2, <1>3, <1>6, <2>1, <3>1 DEF k
      <3> QED
        BY <1>11, <3>2, <3>3
    <2> QED
      BY <2>2, <2>3
  <1>15. UNCHANGED Static /\ acts' = [acts EXCEPT ![Here].live = live]
    BY DEF Unmoved, Static, SetLive, live, d
  <1>16. TopMove(live)
    BY <1>2, <1>5, <1>11, <1>12, <1>13, <1>14, <1>15 DEF TopMove
  <1> QED
    BY <1>16, TopStep

LEMMA InitialiseStep ==
    ASSUME RunInv, ExecInitialise
    PROVE  RunInv'
  <1>1. /\ Running("move") /\ code[pc - 1].op = "declare"
        /\ stack' = Put(stack, WordOf(slot[pc - 1]), Value(Here, pc - 1))
        /\ SetLive(Top.live \cup {pc - 1})
        /\ pc' = pc + 1 /\ r4' = Owned(Here) /\ call' = call /\ Unmoved
    BY DEF ExecInitialise, UseRegisters
  <1>2. pc \in 1..Len(code) /\ ~Ends(pc) /\ code[pc].op = "move" /\ call = NoCall
    BY <1>1, RunningFacts
  <1> QED
    BY <1>1, <1>2, OwnedWord, StoreStep

LEMMA ParamStep ==
    ASSUME RunInv, ExecParam
    PROVE  RunInv'
  <1> DEFINE l == Top.label
             n == (pc - EntryOf(l) - 3) \div 2
             id == (Params(l) - 1 - ArgRegisters) - (n - ArgRegisters)
             loaded == IF n < ArgRegisters THEN Argument(Here, n)
                       ELSE stack[Len(stack) - dist[pc] \div RegWidth - (id + SavedWords)]
  <1>1. /\ Running("param")
        /\ stack' = Put(stack, WordOf(slot[pc - 1]),
                        IF loaded = Argument(Here, n) THEN Value(Here, pc - 1) ELSE Junk)
        /\ SetLive(Top.live \cup {pc - 1})
        /\ pc' = pc + 1 /\ r4' = Owned(Here) /\ call' = call /\ Unmoved
    BY DEF ExecParam, UseRegisters
  <1>2. /\ pc \in 1..Len(code) /\ ~Ends(pc) /\ code[pc].op = "param" /\ call = NoCall
        /\ Len(stack) = Top.base + WordsAt(pc)
    BY <1>1, RunningFacts
  <1>3. WalksDone /\ InFunction(l, pc) /\ l \in FrameLabels
    BY RunFacts, TopFacts DEF RunInv
  <1>4. code[pc - 1].op = "declare" /\ n \in 0..(Params(l) - 1)
    BY <1>2, <1>3, ParamMove
  <1>5. loaded = Argument(Here, n)
    <2>1. CASE n < ArgRegisters
      BY <2>1
    <2>2. CASE ~(n < ArgRegisters)
      <3>1. Params(l) \in Nat /\ ArgRegisters \in Nat /\ Here \in 1..Here
        BY SMTT(40), RunFacts, BoundsAssumption, StackBoundsAssumption DEF Top
      <3> DEFINE b == Top.base
                 w == WordsAt(pc)
      <3>2. b \in Nat /\ w \in Nat /\ w = dist[pc] \div RegWidth /\ Len(stack) = b + w
        BY <1>2, TopFacts DEF WordsAt
      <3>3. n \in ArgRegisters..(Params(l) - 1)
        BY <1>4, <2>2, <3>1
      <3>4. stack[b - SavedWords - (Params(l) - 1 - n)] = Argument(Here, n)
        BY <3>1, <3>3 DEF RunInv, ArgumentsRight, Top
      <3> DEFINE c == Params(l)
      <3> HIDE DEF b, w, n, c
      <3>5. n \in Nat
        BY <1>4, <3>1
      <3>6. c \in Nat /\ id = (c - 1 - ArgRegisters) - (n - ArgRegisters)
        BY <3>1 DEF c
      <3>7. Len(stack) - w - (id + SavedWords) = b - SavedWords - (c - 1 - n)
        <4> HIDE DEF id
        <4> QED
          BY <3>1, <3>2, <3>5, <3>6 DEF SavedWords
      <3> QED
        BY <2>2, <3>2, <3>4, <3>7 DEF c
    <2> QED
      BY <2>1, <2>2
  <1>6. stack' = Put(stack, WordOf(slot[pc - 1]), Value(Here, pc - 1))
    BY <1>1, <1>5
  <1> QED
    BY <1>1, <1>2, <1>4, <1>6, OwnedWord, StoreStep

\* The read buffer is the word at sp, which no variable has.
LEMMA ReadStep ==
    ASSUME RunInv, ExecRead
    PROVE  RunInv'
  <1>1. Running("read") /\ pc' = pc + 1 /\ r4' = r4 /\ acts' = acts /\ call' = call /\ Unmoved
    BY DEF ExecRead
  <1>2. PICK i \in Top.live :
           stack' = Put(Put(stack, Len(stack), Junk), WordOf(slot[i]), Value(Here, i))
    BY DEF ExecRead
  <1>3. /\ pc \in 1..Len(code) /\ ~Ends(pc) /\ code[pc].op = "read" /\ call = NoCall
        /\ Len(stack) = Top.base + WordsAt(pc)
    BY <1>1, RunningFacts
  <1>4. /\ WalksDone /\ LiveAt(pc, Top.live) /\ i \in 1..Len(code)
        /\ Top.base \in Nat /\ Top.base >= 1 /\ WordsAt(pc) \in Nat /\ Len(stack) \in Nat
    <2>1. WalksDone /\ LiveAt(pc, Top.live) /\ Top.live \subseteq 1..Len(code)
      BY RunFacts, TopFacts DEF RunInv
    <2>2. Top.base \in Nat /\ Top.base >= 9 + StackArgs(Top.label) /\ StackArgs(Top.label) \in Nat
      BY TopFacts DEF SavedWords
    <2>3. Top.base >= 1
      BY <2>2
    <2> QED
      BY <2>1, <2>2, <2>3, TopFacts
  <1>5. slot[i] \in Nat
    BY <1>4, WalkFacts
  <1>6. /\ pc + 1 \in 1..(Len(code) + 1) /\ InFunction(Top.label, pc + 1)
        /\ LiveAt(pc + 1, Top.live) /\ WordsAt(pc + 1) = WordsAt(pc)
    BY <1>3, NextPlace
  <1> DEFINE k == Top.base + slot[i]
             first == Put(stack, Len(stack), Junk)
             x == Value(Here, i)
  <1>7. WordOf(slot[i]) = k
    BY <1>3, <1>4, <1>5 DEF WordOf, WordsAt
  <1>8. stack' = Put(first, k, x)
    BY <1>2, <1>7
  <1>9. k \in Int /\ k >= Top.base
    BY <1>4, <1>5
  <1>10. x \in StackWords /\ Junk \in StackWords /\ stack \in Seq(StackWords)
    BY <1>4, OwnedWord DEF RunInv, RunTyped
  <1> HIDE DEF k, first, x
  <1>11. /\ first \in Seq(StackWords) /\ Len(first) = Len(stack)
         /\ \A j \in 1..Len(stack) : j # Len(stack) => first[j] = stack[j]
    <2> DEFINE m == Len(stack)
    <2>1. m \in Int /\ first = Put(stack, m, Junk)
      BY <1>4 DEF first
    <2> HIDE DEF m
    <2>2. /\ first \in Seq(StackWords) /\ Len(first) = Len(stack)
          /\ \A j \in 1..Len(stack) : j # m => first[j] = stack[j]
      BY <1>10, <2>1, PutWord
    <2> QED
      BY <2>2 DEF m
  <1>12. /\ stack' \in Seq(StackWords) /\ Len(stack') = Len(first)
         /\ \A j \in 1..Len(first) : j # k => stack'[j] = first[j]
         /\ k \in 1..Len(first) => stack'[k] = x
    <2> DEFINE t == Put(first, k, x)
    <2>1. first \in Seq(StackWords) /\ k \in Int /\ x \in StackWords
      BY <1>9, <1>10, <1>11
    <2>2. /\ t \in Seq(StackWords) /\ Len(t) = Len(first)
          /\ \A j \in 1..Len(first) : j # k => t[j] = first[j]
          /\ k \in 1..Len(first) => t[k] = x
      BY <2>1, PutWord
    <2>3. stack' = t
      BY <1>8
    <2> HIDE DEF t
    <2> QED
      BY <2>2, <2>3
  <1>13. \A j \in 1..Len(stack) : j # k /\ j # Len(stack) => stack'[j] = stack[j]
    BY <1>11, <1>12
  <1>14. \A j \in 1..(Top.base - 1) : stack'[j] = stack[j]
    <2> SUFFICES ASSUME NEW j \in 1..(Top.base - 1) PROVE stack'[j] = stack[j]
      OBVIOUS
    <2>1. j \in 1..Len(stack) /\ j # k /\ j # Len(stack)
      BY SMTT(40), <1>3, <1>4, <1>9
    <2> QED
      BY <1>13, <2>1
  <1>15. ASSUME DeclaredOnce, NEW v \in Top.live
         PROVE  stack'[Top.base + slot[v]] = Value(Here, v)
    <2>1. slot[v] \in Nat /\ slot[v] < WordsAt(pc)
      <3>1. pc \in 1..(Len(code) + 1)
        BY RunFacts
      <3> QED
        BY <1>4, <1>15, <3>1, LiveWord
    <2>2. Top.base + slot[v] \in 1..Len(stack) /\ Top.base + slot[v] # Len(stack)
      BY SMTT(40), <1>3, <1>4, <2>1
    <2>3. CASE slot[v] = slot[i]
      <3>1. v = i
        BY <1>4, <2>3 DEF LiveAt
      <3>2. k \in 1..Len(first) /\ k = Top.base + slot[v]
        BY <1>11, <2>2, <2>3 DEF k
      <3> QED
        BY <1>12, <3>1, <3>2 DEF x
    <2>4. CASE slot[v] # slot[i]
      <3>1. Top.base + slot[v] # k
        BY <1>4, <1>5, <2>1, <2>4 DEF k
      <3>2. stack[Top.base + slot[v]] = Value(Here, v)
        BY <1>15, RunFacts DEF RunInv, ValuesKept, Top
      <3> QED
        BY <1>13, <2>2, <3>1, <3>2
    <2> QED
      BY <2>3, <2>4
  <1>16. Len(stack') = Top.base + WordsAt(pc + 1)
    BY <1>3, <1>6, <1>11, <1>12
  <1>17. acts' = [acts EXCEPT ![Here].live = Top.live] /\ UNCHANGED Static /\ r4' \in StackWords
    BY <1>1, SameLive DEF Unmoved, Static, RunInv, RunTyped
  <1>18. TopMove(Top.live)
    BY <1>1, <1>3, <1>6, <1>12, <1>14, <1>15, <1>16, <1>17 DEF TopMove
  <1> QED
    BY <1>18, TopStep

\* A return drops the words of all the scopes it stands in, and is then where
\* the function ends.
LEMMA ReturnStep ==
    ASSUME RunInv, ExecReturn
    PROVE  RunInv'
  <1>1. /\ Running("return") /\ pc' = EndOfFunction /\ r4' = Owned(Here)
        /\ acts' = [acts EXCEPT ![Here].live = {}] /\ call' = call /\ Unmoved
        /\ stack' = SubSeq(stack, 1, Len(stack) - WordsAt(pc))
    BY DEF ExecReturn, SetLive, UseRegisters, DropWords, WordsAt
  <1>2. /\ pc \in 1..Len(code) /\ ~Ends(pc) /\ call = NoCall
        /\ Len(stack) = Top.base + WordsAt(pc)
    BY <1>1, RunningFacts
  <1>3. WalksDone /\ CodeDone /\ InFunction(Top.label, pc)
    BY RunFacts DEF RunInv
  <1>4. pc' \in 1..(Len(code) + 1) /\ Ends(pc') /\ InFunction(Top.label, pc')
    BY <1>1, <1>2, <1>3, FunctionEnds
  <1>5. LiveAt(pc', {})
    BY DEF LiveAt
  <1>6. WordsAt(pc') = 0
    BY <1>3, <1>4, EndsOutside, NoWordsAtEnd
  <1>7. Top.base \in Nat /\ WordsAt(pc) \in Nat /\ stack \in Seq(StackWords) /\ Len(stack) \in Nat
    BY TopFacts DEF RunInv, RunTyped
  <1>8. WordsAt(pc) \in 0..Len(stack)
    BY <1>2, <1>7
  <1>9. /\ stack' \in Seq(StackWords) /\ Len(stack') = Len(stack) - WordsAt(pc)
        /\ \A k \in 1..Len(stack') : stack'[k] = stack[k]
    BY <1>1, <1>7, <1>8, DroppedOff
  <1>10. Len(stack') = Top.base
    BY <1>2, <1>7, <1>9
  <1>11. \A k \in 1..(Top.base - 1) : stack'[k] = stack[k]
    BY <1>7, <1>9, <1>10
  <1>12. UNCHANGED Static /\ r4' \in StackWords
    BY <1>1, OwnedWord DEF Unmoved, Static
  <1>13. TopMove({})
    BY SMTT(40), <1>1, <1>2, <1>4, <1>5, <1>6, <1>7, <1>9, <1>10, <1>11, <1>12 DEF TopMove
  <1> QED
    BY <1>13, TopStep

-----------------------------------------------------------------------------
(* Calls.                                                                  *)

CallRecords == [pending : {TRUE}, func : functions, pushed : Nat]

LEMMA CallFacts ==
    ASSUME RunInv, call # NoCall
    PROVE  /\ call \in CallRecords /\ call.func \in functions /\ call.pushed \in Nat
           /\ Pushed = call.pushed /\ call.pushed <= StackArgs(FuncLabel(call.func))
           /\ FuncLabel(call.func) \in FrameLabels
           /\ pc \in 1..Len(code) /\ code[pc].op = "eval" /\ ~Ends(pc)
           /\ Here < MaxCalls
  <1>1. /\ call \in [pending : {TRUE}, func : functions, pushed : Nat]
        /\ call.pushed <= StackArgs(FuncLabel(call.func))
        /\ pc \in 1..Len(code) /\ code[pc].op = "eval" /\ Here < MaxCalls
    BY DEF RunInv, CallersWait
  <1>2. call.func \in functions /\ call.pushed \in Nat /\ call.pending = TRUE
    BY <1>1
  <1>3. Pushed = call.pushed
    BY <1>2 DEF Pushed
  <1>4. FuncLabel(call.func) \in FrameLabels
    BY <1>2 DEF FrameLabels
  <1>5. ~Ends(pc)
    BY <1>1, RunFacts DEF Ends, StartLabel, IsLabel
  <1> QED
    BY <1>1, <1>2, <1>3, <1>4, <1>5 DEF CallRecords

\* A step in the preparation of a call only adds words above the frame.
LEMMA PreparingStep ==
    ASSUME RunInv, UNCHANGED Static, acts' = acts, pc' = pc,
           stack' \in Seq(StackWords), r4' \in StackWords,
           pc \in 1..Len(code), code[pc].op = "eval", Here < MaxCalls,
           call' \in CallRecords, call'.pushed <= StackArgs(FuncLabel(call'.func)),
           Len(stack') = Height(Here) + call'.pushed,
           \A k \in 1..Height(Here) : stack'[k] = stack[k],
           \A m \in 1..call'.pushed :
              stack'[Height(Here) + m] = Argument(Here + 1, ArgRegisters + m - 1)
    PROVE  RunInv'
  <1> USE DEF RunInv
  <1>1. WalksDone' /\ code' = code /\ slot' = slot /\ functions' = functions
    BY StaticTables
  <1>2. Here' = Here /\ Here \in Nat /\ Here \in 1..Here
    BY RunFacts DEF Here
  <1>3. /\ \A l : Params(l)' = Params(l) /\ StackArgs(l)' = StackArgs(l)
        /\ DeclaredOnce' <=> DeclaredOnce
        /\ StackWords' = StackWords /\ Activations' = Activations
    BY StaticTables
  <1>4. RunTyped'
    BY <1>2, <1>3 DEF RunTyped
  <1>5. call'.pending = TRUE /\ call'.pushed \in Nat /\ Pushed' = call'.pushed
    BY DEF CallRecords, Pushed
  <1>6. Height(Here) \in Nat /\ Top.base \in Nat /\ Top.base <= Height(Here)
    BY SMTT(40), TopFacts
  <1>7. ASSUME NEW n \in 1..Here PROVE At(n)' = At(n) /\ Height(n)' = Height(n)
    <2>1. At(n)' = At(n)
      BY <1>2 DEF At
    <2>2. Height(n)' = Height(n)
      <3>1. CASE n = Here
        <4>1. Height(n)' = Len(stack') - Pushed'
          BY <1>2, <3>1 DEF Height
        <4> QED
          BY <1>5, <1>6, <3>1, <4>1
      <3>2. CASE n # Here
        BY <1>2, <1>3, <3>2 DEF Height
      <3> QED
        BY <3>1, <3>2
    <2> QED
      BY <2>1, <2>2
  <1>8. PlacesRight'
    <2>1. ASSUME NEW n \in 1..Here
          PROVE  /\ (At(n) \in 1..(Len(code) + 1))'
                 /\ InFunction(acts[n].label, At(n))'
                 /\ (Height(n) = acts[n].base + WordsAt(At(n)))'
                 /\ LiveAt(At(n), acts[n].live)'
      <3>1. /\ At(n) \in 1..(Len(code) + 1) /\ InFunction(acts[n].label, At(n))
            /\ Height(n) = acts[n].base + WordsAt(At(n)) /\ LiveAt(At(n), acts[n].live)
        BY DEF PlacesRight
      <3> QED
        BY <1>1, <1>7, <3>1, StaticTables
    <2> QED
      BY <1>1, <1>2, <2>1 DEF PlacesRight
  <1>9. BasesGrow'
    BY <1>2, <1>3 DEF BasesGrow
  <1>10. CallersWait'
    <2>1. ASSUME NEW n \in 1..Here, n # Here
          PROVE  At(n)' \in 1..Len(code) /\ code[At(n)'].op = "eval"
      BY <1>7, <2>1 DEF CallersWait
    <2>2. call' \in [pending : {TRUE}, func : functions, pushed : Nat]
      BY DEF CallRecords
    <2> QED
      BY <1>1, <1>2, <1>3, <2>1, <2>2 DEF CallersWait
  <1>11. \A k \in 1..(Top.base - 1) : stack'[k] = stack[k]
    BY <1>6
  <1>12. SavedRight'
    <2> SUFFICES ASSUME NEW n \in 1..Here, NEW m \in 1..(SavedWords - 1)
                 PROVE  stack'[acts[n].base - SavedWords + m] = SavedAt(n, m)
      BY <1>2 DEF SavedRight
    <2> QED
      BY <1>11, WordsBelow DEF SavedRight
  <1>13. ArgumentsRight'
    <2> SUFFICES ASSUME NEW n \in 1..Here, NEW m \in ArgRegisters..(Params(acts[n].label) - 1)
                 PROVE  stack'[acts[n].base - SavedWords - (Params(acts[n].label) - 1 - m)] = Argument(n, m)
      BY <1>2, <1>3 DEF ArgumentsRight
    <2> QED
      BY <1>11, WordsBelow DEF ArgumentsRight
  <1>14. PushedRight'
    BY <1>2, <1>7 DEF PushedRight
  <1>15. ASSUME DeclaredOnce PROVE ValuesKept'
    <2> SUFFICES ASSUME NEW n \in 1..Here, NEW i \in acts[n].live
                 PROVE  stack'[acts[n].base + slot[i]] = Value(n, i)
      BY <1>1, <1>2 DEF ValuesKept
    <2>1. acts[n].base + slot[i] \in 1..Height(Here)
      <3>1. acts[n].base + slot[i] \in 1..Len(stack) /\ acts[n].base + slot[i] < Height(n)
        BY <1>15, ValueWords
      <3>2. Height(n) \in Nat /\ Height(n) <= Height(Here)
        <4>1. CASE n = Here
          BY <1>6, <4>1
        <4>2. CASE n # Here
          BY <1>6, <4>2, HeightBelow
        <4> QED
          BY <4>1, <4>2
      <3> QED
        BY <1>6, <3>1, <3>2
    <2> QED
      BY <1>15, <2>1 DEF ValuesKept
  <1> QED
    BY <1>1, <1>3, <1>4, <1>8, <1>9, <1>10, <1>12, <1>13, <1>14, <1>15

LEMMA CallBeginStep ==
    ASSUME RunInv, ExecCallBegin
    PROVE  RunInv'
  <1>1. /\ Running("eval") /\ Here < MaxCalls /\ r4' = Owned(Here)
        /\ pc' = pc /\ stack' = stack /\ acts' = acts /\ Unmoved
    BY DEF ExecCallBegin, UseRegisters
  <1>2. PICK f \in functions : call' = [pending |-> TRUE, func |-> f, pushed |-> 0]
    BY DEF ExecCallBegin
  <1>3. pc \in 1..Len(code) /\ code[pc].op = "eval" /\ Pushed = 0
    BY <1>1, RunningFacts
  <1>4. call' \in CallRecords /\ call'.pushed = 0 /\ call'.func \in functions
    BY <1>2 DEF CallRecords
  <1>5. 0 <= StackArgs(FuncLabel(call'.func))
    <2>1. FuncLabel(call'.func) \in FrameLabels
      BY <1>4 DEF FrameLabels
    <2>2. StackArgs(FuncLabel(call'.func)) \in Nat
      BY <2>1, StackArgCount DEF RunInv
    <2> QED
      BY <2>2
  <1>6. Height(Here) = Len(stack) /\ Len(stack) \in Nat
    BY <1>3, TopFacts DEF Height
  <1>7. stack' \in Seq(StackWords) /\ r4' \in StackWords /\ UNCHANGED Static
    BY <1>1, OwnedWord DEF RunInv, RunTyped, Unmoved, Static
  <1>8. Len(stack') = Height(Here) + call'.pushed
    BY <1>1, <1>4, <1>6
  <1>9. \A m \in 1..call'.pushed :
           stack'[Height(Here) + m] = Argument(Here + 1, ArgRegisters + m - 1)
    BY <1>4
  <1> QED
    BY <1>1, <1>3, <1>4, <1>5, <1>7, <1>8, <1>9, PreparingStep

LEMMA PushArgumentStep ==
    ASSUME RunInv, ExecPushArgument
    PROVE  RunInv'
  <1> DEFINE h == Height(Here)
             c == call.pushed
             x == Argument(Here + 1, ArgRegisters + c)
  <1>1. /\ call.pending /\ c < StackArgs(FuncLabel(call.func))
        /\ stack' = Append(stack, x) /\ call' = [call EXCEPT !.pushed = @ + 1]
        /\ pc' = pc /\ acts' = acts /\ r4' = r4 /\ Unmoved
    BY DEF ExecPushArgument
  <1>2. call # NoCall
    BY <1>1 DEF NoCall
  <1>3. /\ call \in CallRecords /\ c \in Nat /\ Pushed = c /\ FuncLabel(call.func) \in FrameLabels
        /\ pc \in 1..Len(code) /\ code[pc].op = "eval" /\ Here < MaxCalls
    BY <1>2, CallFacts
  <1>4. call' \in CallRecords /\ call'.pushed = c + 1 /\ call'.func = call.func
    <2>1. \A r \in CallRecords : /\ [r EXCEPT !.pushed = @ + 1] \in CallRecords
                                 /\ [r EXCEPT !.pushed = @ + 1].pushed = r.pushed + 1
                                 /\ [r EXCEPT !.pushed = @ + 1].func = r.func
      <3> TAKE r \in CallRecords
      <3> DEFINE n == r.pushed + 1
                 s == [r EXCEPT !.pushed = n]
      <3>1. r \in [pending : {TRUE}, func : functions, pushed : Nat]
        BY DEF CallRecords
      <3>2. n \in Nat
        BY <3>1
      <3> HIDE DEF n
      <3>3. s.pushed = n /\ s.func = r.func
        BY <3>1
      <3>4. s \in [pending : {TRUE}, func : functions, pushed : Nat]
        BY <3>1, <3>2
      <3> QED
        BY <3>3, <3>4 DEF n, CallRecords
    <2> QED
      BY <1>1, <1>3, <2>1
  <1>5. StackArgs(FuncLabel(call.func)) <= MaxParams - ArgRegisters
        /\ StackArgs(FuncLabel(call.func)) \in Nat
    <2>1. StackArgs(FuncLabel(call.func)) \in Nat /\ Params(FuncLabel(call.func)) \in 0..MaxParams
          /\ (StackArgs(FuncLabel(call.func)) > 0 =>
                StackArgs(FuncLabel(call.func)) = Params(FuncLabel(call.func)) - ArgRegisters)
      BY <1>3, StackArgCount, ParamCount DEF RunInv
    <2>2. StackArgs(FuncLabel(call.func)) > 0
      BY <1>1, <1>3, <2>1
    <2> QED
      BY <2>1, <2>2, BoundsAssumption, StackBoundsAssumption
  <1>6. x \in StackWords
    <2>1. Here + 1 \in 1..MaxCalls
      BY SMTT(40), <1>3, RunFacts
    <2>2. ArgRegisters + c \in 0..(MaxParams - 1)
      BY SMTT(40), <1>1, <1>3, <1>5, BoundsAssumption, StackBoundsAssumption
    <2> QED
      BY <2>1, <2>2 DEF StackWords
  <1>7. h \in Nat /\ Len(stack) = h + c /\ stack \in Seq(StackWords)
    BY SMTT(40), <1>3, TopFacts DEF RunInv, RunTyped, Height
  <1>8. c + 1 <= StackArgs(FuncLabel(call'.func))
    BY <1>1, <1>3, <1>4, <1>5
  <1>9. \A m \in 1..c : stack[h + m] = Argument(Here + 1, ArgRegisters + m - 1)
    BY <1>2 DEF RunInv, PushedRight
  <1>10. ArgRegisters + (c + 1) - 1 = ArgRegisters + c
    BY <1>3, StackBoundsAssumption
  <1>11. x = Argument(Here + 1, ArgRegisters + (c + 1) - 1)
    BY <1>10
  <1>12. r4' \in StackWords /\ UNCHANGED Static
    BY <1>1 DEF RunInv, RunTyped, Unmoved, Static
  <1> HIDE DEF h, c, x
  <1>13. /\ stack' \in Seq(StackWords) /\ Len(stack') = h + (c + 1)
         /\ \A k \in 1..(h + c) : stack'[k] = stack[k]
         /\ stack'[h + (c + 1)] = x
    BY <1>1, <1>3, <1>6, <1>7
  <1>14. ASSUME NEW m \in 1..(c + 1)
         PROVE  stack'[h + m] = Argument(Here + 1, ArgRegisters + m - 1)
    <2>1. CASE m = c + 1
      BY <1>11, <1>13, <2>1
    <2>2. CASE m # c + 1
      <3>1. m \in 1..c /\ h + m \in 1..(h + c)
        BY <1>3, <1>7, <2>2
      <3> QED
        BY <1>9, <1>13, <3>1
    <2> QED
      BY <2>1, <2>2
  <1>15. \A k \in 1..h : stack'[k] = stack[k]
    BY <1>3, <1>7, <1>13
  <1> QED
    BY <1>1, <1>3, <1>4, <1>8, <1>12, <1>13, <1>14, <1>15, PreparingStep DEF h

\* The registers that a function saves.
LEMMA RegistersSaved ==
    ASSUME r4 \in StackWords, NEW d \in 1..MaxCalls
    PROVE  /\ PushRegisters(d) \in Seq(StackWords) /\ Len(PushRegisters(d)) = SavedWords
           /\ \A m \in 1..(SavedWords - 1) : PushRegisters(d)[m] = SavedAt(d, m)
  <1>1. \A reg \in {"lr", "r11", "r10", "r9", "r8", "r7", "r6", "r5"} : Saved(reg, d) \in StackWords
    BY DEF StackWords
  <1> DEFINE W == StackWords
  <1> HIDE DEF W
  <1>2. /\ Saved("lr", d) \in W /\ Saved("r11", d) \in W /\ Saved("r10", d) \in W
        /\ Saved("r9", d) \in W /\ Saved("r8", d) \in W /\ Saved("r7", d) \in W
        /\ Saved("r6", d) \in W /\ Saved("r5", d) \in W /\ r4 \in W
    BY <1>1 DEF W
  <1>3. PushRegisters(d) \in Seq(W) /\ Len(PushRegisters(d)) = 9
    BY <1>2 DEF PushRegisters
  <1>4. \A m \in 1..8 : PushRegisters(d)[m] = SavedAt(d, m)
    BY DEF PushRegisters, SavedAt
  <1> QED
    BY <1>3, <1>4 DEF W, SavedWords

LEMMA Concatenated ==
    ASSUME NEW S, NEW s \in Seq(S), NEW t \in Seq(S)
    PROVE  /\ s \o t \in Seq(S) /\ Len(s \o t) = Len(s) + Len(t)
           /\ \A k \in 1..Len(s) : (s \o t)[k] = s[k]
           /\ \A k \in 1..Len(t) : (s \o t)[Len(s) + k] = t[k]
  OBVIOUS

\* The callee's frame goes above what the caller has pushed.
LEMMA CallStep ==
    ASSUME RunInv, ExecCall
    PROVE  RunInv'
  <1> DEFINE l == FuncLabel(call.func)
             act == [label |-> l, base |-> Len(stack) + SavedWords, ret |-> pc, live |-> {}]
             regs == PushRegisters(Here + 1)
  <1>1. /\ call.pending /\ call.pushed = StackArgs(l)
        /\ stack' = stack \o regs /\ acts' = Append(acts, act) /\ pc' = EntryOf(l) + 1
        /\ call' = NoCall /\ r4' = r4 /\ Unmoved
    BY DEF ExecCall, Enter
  <1>2. call # NoCall
    BY <1>1 DEF NoCall
  <1>3. /\ Pushed = StackArgs(l) /\ l \in FrameLabels
        /\ pc \in 1..Len(code) /\ code[pc].op = "eval" /\ ~Ends(pc) /\ Here < MaxCalls
    BY <1>1, <1>2, CallFacts
  <1>4. WalksDone /\ UNCHANGED Static
    BY <1>1 DEF RunInv, Unmoved, Static
  <1>5. WalksDone' /\ code' = code /\ slot' = slot /\ functions' = functions
    BY <1>4, StaticTables
  <1>6. /\ \A k : Params(k)' = Params(k) /\ StackArgs(k)' = StackArgs(k)
        /\ DeclaredOnce' <=> DeclaredOnce
        /\ StackWords' = StackWords /\ Activations' = Activations
    BY <1>4, StaticTables
  <1>7. /\ EntryOf(l) + 1 \in 1..Len(code) /\ InFunction(l, EntryOf(l) + 1)
        /\ WordsAt(EntryOf(l) + 1) = 0 /\ LiveAt(EntryOf(l) + 1, {})
    BY <1>3, <1>4, Entries
  <1>8. /\ Here \in Nat /\ Here \in 1..Here /\ Here + 1 \in 1..MaxCalls /\ Len(stack) \in Nat
        /\ Params(l) \in 0..MaxParams /\ StackArgs(l) \in Nat /\ MaxParams \in Nat
        /\ StackArgs(l) > 0 => StackArgs(l) = Params(l) - ArgRegisters
    BY SMTT(40), <1>3, <1>4, RunFacts, ParamCount, StackArgCount, BoundsAssumption
  <1>9. Height(Here) = Len(stack) - StackArgs(l) /\ Height(Here) \in Nat /\ Top.base \in Nat
        /\ Top.base <= Height(Here) /\ Top.base <= Len(stack) /\ Len(stack) >= StackArgs(l)
    BY SMTT(40), <1>3, <1>8, TopFacts DEF Height
  <1>10. stack \in Seq(StackWords) /\ acts \in Seq(Activations) /\ Here = Len(acts) /\ r4 \in StackWords
    BY DEF RunInv, RunTyped, Here
  <1>11. /\ regs \in Seq(StackWords) /\ Len(regs) = 9
         /\ \A m \in 1..8 : regs[m] = SavedAt(Here + 1, m)
    BY SMTT(40), <1>8, <1>10, RegistersSaved DEF SavedWords
  <1>12. act \in Activations
    BY <1>3, <1>8 DEF Activations, SavedWords
  <1>13. /\ acts' \in Seq(Activations) /\ Here' = Here + 1 /\ acts'[Here + 1] = act
         /\ \A n \in 1..Here : acts'[n] = acts[n]
    <2> HIDE DEF act
    <2> QED
      BY <1>1, <1>10, <1>12 DEF Here
  <1>14. act.label = l /\ act.base = Len(stack) + 9 /\ act.ret = pc /\ act.live = {}
    BY DEF SavedWords
  <1> HIDE DEF regs, act
  <1>15. /\ stack' \in Seq(StackWords) /\ Len(stack') = Len(stack) + 9
         /\ \A k \in 1..Len(stack) : stack'[k] = stack[k]
         /\ \A k \in 1..9 : stack'[Len(stack) + k] = regs[k]
    <2> DEFINE t == stack \o regs
    <2>1. /\ t \in Seq(StackWords) /\ Len(t) = Len(stack) + Len(regs)
          /\ \A k \in 1..Len(stack) : t[k] = stack[k]
          /\ \A k \in 1..Len(regs) : t[Len(stack) + k] = regs[k]
      <3> DEFINE W == StackWords
      <3>1. stack \in Seq(W) /\ regs \in Seq(W)
        BY <1>10, <1>11
      <3> HIDE DEF W
      <3>2. /\ t \in Seq(W) /\ Len(t) = Len(stack) + Len(regs)
            /\ \A k \in 1..Len(stack) : t[k] = stack[k]
            /\ \A k \in 1..Len(regs) : t[Len(stack) + k] = regs[k]
        BY <3>1, Concatenated
      <3> QED
        BY <3>2 DEF W
    <2>2. stack' = t
      BY <1>1
    <2> HIDE DEF t
    <2> QED
      BY <1>11, <2>1, <2>2
  <1>16. RunTyped'
    BY <1>1, <1>6, <1>8, <1>10, <1>13, <1>15 DEF RunTyped
  <1>17. ASSUME NEW n \in 1..Here PROVE At(n)' = At(n) /\ Height(n)' = Height(n)
    <2>1. n # Here + 1 /\ n \in 1..(Here + 1)
      BY <1>8
    <2>2. At(n)' = acts'[n + 1].ret
      BY <1>13, <2>1 DEF At
    <2>3. Height(n)' = acts'[n + 1].base - 9 - StackArgs(acts'[n + 1].label)
      BY <1>6, <1>13, <2>1 DEF Height, SavedWords
    <2>4. CASE n = Here
      <3>1. acts'[n + 1] = act
        BY <1>13, <2>4
      <3>2. At(n)' = At(n)
        BY <1>14, <2>2, <2>4, <3>1 DEF At
      <3>3. Height(n)' = Len(stack) + 9 - 9 - StackArgs(l)
        <4>1. acts'[n + 1].base = Len(stack) + 9 /\ acts'[n + 1].label = l
          BY <1>14, <3>1
        <4>2. StackArgs(acts'[n + 1].label) = StackArgs(l)
          BY <4>1
        <4> QED
          BY <1>8, <2>3, <4>1, <4>2
      <3> QED
        BY <1>8, <1>9, <2>4, <3>2, <3>3
    <2>5. CASE n # Here
      <3>1. n + 1 \in 1..Here /\ acts'[n + 1] = acts[n + 1]
        BY <1>8, <1>13, <2>5
      <3> QED
        BY <2>2, <2>3, <2>5, <3>1 DEF At, Height, SavedWords
    <2> QED
      BY <2>4, <2>5
  <1>18. PlacesRight'
    <2>1. ASSUME NEW n \in 1..(Here + 1)
          PROVE  /\ (At(n) \in 1..(Len(code) + 1))'
                 /\ InFunction(acts[n].label, At(n))'
                 /\ (Height(n) = acts[n].base + WordsAt(At(n)))'
                 /\ LiveAt(At(n), acts[n].live)'
      <3> DEFINE p == At(n)'
                 k == acts'[n].label
                 lv == acts'[n].live
      <3>1. /\ p \in 1..(Len(code) + 1) /\ InFunction(k, p)
            /\ Height(n)' = acts'[n].base + WordsAt(p) /\ LiveAt(p, lv)
        <4>1. CASE n = Here + 1
          <5>1. p = pc' /\ Height(n)' = Len(stack') - Pushed'
            BY <1>13, <4>1 DEF At, Height
          <5>2. Pushed' = 0
            BY <1>1 DEF Pushed, NoCall
          <5>3. k = l /\ acts'[n].base = Len(stack) + 9 /\ lv = {}
            BY <1>13, <1>14, <4>1
          <5>4. p \in 1..(Len(code) + 1) /\ InFunction(k, p) /\ LiveAt(p, lv) /\ WordsAt(p) = 0
            <6>1. EntryOf(l) + 1 \in 1..(Len(code) + 1)
              BY <1>7, RunFacts
            <6> QED
              BY <1>1, <1>7, <5>1, <5>3, <6>1
          <5> QED
            BY <1>8, <1>15, <5>1, <5>2, <5>3, <5>4
        <4>2. CASE n # Here + 1
          <5>1. n \in 1..Here
            BY <1>8, <4>2
          <5>2. p = At(n) /\ Height(n)' = Height(n) /\ acts'[n] = acts[n]
            BY <1>13, <1>17, <5>1
          <5> QED
            BY <5>1, <5>2 DEF RunInv, PlacesRight
        <4> QED
          BY <4>1, <4>2
      <3> QED
        BY <1>4, <1>5, <3>1, StaticTables
    <2> QED
      BY <1>5, <1>13, <2>1 DEF PlacesRight
  <1>19. BasesGrow'
    <2>1. ASSUME NEW n \in 1..(Here + 1)
          PROVE  acts'[n].base >= SavedWords + StackArgs(acts'[n].label)
      <3>1. CASE n = Here + 1
        BY SMTT(40), <1>8, <1>9, <1>13, <1>14, <3>1 DEF SavedWords
      <3>2. CASE n # Here + 1
        <4>1. n \in 1..Here /\ acts'[n] = acts[n]
          BY <1>8, <1>13, <3>2
        <4> QED
          BY <4>1 DEF RunInv, BasesGrow
      <3> QED
        BY <3>1, <3>2
    <2>2. ASSUME NEW n \in 1..(Here + 1), NEW k \in 1..(Here + 1), n < k
          PROVE  acts'[n].base + SavedWords <= acts'[k].base
      <3>1. n \in 1..Here /\ acts'[n] = acts[n]
        BY <1>8, <1>13, <2>2
      <3>2. CASE k = Here + 1
        <4>1. acts[n].base \in Nat /\ acts[n].base <= Top.base
          BY <3>1, WordsBelow
        <4>2. acts'[k].base = Len(stack) + 9
          BY <1>13, <1>14, <3>2
        <4>3. acts[n].base + 9 <= Len(stack) + 9
          BY SMTT(40), <1>8, <1>9, <4>1
        <4> QED
          BY <3>1, <4>2, <4>3 DEF SavedWords
      <3>3. CASE k # Here + 1
        <4>1. k \in 1..Here /\ acts'[k] = acts[k]
          BY <1>8, <1>13, <3>3
        <4> QED
          BY <2>2, <3>1, <4>1 DEF RunInv, BasesGrow
      <3> QED
        BY <3>2, <3>3
    <2> QED
      BY <1>6, <1>13, <2>1, <2>2 DEF BasesGrow
  <1>20. CallersWait'
    <2>1. ASSUME NEW n \in 1..(Here + 1), n # Here + 1
          PROVE  At(n)' \in 1..Len(code) /\ code[At(n)'].op = "eval"
      <3>1. n \in 1..Here /\ At(n)' = At(n)
        BY <1>8, <1>17, <2>1
      <3>2. CASE n = Here
        BY <1>3, <3>1, <3>2 DEF At
      <3>3. CASE n # Here
        BY <3>1, <3>3 DEF RunInv, CallersWait
      <3> QED
        BY <3>2, <3>3
    <2> QED
      BY <1>1, <1>5, <1>13, <2>1 DEF CallersWait
  <1>21. SavedRight'
    <2> SUFFICES ASSUME NEW n \in 1..(Here + 1), NEW m \in 1..(SavedWords - 1)
                 PROVE  stack'[acts'[n].base - SavedWords + m] = SavedAt(n, m)
      BY <1>13 DEF SavedRight
    <2>1. CASE n = Here + 1
      <3>1. acts'[n].base - SavedWords + m = Len(stack) + m /\ m \in 1..9 /\ m \in 1..8
        BY SMTT(40), <1>8, <1>13, <1>14, <2>1 DEF SavedWords
      <3> QED
        BY ZenonT(60), <1>11, <1>15, <2>1, <3>1
    <2>2. CASE n # Here + 1
      <3>1. n \in 1..Here /\ acts'[n] = acts[n]
        BY <1>8, <1>13, <2>2
      <3>2. acts[n].base - SavedWords + m \in 1..(Top.base - 1)
        BY <3>1, WordsBelow
      <3>3. acts[n].base - SavedWords + m \in 1..Len(stack)
        BY SMTT(40), <1>8, <1>9, <3>2
      <3> QED
        BY <1>15, <3>1, <3>3 DEF RunInv, SavedRight
    <2> QED
      BY <2>1, <2>2
  <1>22. ArgumentsRight'
    <2> SUFFICES ASSUME NEW n \in 1..(Here + 1), NEW m \in ArgRegisters..(Params(acts'[n].label) - 1)
                 PROVE  stack'[acts'[n].base - SavedWords - (Params(acts'[n].label) - 1 - m)] = Argument(n, m)
      BY <1>6, <1>13 DEF ArgumentsRight
    <2>1. CASE n = Here + 1
      <3> DEFINE c == Params(l)
                 a == StackArgs(l)
                 s == Len(stack)
      <3>1. acts'[n].label = l /\ acts'[n].base = s + 9
        BY <1>13, <1>14, <2>1
      <3>2. c \in Nat /\ a = c - ArgRegisters /\ m \in ArgRegisters..(c - 1) /\ s \in Nat /\ a \in Nat
            /\ ArgRegisters \in Nat /\ Height(Here) = s - a /\ s >= a
        BY <1>8, <1>9, <3>1, StackBoundsAssumption DEF StackArgs
      <3>3. \A j \in 1..a : stack[Height(Here) + j] = Argument(Here + 1, ArgRegisters + j - 1)
        BY <1>1, <1>2 DEF RunInv, PushedRight
      <3> HIDE DEF c, a, s
      <3>4. m + 1 - ArgRegisters \in 1..a
        BY <3>2
      <3>5. Height(Here) + (m + 1 - ArgRegisters) = (s + 9) - 9 - (c - 1 - m)
        BY <3>2
      <3>6. ArgRegisters + (m + 1 - ArgRegisters) - 1 = m
        BY <3>2
      <3>7. (s + 9) - 9 - (c - 1 - m) \in 1..s
        BY <3>2
      <3>8. stack[(s + 9) - 9 - (c - 1 - m)] = Argument(Here + 1, m)
        BY <3>3, <3>4, <3>5, <3>6
      <3> QED
        BY <1>15, <2>1, <3>1, <3>7, <3>8 DEF s, c, SavedWords
    <2>2. CASE n # Here + 1
      <3>1. n \in 1..Here /\ acts'[n] = acts[n]
        BY <1>8, <1>13, <2>2
      <3> DEFINE q == acts[n].base - SavedWords - (Params(acts[n].label) - 1 - m)
      <3>2. q \in 1..(Top.base - 1)
        BY <3>1, WordsBelow
      <3>3. q \in 1..Len(stack)
        <4> HIDE DEF q
        <4> QED
          BY SMTT(40), <1>8, <1>9, <3>2
      <3> QED
        BY <1>15, <3>1, <3>3 DEF RunInv, ArgumentsRight
    <2> QED
      BY <2>1, <2>2
  <1>23. PushedRight'
    BY <1>1 DEF PushedRight
  <1>24. ASSUME DeclaredOnce PROVE ValuesKept'
    <2> SUFFICES ASSUME NEW n \in 1..(Here + 1), NEW i \in acts'[n].live
                 PROVE  stack'[acts'[n].base + slot[i]] = Value(n, i)
      BY <1>5, <1>13 DEF ValuesKept
    <2>1. n # Here + 1
      BY <1>13, <1>14
    <2>2. n \in 1..Here /\ acts'[n] = acts[n] /\ i \in acts[n].live
      BY <1>8, <1>13, <2>1
    <2>3. acts[n].base + slot[i] \in 1..Len(stack)
      BY <1>24, <2>2, ValueWords
    <2> QED
      BY <1>15, <1>24, <2>2, <2>3 DEF RunInv, ValuesKept
  <1> QED
    BY <1>5, <1>6, <1>16, <1>18, <1>19, <1>20, <1>21, <1>22, <1>23, <1>24 DEF RunInv

\* Where a function ends, the word popped into pc is the one that was saved,
\* and the caller goes on behind its call.
LEMMA AtTheEnd ==
    ASSUME RunInv, call = NoCall, AtEnd
    PROVE  /\ Len(stack) = Top.base /\ Len(stack) >= SavedWords + StackArgs(Top.label)
           /\ stack[Len(stack) - SavedWords + 1] = Saved("lr", Here)
  <1>1. pc \in 1..(Len(code) + 1) /\ CodeDone /\ WalksDone
    BY RunFacts DEF RunInv
  <1>2. Ends(pc)
    BY DEF AtEnd, Ends, StartsFunction, StartLabel
  <1>3. WordsAt(pc) = 0
    BY <1>1, <1>2, EndsOutside, NoWordsAtEnd
  <1>4. Len(stack) = Top.base /\ Top.base \in Nat
    BY <1>3, TopFacts, Quiet
  <1>5. Len(stack) >= SavedWords + StackArgs(Top.label)
    BY <1>4, TopFacts
  <1>6. stack[acts[Here].base - SavedWords + 1] = SavedAt(Here, 1)
    <2>1. Here \in 1..Here /\ 1 \in 1..(SavedWords - 1)
      BY RunFacts DEF SavedWords
    <2> QED
      BY <2>1 DEF RunInv, SavedRight
  <1>7. SavedAt(Here, 1) = Saved("lr", Here)
    BY DEF SavedAt
  <1> QED
    BY <1>4, <1>5, <1>6, <1>7 DEF Top

\* What main leaves behind when it returns.
Exited == /\ WalksDone /\ acts = <<>> /\ call = NoCall
          /\ pc \in 1..(Len(code) + 1) /\ stack \in Seq(StackWords)

LEMMA ReturnsStep ==
    ASSUME RunInv, phase = "run", ExecEnd
    PROVE  \/ phase' = "run" /\ RunInv'
           \/ phase' = "exited" /\ Exited'
  <1> DEFINE a == StackArgs(Top.label)
             h == Len(stack) - (SavedWords + a)
  <1>1. call = NoCall /\ AtEnd /\ UNCHANGED Static
    BY DEF ExecEnd, Static
  <1>2. /\ Len(stack) = Top.base /\ Len(stack) >= SavedWords + a
        /\ stack[Len(stack) - SavedWords + 1] = Saved("lr", Here)
        /\ Len(stack) \in Nat /\ a \in Nat /\ SavedWords = 9
    BY <1>1, AtTheEnd, TopFacts DEF SavedWords
  <1>3. ~(Len(stack) < SavedWords)
    BY <1>2
  <1>4. /\ stack' = SubSeq(stack, 1, h)
        /\ r4' = IF stack[Len(stack)].kind = "register" THEN stack[Len(stack)] ELSE Clobbered
        /\ acts' = SubSeq(acts, 1, Here - 1) /\ pc' = Top.ret + 1
        /\ phase' = (IF Here = 1 THEN "exited" ELSE "run") /\ call' = call
    BY <1>2, <1>3 DEF ExecEnd, DropWords
  <1>5. WalksDone' /\ code' = code /\ slot' = slot /\ functions' = functions
    BY <1>1, StaticTables DEF RunInv
  <1>6. /\ \A l : Params(l)' = Params(l) /\ StackArgs(l)' = StackArgs(l)
        /\ DeclaredOnce' <=> DeclaredOnce
        /\ StackWords' = StackWords /\ Activations' = Activations
    BY <1>1, StaticTables
  <1>7. /\ Here \in 1..MaxCalls /\ Here \in Nat /\ Here \in 1..Here /\ Here = Len(acts)
        /\ acts \in Seq(Activations) /\ stack \in Seq(StackWords) /\ MaxCalls \in Nat
    BY RunFacts DEF RunInv, RunTyped, Here
  <1>8. Top.ret \in 0..Len(code) /\ Len(code) \in Nat
    BY <1>7, RunFacts DEF Top
  <1>9. h \in 0..Len(stack)
    BY <1>2
  <1>10. SavedWords + a \in 0..Len(stack) /\ stack' = SubSeq(stack, 1, Len(stack) - (SavedWords + a))
    BY <1>2, <1>4
  <1>11. /\ stack' \in Seq(StackWords) /\ Len(stack') = h
         /\ \A k \in 1..h : stack'[k] = stack[k]
    <2> HIDE DEF a
    <2> QED
      BY <1>7, <1>10, DroppedOff
  <1>12. Here' = Here - 1 /\ \A n \in 1..(Here - 1) : acts'[n] = acts[n]
    <2> DEFINE t == SubSeq(acts, 1, Len(acts) - 1)
    <2>1. 1 \in 0..Len(acts)
      BY <1>7
    <2>2. Len(t) = Len(acts) - 1 /\ \A n \in 1..Len(t) : t[n] = acts[n]
      BY <1>7, <2>1, DroppedOff
    <2>3. acts' = t
      BY <1>4, <1>7
    <2> HIDE DEF t
    <2>4. Len(acts') = Here - 1 /\ \A n \in 1..(Here - 1) : acts'[n] = acts[n]
      BY <1>7, <2>2, <2>3
    <2> QED
      BY <2>4 DEF Here
  <1>13. acts' \in Seq(Activations)
    BY <1>4, <1>7
  <1>14. CASE Here = 1
    <2>1. acts' = <<>>
      BY <1>4, <1>7, <1>14
    <2>2. pc' \in 1..(Len(code) + 1)
      BY <1>4, <1>8
    <2> QED
      BY <1>1, <1>4, <1>5, <1>6, <1>11, <1>14, <2>1, <2>2 DEF Exited
  <1>15. CASE Here # 1
    <2> DEFINE c == Here - 1
               p == At(c)
    <2>1. c \in 1..Here /\ c # Here /\ c + 1 = Here /\ c \in Nat /\ c \in 1..MaxCalls
      BY <1>7, <1>15
    <2>2. p = Top.ret /\ Height(c) = h
      BY <1>2, <2>1 DEF At, Height, Top
    <2>3. /\ p \in 1..Len(code) /\ code[p].op = "eval"
          /\ InFunction(acts[c].label, p) /\ LiveAt(p, acts[c].live)
          /\ Height(c) = acts[c].base + WordsAt(p)
      BY <2>1 DEF RunInv, CallersWait, PlacesRight
    <2>4. ~Ends(p) /\ code[p].op \notin {"pushscope", "popscope"} /\ WalksDone /\ CodeDone
      BY <1>8, <2>3, RunFacts DEF Ends, StartLabel, IsLabel, RunInv
    <2>5. /\ InFunction(acts[c].label, p + 1) /\ LiveAt(p + 1, acts[c].live)
          /\ WordsAt(p + 1) = WordsAt(p) /\ p + 1 \in 1..(Len(code) + 1)
      BY SMTT(40), <1>8, <2>3, <2>4, InFunctionNext, LiveInside, WordSteps
    <2> HIDE DEF c, p
    <2>6. pc' = p + 1 /\ Here' = c /\ phase' = "run" /\ call' = NoCall
      BY <1>1, <1>4, <1>12, <1>15, <2>2 DEF c
    <2>7. \A n \in 1..c : n \in 1..Here /\ n # Here /\ acts'[n] = acts[n]
      BY <1>12, <2>1
    <2>8. RunTyped'
      <3>1. r4' \in StackWords
        <4>1. stack[Len(stack)] \in StackWords
          BY <1>2, <1>7
        <4> QED
          BY <1>4, <4>1, OwnedWord
      <3> QED
        BY <1>6, <1>11, <1>13, <2>1, <2>6, <3>1 DEF RunTyped
    <2>9. ASSUME NEW n \in 1..c
          PROVE  /\ At(n)' = IF n = c THEN p + 1 ELSE At(n)
                 /\ Height(n)' = Height(n)
      <3>1. Pushed' = 0
        BY <2>6 DEF Pushed, NoCall
      <3>2. CASE n = c
        <4>1. At(n)' = p + 1 /\ Height(n)' = Len(stack') - Pushed'
          BY <2>6, <3>2 DEF At, Height
        <4>2. h \in Nat
          BY <1>9
        <4> QED
          BY <1>11, <2>2, <3>1, <3>2, <4>1, <4>2
      <3>3. CASE n # c
        <4>1. n + 1 \in 1..c /\ acts'[n + 1] = acts[n + 1]
          BY <2>1, <2>7, <3>3
        <4>2. n # Here
          BY <2>7
        <4> QED
          BY <1>6, <2>6, <3>3, <4>1, <4>2 DEF At, Height
      <3> QED
        BY <3>2, <3>3
    <2>10. PlacesRight'
      <3>1. ASSUME NEW n \in 1..c
            PROVE  /\ (At(n) \in 1..(Len(code) + 1))'
                   /\ InFunction(acts[n].label, At(n))'
                   /\ (Height(n) = acts[n].base + WordsAt(At(n)))'
                   /\ LiveAt(At(n), acts[n].live)'
        <4> DEFINE q == At(n)'
                   k == acts'[n].label
                   lv == acts'[n].live
        <4>1. /\ q \in 1..(Len(code) + 1) /\ InFunction(k, q)
              /\ Height(n)' = acts'[n].base + WordsAt(q) /\ LiveAt(q, lv)
          <5>1. Height(n)' = Height(n) /\ acts'[n] = acts[n] /\ n \in 1..Here
            BY <2>7, <2>9
          <5>2. CASE n = c
            <6>1. q = p + 1
              BY <2>9, <5>2
            <6> QED
              BY <2>3, <2>5, <5>1, <5>2, <6>1
          <5>3. CASE n # c
            <6>1. q = At(n)
              BY <2>9, <5>3
            <6> QED
              BY <5>1, <6>1 DEF RunInv, PlacesRight
          <5> QED
            BY <5>2, <5>3
        <4> QED
          BY <1>1, <1>5, <4>1, StaticTables
      <3> QED
        BY <1>5, <2>6, <3>1 DEF PlacesRight
    <2>11. BasesGrow'
      BY <1>6, <2>6, <2>7 DEF RunInv, BasesGrow
    <2>12. CallersWait'
      <3>1. ASSUME NEW n \in 1..c, n # c
            PROVE  At(n)' \in 1..Len(code) /\ code[At(n)'].op = "eval"
        <4>1. At(n)' = At(n) /\ n \in 1..Here /\ n # Here
          BY <2>7, <2>9, <3>1
        <4> QED
          BY <4>1 DEF RunInv, CallersWait
      <3> QED
        BY <1>5, <2>6, <3>1 DEF CallersWait
    <2>13. \A n \in 1..c : acts[n].base \in Nat /\ acts[n].base <= h
      <3> TAKE n \in 1..c
      <3>1. n \in 1..Here /\ n # Here /\ c \in 1..Here /\ c # Here
        BY <2>1, <2>7
      <3>2. acts[c].base \in Nat /\ acts[c].base <= Height(c)
        BY <3>1, HeightBelow
      <3>3. acts[n].base \in Nat
        BY <3>1, HeightBelow
      <3>4. CASE n = c
        BY <2>2, <3>2, <3>4
      <3>5. CASE n # c
        <4>1. acts[n].base + SavedWords <= acts[c].base
          BY <2>1, <3>1, <3>5 DEF RunInv, BasesGrow
        <4> QED
          BY SMTT(40), <1>2, <1>9, <2>2, <3>2, <3>3, <4>1
      <3> QED
        BY <3>4, <3>5
    <2>14. SavedRight'
      <3> SUFFICES ASSUME NEW n \in 1..c, NEW m \in 1..(SavedWords - 1)
                   PROVE  stack'[acts[n].base - SavedWords + m] = SavedAt(n, m)
        BY <2>6, <2>7 DEF SavedRight
      <3>1. n \in 1..Here /\ acts[n].base \in Nat /\ acts[n].base <= h
        BY <2>7, <2>13
      <3>2. acts[n].base - SavedWords + m \in 1..(Top.base - 1)
        BY <3>1, WordsBelow
      <3>3. acts[n].base - SavedWords + m \in 1..h
        <4> DEFINE q == acts[n].base - SavedWords + m
        <4>1. q = acts[n].base - 9 + m /\ m \in 1..8 /\ q >= 1
          BY <3>2 DEF SavedWords
        <4> HIDE DEF q
        <4>2. q \in 1..h
          BY SMTT(40), <1>2, <1>9, <3>1, <4>1
        <4> QED
          BY <4>2 DEF q
      <3> QED
        BY <1>11, <3>1, <3>3 DEF RunInv, SavedRight
    <2>15. ArgumentsRight'
      <3> SUFFICES ASSUME NEW n \in 1..c, NEW m \in ArgRegisters..(Params(acts[n].label) - 1)
                   PROVE  stack'[acts[n].base - SavedWords - (Params(acts[n].label) - 1 - m)] = Argument(n, m)
        BY <1>6, <2>6, <2>7 DEF ArgumentsRight
      <3>1. n \in 1..Here /\ acts[n].base \in Nat /\ acts[n].base <= h
        BY <2>7, <2>13
      <3>2. Params(acts[n].label) \in Nat
        BY SMTT(40), <3>1, RunFacts, BoundsAssumption
      <3> DEFINE j == Params(acts[n].label)
                 q == acts[n].base - SavedWords - (j - 1 - m)
      <3>3. q \in 1..(Top.base - 1)
        BY <3>1, WordsBelow
      <3>4. q \in 1..h
        <4>1. m \in Nat /\ m <= j - 1 /\ j \in Nat
          BY <3>2, StackBoundsAssumption
        <4>2. q = acts[n].base - 9 - (j - 1 - m)
          BY <1>2
        <4>3. q >= 1
          BY <3>3
        <4> HIDE DEF q, j
        <4> QED
          BY SMTT(40), <1>9, <3>1, <4>1, <4>2, <4>3
      <3> QED
        BY <1>11, <3>1, <3>4 DEF RunInv, ArgumentsRight
    <2>16. PushedRight'
      BY <2>6 DEF PushedRight
    <2>17. ASSUME DeclaredOnce PROVE ValuesKept'
      <3> SUFFICES ASSUME NEW n \in 1..c, NEW i \in acts[n].live
                   PROVE  stack'[acts[n].base + slot[i]] = Value(n, i)
        BY <1>5, <2>6, <2>7 DEF ValuesKept
      <3>1. n \in 1..Here /\ n # Here /\ acts[n].base + slot[i] \in 1..Len(stack)
            /\ acts[n].base + slot[i] < Height(n)
        BY <2>7, <2>17, ValueWords
      <3>2. Height(n) \in Nat /\ Height(n) <= h
        <4>1. CASE n = c
          BY <1>9, <2>2, <4>1
        <4>2. CASE n # c
          <5>1. n + 1 \in 1..c /\ Height(n) \in Nat /\ StackArgs(acts[n + 1].label) \in Nat
                /\ Height(n) + 9 + StackArgs(acts[n + 1].label) = acts[n + 1].base
            <6>1. n + 1 \in 1..c
              BY <2>1, <4>2
            <6> QED
              BY <1>2, <2>7, <3>1, <6>1, HeightBelow, RunFacts
          <5> QED
            BY <1>9, <2>13, <5>1
        <4> QED
          BY <4>1, <4>2
      <3>3. acts[n].base + slot[i] \in 1..h
        BY <1>9, <3>1, <3>2
      <3> QED
        BY <1>11, <2>17, <3>1, <3>3 DEF RunInv, ValuesKept
    <2>18. RunInv'
      BY <1>5, <1>6, <2>8, <2>10, <2>11, <2>12, <2>14, <2>15, <2>16, <2>17 DEF RunInv
    <2> QED
      BY <2>6, <2>18
  <1> QED
    BY <1>14, <1>15

-----------------------------------------------------------------------------
(* From the source to the start of the run.                                *)

\* Where main's frame starts, once the walks are done.
MainReady ==
    /\ EntryOf(MainLabel) + 1 \in 1..(Len(code) + 1)
    /\ InFunction(MainLabel, EntryOf(MainLabel) + 1)
    /\ WordsAt(EntryOf(MainLabel) + 1) = 0 /\ LiveAt(EntryOf(MainLabel) + 1, {})
    /\ Params(MainLabel) = 0 /\ StackArgs(MainLabel) = 0
    /\ MainLabel \in FrameLabels

LEMMA MainEntry == WalksDone => MainReady
  <1> SUFFICES ASSUME WalksDone PROVE MainReady
    OBVIOUS
  <1>1. MainLabel \in FrameLabels
    BY DEF FrameLabels
  <1>2. Len(code) \in Nat
    BY WalkFacts, DoneFacts
  <1>3. EntryOf(MainLabel) + 1 \in 1..(Len(code) + 1)
    BY <1>1, <1>2, Entries
  <1> QED
    BY <1>1, <1>3, Entries, ParamCount, StackArgCount DEF MainReady

LEMMA GenerateStep ==
    ASSUME StackInv, Generate
    PROVE  phase' = "run" /\ RunInv'
  <1> DEFINE act == [label |-> MainLabel, base |-> SavedWords, ret |-> 0, live |-> {}]
             regs == PushRegisters(1)
  <1>1. /\ phase = "generate" /\ stage = "done" /\ Idle /\ slot = [i \in 1..Len(code) |-> SlotAt(i)]
        /\ JumpInv /\ ScopeInv /\ LayoutInv /\ CodeDone
    BY DEF StackInv, Generate, CodeDone
  <1>2. /\ UNCHANGED vars /\ slot' = slot /\ r4' = r4 /\ phase' = "run"
        /\ dist' = [i \in 1..(Len(code) + 1) |-> DistanceAt[i]]
        /\ Enter(MainLabel, <<>>)
    BY DEF Generate
  <1>3. pc = 0 /\ acts = <<>> /\ r4 = Owned(0) /\ Here = 0
    BY <1>1 DEF Idle, Here
  <1>4. code' = code
    BY <1>2 DEF vars
  <1>5. WalksDone'
    <2>1. CodeDone' /\ ScopesAfter' = ScopesAfter /\ DistanceAt' = DistanceAt
      BY <1>1, <1>2, StaticTexts
    <2>2. \A i : SlotAt(i)' = SlotAt(i)
      BY <2>1 DEF SlotAt
    <2> QED
      BY <1>1, <1>2, <1>4, <2>1, <2>2 DEF WalksDone
  <1>6. MainReady'
    <2>1. WalksDone' => MainReady'
      BY MainEntry, PTL
    <2> QED
      BY <1>5, <2>1
  <1>7. 1 \in 1..MaxCalls /\ MaxCalls \in Nat
    BY StackBoundsAssumption
  <1>8. r4 \in StackWords /\ StackWords' = StackWords
    BY <1>3, <1>4 DEF StackWords
  <1>9. /\ regs \in Seq(StackWords) /\ Len(regs) = 9
        /\ \A m \in 1..8 : regs[m] = SavedAt(1, m)
    BY <1>7, <1>8, RegistersSaved DEF SavedWords
  <1>10. /\ stack' = <<>> \o regs /\ acts' = Append(acts, [label |-> MainLabel,
                base |-> Len(<<>>) + SavedWords, ret |-> 0, live |-> {}])
         /\ pc' = EntryOf(MainLabel) + 1 /\ call' = NoCall
    BY <1>2, <1>3 DEF Enter
  <1>11. stack' = regs
    <2> HIDE DEF regs
    <2> QED
      BY <1>9, <1>10
  <1>12. acts' = <<act>>
    BY <1>3, <1>10 DEF SavedWords
  <1>13. Here' = 1 /\ acts'[1] = act
    BY <1>12 DEF Here
  <1>14. /\ act.label = MainLabel /\ act.base = 9 /\ act.ret = 0 /\ act.live = {}
    BY DEF SavedWords
  <1>15. act \in Activations'
    <2>1. MainLabel \in FrameLabels' /\ Len(code') \in Nat
      <3>1. Len(code) \in Nat
        BY <1>1, DoneFacts
      <3> QED
        BY <1>4, <1>6, <3>1 DEF MainReady
    <2> QED
      BY <2>1 DEF Activations, SavedWords
  <1> HIDE DEF act, regs
  <1>16. RunTyped'
    <2>1. acts' \in Seq(Activations')
      BY <1>12, <1>15
    <2>2. stack' \in Seq(StackWords')
      BY <1>8, <1>9, <1>11
    <2> QED
      BY <1>2, <1>7, <1>8, <1>13, <2>1, <2>2 DEF RunTyped
  <1>17. EntryOf(MainLabel)' = EntryOf(MainLabel)
    BY <1>4 DEF EntryOf
  <1>18. PlacesRight'
    <2>1. pc' = EntryOf(MainLabel)'+ 1
      BY <1>10, <1>17
    <2>2. At(1)' = pc' /\ Height(1)' = Len(stack')
      <3>1. Pushed' = 0
        BY <1>10 DEF Pushed, NoCall
      <3>2. At(1)' = pc' /\ Height(1)' = Len(stack') - Pushed'
        BY <1>13 DEF At, Height
      <3>3. Len(stack') = 9
        BY <1>9, <1>11
      <3> QED
        BY <3>1, <3>2, <3>3
    <2>3. acts'[1].label = MainLabel /\ acts'[1].base = 9 /\ acts'[1].live = {} /\ Len(stack') = 9
      BY <1>9, <1>11, <1>13, <1>14
    <2>4. /\ (At(1) \in 1..(Len(code) + 1))'
          /\ InFunction(acts[1].label, At(1))'
          /\ (Height(1) = acts[1].base + WordsAt(At(1)))'
          /\ LiveAt(At(1), acts[1].live)'
      BY <1>6, <2>1, <2>2, <2>3 DEF MainReady
    <2> QED
      BY <1>13, <2>4 DEF PlacesRight
  <1>19. BasesGrow'
    <2>1. StackArgs(MainLabel)' = 0
      BY <1>6 DEF MainReady
    <2> QED
      BY <1>13, <1>14, <2>1 DEF BasesGrow, SavedWords
  <1>20. CallersWait'
    BY <1>10, <1>13 DEF CallersWait
  <1>21. SavedRight'
    BY <1>9, <1>11, <1>13, <1>14 DEF SavedRight, SavedWords
  <1>22. ArgumentsRight'
    <2>1. Params(MainLabel)' = 0
      BY <1>6 DEF MainReady
    <2> QED
      BY <1>13, <1>14, <2>1, StackBoundsAssumption DEF ArgumentsRight
  <1>23. PushedRight'
    BY <1>10 DEF PushedRight
  <1>24. ValuesKept'
    BY <1>13, <1>14 DEF ValuesKept
  <1> QED
    BY <1>2, <1>5, <1>16, <1>18, <1>19, <1>20, <1>21, <1>22, <1>23, <1>24 DEF RunInv

LEMMA TokenSteps ==
    ASSUME NEW t \in Tokens, TranslateToken(t)
    PROVE  Next /\ (t.op = "endmain" => EndMain)
  <1>1. /\ t.op = "func" => t.func \in Funcs /\ t.params \in ParamLists
        /\ t.op = "decl" => t.var \in Names
    BY ProgramsAssumption
  <1>2. "endmain" \notin StmtKinds
    BY StmtKindsAssumption
  <1>3. t.op = "endmain" => EndMain
    BY <1>2 DEF TranslateToken
  <1>4. Next
    BY <1>1 DEF TranslateToken, Next
  <1> QED
    BY <1>3, <1>4

LEMMA TranslateStep ==
    ASSUME StackInv, Translate
    PROVE  StackInv'
  <1>1. /\ phase = "translate" /\ source # <<>> /\ TranslateToken(Head(source))
        /\ source' = Tail(source) /\ phase' = (IF source' = <<>> THEN "allocate" ELSE "translate")
        /\ UNCHANGED <<slot, dist, machine>>
    BY DEF Translate
  <1>2. /\ source \in Seq(Tokens) /\ source[Len(source)].op = "endmain"
        /\ Idle /\ slot = <<>> /\ dist = <<>> /\ JumpInv /\ ScopeInv /\ LayoutInv
    BY <1>1 DEF StackInv
  <1>3. Head(source) \in Tokens /\ Len(source) \in Nat /\ Len(source) > 0
    BY <1>1, <1>2
  <1>4. Next /\ (Head(source).op = "endmain" => EndMain)
    BY <1>1, <1>3, TokenSteps
  <1>5. JumpInv' /\ ScopeInv' /\ LayoutInv'
    BY <1>2, <1>4, NextJumps, NextScopes, NextLayout
  <1>6. Idle' /\ slot' = <<>> /\ dist' = <<>>
    BY <1>1, <1>2 DEF Idle, machine
  <1>7. CASE source' = <<>>
    <2>1. Len(source) = 1
      <3>1. Len(Tail(source)) = Len(source) - 1
        BY <1>1, <1>2
      <3>2. Len(Tail(source)) = 0
        <4>1. Tail(source) = <<>>
          BY <1>1, <1>7
        <4>2. Len(<<>>) = 0
          OBVIOUS
        <4> QED
          BY <4>1, <4>2
      <3> QED
        BY <1>3, <3>1, <3>2
    <2>2. Head(source) = source[Len(source)]
      BY <1>2, <2>1
    <2>3. stage' = "done"
      BY <1>2, <1>4, <2>2 DEF EndMain
    <2> QED
      BY <1>1, <1>5, <1>6, <1>7, <2>3 DEF StackInv
  <1>8. CASE source' # <<>>
    <2>1. source' \in Seq(Tokens) /\ Len(source') = Len(source) - 1 /\ Len(source') > 0
      BY <1>1, <1>2, <1>3, <1>8
    <2>2. source'[Len(source')] = source[Len(source)]
      BY <1>1, <1>2, <1>3, <2>1
    <2> QED
      BY <1>1, <1>2, <1>5, <1>6, <1>8, <2>1, <2>2 DEF StackInv
  <1> QED
    BY <1>7, <1>8

LEMMA AllocateStep ==
    ASSUME StackInv, Allocate
    PROVE  StackInv'
  <1>1. /\ phase = "allocate" /\ phase' = "generate" /\ UNCHANGED vars
        /\ slot' = [i \in 1..Len(code) |-> SlotAt(i)]
        /\ source' = source /\ dist' = dist /\ UNCHANGED machine
    BY DEF Allocate, SlotAt
  <1>2. stage = "done" /\ Idle /\ dist = <<>> /\ JumpInv /\ ScopeInv /\ LayoutInv
    BY <1>1 DEF StackInv
  <1>3. JumpInv' /\ ScopeInv' /\ LayoutInv' /\ \A i : SlotAt(i)' = SlotAt(i)
    BY <1>1, <1>2, StaticTexts DEF SlotAt
  <1>4. stage' = "done" /\ code' = code
    BY <1>1, <1>2 DEF vars
  <1>5. Idle' /\ dist' = <<>>
    BY <1>1, <1>2 DEF Idle, machine
  <1>6. slot' = [i \in 1..Len(code') |-> SlotAt(i)']
    BY <1>1, <1>3, <1>4
  <1> QED
    BY <1>1, <1>3, <1>4, <1>5, <1>6 DEF StackInv

\* The instructions other than the end of a function, together.
Exec ==
    \/ ExecSimple \/ ExecNothing \/ ExecJmp \/ ExecJmpCond
    \/ ExecPushScope \/ ExecPopScope \/ ExecInitialise \/ ExecParam \/ ExecRead
    \/ ExecCallBegin \/ ExecPushArgument \/ ExecCall \/ ExecReturn

LEMMA ExecStep ==
    ASSUME StackInv, Exec
    PROVE  StackInv'
  <1>1. phase = "run" /\ UNCHANGED vars /\ phase' = phase
    BY DEF Exec, ExecSimple, ExecNothing, ExecJmp, ExecJmpCond, ExecPushScope, ExecPopScope,
           ExecInitialise, ExecParam, ExecRead, ExecCallBegin, ExecPushArgument, ExecCall,
           ExecReturn, Running, Unmoved
  <1>2. RunInv /\ JumpInv /\ ScopeInv /\ LayoutInv /\ stage = "done"
    BY <1>1 DEF StackInv
  <1>3. RunInv'
    BY <1>2, PlainStep, NothingStep, JmpStep, JmpCondStep, PushScopeStep, PopScopeStep,
       InitialiseStep, ParamStep, ReadStep, CallBeginStep, PushArgumentStep, CallStep,
       ReturnStep DEF Exec
  <1>4. JumpInv' /\ ScopeInv' /\ LayoutInv'
    BY <1>1, <1>2, StaticTexts
  <1>5. stage' = "done"
    BY <1>1, <1>2 DEF vars
  <1> QED
    BY SMTT(40), <1>1, <1>3, <1>4, <1>5 DEF StackInv

LEMMA LastStep ==
    ASSUME StackInv, ExecEnd
    PROVE  StackInv'
  <1>1. phase = "run" /\ UNCHANGED vars
    BY DEF ExecEnd
  <1>2. RunInv /\ JumpInv /\ ScopeInv /\ LayoutInv /\ stage = "done"
    BY <1>1 DEF StackInv
  <1>3. JumpInv' /\ ScopeInv' /\ LayoutInv'
    BY <1>1, <1>2, StaticTexts
  <1>4. stage' = "done"
    BY <1>1, <1>2 DEF vars
  <1>5. \/ phase' = "run" /\ RunInv'
        \/ phase' = "exited" /\ Exited'
    BY <1>1, <1>2, ReturnsStep
  <1> QED
    BY <1>3, <1>4, <1>5 DEF StackInv, Exited

LEMMA StayRun ==
    ASSUME RunInv, UNCHANGED svars
    PROVE  RunInv'
  <1>1. Unmoved /\ UNCHANGED Static /\ stack' = stack /\ acts' = acts /\ pc' = pc
        /\ call' = call /\ r4' = r4
    BY DEF svars, machine, Unmoved, Static
  <1>2. stack' \in Seq(StackWords) /\ r4' \in StackWords
    BY <1>1 DEF RunInv, RunTyped
  <1>3. CASE call = NoCall
    BY <1>1, <1>2, <1>3, RunFacts, StillStep
  <1>4. CASE call # NoCall
    <2>1. /\ call \in CallRecords /\ Pushed = call.pushed
          /\ call.pushed <= StackArgs(FuncLabel(call.func))
          /\ pc \in 1..Len(code) /\ code[pc].op = "eval" /\ Here < MaxCalls
      BY <1>4, CallFacts
    <2>2. Len(stack) = Height(Here) + call.pushed
      BY <2>1, TopFacts
    <2>3. \A m \in 1..call.pushed : stack[Height(Here) + m] = Argument(Here + 1, ArgRegisters + m - 1)
      BY <1>4 DEF RunInv, PushedRight
    <2> QED
      BY <1>1, <1>2, <2>1, <2>2, <2>3, PreparingStep
  <1> QED
    BY <1>3, <1>4

LEMMA StayStack ==
    ASSUME StackInv, UNCHANGED svars
    PROVE  StackInv'
  <1>1. /\ UNCHANGED vars /\ phase' = phase /\ source' = source /\ slot' = slot /\ dist' = dist
        /\ UNCHANGED machine /\ UNCHANGED Static
    BY DEF svars, Static
  <1>2. code' = code /\ stage' = stage
    BY <1>1 DEF vars
  <1>3. JumpInv' /\ ScopeInv' /\ LayoutInv' /\ \A i : SlotAt(i)' = SlotAt(i)
    BY <1>1, StaticTexts DEF SlotAt, StackInv
  <1>4. Idle => Idle'
    BY <1>1 DEF Idle, machine
  <1>5. RunInv => RunInv'
    BY StayRun
  <1>6. Exited => Exited'
    <2>1. StackWords' = StackWords /\ (WalksDone => WalksDone')
      BY <1>1, StaticTables
    <2> QED
      BY <1>1, <1>2, <2>1 DEF Exited, machine
  <1> QED
    BY <1>1, <1>2, <1>3, <1>4, <1>5, <1>6 DEF StackInv, Exited

LEMMA StackInitial == StackInit => StackInv
  <1> SUFFICES ASSUME StackInit PROVE StackInv
    OBVIOUS
  <1>1. JumpInv /\ ScopeInv /\ LayoutInv
    BY InitJumps, InitScopes, InitLayout DEF StackInit
  <1>2. source \in Seq(Tokens) /\ source # <<>> /\ source[Len(source)].op = "endmain"
    BY ProgramsAssumption DEF StackInit
  <1>3. phase = "translate" /\ Idle /\ slot = <<>> /\ dist = <<>>
    BY DEF StackInit, Idle
  <1> QED
    BY <1>1, <1>2, <1>3 DEF StackInv

LEMMA StackNextStep == StackInv /\ [StackNext]_svars => StackInv'
  <1> SUFFICES ASSUME StackInv, [StackNext]_svars PROVE StackInv'
    OBVIOUS
  <1>1. CASE Translate
    BY <1>1, TranslateStep
  <1>2. CASE Allocate
    BY <1>2, AllocateStep
  <1>3. CASE Generate
    <2>1. phase' = "run" /\ RunInv' /\ UNCHANGED vars /\ phase = "generate"
      BY <1>3, GenerateStep DEF Generate
    <2>2. JumpInv' /\ ScopeInv' /\ LayoutInv'
      BY <2>1, StaticTexts DEF StackInv
    <2>3. stage' = "done"
      BY <2>1 DEF StackInv, vars
    <2> QED
      BY <2>1, <2>2, <2>3 DEF StackInv
  <1>4. CASE Exec
    BY <1>4, ExecStep
  <1>5. CASE ExecEnd
    BY <1>5, LastStep
  <1>6. CASE UNCHANGED svars
    BY <1>6, StayStack
  <1> QED
    BY <1>1, <1>2, <1>3, <1>4, <1>5, <1>6 DEF StackNext, Exec, Finished

-----------------------------------------------------------------------------
(* What follows for a run.                                                 *)

\* The walks over the text and the run agree, whatever program was compiled:
\* StackInv is the inductive invariant of the whole pipeline from the first
\* token to the return of main.
THEOREM StackInvariant == StackSpec => []StackInv
  BY StackInitial, StackNextStep, PTL DEF StackSpec

LEMMA TypesHold == StackInv => StackTypeOK
  <1> SUFFICES ASSUME StackInv PROVE StackTypeOK
    OBVIOUS
  <1>1. phase \in {"translate", "allocate", "generate", "run", "exited"} /\ JumpInv
    BY DEF StackInv
  <1>2. Len(code) \in Nat /\ MaxCalls \in Nat
    BY <1>1, StackBoundsAssumption DEF JumpInv, TypeOK
  <1>3. CASE phase \in {"translate", "allocate", "generate"}
    <2>1. Idle /\ dist = <<>>
      BY <1>3 DEF StackInv
    <2>2. slot \in Seq(Nat)
      <3>1. CASE phase # "generate"
        <4>1. slot = <<>> /\ <<>> \in Seq(Nat)
          BY <1>3, <3>1 DEF StackInv
        <4> QED
          BY <4>1
      <3>2. CASE phase = "generate"
        <4>1. CodeDone /\ slot = [i \in 1..Len(code) |-> SlotAt(i)]
          BY <3>2 DEF StackInv, CodeDone
        <4>2. \A i \in 1..Len(code) : SlotAt(i) \in Nat
          BY <4>1, SlotSteps
        <4> QED
          BY <1>2, <4>1, <4>2
      <3> QED
        BY <3>1, <3>2
    <2>3. Len(<<>>) = 0 /\ <<>> \in Seq(Nat)
      OBVIOUS
    <2> QED
      BY <1>1, <1>2, <2>1, <2>2, <2>3 DEF Idle, StackTypeOK, Here
  <1>4. CASE phase = "exited"
    <2>1. Exited
      BY <1>4 DEF StackInv, Exited
    <2>2. slot \in Seq(Nat) /\ dist \in Seq(Nat)
      BY <2>1, WalkFacts DEF Exited
    <2>3. Here = 0
      BY <2>1 DEF Exited, Here
    <2>4. \A k \in 1..Len(stack) : stack[k] \in StackWords
      BY <2>1 DEF Exited
    <2> QED
      BY <1>1, <1>2, <2>1, <2>2, <2>3, <2>4 DEF Exited, StackTypeOK
  <1>5. CASE phase = "run"
    <2>1. RunInv
      BY <1>5 DEF StackInv
    <2>2. slot \in Seq(Nat) /\ dist \in Seq(Nat) /\ pc \in 0..(Len(code) + 1)
      BY <1>2, <2>1, WalkFacts, RunFacts DEF RunInv
    <2>3. \A k \in 1..Len(stack) : stack[k] \in StackWords
      BY <2>1 DEF RunInv, RunTyped
    <2>4. Here <= MaxCalls
      BY <2>1, RunFacts
    <2>5. ASSUME NEW n \in 1..Here
          PROVE  acts[n].base <= Len(stack) /\ acts[n].live \subseteq 1..Len(code)
      <3>1. acts[n].base \in Nat /\ acts[n].base <= Top.base
        BY <2>1, WordsBelow
      <3>2. Top.base \in Nat /\ Top.base <= Len(stack) /\ Len(stack) \in Nat
        BY <2>1, TopFacts
      <3>3. acts[n].live \subseteq 1..Len(code)
        BY <2>1, RunFacts
      <3> QED
        BY <3>1, <3>2, <3>3
    <2>6. call = NoCall \/ (call.func \in functions /\ call.pushed \in 0..MaxParams)
      <3> SUFFICES ASSUME call # NoCall
                   PROVE  call.func \in functions /\ call.pushed \in 0..MaxParams
        OBVIOUS
      <3> DEFINE l == FuncLabel(call.func)
      <3>1. /\ call.func \in functions /\ call.pushed \in Nat /\ l \in FrameLabels
            /\ call.pushed <= StackArgs(l)
        BY <2>1, CallFacts
      <3>2. StackArgs(l) \in Nat /\ StackArgs(l) <= Params(l) /\ Params(l) \in 0..MaxParams
        BY <2>1, <3>1, StackArgCount, ParamCount DEF RunInv
      <3> QED
        BY <3>1, <3>2, BoundsAssumption
    <2> QED
      BY <1>1, <2>2, <2>3, <2>4, <2>5, <2>6 DEF StackTypeOK
  <1> QED
    BY <1>1, <1>3, <1>4, <1>5

\* Type correctness: the generator's distances are never negative, every word
\* of the stack is one of those named, and no frame starts above sp.
THEOREM StackTypes == StackSpec => []StackTypeOK
  BY StackInvariant, TypesHold, PTL

LEMMA DistancesHold == StackInv => DistanceIsStatic
  <1> SUFFICES ASSUME StackInv, phase = "run"
               PROVE  Len(stack) - Top.base =
                        IF AtEnd THEN 0
                        ELSE dist[pc] \div RegWidth + (IF call.pending THEN call.pushed ELSE 0)
    BY DEF DistanceIsStatic
  <1>1. RunInv
    BY DEF StackInv
  <1>2. /\ Len(stack) = Top.base + WordsAt(pc) + Pushed
        /\ Top.base \in Nat /\ WordsAt(pc) \in Nat /\ Pushed \in Nat
    BY <1>1, TopFacts
  <1>3. CASE AtEnd
    <2>1. call = NoCall
      <3> SUFFICES ASSUME call # NoCall PROVE FALSE
        OBVIOUS
      <3>1. pc \in 1..Len(code) /\ ~Ends(pc) /\ Len(code) \in Nat
        BY <1>1, CallFacts, RunFacts
      <3> QED
        BY <1>3, <3>1 DEF AtEnd, Ends, StartsFunction, StartLabel
    <2>2. Len(stack) = Top.base
      BY <1>1, <1>3, <2>1, AtTheEnd
    <2> QED
      BY SMTT(40), <1>2, <1>3, <2>2
  <1>4. CASE ~AtEnd
    <2>1. WordsAt(pc) = dist[pc] \div RegWidth
      BY DEF WordsAt
    <2>2. Pushed = IF call.pending THEN call.pushed ELSE 0
      BY DEF Pushed
    <2>3. Len(stack) - Top.base = WordsAt(pc) + Pushed
      BY <1>2
    <2> QED
      BY <1>4, <2>1, <2>2, <2>3
  <1> QED
    BY <1>3, <1>4

\* The stackDistance that GenerateCode counts along the text is the distance
\* of sp from the frame at run time: after any jumps, inside any scope, while
\* arguments are pushed, and at the end of a function whether its last scope
\* was left or returned from.
THEOREM DistancesAreStatic == StackSpec => []DistanceIsStatic
  BY StackInvariant, DistancesHold, PTL

LEMMA Sliced ==
    ASSUME NEW S, NEW st \in Seq(S), NEW lo \in 1..Len(st), NEW n \in Nat, lo + n - 1 <= Len(st)
    PROVE  SubSeq(st, lo, lo + n - 1) = [m \in 1..n |-> st[lo + m - 1]]
  <1> DEFINE s == SubSeq(st, lo, lo + n - 1)
             f == [m \in 1..n |-> st[lo + m - 1]]
  <1>1. Len(st) \in Nat /\ lo \in Nat
    OBVIOUS
  <1>2. Len(s) = n /\ s \in Seq(S)
    BY <1>1
  <1>3. \A m \in 1..n : s[m] = st[lo + m - 1]
    BY <1>1
  <1>4. DOMAIN s = 1..n /\ s = [m \in DOMAIN s |-> s[m]]
    BY <1>2
  <1> HIDE DEF s
  <1>5. s = f
    BY <1>3, <1>4
  <1> QED
    BY <1>5 DEF s

LEMMA EightBelow ==
    ASSUME NEW b \in Nat, NEW n \in Nat, b >= 9, b <= n
    PROVE  /\ b - 8 \in 1..n
           /\ (b - 8) + 8 - 1 <= n
           /\ (b - 8) + 8 - 1 = b - 1
           /\ \A m \in 1..8 : (b - 8) + m - 1 = b - 9 + m
  OBVIOUS

LEMMA SameEight ==
    ASSUME NEW S, NEW st \in Seq(S), NEW regs \in Seq(S), Len(regs) = 9,
           NEW b \in Nat, b >= 9, b <= Len(st),
           \A m \in 1..8 : st[b - 9 + m] = regs[m]
    PROVE  SubSeq(st, b - 8, b - 1) = SubSeq(regs, 1, 8)
  <1> DEFINE lo == b - 8
             n == Len(st)
  <1>0. n \in Nat
    OBVIOUS
  <1> HIDE DEF n
  <1>1. /\ lo \in 1..n
        /\ lo + 8 - 1 <= n
        /\ lo + 8 - 1 = b - 1
        /\ \A m \in 1..8 : lo + m - 1 = b - 9 + m
    <2>1. b <= n
      BY DEF n
    <2> QED
      BY <1>0, <2>1, EightBelow
  <1> HIDE DEF lo
  <1>2. \A m \in 1..8 : 1 + m - 1 = m
    OBVIOUS
  <1>3. SubSeq(regs, 1, 1 + 8 - 1) = [m \in 1..8 |-> regs[1 + m - 1]]
    <2>1. 1 \in 1..Len(regs) /\ 8 \in Nat /\ 1 + 8 - 1 <= Len(regs)
      OBVIOUS
    <2> QED
      BY <2>1, Sliced
  <1>4. SubSeq(st, lo, lo + 8 - 1) = [m \in 1..8 |-> st[lo + m - 1]]
    BY <1>1, Sliced DEF n
  <1>5. ASSUME NEW m \in 1..8
        PROVE  st[lo + m - 1] = regs[1 + m - 1]
    <2>1. lo + m - 1 = b - 9 + m /\ 1 + m - 1 = m
      BY <1>1, <1>2
    <2>2. st[b - 9 + m] = regs[m]
      OBVIOUS
    <2> QED
      BY <2>1, <2>2, Zenon
  <1>6. SubSeq(st, lo, lo + 8 - 1) = SubSeq(regs, 1, 1 + 8 - 1)
    BY <1>3, <1>4, <1>5, Zenon
  <1>7. 1 + 8 - 1 = 8
    OBVIOUS
  <1> QED
    BY <1>1, <1>6, <1>7, Zenon DEF lo

LEMMA SavedHold == StackInv => SavedWordsIntact
  <1> SUFFICES ASSUME StackInv, phase = "run", NEW d \in 1..Here
               PROVE  SubSeq(stack, acts[d].base - SavedWords + 1, acts[d].base - 1)
                        = SubSeq(PushRegisters(d), 1, SavedWords - 1)
    BY DEF SavedWordsIntact
  <1>1. RunInv
    BY DEF StackInv
  <1>2. d \in 1..MaxCalls /\ r4 \in StackWords
    BY <1>1, RunFacts DEF RunInv, RunTyped
  <1> DEFINE regs == PushRegisters(d)
             b == acts[d].base
  <1>3. Len(regs) = 9 /\ regs \in Seq(StackWords) /\ \A m \in 1..8 : regs[m] = SavedAt(d, m)
    BY <1>2, RegistersSaved DEF SavedWords
  <1>4. \A m \in 1..8 : stack[b - 9 + m] = SavedAt(d, m)
    BY <1>1 DEF RunInv, SavedRight, SavedWords
  <1>5. b \in Nat /\ b >= 9 /\ b <= Len(stack) /\ stack \in Seq(StackWords) /\ Len(stack) \in Nat
    <2>1. /\ b \in Nat /\ b <= Top.base /\ SavedWords + StackArgs(acts[d].label) <= b
          /\ StackArgs(acts[d].label) \in Nat
      BY <1>1, WordsBelow, RunFacts
    <2>2. Top.base <= Len(stack) /\ Top.base \in Nat /\ Len(stack) \in Nat
      BY <1>1, TopFacts
    <2>3. stack \in Seq(StackWords)
      BY <1>1 DEF RunInv, RunTyped
    <2> QED
      BY <2>1, <2>2, <2>3 DEF SavedWords
  <1> HIDE DEF regs, b
  <1>6. SubSeq(stack, b - 8, b - 1) = SubSeq(regs, 1, 8)
    <2>1. \A m \in 1..8 : stack[b - 9 + m] = regs[m]
      BY <1>3, <1>4
    <2> QED
      BY <1>3, <1>5, <2>1, SameEight
  <1>7. b - SavedWords + 1 = b - 8 /\ SavedWords - 1 = 8
    BY <1>5 DEF SavedWords
  <1> QED
    BY <1>6, <1>7 DEF regs, b

\* Every activation's saved return address and registers r5 to r11 stay where
\* its epilogue will pop them, under anything its callees do.
THEOREM SavedWordsStay == StackSpec => []SavedWordsIntact
  BY StackInvariant, SavedHold, PTL

LEMMA NoCrash == StackInv => NeverCrashes
  BY DEF StackInv, NeverCrashes

\* No function returns to anything but its caller.
THEOREM ReturnsReachCallers == StackSpec => []NeverCrashes
  BY StackInvariant, NoCrash, PTL

LEMMA ValuesHold == StackInv => (DeclaredOnce => VariablesKeepValues)
  <1> SUFFICES ASSUME StackInv, DeclaredOnce, phase = "run",
                      NEW d \in 1..Here, NEW i \in acts[d].live
               PROVE  /\ acts[d].base + slot[i] <= Len(stack)
                      /\ stack[acts[d].base + slot[i]] = Value(d, i)
    BY DEF VariablesKeepValues
  <1>1. RunInv
    BY DEF StackInv
  <1>2. acts[d].base + slot[i] \in 1..Len(stack) /\ Len(stack) \in Nat
    BY <1>1, ValueWords, RunFacts
  <1>3. stack[acts[d].base + slot[i]] = Value(d, i)
    BY <1>1 DEF RunInv, ValuesKept
  <1> QED
    BY <1>2, <1>3

LEMMA StackMaps == StackInv /\ [StackNext]_svars => [Next]_vars
  <1> SUFFICES ASSUME StackInv, [StackNext]_svars PROVE [Next]_vars
    OBVIOUS
  <1>1. CASE Translate
    <2>1. source \in Seq(Tokens) /\ source # <<>> /\ TranslateToken(Head(source))
      BY <1>1 DEF StackInv, Translate
    <2>2. Head(source) \in Tokens
      BY <2>1
    <2> QED
      BY <2>1, <2>2, TokenSteps
  <1>2. CASE Allocate \/ Generate \/ ExecEnd
    BY <1>2 DEF Allocate, Generate, ExecEnd
  <1>3. CASE Exec
    BY <1>3 DEF Exec, ExecSimple, ExecNothing, ExecJmp, ExecJmpCond, ExecPushScope, ExecPopScope,
           ExecInitialise, ExecParam, ExecRead, ExecCallBegin, ExecPushArgument, ExecCall,
           ExecReturn, Unmoved
  <1>4. CASE UNCHANGED svars
    BY <1>4 DEF svars
  <1> QED
    BY <1>1, <1>2, <1>3, <1>4 DEF StackNext, Exec, Finished

\* Compiling a source program token by token is a behaviour of Translator, and
\* the later passes and the run leave what it built alone: what is proved of
\* every program there holds of the programs that are run here.
THEOREM StackTranslates == StackSpec => Spec
  <1>1. StackInit => Init
    BY DEF StackInit
  <1> QED
    BY <1>1, StackMaps, StackInvariant, PTL DEF StackSpec, Spec

\* No parameter shares its name with another declaration of the function's
\* outermost scope, be it a parameter or one of the body.
ParamsApart ==
    \A i, j \in 1..Len(code) :
        /\ Declares(i) /\ Declares(j) /\ code[i].var = code[j].var
        /\ home[i] = home[j] /\ code[i + 1] = Simple("param")
        => i = j

LEMMA ApartOnce == ParamsApart /\ RepeatsAreParams => DeclaredOnce
  <1> SUFFICES ASSUME ParamsApart, RepeatsAreParams,
                      NEW i \in 1..Len(code), NEW j \in 1..Len(code), Declares(i), Declares(j),
                      code[i].var = code[j].var, home[i] = home[j]
               PROVE  i = j
    BY DEF DeclaredOnce, Declares
  <1>1. i < j => code[i + 1] = Simple("param")
    BY DEF RepeatsAreParams
  <1>2. j < i => code[j + 1] = Simple("param")
    BY DEF RepeatsAreParams
  <1>3. i < j \/ j < i \/ i = j
    OBVIOUS
  <1> QED
    BY <1>1, <1>2, <1>3 DEF ParamsApart

\* But for parameters that share a name with another declaration, which the
\* front end lets pass, no variable in scope is overwritten by another one, by
\* a read buffer, by arguments, by saved registers, or by a callee's frame.
THEOREM VariablesKeep == StackSpec => [](ParamsApart => VariablesKeepValues)
  <1>1. StackInv /\ RepeatsAreParams => (ParamsApart => VariablesKeepValues)
    BY ValuesHold, ApartOnce
  <1> QED
    BY <1>1, StackInvariant, StackTranslates, OnlyParamsRepeat, PTL
=============================================================================
