-------------------------- MODULE Translator_proofs --------------------------
(***************************************************************************)
(* Theorems about Translator: type correctness, that jumps and labels are  *)
(* well formed (JumpInv), that scopes return what they take (ScopeInv) and *)
(* how the code of a program is laid out (LayoutInv).                      *)
(***************************************************************************)
EXTENDS Translator, TLAPS, SequenceTheorems, FiniteSetTheorems

-----------------------------------------------------------------------------
(* What the helpers of the translator do.                                  *)

\* popScope's rounding yields at least n words, and a multiple of 8 bytes.
LEMMA AlignedSizeType ==
    ASSUME NEW n \in Nat
    PROVE  /\ AlignedSize(n) \in Nat
           /\ AlignedSize(n) >= n * RegWidth
           /\ AlignedSize(n) % 8 = 0
  BY SMT DEF AlignedSize, RegWidth

\* Appending a sequence, element by element.
LEMMA ConcatElements ==
    ASSUME NEW S, NEW s \in Seq(S), NEW t \in Seq(S)
    PROVE  /\ s \o t \in Seq(S)
           /\ Len(s \o t) = Len(s) + Len(t)
           /\ \A i \in 1..Len(s) : (s \o t)[i] = s[i]
           /\ \A i \in 1..Len(t) : (s \o t)[Len(s) + i] = t[i]
  <1>1. /\ Len(s) \in Nat /\ Len(t) \in Nat
    BY LenProperties
  <1>2. /\ s \o t \in Seq(S)
        /\ Len(s \o t) = Len(s) + Len(t)
        /\ \A i \in 1 .. Len(s) + Len(t) : (s \o t)[i] =
              IF i <= Len(s) THEN s[i] ELSE t[i - Len(s)]
    BY ConcatProperties
  <1>3. \A i \in 1..Len(t) : (s \o t)[Len(s) + i] = t[i]
    BY <1>1, <1>2
  <1> QED
    BY <1>1, <1>2, <1>3

\* Facts about the state that every step needs.
LEMMA StateFacts ==
    ASSUME TypeOK
    PROVE  /\ code \in Seq(Instrs) /\ home \in Seq(Positions)
           /\ Len(code) \in Nat /\ Len(home) = Len(code)
           /\ Depth \in Nat /\ Len(scope) = Depth /\ Len(frames) = Depth
           /\ frames = <<>> <=> Depth = 0
           /\ Innermost \in Positions /\ Around \in Positions
           /\ Depth > 0 => /\ Innermost = scopePushInstr[Depth]
                           /\ Innermost \in 1..Len(code)
                           /\ StackSize \in Nat
  <1>1. /\ Len(code) \in Nat /\ Depth \in Nat
    BY LenProperties DEF TypeOK, Depth
  <1>2. /\ Innermost \in Positions /\ Around \in Positions
        /\ Depth > 0 => Innermost = scopePushInstr[Depth] /\ Innermost \in 1..Len(code)
    BY SMTT(40), <1>1 DEF TypeOK, Innermost, Around, Depth, Positions
  <1>3. ASSUME Depth > 0 PROVE StackSize \in Nat
    <2>1. scope[Depth] \subseteq Names
      BY <1>1, <1>3, ElementOfSeq DEF TypeOK
    <2>2. Cardinality(scope[Depth]) \in Nat
      BY <2>1, NamesAssumption, FS_Subset, FS_CardinalityType
    <2> QED
      BY <2>2, AlignedSizeType DEF StackSize
  <1>4. frames = <<>> <=> Depth = 0
    BY EmptySeq DEF TypeOK
  <1> QED
    BY <1>1, <1>2, <1>3, <1>4 DEF TypeOK

\* addInstr: the new instructions follow the old ones, in the innermost scope.
LEMMA EmitFacts ==
    ASSUME TypeOK, NEW instrs \in Seq(Instrs), Emit(instrs)
    PROVE  /\ code' \in Seq(Instrs) /\ home' \in Seq(Positions)
           /\ Len(code') = Len(code) + Len(instrs) /\ Len(home') = Len(code')
           /\ \A i \in 1..Len(code) : code'[i] = code[i] /\ home'[i] = home[i]
           /\ \A i \in 1..Len(instrs) : /\ code'[Len(code) + i] = instrs[i]
                                        /\ home'[Len(code) + i] = Innermost
  <1> DEFINE new == [i \in 1..Len(instrs) |-> Innermost]
  <1>1. Len(instrs) \in Nat
    BY LenProperties
  <1>2. /\ code \in Seq(Instrs) /\ home \in Seq(Positions)
        /\ Len(home) = Len(code) /\ Len(code) \in Nat /\ Innermost \in Positions
    BY StateFacts
  <1>3. /\ new \in Seq(Positions) /\ Len(new) = Len(instrs)
        /\ \A i \in 1..Len(instrs) : new[i] = Innermost
    BY <1>1, <1>2
  <1>4. home' = home \o new /\ code' = code \o instrs
    BY DEF Emit
  <1> HIDE DEF new
  <1>5. /\ code' \in Seq(Instrs)
        /\ Len(code') = Len(code) + Len(instrs)
        /\ \A i \in 1..Len(code) : code'[i] = code[i]
        /\ \A i \in 1..Len(instrs) : code'[Len(code) + i] = instrs[i]
    BY <1>2, <1>4, ConcatElements
  <1>6. /\ home' \in Seq(Positions)
        /\ Len(home') = Len(home) + Len(new)
        /\ \A i \in 1..Len(home) : home'[i] = home[i]
        /\ \A i \in 1..Len(new) : home'[Len(home) + i] = new[i]
    <2>1. home \in Seq(Positions) /\ new \in Seq(Positions)
      BY <1>2, <1>3
    <2> QED
      BY <2>1, <1>4, ConcatElements
  <1>7. Len(home') = Len(code') /\ Len(home) = Len(code)
    BY <1>2, <1>3, <1>5, <1>6
  <1>8. \A i \in 1..Len(instrs) : home'[Len(code) + i] = Innermost
    BY <1>3, <1>6, <1>7
  <1>9. \A i \in 1..Len(code) : code'[i] = code[i] /\ home'[i] = home[i]
    BY <1>5, <1>6, <1>7
  <1> QED
    BY <1>5, <1>6, <1>7, <1>8, <1>9

\* popScope: the innermost PushScope gets the size, a PopScope of that size
\* follows in the scope, and "after" follows outside it.
LEMMA CloseFacts ==
    ASSUME TypeOK, Depth > 0, NEW after \in Seq(Instrs), CloseAndEmit(after)
    PROVE  /\ code' \in Seq(Instrs) /\ home' \in Seq(Positions)
           /\ Len(code') = Len(code) + 1 + Len(after) /\ Len(home') = Len(code')
           /\ \A i \in 1..Len(code) :
                /\ code'[i] = IF i = Innermost THEN PushScope(StackSize) ELSE code[i]
                /\ home'[i] = home[i]
           /\ code'[Len(code) + 1] = PopScope(StackSize)
           /\ home'[Len(code) + 1] = Innermost
           /\ \A i \in 1..Len(after) : /\ code'[Len(code) + 1 + i] = after[i]
                                       /\ home'[Len(code) + 1 + i] = Around
  <1> DEFINE base == [code EXCEPT ![Innermost] = PushScope(StackSize)]
             tail == <<PopScope(StackSize)>> \o after
             around == [i \in 1..Len(after) |-> Around]
             new == <<Innermost>> \o around
  <1>1. /\ Len(after) \in Nat /\ Len(code) \in Nat /\ Len(home) = Len(code)
        /\ code \in Seq(Instrs) /\ home \in Seq(Positions)
        /\ StackSize \in Nat /\ Innermost \in 1..Len(code)
        /\ Innermost = scopePushInstr[Depth]
        /\ Innermost \in Positions /\ Around \in Positions
    BY StateFacts, LenProperties
  <1>2. PushScope(StackSize) \in Instrs /\ PopScope(StackSize) \in Instrs
    BY <1>1 DEF Instrs, PushScope, PopScope
  <1>3. /\ base \in Seq(Instrs) /\ Len(base) = Len(code)
        /\ \A i \in 1..Len(code) :
             base[i] = IF i = Innermost THEN PushScope(StackSize) ELSE code[i]
    BY <1>1, <1>2, ExceptSeq
  <1>4. /\ tail \in Seq(Instrs) /\ Len(tail) = 1 + Len(after)
        /\ tail[1] = PopScope(StackSize)
        /\ \A i \in 1..Len(after) : tail[1 + i] = after[i]
    <2>1. /\ <<PopScope(StackSize)>> \in Seq(Instrs) /\ Len(<<PopScope(StackSize)>>) = 1
          /\ <<PopScope(StackSize)>>[1] = PopScope(StackSize)
      BY <1>2
    <2> QED
      BY <2>1, <1>1, ConcatElements
  <1>5. /\ around \in Seq(Positions) /\ Len(around) = Len(after)
        /\ \A i \in 1..Len(after) : around[i] = Around
    BY <1>1
  <1> HIDE DEF around
  <1>6. /\ new \in Seq(Positions) /\ Len(new) = 1 + Len(after)
        /\ new[1] = Innermost
        /\ \A i \in 1..Len(after) : new[1 + i] = Around
    <2>1. /\ <<Innermost>> \in Seq(Positions) /\ Len(<<Innermost>>) = 1
          /\ <<Innermost>>[1] = Innermost
      BY <1>1
    <2> QED
      BY <2>1, <1>1, <1>5, ConcatElements
  <1>7. code' = base \o tail /\ home' = home \o new
    BY <1>1 DEF CloseAndEmit, around
  <1> HIDE DEF base, tail, new
  <1>8. /\ code' \in Seq(Instrs) /\ Len(code') = Len(base) + Len(tail)
        /\ \A i \in 1..Len(base) : code'[i] = base[i]
        /\ \A i \in 1..Len(tail) : code'[Len(base) + i] = tail[i]
    <2>1. base \in Seq(Instrs) /\ tail \in Seq(Instrs)
      BY <1>3, <1>4
    <2> QED
      BY <2>1, <1>7, ConcatElements
  <1>9. /\ home' \in Seq(Positions) /\ Len(home') = Len(home) + Len(new)
        /\ \A i \in 1..Len(home) : home'[i] = home[i]
        /\ \A i \in 1..Len(new) : home'[Len(home) + i] = new[i]
    <2>1. home \in Seq(Positions) /\ new \in Seq(Positions)
      BY <1>1, <1>6
    <2> QED
      BY <2>1, <1>7, ConcatElements
  <1>10. /\ code'[Len(code) + 1] = PopScope(StackSize)
         /\ home'[Len(code) + 1] = Innermost
    <2>1. 1 \in 1..Len(tail) /\ 1 \in 1..Len(new)
      BY <1>1, <1>4, <1>6
    <2> QED
      BY <2>1, <1>1, <1>3, <1>4, <1>6, <1>8, <1>9
  <1>11. ASSUME NEW i \in 1..Len(after)
         PROVE  /\ code'[Len(code) + 1 + i] = after[i]
                /\ home'[Len(code) + 1 + i] = Around
    <2>1. 1 + i \in 1..Len(tail) /\ 1 + i \in 1..Len(new)
      BY <1>1, <1>4, <1>6
    <2>2. Len(code) + 1 + i = Len(base) + (1 + i) /\ Len(code) + 1 + i = Len(home) + (1 + i)
      BY <1>1, <1>3
    <2> QED
      BY ZenonT(60), <2>1, <2>2, <1>4, <1>6, <1>8, <1>9
  <1>12. ASSUME NEW i \in 1..Len(code)
         PROVE  /\ code'[i] = IF i = Innermost THEN PushScope(StackSize) ELSE code[i]
                /\ home'[i] = home[i]
    BY <1>1, <1>3, <1>8, <1>9
  <1>13. Len(code') = Len(code) + 1 + Len(after) /\ Len(home') = Len(code')
    BY <1>1, <1>3, <1>4, <1>6, <1>8, <1>9
  <1> QED
    BY <1>8, <1>9, <1>10, <1>11, <1>12, <1>13

-----------------------------------------------------------------------------
(* What a step does to code, home and the stacks.                          *)

\* A step appends m instructions and keeps the others, but for the size of
\* the innermost PushScope.
Kept(m) ==
    /\ code' \in Seq(Instrs) /\ home' \in Seq(Positions)
    /\ Len(code') = Len(code) + m /\ Len(home') = Len(code')
    /\ \A i \in 1..Len(code) : /\ home'[i] = home[i]
                               /\ code'[i].op = code[i].op
                               /\ code[i].op # "pushscope" => code'[i] = code[i]
                               /\ i # Innermost => code'[i] = code[i]

LEMMA EmitKept ==
    ASSUME TypeOK, NEW instrs \in Seq(Instrs), Emit(instrs)
    PROVE  Kept(Len(instrs))
  BY EmitFacts DEF Kept

LEMMA CloseKept ==
    ASSUME TypeOK, Depth > 0, NEW after \in Seq(Instrs), CloseAndEmit(after)
    PROVE  Kept(1 + Len(after))
  <1>1. code[Innermost].op = "pushscope" /\ PushScope(StackSize).op = "pushscope"
    BY StateFacts DEF TypeOK, PushScope
  <1>2. Len(after) \in Nat /\ Len(code) \in Nat
    BY LenProperties, StateFacts
  <1>3. \A i \in 1..Len(code) : code'[i] = IF i = Innermost THEN PushScope(StackSize) ELSE code[i]
    BY CloseFacts
  <1>4. \A i \in 1..Len(code) : /\ code'[i].op = code[i].op
                                /\ code[i].op # "pushscope" => code'[i] = code[i]
                                /\ i # Innermost => code'[i] = code[i]
    BY <1>1, <1>3
  <1>5. Len(code') = Len(code) + (1 + Len(after))
    BY <1>2, CloseFacts
  <1>6. \A i \in 1..Len(code) : home'[i] = home[i]
    BY CloseFacts
  <1> QED
    BY <1>4, <1>5, <1>6, CloseFacts DEF Kept

LEMMA ClosePatches ==
    ASSUME TypeOK, Depth > 0, NEW after \in Seq(Instrs), CloseAndEmit(after)
    PROVE  code'[Innermost] = PushScope(StackSize)
  BY StateFacts, CloseFacts

\* The open scopes that a step keeps still refer to a PushScope.
LEMMA OpenScopesKept ==
    ASSUME TypeOK, NEW m \in Nat, Kept(m)
    PROVE  \A k \in 1..Depth : /\ scopePushInstr[k] \in 1..Len(code')
                               /\ code'[scopePushInstr[k]].op = "pushscope"
  <1>1. Len(code) \in Nat
    BY StateFacts
  <1>2. ASSUME NEW k \in 1..Depth
        PROVE  scopePushInstr[k] \in 1..Len(code) /\ code[scopePushInstr[k]].op = "pushscope"
    BY DEF TypeOK
  <1>3. /\ Len(code') = Len(code) + m
        /\ \A i \in 1..Len(code) : code'[i].op = code[i].op
    BY DEF Kept
  <1> QED
    BY <1>1, <1>2, <1>3

\* ctx.scope and ctx.scopePushInstr after pushScope.
LEMMA OpenType ==
    ASSUME TypeOK, NEW m \in Nat, Kept(m), NEW k \in 1..m, NEW fr \in Frames, OpenAt(k, fr),
           code'[Len(code) + k].op = "pushscope"
    PROVE  /\ scope' \in Seq(SUBSET Names) /\ scopePushInstr' \in Seq(Positions)
           /\ frames' \in Seq(Frames)
           /\ Depth' = Depth + 1 /\ Len(scope') = Depth' /\ Len(frames') = Depth'
           /\ \A j \in 1..Depth : /\ scopePushInstr'[j] = scopePushInstr[j]
                                  /\ scope'[j] = scope[j] /\ frames'[j] = frames[j]
           /\ scopePushInstr'[Depth'] = Len(code) + k /\ scope'[Depth'] = {}
           /\ frames'[Depth'] = fr
           /\ \A j \in 1..Depth' : /\ scopePushInstr'[j] \in 1..Len(code')
                                   /\ code'[scopePushInstr'[j]].op = "pushscope"
  <1>1. /\ Len(code) \in Nat /\ Depth \in Nat /\ Len(code) + k \in Positions
        /\ scope \in Seq(SUBSET Names) /\ Len(scope) = Depth
        /\ frames \in Seq(Frames) /\ Len(frames) = Depth
        /\ scopePushInstr \in Seq(Positions) /\ Len(scopePushInstr) = Depth
    BY StateFacts DEF Positions, TypeOK, Depth
  <1>2. /\ scope' \in Seq(SUBSET Names) /\ Len(scope') = Depth + 1
        /\ \A j \in 1..Depth : scope'[j] = scope[j]
        /\ scope'[Depth + 1] = {}
    <2> DEFINE S == SUBSET Names
    <2>1. scope \in Seq(S) /\ {} \in S
      BY <1>1
    <2> HIDE DEF S
    <2>2. /\ scope' \in Seq(S) /\ Len(scope') = Len(scope) + 1
          /\ \A j \in 1..Len(scope) : scope'[j] = scope[j]
          /\ scope'[Len(scope) + 1] = {}
      BY <2>1, AppendProperties DEF OpenAt
    <2> QED
      BY <1>1, <2>2 DEF S
  <1>3. /\ scopePushInstr' \in Seq(Positions) /\ Len(scopePushInstr') = Depth + 1
        /\ \A j \in 1..Depth : scopePushInstr'[j] = scopePushInstr[j]
        /\ scopePushInstr'[Depth + 1] = Len(code) + k
    BY <1>1 DEF OpenAt
  <1>4. /\ frames' \in Seq(Frames) /\ Len(frames') = Depth + 1
        /\ \A j \in 1..Depth : frames'[j] = frames[j]
        /\ frames'[Depth + 1] = fr
    BY <1>1, AppendProperties DEF OpenAt
  <1>5. Depth' = Depth + 1
    BY <1>3 DEF Depth
  <1>6. Len(code) + k \in 1..Len(code')
    BY <1>1 DEF Kept
  <1>7. \A j \in 1..Depth' : /\ scopePushInstr'[j] \in 1..Len(code')
                             /\ code'[scopePushInstr'[j]].op = "pushscope"
    BY SMTT(40), <1>1, <1>3, <1>5, <1>6, OpenScopesKept
  <1> QED
    BY <1>2, <1>3, <1>4, <1>5, <1>7

\* The three stacks when the innermost frame and scope are dropped.
LEMMA DropType ==
    ASSUME TypeOK, Depth > 0, NEW m \in Nat, Kept(m), DropTop
    PROVE  /\ scope' \in Seq(SUBSET Names) /\ scopePushInstr' \in Seq(Positions)
           /\ frames' \in Seq(Frames)
           /\ Depth' = Depth - 1 /\ Len(scope') = Depth' /\ Len(frames') = Depth'
           /\ \A j \in 1..Depth' : /\ scopePushInstr'[j] = scopePushInstr[j]
                                   /\ scope'[j] = scope[j] /\ frames'[j] = frames[j]
           /\ \A j \in 1..Depth' : /\ scopePushInstr'[j] \in 1..Len(code')
                                   /\ code'[scopePushInstr'[j]].op = "pushscope"
  <1>1. /\ Len(code) \in Nat /\ Depth \in Nat
        /\ scope \in Seq(SUBSET Names) /\ Len(scope) = Depth
        /\ frames \in Seq(Frames) /\ Len(frames) = Depth
        /\ scopePushInstr \in Seq(Positions) /\ Len(scopePushInstr) = Depth
    BY StateFacts DEF TypeOK, Depth
  <1>2. /\ scope' \in Seq(SUBSET Names) /\ Len(scope') = Depth - 1
        /\ \A j \in 1..(Depth - 1) : scope'[j] = scope[j]
    <2>1. \A i \in 1..(Depth - 1) : scope[i] \in SUBSET Names
      BY <1>1, ElementOfSeq
    <2> QED
      BY <1>1, <2>1, SubSeqProperties DEF DropTop
  <1>3. /\ scopePushInstr' \in Seq(Positions) /\ Len(scopePushInstr') = Depth - 1
        /\ \A j \in 1..(Depth - 1) : scopePushInstr'[j] = scopePushInstr[j]
    <2>1. \A i \in 1..(Depth - 1) : scopePushInstr[i] \in Positions
      BY <1>1, ElementOfSeq
    <2> QED
      BY <1>1, <2>1, SubSeqProperties DEF DropTop
  <1>4. /\ frames' \in Seq(Frames) /\ Len(frames') = Depth - 1
        /\ \A j \in 1..(Depth - 1) : frames'[j] = frames[j]
    <2>1. \A i \in 1..(Depth - 1) : frames[i] \in Frames
      BY <1>1, ElementOfSeq
    <2> QED
      BY <1>1, <2>1, SubSeqProperties DEF DropTop
  <1>5. Depth' = Depth - 1
    BY <1>3 DEF Depth
  <1>6. \A j \in 1..Depth' : /\ scopePushInstr'[j] \in 1..Len(code')
                             /\ code'[scopePushInstr'[j]].op = "pushscope"
    BY SMTT(40), <1>1, <1>3, <1>5, OpenScopesKept
  <1> QED
    BY <1>2, <1>3, <1>4, <1>5, <1>6

-----------------------------------------------------------------------------
(* What each action does, in those terms.                                  *)

\* A straight-line statement emits simple instructions and nothing else
\* changes but, for a declaration, the names of the innermost scope.
Straight(m) ==
    /\ Kept(m)
    /\ \A i \in 1..m : /\ code'[Len(code) + i].op \in SimpleKinds \cup {"move", "declare"}
                       /\ home'[Len(code) + i] = Innermost
    /\ Depth > 0
    /\ UNCHANGED <<scopePushInstr, frames, currentCounter, functions, stage>>

SimpleOnly(m) == \A i \in 1..m : code'[Len(code) + i].op \in SimpleKinds

LEMMA SimpleStep ==
    ASSUME TypeOK, NEW instrs \in Seq(Instrs), Emit(instrs), InStmtList,
           \A i \in 1..Len(instrs) : instrs[i].op \in SimpleKinds,
           UNCHANGED <<scope, scopePushInstr, frames, currentCounter, functions, stage>>
    PROVE  Straight(Len(instrs)) /\ SimpleOnly(Len(instrs)) /\ UNCHANGED scope
  <1>1. Kept(Len(instrs)) /\ Len(instrs) \in Nat
    BY EmitKept, LenProperties
  <1>2. \A i \in 1..Len(instrs) : /\ code'[Len(code) + i] = instrs[i]
                                  /\ home'[Len(code) + i] = Innermost
    BY EmitFacts
  <1>3. Depth > 0
    BY StateFacts DEF InStmtList, RoomToNest
  <1> QED
    BY <1>1, <1>2, <1>3 DEF Straight, SimpleOnly

LEMMA StatementStep ==
    ASSUME TypeOK, \/ \E kind \in StmtKinds : Statement(kind)
                   \/ PrintLn
                   \/ ReturnStmt
    PROVE  (\E m \in 1..2 : Straight(m) /\ SimpleOnly(m)) /\ UNCHANGED scope
  <1>1. \A kind \in SimpleKinds : Simple(kind) \in Instrs /\ Simple(kind).op = kind
    BY DEF Simple, Instrs
  <1>2. ASSUME NEW kind \in SimpleKinds,
               InStmtList, Emit(<<Simple(kind)>>),
               UNCHANGED <<scope, scopePushInstr, frames, currentCounter, functions, stage>>
        PROVE  Straight(1) /\ SimpleOnly(1) /\ UNCHANGED scope
    <2>1. /\ <<Simple(kind)>> \in Seq(Instrs) /\ Len(<<Simple(kind)>>) = 1
          /\ \A i \in 1..1 : <<Simple(kind)>>[i].op \in SimpleKinds
      BY <1>1
    <2> QED
      BY <1>2, <2>1, SimpleStep
  <1>3. ASSUME NEW kind \in StmtKinds, Statement(kind)
        PROVE  Straight(1) /\ SimpleOnly(1) /\ UNCHANGED scope
    BY <1>2, <1>3, StmtKindsAssumption DEF Statement, SimpleKinds
  <1>4. ASSUME ReturnStmt PROVE Straight(1) /\ SimpleOnly(1) /\ UNCHANGED scope
    BY <1>2, <1>4 DEF ReturnStmt, SimpleKinds
  <1>5. ASSUME PrintLn PROVE Straight(2) /\ SimpleOnly(2) /\ UNCHANGED scope
    <2> DEFINE two == <<Simple("print"), Simple("print")>>
    <2>1. /\ two \in Seq(Instrs) /\ Len(two) = 2
          /\ \A i \in 1..2 : two[i].op \in SimpleKinds
      BY <1>1 DEF SimpleKinds
    <2> QED
      BY <1>5, <2>1, SimpleStep DEF PrintLn
  <1> QED
    BY <1>3, <1>4, <1>5

LEMMA DeclStep ==
    ASSUME TypeOK, NEW v \in Names, DeclStmt(v)
    PROVE  /\ Straight(2)
           /\ code'[Len(code) + 1] = Declare(v) /\ code'[Len(code) + 2] = Simple("move")
           /\ scope' \in Seq(SUBSET Names) /\ Len(scope') = Depth
           /\ \A k \in 1..Depth :
                scope'[k] = IF k = Depth THEN scope[k] \cup {v} ELSE scope[k]
  <1> DEFINE two == <<Declare(v), Simple("move")>>
  <1>1. /\ two \in Seq(Instrs) /\ Len(two) = 2
        /\ two[1] = Declare(v) /\ two[2] = Simple("move")
    BY DEF Declare, Simple, Instrs
  <1>2. Emit(two) /\ InStmtList
    BY DEF DeclStmt
  <1> HIDE DEF two
  <1>3. Kept(2)
    BY <1>1, <1>2, EmitKept
  <1>4. Depth > 0 /\ Depth \in Nat /\ scope \in Seq(SUBSET Names) /\ Len(scope) = Depth
    BY <1>2, StateFacts DEF InStmtList, RoomToNest, TypeOK
  <1>5. /\ code'[Len(code) + 1] = Declare(v) /\ code'[Len(code) + 2] = Simple("move")
        /\ home'[Len(code) + 1] = Innermost /\ home'[Len(code) + 2] = Innermost
    <2>1. \A i \in 1..Len(two) : code'[Len(code) + i] = two[i] /\ home'[Len(code) + i] = Innermost
      BY <1>1, <1>2, EmitFacts
    <2>2. 1 \in 1..Len(two) /\ 2 \in 1..Len(two)
      BY <1>1
    <2> QED
      BY <1>1, <2>1, <2>2
  <1>6. Straight(2)
    <2>1. Declare(v).op = "declare" /\ Simple("move").op = "move"
      BY DEF Declare, Simple
    <2> QED
      BY <1>3, <1>4, <1>5, <2>1 DEF Straight, DeclStmt
  <1>7. scope[Depth] \cup {v} \in SUBSET Names
    BY <1>4, ElementOfSeq
  <1>8. /\ scope' \in Seq(SUBSET Names) /\ Len(scope') = Depth
        /\ \A k \in 1..Depth :
              scope'[k] = IF k = Depth THEN scope[k] \cup {v} ELSE scope[k]
    <2> DEFINE S == SUBSET Names
               e == scope[Depth] \cup {v}
    <2>1. scope \in Seq(S) /\ e \in S /\ Depth \in 1..Len(scope)
      BY <1>4, <1>7
    <2>2. scope' = [scope EXCEPT ![Depth] = e]
      BY <1>4 DEF DeclStmt
    <2> HIDE DEF S, e
    <2>3. /\ scope' \in Seq(S) /\ Len(scope') = Len(scope)
          /\ \A k \in 1..Len(scope) : scope'[k] = IF k = Depth THEN e ELSE scope[k]
      BY <2>1, <2>2, ExceptSeq
    <2> QED
      BY <1>4, <2>3 DEF S, e
  <1> QED
    BY <1>5, <1>6, <1>8

LEMMA StraightType ==
    ASSUME TypeOK, NEW m \in Nat, Straight(m),
           scope' \in Seq(SUBSET Names), Len(scope') = Depth
    PROVE  TypeOK' /\ Depth' = Depth
  <1>1. Depth' = Depth
    BY DEF Straight, Depth
  <1>2. \A k \in 1..Depth : /\ scopePushInstr[k] \in 1..Len(code')
                            /\ code'[scopePushInstr[k]].op = "pushscope"
    BY OpenScopesKept DEF Straight
  <1>3. /\ code' \in Seq(Instrs) /\ home' \in Seq(Positions) /\ Len(home') = Len(code')
        /\ scopePushInstr' = scopePushInstr /\ frames' = frames
        /\ currentCounter' = currentCounter /\ functions' = functions /\ stage' = stage
    BY DEF Straight, Kept
  <1> QED
    BY <1>1, <1>2, <1>3 DEF TypeOK

\* What dropping the innermost frame leaves on the stacks.
Dropped ==
    /\ Depth' = Depth - 1
    /\ \A j \in 1..Depth' : /\ scopePushInstr'[j] = scopePushInstr[j]
                            /\ scope'[j] = scope[j] /\ frames'[j] = frames[j]

\* What opening a scope at position p for the frame fr leaves there.
Opened(p, fr) ==
    /\ Depth' = Depth + 1
    /\ \A j \in 1..Depth : /\ scopePushInstr'[j] = scopePushInstr[j]
                           /\ scope'[j] = scope[j] /\ frames'[j] = frames[j]
    /\ scopePushInstr'[Depth'] = p /\ scope'[Depth'] = {} /\ frames'[Depth'] = fr

LEMMA EndStep ==
    ASSUME TypeOK, Depth > 0, NEW after \in Seq(Instrs), CloseAndEmit(after), DropTop,
           currentCounter' = currentCounter, functions' = functions,
           stage' \in {"between", "func", "main", "done"}
    PROVE  TypeOK' /\ Kept(1 + Len(after)) /\ Dropped
  <1>1. Kept(1 + Len(after)) /\ 1 + Len(after) \in Nat
    BY CloseKept, LenProperties
  <1> DEFINE m == 1 + Len(after)
  <1> HIDE DEF m
  <1>2. /\ scope' \in Seq(SUBSET Names) /\ scopePushInstr' \in Seq(Positions)
        /\ frames' \in Seq(Frames)
        /\ Len(scope') = Depth' /\ Len(frames') = Depth'
        /\ \A j \in 1..Depth' : /\ scopePushInstr'[j] \in 1..Len(code')
                                /\ code'[scopePushInstr'[j]].op = "pushscope"
    <2>1. Kept(m) /\ m \in Nat
      BY <1>1 DEF m
    <2> QED
      BY <2>1, DropType
  <1>3. Dropped
    <2>1. Kept(m) /\ m \in Nat
      BY <1>1 DEF m
    <2> QED
      BY <2>1, DropType DEF Dropped
  <1>4. code' \in Seq(Instrs) /\ home' \in Seq(Positions) /\ Len(home') = Len(code')
    BY <1>1 DEF Kept
  <1>5. TypeOK'
    BY <1>2, <1>4 DEF TypeOK
  <1> QED
    BY <1>1, <1>3, <1>5

LEMMA BeginStep ==
    ASSUME TypeOK, NEW instrs \in Seq(Instrs), Emit(instrs),
           NEW k \in 1..Len(instrs), instrs[k].op = "pushscope",
           NEW fr \in Frames, OpenAt(k, fr),
           currentCounter' \in Nat, functions' = functions,
           stage' \in {"between", "func", "main", "done"}
    PROVE  TypeOK' /\ Kept(Len(instrs)) /\ Opened(Len(code) + k, fr)
  <1> DEFINE m == Len(instrs)
  <1>1. Kept(m) /\ m \in Nat /\ k \in 1..m
    BY EmitKept, LenProperties
  <1>2. code'[Len(code) + k].op = "pushscope"
    BY EmitFacts
  <1> HIDE DEF m
  <1>3. /\ scope' \in Seq(SUBSET Names) /\ scopePushInstr' \in Seq(Positions)
        /\ frames' \in Seq(Frames)
        /\ Len(scope') = Depth' /\ Len(frames') = Depth'
        /\ \A j \in 1..Depth' : /\ scopePushInstr'[j] \in 1..Len(code')
                                /\ code'[scopePushInstr'[j]].op = "pushscope"
    BY <1>1, <1>2, OpenType
  <1>4. Opened(Len(code) + k, fr)
    BY <1>1, <1>2, OpenType DEF Opened
  <1>5. code' \in Seq(Instrs) /\ home' \in Seq(Positions) /\ Len(home') = Len(code')
    BY <1>1 DEF Kept
  <1>6. TypeOK'
    BY <1>3, <1>5 DEF TypeOK
  <1> QED
    BY <1>1, <1>4, <1>6 DEF m

\* The frame on top, and the labels made from its number.
LEMMA TopFrame ==
    ASSUME TypeOK, NEW kind, InBlock(kind)
    PROVE  /\ Depth \in Nat /\ Depth > 0 /\ Len(frames) = Depth
           /\ frames[Depth].kind = kind /\ frames[Depth].n \in Nat
           /\ \A k \in ControlKinds : ControlLabel(k, frames[Depth].n) \in CodeLabels
  <1>1. Depth \in Nat /\ Depth > 0 /\ Len(frames) = Depth /\ frames[Depth].kind = kind
    BY StateFacts DEF InBlock
  <1>2. frames[Depth] \in Frames
    BY <1>1, ElementOfSeq DEF TypeOK
  <1>3. frames[Depth].n \in Nat
    BY <1>2 DEF Frames
  <1> QED
    BY <1>1, <1>3 DEF ControlLabel, CodeLabels

LEMMA InstrTypes ==
    /\ \A l \in CodeLabels : Label(l) \in Instrs /\ Jmp(l) \in Instrs /\ JmpCond(l) \in Instrs
    /\ \A n \in Nat : PushScope(n) \in Instrs /\ PopScope(n) \in Instrs
    /\ \A v \in Names : Declare(v) \in Instrs
    /\ \A kind \in SimpleKinds \cup {"move"} : Simple(kind) \in Instrs
  BY DEF Instrs, Label, Jmp, JmpCond, PushScope, PopScope, Declare, Simple

\* A block ends with nothing after its PopScope: begin-end, function, main.
LEMMA BlockEndStep ==
    ASSUME TypeOK, Depth > 0, CloseAndEmit(<<>>), DropTop,
           currentCounter' = currentCounter, functions' = functions,
           stage' \in {"between", "func", "main", "done"}
    PROVE  /\ TypeOK' /\ Kept(1) /\ Dropped
           /\ code'[Innermost] = PushScope(StackSize)
           /\ code'[Len(code) + 1] = PopScope(StackSize) /\ home'[Len(code) + 1] = Innermost
  <1>1. <<>> \in Seq(Instrs) /\ Len(<<>>) = 0
    OBVIOUS
  <1>2. TypeOK' /\ Kept(1 + Len(<<>>)) /\ Dropped
    BY <1>1, EndStep
  <1>3. code'[Len(code) + 1] = PopScope(StackSize) /\ home'[Len(code) + 1] = Innermost
    BY <1>1, CloseFacts
  <1>4. code'[Innermost] = PushScope(StackSize)
    BY <1>1, ClosePatches
  <1> QED
    BY <1>1, <1>2, <1>3, <1>4

LEMMA IfEndStep ==
    ASSUME TypeOK, IfEnd
    PROVE  /\ TypeOK' /\ Kept(2) /\ Dropped
           /\ code'[Innermost] = PushScope(StackSize)
           /\ code'[Len(code) + 1] = PopScope(StackSize) /\ home'[Len(code) + 1] = Innermost
           /\ code'[Len(code) + 2] = Label(ControlLabel("ifelse_end", frames[Depth].n))
           /\ home'[Len(code) + 2] = Around
  <1> DEFINE l == ControlLabel("ifelse_end", frames[Depth].n)
             after == <<Label(l)>>
  <1>1. /\ Depth \in Nat /\ Depth > 0 /\ Len(frames) = Depth /\ l \in CodeLabels
    BY TopFrame DEF IfEnd, ControlKinds
  <1>2. after \in Seq(Instrs) /\ Len(after) = 1 /\ after[1] = Label(l)
    BY <1>1, InstrTypes
  <1>3. CloseAndEmit(after)
    BY <1>1 DEF IfEnd
  <1> HIDE DEF after, l
  <1>4. stage' \in {"between", "func", "main", "done"}
    BY DEF IfEnd, TypeOK
  <1>5. TypeOK' /\ Kept(1 + Len(after)) /\ Dropped
    BY <1>1, <1>2, <1>3, <1>4, EndStep DEF IfEnd
  <1>6. /\ code'[Len(code) + 1] = PopScope(StackSize)
        /\ home'[Len(code) + 1] = Innermost
        /\ \A i \in 1..Len(after) : /\ code'[Len(code) + 1 + i] = after[i]
                                    /\ home'[Len(code) + 1 + i] = Around
    BY <1>1, <1>2, <1>3, CloseFacts
  <1>7. Len(code) \in Nat /\ code'[Innermost] = PushScope(StackSize)
    BY <1>1, <1>2, <1>3, StateFacts, ClosePatches
  <1>8. code'[Len(code) + 2] = Label(l) /\ home'[Len(code) + 2] = Around
    BY <1>2, <1>6, <1>7
  <1> QED
    BY <1>2, <1>5, <1>6, <1>7, <1>8 DEF l

LEMMA WhileEndStep ==
    ASSUME TypeOK, WhileEnd
    PROVE  /\ TypeOK' /\ Kept(3) /\ Dropped
           /\ code'[Innermost] = PushScope(StackSize)
           /\ code'[Len(code) + 1] = PopScope(StackSize) /\ home'[Len(code) + 1] = Innermost
           /\ code'[Len(code) + 2] = Jmp(ControlLabel("while_begin", frames[Depth].n))
           /\ home'[Len(code) + 2] = Around
           /\ code'[Len(code) + 3] = Label(ControlLabel("while_end", frames[Depth].n))
           /\ home'[Len(code) + 3] = Around
  <1> DEFINE b == ControlLabel("while_begin", frames[Depth].n)
             e == ControlLabel("while_end", frames[Depth].n)
             after == <<Jmp(b), Label(e)>>
  <1>1. /\ Depth \in Nat /\ Depth > 0 /\ Len(frames) = Depth
        /\ b \in CodeLabels /\ e \in CodeLabels
    BY TopFrame DEF WhileEnd, ControlKinds
  <1>2. after \in Seq(Instrs) /\ Len(after) = 2 /\ after[1] = Jmp(b) /\ after[2] = Label(e)
    BY <1>1, InstrTypes
  <1>3. CloseAndEmit(after)
    BY <1>1 DEF WhileEnd
  <1> HIDE DEF after, b, e
  <1>4. stage' \in {"between", "func", "main", "done"}
    BY DEF WhileEnd, TypeOK
  <1>5. TypeOK' /\ Kept(1 + Len(after)) /\ Dropped
    BY <1>1, <1>2, <1>3, <1>4, EndStep DEF WhileEnd
  <1>6. /\ code'[Len(code) + 1] = PopScope(StackSize)
        /\ home'[Len(code) + 1] = Innermost
        /\ \A i \in 1..Len(after) : /\ code'[Len(code) + 1 + i] = after[i]
                                    /\ home'[Len(code) + 1 + i] = Around
    BY <1>1, <1>2, <1>3, CloseFacts
  <1>7. Len(code) \in Nat /\ code'[Innermost] = PushScope(StackSize)
    BY <1>1, <1>2, <1>3, StateFacts, ClosePatches
  <1>8. /\ code'[Len(code) + 2] = Jmp(b) /\ home'[Len(code) + 2] = Around
        /\ code'[Len(code) + 3] = Label(e) /\ home'[Len(code) + 3] = Around
    BY <1>2, <1>6, <1>7
  <1> QED
    BY <1>2, <1>5, <1>6, <1>7, <1>8 DEF b, e

\* The then branch is closed and the else branch opened in its place.
LEMMA IfElseStep ==
    ASSUME TypeOK, IfElse
    PROVE  /\ TypeOK' /\ Kept(4) /\ Depth' = Depth
           /\ code'[Innermost] = PushScope(StackSize)
           /\ \A j \in 1..Depth : /\ frames'[j] = IF j = Depth THEN Frame("else", frames[Depth].n)
                                                  ELSE frames[j]
                                  /\ scope'[j] = IF j = Depth THEN {} ELSE scope[j]
                                  /\ scopePushInstr'[j] = IF j = Depth THEN Len(code) + 4
                                                          ELSE scopePushInstr[j]
           /\ code'[Len(code) + 1] = PopScope(StackSize) /\ home'[Len(code) + 1] = Innermost
           /\ code'[Len(code) + 2] = Jmp(ControlLabel("ifelse_end", frames[Depth].n))
           /\ home'[Len(code) + 2] = Around
           /\ code'[Len(code) + 3] = Label(ControlLabel("else_begin", frames[Depth].n))
           /\ home'[Len(code) + 3] = Around
           /\ code'[Len(code) + 4] = PushScope(0) /\ home'[Len(code) + 4] = Around
  <1> DEFINE b == ControlLabel("else_begin", frames[Depth].n)
             e == ControlLabel("ifelse_end", frames[Depth].n)
             fr == Frame("else", frames[Depth].n)
             after == <<Jmp(e), Label(b), PushScope(0)>>
             p == Len(code) + 4
  <1>1. /\ Depth \in Nat /\ Depth > 0 /\ Len(frames) = Depth /\ Depth \in 1..Depth
        /\ b \in CodeLabels /\ e \in CodeLabels /\ fr \in Frames
    BY TopFrame DEF IfElse, ControlKinds, Frame, Frames
  <1>2. /\ after \in Seq(Instrs) /\ Len(after) = 3
        /\ after[1] = Jmp(e) /\ after[2] = Label(b) /\ after[3] = PushScope(0)
    BY <1>1, InstrTypes
  <1>3. CloseAndEmit(after)
    BY <1>1 DEF IfElse
  <1>4. /\ frames' = [frames EXCEPT ![Depth] = fr]
        /\ scope' = [scope EXCEPT ![Depth] = {}]
        /\ scopePushInstr' = [scopePushInstr EXCEPT ![Depth] = p]
        /\ currentCounter' = currentCounter /\ functions' = functions /\ stage' = stage
    BY <1>1 DEF IfElse
  <1>5. /\ Len(code) \in Nat /\ p \in Positions
        /\ scope \in Seq(SUBSET Names) /\ Len(scope) = Depth
        /\ frames \in Seq(Frames)
        /\ scopePushInstr \in Seq(Positions) /\ Len(scopePushInstr) = Depth
    BY StateFacts DEF Positions, TypeOK, Depth
  <1> HIDE DEF after, b, e, fr, p
  <1>6. Kept(4)
    <2>1. Kept(1 + Len(after))
      BY <1>1, <1>2, <1>3, CloseKept
    <2> QED
      BY <2>1, <1>2
  <1>7. /\ code'[Len(code) + 1] = PopScope(StackSize)
        /\ home'[Len(code) + 1] = Innermost
        /\ \A i \in 1..Len(after) : /\ code'[Len(code) + 1 + i] = after[i]
                                    /\ home'[Len(code) + 1 + i] = Around
    BY <1>1, <1>2, <1>3, CloseFacts
  <1>8. /\ code'[Len(code) + 2] = Jmp(e) /\ home'[Len(code) + 2] = Around
        /\ code'[Len(code) + 3] = Label(b) /\ home'[Len(code) + 3] = Around
        /\ code'[Len(code) + 4] = PushScope(0) /\ home'[Len(code) + 4] = Around
    BY <1>2, <1>5, <1>7
  <1>9. /\ frames' \in Seq(Frames) /\ Len(frames') = Depth
        /\ \A j \in 1..Depth : frames'[j] = IF j = Depth THEN fr ELSE frames[j]
    BY <1>1, <1>4, <1>5, ExceptSeq
  <1>10. /\ scopePushInstr' \in Seq(Positions) /\ Len(scopePushInstr') = Depth
         /\ \A j \in 1..Depth : scopePushInstr'[j] = IF j = Depth THEN p ELSE scopePushInstr[j]
    BY <1>1, <1>4, <1>5, ExceptSeq
  <1>11. /\ scope' \in Seq(SUBSET Names) /\ Len(scope') = Depth
         /\ \A j \in 1..Depth : scope'[j] = IF j = Depth THEN {} ELSE scope[j]
    <2> DEFINE S == SUBSET Names
    <2>1. scope \in Seq(S) /\ {} \in S
      BY <1>5
    <2> HIDE DEF S
    <2>2. /\ scope' \in Seq(S) /\ Len(scope') = Len(scope)
          /\ \A j \in 1..Len(scope) : scope'[j] = IF j = Depth THEN {} ELSE scope[j]
      BY <2>1, <1>1, <1>4, <1>5, ExceptSeq
    <2> QED
      BY <2>2, <1>5 DEF S
  <1>12. Depth' = Depth
    BY <1>10 DEF Depth
  <1>13. ASSUME NEW j \in 1..Depth
         PROVE  /\ scopePushInstr'[j] \in 1..Len(code')
                /\ code'[scopePushInstr'[j]].op = "pushscope"
    <2>1. Len(code') = Len(code) + 4
      BY <1>6 DEF Kept
    <2>2. PushScope(0).op = "pushscope"
      BY DEF PushScope
    <2>3. CASE j = Depth
      BY <2>1, <2>2, <2>3, <1>5, <1>8, <1>10 DEF p
    <2>4. CASE j # Depth
      BY <2>4, <1>6, <1>10, OpenScopesKept
    <2> QED
      BY <2>3, <2>4
  <1>14. TypeOK'
    <2>1. code' \in Seq(Instrs) /\ home' \in Seq(Positions) /\ Len(home') = Len(code')
      BY <1>6 DEF Kept
    <2> QED
      BY <2>1, <1>4, <1>9, <1>10, <1>11, <1>12, <1>13 DEF TypeOK
  <1>15. code'[Innermost] = PushScope(StackSize)
    BY <1>1, <1>2, <1>3, ClosePatches
  <1> QED
    BY <1>6, <1>7, <1>8, <1>9, <1>10, <1>11, <1>12, <1>14, <1>15 DEF b, e, fr, p

LEMMA IfBeginStep ==
    ASSUME TypeOK, IfBegin
    PROVE  /\ TypeOK' /\ Kept(2) /\ Opened(Len(code) + 2, Frame("then", currentCounter))
           /\ Depth > 0
           /\ code'[Len(code) + 1] = JmpCond(ControlLabel("else_begin", currentCounter))
           /\ code'[Len(code) + 2] = PushScope(0)
           /\ home'[Len(code) + 1] = Innermost /\ home'[Len(code) + 2] = Innermost
  <1> DEFINE l == ControlLabel("else_begin", currentCounter)
             instrs == <<JmpCond(l), PushScope(0)>>
             fr == Frame("then", currentCounter)
  <1>1. l \in CodeLabels /\ fr \in Frames
    BY DEF TypeOK, ControlLabel, CodeLabels, ControlKinds, Frame, Frames
  <1>2. /\ instrs \in Seq(Instrs) /\ Len(instrs) = 2 /\ 2 \in 1..Len(instrs)
        /\ instrs[1] = JmpCond(l) /\ instrs[2] = PushScope(0) /\ instrs[2].op = "pushscope"
    BY <1>1, InstrTypes DEF PushScope
  <1>3. /\ Emit(instrs) /\ OpenAt(2, fr) /\ currentCounter' \in Nat /\ functions' = functions
        /\ stage' \in {"between", "func", "main", "done"}
    BY DEF IfBegin, TypeOK
  <1>4. Depth > 0
    BY StateFacts DEF IfBegin, InStmtList, RoomToNest
  <1> HIDE DEF instrs, l, fr
  <1>5. TypeOK' /\ Kept(Len(instrs)) /\ Opened(Len(code) + 2, fr)
    BY <1>1, <1>2, <1>3, BeginStep
  <1>6. /\ code'[Len(code) + 1] = instrs[1] /\ home'[Len(code) + 1] = Innermost
        /\ code'[Len(code) + 2] = instrs[2] /\ home'[Len(code) + 2] = Innermost
    <2>1. \A i \in 1..Len(instrs) : /\ code'[Len(code) + i] = instrs[i]
                                    /\ home'[Len(code) + i] = Innermost
      BY <1>2, <1>3, EmitFacts
    <2> QED
      BY <1>2, <2>1
  <1> QED
    BY <1>2, <1>4, <1>5, <1>6 DEF l, fr

LEMMA WhileBeginStep ==
    ASSUME TypeOK, WhileBegin
    PROVE  /\ TypeOK' /\ Kept(3) /\ Opened(Len(code) + 3, Frame("while", currentCounter))
           /\ Depth > 0
           /\ code'[Len(code) + 1] = Label(ControlLabel("while_begin", currentCounter))
           /\ code'[Len(code) + 2] = JmpCond(ControlLabel("while_end", currentCounter))
           /\ code'[Len(code) + 3] = PushScope(0)
           /\ home'[Len(code) + 1] = Innermost /\ home'[Len(code) + 2] = Innermost
           /\ home'[Len(code) + 3] = Innermost
  <1> DEFINE b == ControlLabel("while_begin", currentCounter)
             e == ControlLabel("while_end", currentCounter)
             instrs == <<Label(b), JmpCond(e), PushScope(0)>>
             fr == Frame("while", currentCounter)
  <1>1. b \in CodeLabels /\ e \in CodeLabels /\ fr \in Frames
    BY DEF TypeOK, ControlLabel, CodeLabels, ControlKinds, Frame, Frames
  <1>2. /\ instrs \in Seq(Instrs) /\ Len(instrs) = 3 /\ 3 \in 1..Len(instrs)
        /\ instrs[1] = Label(b) /\ instrs[2] = JmpCond(e)
        /\ instrs[3] = PushScope(0) /\ instrs[3].op = "pushscope"
    <2>1. PushScope(0) \in Instrs /\ PushScope(0).op = "pushscope"
      BY InstrTypes DEF PushScope
    <2>2. Label(b) \in Instrs /\ JmpCond(e) \in Instrs
      BY <1>1, InstrTypes
    <2> HIDE DEF b, e
    <2> QED
      BY <2>1, <2>2
  <1>3. /\ Emit(instrs) /\ OpenAt(3, fr) /\ currentCounter' \in Nat /\ functions' = functions
        /\ stage' \in {"between", "func", "main", "done"}
    BY DEF WhileBegin, TypeOK
  <1>4. Depth > 0
    BY StateFacts DEF WhileBegin, InStmtList, RoomToNest
  <1> HIDE DEF instrs, b, e, fr
  <1>5. TypeOK' /\ Kept(Len(instrs)) /\ Opened(Len(code) + 3, fr)
    BY <1>1, <1>2, <1>3, BeginStep
  <1>6. /\ code'[Len(code) + 1] = instrs[1] /\ home'[Len(code) + 1] = Innermost
        /\ code'[Len(code) + 2] = instrs[2] /\ home'[Len(code) + 2] = Innermost
        /\ code'[Len(code) + 3] = instrs[3] /\ home'[Len(code) + 3] = Innermost
    <2>1. \A i \in 1..Len(instrs) : /\ code'[Len(code) + i] = instrs[i]
                                    /\ home'[Len(code) + i] = Innermost
      BY <1>2, <1>3, EmitFacts
    <2> QED
      BY <1>2, <2>1
  <1> QED
    BY <1>2, <1>4, <1>5, <1>6 DEF b, e, fr

LEMMA ScopeBeginStep ==
    ASSUME TypeOK, ScopeBegin
    PROVE  /\ TypeOK' /\ Kept(1) /\ Opened(Len(code) + 1, Frame("scope", 0)) /\ Depth > 0
           /\ code'[Len(code) + 1] = PushScope(0) /\ home'[Len(code) + 1] = Innermost
  <1> DEFINE instrs == <<PushScope(0)>>
             fr == Frame("scope", 0)
  <1>1. fr \in Frames
    BY DEF Frame, Frames
  <1>2. /\ instrs \in Seq(Instrs) /\ Len(instrs) = 1 /\ 1 \in 1..Len(instrs)
        /\ instrs[1] = PushScope(0) /\ instrs[1].op = "pushscope"
    BY InstrTypes DEF PushScope
  <1>3. /\ Emit(instrs) /\ OpenAt(1, fr) /\ currentCounter' \in Nat /\ functions' = functions
        /\ stage' \in {"between", "func", "main", "done"}
    BY DEF ScopeBegin, TypeOK
  <1>4. Depth > 0
    BY StateFacts DEF ScopeBegin, InStmtList, RoomToNest
  <1> HIDE DEF instrs, fr
  <1>5. TypeOK' /\ Kept(Len(instrs)) /\ Opened(Len(code) + 1, fr)
    BY <1>1, <1>2, <1>3, BeginStep
  <1>6. code'[Len(code) + 1] = instrs[1] /\ home'[Len(code) + 1] = Innermost
    <2>1. \A i \in 1..Len(instrs) : /\ code'[Len(code) + i] = instrs[i]
                                    /\ home'[Len(code) + i] = Innermost
      BY <1>2, <1>3, EmitFacts
    <2> QED
      BY <1>2, <2>1
  <1> QED
    BY <1>2, <1>4, <1>5, <1>6 DEF fr

LEMMA BeginMainStep ==
    ASSUME TypeOK, BeginMain
    PROVE  /\ TypeOK' /\ Kept(3) /\ Opened(Len(code) + 3, Frame("main", 0))
           /\ code'[Len(code) + 1] = Label(MainLabel)
           /\ code'[Len(code) + 2] = Simple("locale")
           /\ code'[Len(code) + 3] = PushScope(0)
           /\ home'[Len(code) + 1] = Innermost /\ home'[Len(code) + 2] = Innermost
           /\ home'[Len(code) + 3] = Innermost
  <1> DEFINE instrs == <<Label(MainLabel), Simple("locale"), PushScope(0)>>
             fr == Frame("main", 0)
  <1>1. MainLabel \in CodeLabels /\ fr \in Frames
    BY DEF MainLabel, CodeLabels, Frame, Frames
  <1>2. /\ instrs \in Seq(Instrs) /\ Len(instrs) = 3 /\ 3 \in 1..Len(instrs)
        /\ instrs[1] = Label(MainLabel) /\ instrs[2] = Simple("locale")
        /\ instrs[3] = PushScope(0) /\ instrs[3].op = "pushscope"
    <2>1. PushScope(0) \in Instrs /\ PushScope(0).op = "pushscope"
      BY InstrTypes DEF PushScope
    <2>2. Label(MainLabel) \in Instrs /\ Simple("locale") \in Instrs
      BY <1>1, InstrTypes DEF SimpleKinds
    <2> QED
      BY <2>1, <2>2
  <1>3. /\ Emit(instrs) /\ OpenAt(3, fr) /\ currentCounter' \in Nat /\ functions' = functions
        /\ stage' \in {"between", "func", "main", "done"}
    BY DEF BeginMain, TypeOK
  <1> HIDE DEF instrs, fr
  <1>4. TypeOK' /\ Kept(Len(instrs)) /\ Opened(Len(code) + 3, fr)
    BY <1>1, <1>2, <1>3, BeginStep
  <1>5. /\ code'[Len(code) + 1] = instrs[1] /\ home'[Len(code) + 1] = Innermost
        /\ code'[Len(code) + 2] = instrs[2] /\ home'[Len(code) + 2] = Innermost
        /\ code'[Len(code) + 3] = instrs[3] /\ home'[Len(code) + 3] = Innermost
    <2>1. \A i \in 1..Len(instrs) : /\ code'[Len(code) + i] = instrs[i]
                                    /\ home'[Len(code) + i] = Innermost
      BY <1>2, <1>3, EmitFacts
    <2> QED
      BY <1>2, <2>1
  <1> QED
    BY <1>2, <1>4, <1>5 DEF fr

\* A function: label, PushScope, and a Declare and a move for each parameter.
LEMMA BeginFunctionStep ==
    ASSUME TypeOK, NEW f \in Funcs, NEW ps \in Seq(Names), BeginFunction(f, ps)
    PROVE  /\ TypeOK' /\ Kept(2 + 2 * Len(ps)) /\ Depth' = 1
           /\ scopePushInstr'[1] = Len(code) + 2 /\ frames'[1] = Frame("func", 0)
           /\ scope'[1] = {ps[i] : i \in 1..Len(ps)}
           /\ code'[Len(code) + 1] = Label(FuncLabel(f))
           /\ code'[Len(code) + 2] = PushScope(0)
           /\ home'[Len(code) + 1] = 0 /\ home'[Len(code) + 2] = 0
           /\ \A i \in 1..(2 * Len(ps)) :
                /\ code'[Len(code) + 2 + i] = IF i % 2 = 1 THEN Declare(ps[(i + 1) \div 2])
                                              ELSE Simple("param")
                /\ home'[Len(code) + 2 + i] = Len(code) + 2
  <1> DEFINE n == 2 * Len(ps)
             moves == [i \in 1..n |-> IF i % 2 = 1 THEN Declare(ps[(i + 1) \div 2])
                                                  ELSE Simple("param")]
             here == [i \in 1..Len(moves) |-> Len(code) + 2]
             head == <<Label(FuncLabel(f)), PushScope(0)>>
             zeros == <<0, 0>>
  <1>1. /\ Len(ps) \in Nat /\ n \in Nat /\ Len(code) \in Nat /\ Len(home) = Len(code)
        /\ code \in Seq(Instrs) /\ home \in Seq(Positions)
    BY StateFacts, LenProperties
  <1>2. ASSUME NEW i \in 1..n, i % 2 = 1 PROVE ps[(i + 1) \div 2] \in Names
    <2>1. (i + 1) \div 2 \in 1..Len(ps)
      BY <1>1, <1>2
    <2> QED
      BY <2>1, ElementOfSeq
  <1>3. /\ moves \in Seq(Instrs) /\ Len(moves) = n
        /\ \A i \in 1..n : moves[i] = IF i % 2 = 1 THEN Declare(ps[(i + 1) \div 2])
                                       ELSE Simple("param")
    <2>1. ASSUME NEW i \in 1..n
          PROVE  (IF i % 2 = 1 THEN Declare(ps[(i + 1) \div 2]) ELSE Simple("param")) \in Instrs
      BY <1>2, InstrTypes DEF SimpleKinds
    <2> QED
      BY <1>1, <2>1
  <1>4. /\ here \in Seq(Positions) /\ Len(here) = n
        /\ \A i \in 1..n : here[i] = Len(code) + 2
    BY <1>1, <1>3 DEF Positions
  <1>5. /\ head \in Seq(Instrs) /\ Len(head) = 2
        /\ head[1] = Label(FuncLabel(f)) /\ head[2] = PushScope(0)
    <2>1. Label(FuncLabel(f)) \in Instrs /\ PushScope(0) \in Instrs
      BY InstrTypes DEF FuncLabel, CodeLabels
    <2> QED
      BY <2>1
  <1>6. zeros \in Seq(Positions) /\ Len(zeros) = 2 /\ zeros[1] = 0 /\ zeros[2] = 0
    BY DEF Positions
  <1>7. code' = code \o (head \o moves) /\ home' = home \o (zeros \o here)
    BY DEF BeginFunction
  <1> HIDE DEF n, moves, here, head, zeros
  <1>8. /\ head \o moves \in Seq(Instrs) /\ Len(head \o moves) = Len(head) + Len(moves)
        /\ \A i \in 1..Len(head) : (head \o moves)[i] = head[i]
        /\ \A i \in 1..Len(moves) : (head \o moves)[Len(head) + i] = moves[i]
    <2>1. head \in Seq(Instrs) /\ moves \in Seq(Instrs)
      BY <1>3, <1>5
    <2> QED
      BY <2>1, ConcatElements
  <1>9. /\ zeros \o here \in Seq(Positions) /\ Len(zeros \o here) = Len(zeros) + Len(here)
        /\ \A i \in 1..Len(zeros) : (zeros \o here)[i] = zeros[i]
        /\ \A i \in 1..Len(here) : (zeros \o here)[Len(zeros) + i] = here[i]
    <2>1. zeros \in Seq(Positions) /\ here \in Seq(Positions)
      BY <1>4, <1>6
    <2> QED
      BY <2>1, ConcatElements
  <1> DEFINE tail == head \o moves
             homes == zeros \o here
  <1>10. /\ tail \in Seq(Instrs) /\ Len(tail) = 2 + n
         /\ tail[1] = Label(FuncLabel(f)) /\ tail[2] = PushScope(0)
         /\ \A i \in 1..n : tail[2 + i] = moves[i]
    BY <1>1, <1>3, <1>5, <1>8
  <1>11. /\ homes \in Seq(Positions) /\ Len(homes) = 2 + n /\ homes[1] = 0 /\ homes[2] = 0
         /\ \A i \in 1..n : homes[2 + i] = Len(code) + 2
    BY <1>1, <1>4, <1>6, <1>9
  <1>12. code' = code \o tail /\ home' = home \o homes
    BY <1>7
  <1> HIDE DEF tail, homes
  <1>13. /\ code' \in Seq(Instrs) /\ Len(code') = Len(code) + Len(tail)
         /\ \A i \in 1..Len(code) : code'[i] = code[i]
         /\ \A i \in 1..Len(tail) : code'[Len(code) + i] = tail[i]
    <2>1. code \in Seq(Instrs) /\ tail \in Seq(Instrs)
      BY <1>1, <1>10
    <2> QED
      BY <2>1, <1>12, ConcatElements
  <1>14. /\ home' \in Seq(Positions) /\ Len(home') = Len(home) + Len(homes)
         /\ \A i \in 1..Len(home) : home'[i] = home[i]
         /\ \A i \in 1..Len(homes) : home'[Len(home) + i] = homes[i]
    <2>1. home \in Seq(Positions) /\ homes \in Seq(Positions)
      BY <1>1, <1>11
    <2> QED
      BY <2>1, <1>12, ConcatElements
  <1>15. Kept(2 + n)
    BY <1>1, <1>10, <1>11, <1>13, <1>14 DEF Kept
  <1>16. 1 \in 1..(2 + n) /\ 2 \in 1..(2 + n)
    BY <1>1
  <1>17. /\ code'[Len(code) + 1] = Label(FuncLabel(f)) /\ home'[Len(code) + 1] = 0
         /\ code'[Len(code) + 2] = PushScope(0) /\ home'[Len(code) + 2] = 0
    BY ZenonT(60), <1>1, <1>10, <1>11, <1>13, <1>14, <1>16
  <1>18. ASSUME NEW i \in 1..n
         PROVE  /\ code'[Len(code) + 2 + i] = IF i % 2 = 1 THEN Declare(ps[(i + 1) \div 2])
                                              ELSE Simple("param")
                /\ home'[Len(code) + 2 + i] = Len(code) + 2
    <2>1. 2 + i \in 1..(2 + n) /\ Len(code) + 2 + i = Len(code) + (2 + i)
      BY <1>1
    <2>2. code'[Len(code) + (2 + i)] = tail[2 + i] /\ home'[Len(home) + (2 + i)] = homes[2 + i]
      BY <1>10, <1>11, <1>13, <1>14, <2>1
    <2> QED
      BY <1>1, <1>3, <1>10, <1>11, <2>1, <2>2
  <1>19. /\ scope' = <<{ps[i] : i \in 1..Len(ps)}>>
         /\ scopePushInstr' = <<Len(code) + 2>> /\ frames' = <<Frame("func", 0)>>
         /\ functions' = functions \cup {f} /\ stage' = "func"
         /\ currentCounter' = currentCounter
    BY DEF BeginFunction
  <1>20. /\ Depth' = 1 /\ Len(scope') = 1 /\ Len(frames') = 1
         /\ scopePushInstr'[1] = Len(code) + 2 /\ frames'[1] = Frame("func", 0)
         /\ scope'[1] = {ps[i] : i \in 1..Len(ps)}
    BY <1>19 DEF Depth
  <1>21. /\ scope' \in Seq(SUBSET Names)
         /\ scopePushInstr' \in Seq(Positions) /\ frames' \in Seq(Frames)
    <2>1. {ps[i] : i \in 1..Len(ps)} \in SUBSET Names
      BY ElementOfSeq
    <2>2. Len(code) + 2 \in Positions /\ Frame("func", 0) \in Frames
      BY <1>1 DEF Positions, Frame, Frames
    <2> QED
      BY <1>19, <2>1, <2>2
  <1>22. TypeOK'
    <2>1. /\ code' \in Seq(Instrs) /\ home' \in Seq(Positions) /\ Len(home') = Len(code')
          /\ Len(code') = Len(code) + (2 + n)
      BY <1>15 DEF Kept
    <2>2. Len(code) + 2 \in 1..Len(code')
      BY <1>1, <2>1
    <2>3. PushScope(0).op = "pushscope"
      BY DEF PushScope
    <2>4. \A k \in 1..Depth' : /\ scopePushInstr'[k] \in 1..Len(code')
                               /\ code'[scopePushInstr'[k]].op = "pushscope"
      BY <1>17, <1>20, <2>2, <2>3
    <2>5. /\ currentCounter' \in Nat /\ functions' \subseteq Funcs
          /\ stage' \in {"between", "func", "main", "done"}
      BY <1>19 DEF TypeOK
    <2> QED
      BY <1>20, <1>21, <2>1, <2>4, <2>5 DEF TypeOK
  <1> QED
    BY <1>15, <1>17, <1>18, <1>20, <1>22 DEF n

-----------------------------------------------------------------------------
(* Type correctness.                                                       *)

LEMMA ParamListsAreSeqs == \A ps \in ParamLists : ps \in Seq(Names)
  BY BoundsAssumption DEF ParamLists

LEMMA InitType == Init => TypeOK
  BY DEF Init, TypeOK, Depth

\* The steps that close a block with nothing after its PopScope.
LEMMA ClosingStep ==
    ASSUME TypeOK, EndFunction \/ EndMain \/ ScopeEnd
    PROVE  /\ TypeOK' /\ Kept(1) /\ Dropped
           /\ code'[Innermost] = PushScope(StackSize)
           /\ code'[Len(code) + 1] = PopScope(StackSize) /\ home'[Len(code) + 1] = Innermost
  <1>1. /\ Depth > 0 /\ CloseAndEmit(<<>>) /\ DropTop
        /\ currentCounter' = currentCounter /\ functions' = functions
        /\ stage' \in {"between", "func", "main", "done"}
    <2>1. Depth > 0
      BY TopFrame DEF EndFunction, EndMain, ScopeEnd
    <2> QED
      BY <2>1 DEF EndFunction, EndMain, ScopeEnd, TypeOK
  <1> QED
    BY <1>1, BlockEndStep

LEMMA NextType == TypeOK /\ [Next]_vars => TypeOK'
  <1> SUFFICES ASSUME TypeOK, [Next]_vars PROVE TypeOK'
    OBVIOUS
  <1>1. CASE \E f \in Funcs, ps \in ParamLists : BeginFunction(f, ps)
    BY <1>1, ParamListsAreSeqs, BeginFunctionStep
  <1>2. CASE EndFunction \/ EndMain \/ ScopeEnd
    BY <1>2, ClosingStep
  <1>3. CASE BeginMain
    BY <1>3, BeginMainStep
  <1>4. CASE (\E kind \in StmtKinds : Statement(kind)) \/ PrintLn \/ ReturnStmt
    <2>1. PICK m \in 1..2 : Straight(m) /\ UNCHANGED scope
      BY <1>4, StatementStep
    <2>2. m \in Nat
      OBVIOUS
    <2>3. scope' \in Seq(SUBSET Names) /\ Len(scope') = Depth
      BY <2>1, StateFacts DEF TypeOK
    <2> QED
      BY <2>1, <2>2, <2>3, StraightType
  <1>5. CASE \E v \in Names : DeclStmt(v)
    <2>1. Straight(2) /\ scope' \in Seq(SUBSET Names) /\ Len(scope') = Depth
      BY <1>5, DeclStep
    <2> QED
      BY <2>1, StraightType
  <1>6. CASE IfBegin
    BY <1>6, IfBeginStep
  <1>7. CASE IfElse
    BY <1>7, IfElseStep
  <1>8. CASE IfEnd
    BY <1>8, IfEndStep
  <1>9. CASE WhileBegin
    BY <1>9, WhileBeginStep
  <1>10. CASE WhileEnd
    BY <1>10, WhileEndStep
  <1>11. CASE ScopeBegin
    BY <1>11, ScopeBeginStep
  <1>12. CASE UNCHANGED vars
    BY <1>12 DEF TypeOK, Depth, vars
  <1> QED
    BY <1>1, <1>2, <1>3, <1>4, <1>5, <1>6, <1>7, <1>8, <1>9, <1>10, <1>11, <1>12 DEF Next

\* The variables keep their types: the translator's three stacks move together
\* and every open scope refers to a PushScope that has been emitted.
THEOREM TypeCorrect == Spec => []TypeOK
  BY InitType, NextType, PTL DEF Spec

-----------------------------------------------------------------------------
(* Jumps and labels: JumpInv is inductive.                                 *)

LEMMA KeptInstr ==
    ASSUME TypeOK, NEW m \in Nat, Kept(m)
    PROVE  /\ Len(code) \in Nat /\ Len(code') = Len(code) + m
           /\ \A i \in 1..Len(code) :
                /\ home'[i] = home[i]
                /\ IsLabel(code'[i]) <=> IsLabel(code[i])
                /\ IsJump(code'[i]) <=> IsJump(code[i])
                /\ IsLabel(code[i]) \/ IsJump(code[i]) => code'[i] = code[i]
           /\ \A i \in 1..Len(code') : i \in 1..Len(code)
                                       \/ \E d \in 1..m : i = Len(code) + d
  <1>1. Len(code) \in Nat
    BY StateFacts
  <1>2. Len(code') = Len(code) + m
    BY DEF Kept
  <1>3. \A i \in 1..Len(code) :
                /\ home'[i] = home[i]
                /\ IsLabel(code'[i]) <=> IsLabel(code[i])
                /\ IsJump(code'[i]) <=> IsJump(code[i])
                /\ IsLabel(code[i]) \/ IsJump(code[i]) => code'[i] = code[i]
    BY DEF Kept, IsLabel, IsJump
  <1>4. ASSUME NEW i \in 1..Len(code'), i \notin 1..Len(code)
        PROVE  \E d \in 1..m : i = Len(code) + d
    <2>1. i - Len(code) \in 1..m /\ i = Len(code) + (i - Len(code))
      BY <1>1, <1>2, <1>4
    <2> QED
      BY <2>1
  <1> QED
    BY <1>1, <1>2, <1>3, <1>4

LEMMA NewJumps ==
    ASSUME TypeOK, NEW m \in Nat, Kept(m), \A d \in 1..m : ~IsJump(code'[Len(code) + d])
    PROVE  \A i \in 1..Len(code') : i \notin 1..Len(code) => ~IsJump(code'[i])
  BY KeptInstr

\* The part of JumpInv that is about the labels in the code.
LabelInv == LabelsUnique /\ LabelNumbersFresh /\ FunctionLabels

\* The step appends m instructions, of which at most the p-th is a label.
LabelOnlyAt(p, m) ==
    /\ p \in 1..m /\ Kept(m)
    /\ \A i \in 1..m : i # p => ~IsLabel(code'[Len(code) + i])

\* A step that appends at most one label, at p, and a new one.
LEMMA LabelStep ==
    ASSUME TypeOK, LabelInv, NEW m \in Nat, NEW p, LabelOnlyAt(p, m),
           IsLabel(code'[Len(code) + p]) =>
              /\ \A j \in 1..Len(code) : IsLabel(code[j]) =>
                    code[j].label # code'[Len(code) + p].label
              /\ code'[Len(code) + p].label.kind \in ControlKinds =>
                    code'[Len(code) + p].label.n < currentCounter'
              /\ code'[Len(code) + p].label.kind = "func" =>
                    code'[Len(code) + p].label.func \in functions'
              /\ code'[Len(code) + p].label.kind = "main" => stage' \in {"main", "done"},
           currentCounter' \in {currentCounter, currentCounter + 1},
           functions \subseteq functions',
           stage \in {"main", "done"} => stage' \in {"main", "done"}
    PROVE  LabelInv'
  <1>1. /\ Len(code) \in Nat /\ Len(code') = Len(code) + m
        /\ \A i \in 1..Len(code) :
                /\ IsLabel(code'[i]) <=> IsLabel(code[i])
                /\ IsLabel(code[i]) => code'[i] = code[i]
        /\ \A i \in 1..Len(code') : i \in 1..Len(code)
                                    \/ \E d \in 1..m : i = Len(code) + d
        /\ p \in 1..m /\ \A i \in 1..m : i # p => ~IsLabel(code'[Len(code) + i])
    BY KeptInstr DEF LabelOnlyAt
  <1>2. \A i \in 1..Len(code') : IsLabel(code'[i]) =>
           \/ i \in 1..Len(code) /\ IsLabel(code[i]) /\ code'[i] = code[i]
           \/ i = Len(code) + p
    BY <1>1
  <1>3. LabelsUnique'
    BY <1>2 DEF LabelInv, LabelsUnique
  <1>4. LabelNumbersFresh'
    <2>1. \A i \in 1..Len(code) : IsLabel(code[i]) /\ code[i].label.kind \in ControlKinds
              => code[i].label.n \in Nat
      <3>1. \A i \in 1..Len(code) : code[i] \in Instrs
        BY StateFacts, ElementOfSeq
      <3>2. \A i \in 1..Len(code) : IsLabel(code[i]) => code[i].label \in CodeLabels
        BY <3>1 DEF Instrs, IsLabel, SimpleKinds
      <3> QED
        BY <3>2 DEF CodeLabels, ControlKinds
    <2>2. currentCounter \in Nat
      BY DEF TypeOK
    <2> QED
      BY <1>2, <2>1, <2>2 DEF LabelInv, LabelNumbersFresh
  <1>5. FunctionLabels'
    BY <1>2 DEF LabelInv, FunctionLabels
  <1> QED
    BY <1>3, <1>4, <1>5 DEF LabelInv

LEMMA LabelFacts ==
    /\ \A l : IsLabel(Label(l)) /\ Label(l).label = l /\ ~IsJump(Label(l))
    /\ \A l : IsJump(Jmp(l)) /\ Jmp(l).dst = l /\ ~IsLabel(Jmp(l))
    /\ \A l : IsJump(JmpCond(l)) /\ JmpCond(l).dst = l /\ ~IsLabel(JmpCond(l))
    /\ \A n : ~IsLabel(PushScope(n)) /\ ~IsJump(PushScope(n))
    /\ \A n : ~IsLabel(PopScope(n)) /\ ~IsJump(PopScope(n))
    /\ \A k \in SimpleKinds \cup {"move"} : ~IsLabel(Simple(k)) /\ ~IsJump(Simple(k))
    /\ \A v : ~IsLabel(Declare(v)) /\ ~IsJump(Declare(v))
    /\ \A l1, l2 : Label(l1) = Label(l2) => l1 = l2
    /\ \A k, n : ControlLabel(k, n).kind = k /\ ControlLabel(k, n).n = n
    /\ \A k1, n1, k2, n2 : ControlLabel(k1, n1) = ControlLabel(k2, n2) => k1 = k2 /\ n1 = n2
    /\ \A f : FuncLabel(f).kind = "func" /\ FuncLabel(f).func = f
    /\ MainLabel.kind = "main"
  BY DEF IsLabel, IsJump, Label, Jmp, JmpCond, PushScope, PopScope, Simple, SimpleKinds,
         Declare, ControlLabel, FuncLabel, MainLabel

\* A label instruction is determined by its label.
LEMMA LabelShape ==
    ASSUME TypeOK, NEW i \in 1..Len(code), IsLabel(code[i])
    PROVE  code[i] = Label(code[i].label)
  <1>1. code[i] \in Instrs
    BY StateFacts, ElementOfSeq
  <1>2. code[i] \in [op : {"label"}, label : CodeLabels]
    BY <1>1 DEF Instrs, IsLabel, SimpleKinds
  <1> QED
    BY <1>2 DEF Label

\* A step that appends a control label that is new, at p, and no other label.
LEMMA ControlLabelStep ==
    ASSUME TypeOK, LabelInv, NEW m \in Nat, NEW p, LabelOnlyAt(p, m),
           NEW kind \in ControlKinds, NEW n,
           code'[Len(code) + p] = Label(ControlLabel(kind, n)),
           \A j \in 1..Len(code) : code[j] # Label(ControlLabel(kind, n)),
           n < currentCounter',
           currentCounter' \in {currentCounter, currentCounter + 1},
           UNCHANGED <<functions, stage>>
    PROVE  LabelInv'
  <1> DEFINE new == code'[Len(code) + p]
  <1>1. IsLabel(new) /\ new.label = ControlLabel(kind, n)
    BY LabelFacts
  <1>2. new.label.kind = kind /\ new.label.n = n
    BY <1>1, LabelFacts
  <1>3. kind # "func" /\ kind # "main"
    BY DEF ControlKinds
  <1>4. \A j \in 1..Len(code) : IsLabel(code[j]) => code[j].label # new.label
    BY <1>1, LabelShape
  <1>5. /\ new.label.kind \in ControlKinds => new.label.n < currentCounter'
        /\ new.label.kind = "func" => new.label.func \in functions'
        /\ new.label.kind = "main" => stage' \in {"main", "done"}
    BY <1>2, <1>3
  <1>6. functions \subseteq functions' /\ (stage \in {"main", "done"} => stage' \in {"main", "done"})
    OBVIOUS
  <1> HIDE DEF new
  <1> QED
    BY <1>4, <1>5, <1>6, LabelStep DEF new

\* Where the statement of a frame stands, before and after a step.
LEMMA OutsideFacts ==
    ASSUME TypeOK
    PROVE  /\ Depth > 0 => Outside(Depth) = Around
           /\ Dropped => \A k \in 1..Depth' : Outside(k)' = Outside(k)
           /\ \A p, fr : Opened(p, fr) => /\ \A k \in 1..Depth : Outside(k)' = Outside(k)
                                         /\ Outside(Depth)' = Innermost
  <1>1. Depth \in Nat
    BY StateFacts
  <1>2. Depth > 0 => Outside(Depth) = Around
    BY <1>1 DEF Outside, Around
  <1>3. ASSUME Dropped, NEW k \in 1..Depth' PROVE Outside(k)' = Outside(k)
    BY <1>1, <1>3 DEF Dropped, Outside
  <1>4. ASSUME NEW p, NEW fr, Opened(p, fr)
        PROVE  /\ \A k \in 1..Depth : Outside(k)' = Outside(k)
               /\ Outside(Depth)' = Innermost
    <2>1. Depth' = Depth + 1 /\ \A j \in 1..Depth : scopePushInstr'[j] = scopePushInstr[j]
      BY <1>4 DEF Opened
    <2>2. \A k \in 1..Depth : Outside(k)' = Outside(k)
      BY <1>1, <2>1 DEF Outside
    <2>3. Outside(Depth)' = Innermost
      BY <1>1, <2>1 DEF Outside, Innermost
    <2> QED
      BY <2>2, <2>3
  <1> QED
    BY <1>2, <1>3, <1>4
LEMMA OwedFacts ==
    /\ OwedKinds("then") = {"else_begin", "ifelse_end"}
    /\ OwedKinds("else") = {"ifelse_end"}
    /\ OwedKinds("while") = {"while_end"}
    /\ \A kind : kind \notin StatementFrames => OwedKinds(kind) = {}
    /\ \A kind : OwedKinds(kind) \subseteq ControlKinds
    /\ AwaitedKind("then") = "else_begin"
    /\ AwaitedKind("else") = "ifelse_end"
    /\ AwaitedKind("while") = "while_end"
  BY DEF OwedKinds, AwaitedKind, StatementFrames, ControlKinds

-----------------------------------------------------------------------------
(* The frames.                                                             *)

LEMMA FramesKept ==
    ASSUME FramesNest, FrameNumbersFresh,
           UNCHANGED <<scopePushInstr, frames, currentCounter, stage>>
    PROVE  FramesNest' /\ FrameNumbersFresh'
  BY DEF FramesNest, FrameNumbersFresh, Depth

LEMMA FramesDropped ==
    ASSUME TypeOK, Depth > 0, FramesNest, FrameNumbersFresh, Dropped,
           currentCounter' = currentCounter,
           Depth = 1 => stage' \in {"between", "done"},
           Depth > 1 => stage' = stage
    PROVE  FramesNest' /\ FrameNumbersFresh'
  <1>1. /\ Depth \in Nat /\ Depth' = Depth - 1
        /\ \A j \in 1..Depth' : frames'[j] = frames[j] /\ j \in 1..Depth
    BY StateFacts DEF Dropped
  <1>2. FramesNest'
    BY <1>1 DEF FramesNest
  <1>3. FrameNumbersFresh'
    BY <1>1 DEF FrameNumbersFresh
  <1> QED
    BY <1>2, <1>3

LEMMA OpenedFacts ==
    ASSUME TypeOK, NEW p, NEW fr, Opened(p, fr)
    PROVE  /\ Depth \in Nat /\ Depth' = Depth + 1 /\ frames'[Depth'] = fr
           /\ Depth' \in 1..Depth'
           /\ \A k \in 1..Depth' : k \in 1..Depth \/ k = Depth'
           /\ \A k \in 1..Depth : k \in 1..Depth' /\ frames'[k] = frames[k]
  <1>1. /\ Depth \in Nat /\ Depth' = Depth + 1 /\ frames'[Depth'] = fr
        /\ \A k \in 1..Depth : frames'[k] = frames[k]
    BY StateFacts DEF Opened
  <1> QED
    BY <1>1

LEMMA FramesOpened ==
    ASSUME TypeOK, Depth > 0, FramesNest, FrameNumbersFresh,
           NEW p, NEW fr \in Frames, Opened(p, fr),
           fr.kind \notin {"func", "main"}, stage' = stage,
           \/ currentCounter' = currentCounter /\ fr.kind \notin StatementFrames
           \/ currentCounter' = currentCounter + 1 /\ fr.n = currentCounter
    PROVE  FramesNest' /\ FrameNumbersFresh'
  <1>1. /\ Depth \in Nat /\ Depth' = Depth + 1 /\ currentCounter \in Nat
        /\ \A j \in 1..Depth : frames'[j] = frames[j]
        /\ frames'[Depth + 1] = fr
    BY StateFacts DEF Opened, TypeOK
  <1>2. \A j \in 1..Depth' : j \in 1..Depth \/ j = Depth + 1
    BY <1>1
  <1>3. \A j \in 1..Depth : frames[j].kind \in StatementFrames => frames[j].n \in Nat
    <2>1. \A j \in 1..Depth : frames[j] \in Frames
      BY StateFacts, ElementOfSeq DEF TypeOK
    <2> QED
      BY <2>1 DEF Frames
  <1>4. FramesNest'
    BY <1>1, <1>2 DEF FramesNest
  <1>5. FrameNumbersFresh'
    BY <1>1, <1>2, <1>3 DEF FrameNumbersFresh
  <1> QED
    BY <1>4, <1>5

\* A statement's frame stands on another one; a function's or main's does not.
LEMMA TopStanding ==
    ASSUME TypeOK, FramesNest, NEW kind, InBlock(kind)
    PROVE  /\ kind \in {"func", "main"} => Depth = 1
           /\ kind \notin {"func", "main"} => Depth > 1
  <1>1. Depth \in Nat /\ Depth > 0 /\ frames[Depth].kind = kind
    BY TopFrame
  <1>2. Depth = 1 => kind = stage /\ stage \in {"func", "main"}
    BY <1>1 DEF FramesNest, TypeOK
  <1>3. Depth > 1 => kind \notin {"func", "main"}
    BY <1>1 DEF FramesNest
  <1> QED
    BY <1>1, <1>2, <1>3

-----------------------------------------------------------------------------
(* The labels still owed, the loops begun and the jumps waiting.           *)

\* The labels a frame owes are those a frame owed before, or are numbered with
\* the counter; the step appends at most one label, at p, and none of them.
OwedAfter(p) ==
    \A k \in 1..Depth' : \A kind \in OwedKinds(frames'[k].kind) :
        /\ \/ \E l \in 1..Depth : /\ frames[l].n = frames'[k].n
                                  /\ kind \in OwedKinds(frames[l].kind)
           \/ frames'[k].n = currentCounter
        /\ code'[Len(code) + p] # Label(ControlLabel(kind, frames'[k].n))

LEMMA OwedStep ==
    ASSUME TypeOK, LabelNumbersFresh, OwedLabelsAbsent,
           NEW m \in Nat, NEW p, LabelOnlyAt(p, m), OwedAfter(p)
    PROVE  OwedLabelsAbsent'
  <1> SUFFICES ASSUME NEW k \in 1..Depth', NEW kind \in OwedKinds(frames'[k].kind),
                      NEW i \in 1..Len(code'),
                      code'[i] = Label(ControlLabel(kind, frames'[k].n))
               PROVE  FALSE
    BY DEF OwedLabelsAbsent
  <1> DEFINE l == ControlLabel(kind, frames'[k].n)
  <1>1. IsLabel(code'[i]) /\ code'[i].label = l /\ l.kind = kind /\ l.n = frames'[k].n
    BY LabelFacts
  <1>2. kind \in ControlKinds
    BY OwedFacts
  <1>3. i \in 1..Len(code) /\ code'[i] = code[i] /\ IsLabel(code[i])
    <2>1. ASSUME NEW d \in 1..m PROVE i # Len(code) + d
      BY <1>1 DEF LabelOnlyAt, OwedAfter
    <2>2. i \in 1..Len(code)
      BY <2>1, KeptInstr DEF LabelOnlyAt
    <2> QED
      BY <1>1, <2>2, KeptInstr DEF LabelOnlyAt
  <1>4. CASE \E q \in 1..Depth : /\ frames[q].n = frames'[k].n
                                 /\ kind \in OwedKinds(frames[q].kind)
    BY <1>3, <1>4 DEF OwedLabelsAbsent
  <1>5. CASE frames'[k].n = currentCounter
    <2>1. code[i].label.n < currentCounter /\ code[i].label.n = currentCounter
      BY <1>1, <1>2, <1>3, <1>5 DEF LabelNumbersFresh
    <2> QED
      BY <2>1 DEF TypeOK
  <1> QED
    BY <1>4, <1>5 DEF OwedAfter

\* Whether the jump at i has its label, or a frame that owes it.
JumpAccounted(i) ==
    \/ \E j \in 1..Len(code) : code[j] = Label(code[i].dst) /\ home[j] = home[i]
    \/ \E k \in 1..Depth : /\ frames[k].kind \in StatementFrames
                           /\ code[i].dst = ControlLabel(AwaitedKind(frames[k].kind),
                                                         frames[k].n)
                           /\ home[i] = Outside(k)

\* New jumps are accounted for, and a frame that goes away leaves its label.
LEMMA JumpStep ==
    ASSUME TypeOK, JumpsAccounted, NEW m \in Nat, Kept(m),
           \A i \in 1..Len(code') : i \notin 1..Len(code) /\ IsJump(code'[i]) => JumpAccounted(i)',
           \A k \in 1..Depth : frames[k].kind \in StatementFrames =>
              \/ k \in 1..Depth' /\ frames'[k] = frames[k] /\ Outside(k)' = Outside(k)
              \/ \E d \in 1..m :
                   /\ code'[Len(code) + d] = Label(ControlLabel(AwaitedKind(frames[k].kind),
                                                                frames[k].n))
                   /\ home'[Len(code) + d] = Outside(k)
    PROVE  JumpsAccounted'
  <1> SUFFICES ASSUME NEW i \in 1..Len(code'), IsJump(code'[i])
               PROVE  JumpAccounted(i)'
    BY DEF JumpsAccounted, JumpAccounted
  <1>1. CASE i \notin 1..Len(code)
    BY <1>1
  <1>2. CASE i \in 1..Len(code)
    <2>1. IsJump(code[i]) /\ code'[i] = code[i] /\ home'[i] = home[i]
      BY <1>2, KeptInstr
    <2>2. CASE \E j \in 1..Len(code) : code[j] = Label(code[i].dst) /\ home[j] = home[i]
      <3>1. PICK j \in 1..Len(code) : code[j] = Label(code[i].dst) /\ home[j] = home[i]
        BY <2>2
      <3>2. IsLabel(code[j])
        BY <3>1, LabelFacts
      <3>3. code'[j] = code[j] /\ home'[j] = home[j] /\ j \in 1..Len(code')
        BY <3>2, KeptInstr
      <3> QED
        BY <2>1, <3>1, <3>3 DEF JumpAccounted
    <2>3. CASE \E k \in 1..Depth : /\ frames[k].kind \in StatementFrames
                                   /\ code[i].dst = ControlLabel(AwaitedKind(frames[k].kind),
                                                                 frames[k].n)
                                   /\ home[i] = Outside(k)
      <3>1. PICK k \in 1..Depth : /\ frames[k].kind \in StatementFrames
                                  /\ code[i].dst = ControlLabel(AwaitedKind(frames[k].kind),
                                                                frames[k].n)
                                  /\ home[i] = Outside(k)
        BY <2>3
      <3>2. CASE k \in 1..Depth' /\ frames'[k] = frames[k] /\ Outside(k)' = Outside(k)
        BY <2>1, <3>1, <3>2 DEF JumpAccounted
      <3>3. CASE \E d \in 1..m :
                   /\ code'[Len(code) + d] = Label(ControlLabel(AwaitedKind(frames[k].kind),
                                                                frames[k].n))
                   /\ home'[Len(code) + d] = Outside(k)
        <4>1. PICK d \in 1..m :
                   /\ code'[Len(code) + d] = Label(ControlLabel(AwaitedKind(frames[k].kind),
                                                                frames[k].n))
                   /\ home'[Len(code) + d] = Outside(k)
          BY <3>3
        <4>2. Len(code) + d \in 1..Len(code')
          BY StateFacts DEF Kept
        <4> QED
          BY <2>1, <3>1, <4>1, <4>2 DEF JumpAccounted
      <3> QED
        BY <3>1, <3>2, <3>3
    <2> QED
      BY <1>2, <2>1, <2>2, <2>3 DEF JumpsAccounted
  <1> QED
    BY <1>1, <1>2

\* The loops of the frames that stay have begun.
LEMMA LoopStep ==
    ASSUME TypeOK, LoopsBegun, NEW m \in Nat, Kept(m),
           \A k \in 1..Depth' : frames'[k].kind = "while" =>
              \/ k \in 1..Depth /\ frames'[k] = frames[k] /\ Outside(k)' = Outside(k)
              \/ \E d \in 1..m :
                   /\ code'[Len(code) + d] = Label(ControlLabel("while_begin", frames'[k].n))
                   /\ home'[Len(code) + d] = Outside(k)'
    PROVE  LoopsBegun'
  <1> SUFFICES ASSUME NEW k \in 1..Depth', frames'[k].kind = "while"
               PROVE  \E j \in 1..Len(code') :
                         /\ code'[j] = Label(ControlLabel("while_begin", frames'[k].n))
                         /\ home'[j] = Outside(k)'
    BY DEF LoopsBegun
  <1>1. CASE k \in 1..Depth /\ frames'[k] = frames[k] /\ Outside(k)' = Outside(k)
    <2>1. PICK j \in 1..Len(code) :
             /\ code[j] = Label(ControlLabel("while_begin", frames[k].n))
             /\ home[j] = Outside(k)
      BY <1>1 DEF LoopsBegun
    <2>2. IsLabel(code[j])
      BY <2>1, LabelFacts
    <2>3. code'[j] = code[j] /\ home'[j] = home[j] /\ j \in 1..Len(code')
      BY <2>2, KeptInstr
    <2> QED
      BY <1>1, <2>1, <2>3
  <1>2. CASE \E d \in 1..m :
                /\ code'[Len(code) + d] = Label(ControlLabel("while_begin", frames'[k].n))
                /\ home'[Len(code) + d] = Outside(k)'
    <2>1. \A d \in 1..m : Len(code) + d \in 1..Len(code')
      BY StateFacts DEF Kept
    <2> QED
      BY <1>2, <2>1
  <1> QED
    BY <1>1, <1>2
-----------------------------------------------------------------------------
(* JumpInv, action by action.                                              *)

\* A straight-line statement appends neither labels nor jumps.
LEMMA StraightJumps ==
    ASSUME JumpInv, NEW m \in 1..2, Straight(m), TypeOK'
    PROVE  JumpInv'
  <1> USE DEF JumpInv
  <1>1. /\ Kept(m) /\ m \in Nat /\ 1 \in 1..m /\ Depth' = Depth
        /\ UNCHANGED <<scopePushInstr, frames, currentCounter, functions, stage>>
    BY DEF Straight, Depth
  <1>2. \A i \in 1..m : ~IsLabel(code'[Len(code) + i]) /\ ~IsJump(code'[Len(code) + i])
    BY DEF Straight, IsLabel, IsJump, SimpleKinds
  <1>3. LabelInv' /\ LabelOnlyAt(1, m)
    <2>1. LabelOnlyAt(1, m)
      BY <1>1, <1>2 DEF LabelOnlyAt
    <2> QED
      BY <1>1, <1>2, <2>1, LabelStep DEF LabelInv
  <1>4. FramesNest' /\ FrameNumbersFresh'
    BY <1>1, FramesKept
  <1>5. \A k : Outside(k)' = Outside(k)
    BY <1>1 DEF Outside
  <1>6. OwedLabelsAbsent'
    <2>1. ASSUME NEW l PROVE code'[Len(code) + 1] # Label(l)
      BY <1>1, <1>2, LabelFacts
    <2> QED
      BY <1>1, <1>3, <2>1, OwedStep DEF OwedAfter
  <1>7. LoopsBegun'
    BY <1>1, <1>5, LoopStep
  <1>8. JumpsAccounted'
    <2>1. ASSUME NEW i \in 1..Len(code'), i \notin 1..Len(code) PROVE ~IsJump(code'[i])
      BY <1>1, <1>2, <2>1, KeptInstr
    <2> QED
      BY <1>1, <1>5, <2>1, JumpStep
  <1> QED
    BY <1>3, <1>4, <1>6, <1>7, <1>8 DEF LabelInv

\* A block ends: its frame owes nothing.
LEMMA ClosingJumps ==
    ASSUME JumpInv, EndFunction \/ EndMain \/ ScopeEnd
    PROVE  JumpInv'
  <1> USE DEF JumpInv
  <1>1. TypeOK' /\ Kept(1) /\ Dropped /\ code'[Len(code) + 1] = PopScope(StackSize)
    BY ClosingStep
  <1>2. ~IsLabel(code'[Len(code) + 1]) /\ ~IsJump(code'[Len(code) + 1])
    BY <1>1, LabelFacts
  <1>3. /\ Depth \in Nat /\ Depth > 0 /\ frames[Depth].kind \in {"func", "main", "scope"}
        /\ currentCounter' = currentCounter /\ functions' = functions
        /\ Depth = 1 => stage' \in {"between", "done"}
        /\ Depth > 1 => stage' = stage
        /\ stage \in {"main", "done"} => stage' \in {"main", "done"}
    <2>1. CASE EndFunction
      <3>1. InBlock("func") /\ stage' = "between"
        BY <2>1 DEF EndFunction
      <3>2. Depth = 1 /\ Depth \in Nat /\ frames[Depth].kind = "func"
        BY <3>1, TopFrame, TopStanding
      <3>3. stage = "func"
        BY <3>2 DEF FramesNest
      <3> QED
        BY <2>1, <3>1, <3>2, <3>3 DEF EndFunction
    <2>2. CASE EndMain
      <3>1. InBlock("main") /\ stage' = "done"
        BY <2>2 DEF EndMain
      <3>2. Depth = 1 /\ Depth \in Nat /\ frames[Depth].kind = "main"
        BY <3>1, TopFrame, TopStanding
      <3> QED
        BY <2>2, <3>1, <3>2 DEF EndMain
    <2>3. CASE ScopeEnd
      <3>1. InBlock("scope") /\ stage' = stage
        BY <2>3 DEF ScopeEnd
      <3>2. Depth > 1 /\ Depth \in Nat /\ frames[Depth].kind = "scope"
        BY <3>1, TopFrame, TopStanding
      <3> QED
        BY <2>3, <3>1, <3>2 DEF ScopeEnd
    <2> QED
      BY <2>1, <2>2, <2>3
  <1>4. \A i \in 1..1 : i = 1
    OBVIOUS
  <1>5. LabelInv' /\ LabelOnlyAt(1, 1)
    <2>1. LabelOnlyAt(1, 1)
      BY <1>1, <1>4 DEF LabelOnlyAt
    <2> QED
      BY <1>2, <1>3, <2>1, LabelStep DEF LabelInv
  <1>6. FramesNest' /\ FrameNumbersFresh'
    BY <1>1, <1>3, FramesDropped
  <1>7. \A k \in 1..Depth' : k \in 1..Depth /\ frames'[k] = frames[k] /\ Outside(k)' = Outside(k)
    BY <1>1, <1>3, OutsideFacts DEF Dropped
  <1>8. OwedLabelsAbsent'
    <2>1. ASSUME NEW l PROVE code'[Len(code) + 1] # Label(l)
      BY <1>2, LabelFacts
    <2> QED
      BY <1>5, <1>7, <2>1, OwedStep DEF OwedAfter
  <1>9. LoopsBegun'
    BY <1>1, <1>7, LoopStep
  <1>10. JumpsAccounted'
    <2>1. ASSUME NEW i \in 1..Len(code'), i \notin 1..Len(code) PROVE ~IsJump(code'[i])
      BY <1>1, <1>2, <1>4, <2>1, KeptInstr
    <2>2. ASSUME NEW k \in 1..Depth, frames[k].kind \in StatementFrames PROVE k \in 1..Depth'
      BY <1>1, <1>3, <2>2 DEF Dropped, StatementFrames
    <2> QED
      BY <1>1, <1>7, <2>1, <2>2, JumpStep
  <1> QED
    BY <1>1, <1>5, <1>6, <1>8, <1>9, <1>10 DEF LabelInv

\* The number of the frame on top belongs to no other frame.
LEMMA TopNumber ==
    ASSUME TypeOK, FrameNumbersFresh, NEW kind \in StatementFrames, InBlock(kind)
    PROVE  /\ frames[Depth].n < currentCounter
           /\ \A k \in 1..Depth : frames[k].kind \in StatementFrames /\ k # Depth
                                  => frames[k].n # frames[Depth].n
  <1>1. Depth \in 1..Depth /\ frames[Depth].kind = kind
    BY TopFrame
  <1> QED
    BY <1>1 DEF FrameNumbersFresh

\* else branch done: the frame's last label is appended.
LEMMA IfEndJumps ==
    ASSUME JumpInv, IfEnd
    PROVE  JumpInv'
  <1> USE DEF JumpInv
  <1> DEFINE l == ControlLabel("ifelse_end", frames[Depth].n)
  <1>1. /\ TypeOK' /\ Kept(2) /\ Dropped
        /\ code'[Len(code) + 1] = PopScope(StackSize)
        /\ code'[Len(code) + 2] = Label(l) /\ home'[Len(code) + 2] = Around
    BY IfEndStep
  <1>2. /\ Depth \in Nat /\ Depth > 1 /\ frames[Depth].kind = "else" /\ Depth \in 1..Depth
        /\ currentCounter' = currentCounter /\ functions' = functions /\ stage' = stage
    BY TopFrame, TopStanding DEF IfEnd
  <1>3. /\ frames[Depth].n < currentCounter
        /\ \A k \in 1..Depth : frames[k].kind \in StatementFrames /\ k # Depth
                               => frames[k].n # frames[Depth].n
    BY TopNumber DEF StatementFrames, IfEnd
  <1>4. /\ IsLabel(code'[Len(code) + 2]) /\ ~IsJump(code'[Len(code) + 2])
        /\ code'[Len(code) + 2].label = l
        /\ l.kind = "ifelse_end" /\ l.n = frames[Depth].n
        /\ ~IsLabel(code'[Len(code) + 1]) /\ ~IsJump(code'[Len(code) + 1])
    BY <1>1, LabelFacts
  <1>5. /\ 2 \in Nat /\ LabelOnlyAt(2, 2)
        /\ \A i \in 1..2 : ~IsJump(code'[Len(code) + i])
    <2>1. \A i \in 1..2 : i = 1 \/ i = 2
      OBVIOUS
    <2> QED
      BY <1>1, <1>4, <2>1 DEF LabelOnlyAt
  <1>6. \A j \in 1..Len(code) : code[j] # Label(l)
    BY <1>2, OwedFacts DEF OwedLabelsAbsent
  <1>7. LabelInv'
    BY <1>1, <1>2, <1>3, <1>5, <1>6, ControlLabelStep DEF LabelInv, ControlKinds
  <1>8. FramesNest' /\ FrameNumbersFresh'
    BY <1>1, <1>2, FramesDropped
  <1>9. \A k \in 1..Depth' : /\ k \in 1..Depth /\ k # Depth
                             /\ frames'[k] = frames[k] /\ Outside(k)' = Outside(k)
    BY <1>1, <1>2, OutsideFacts DEF Dropped
  <1>10. OwedLabelsAbsent'
    <2>1. ASSUME NEW k \in 1..Depth', NEW kind \in OwedKinds(frames'[k].kind)
          PROVE  /\ \E q \in 1..Depth : /\ frames[q].n = frames'[k].n
                                        /\ kind \in OwedKinds(frames[q].kind)
                 /\ code'[Len(code) + 2] # Label(ControlLabel(kind, frames'[k].n))
      <3>1. frames[k].kind \in StatementFrames
        BY <1>9, <2>1, OwedFacts
      <3>2. frames'[k].n # frames[Depth].n
        BY <1>3, <1>9, <3>1
      <3> QED
        BY <1>1, <1>9, <3>2, LabelFacts
    <2> QED
      BY <1>5, <2>1, OwedStep DEF OwedAfter
  <1>11. LoopsBegun'
    BY <1>1, <1>9, LoopStep
  <1>12. JumpsAccounted'
    <2>1. \A i \in 1..Len(code') : i \notin 1..Len(code) => ~IsJump(code'[i])
      BY <1>1, <1>5, NewJumps
    <2>2. ASSUME NEW k \in 1..Depth, k \notin 1..Depth' PROVE k = Depth
      BY <1>1, <1>2, <2>2 DEF Dropped
    <2>3. Outside(Depth) = Around /\ AwaitedKind("else") = "ifelse_end"
      BY <1>2, OutsideFacts, OwedFacts
    <2> QED
      BY <1>1, <1>2, <1>9, <2>1, <2>2, <2>3, JumpStep
  <1> QED
    BY <1>1, <1>7, <1>8, <1>10, <1>11, <1>12 DEF LabelInv
\* Loop body done: the jump back finds the label the loop began with, and the
\* exit label is appended.
LEMMA WhileEndJumps ==
    ASSUME JumpInv, WhileEnd
    PROVE  JumpInv'
  <1> USE DEF JumpInv
  <1> DEFINE b == ControlLabel("while_begin", frames[Depth].n)
             l == ControlLabel("while_end", frames[Depth].n)
  <1>1. /\ TypeOK' /\ Kept(3) /\ Dropped
        /\ code'[Len(code) + 1] = PopScope(StackSize)
        /\ code'[Len(code) + 2] = Jmp(b) /\ home'[Len(code) + 2] = Around
        /\ code'[Len(code) + 3] = Label(l) /\ home'[Len(code) + 3] = Around
    BY WhileEndStep
  <1>2. /\ Depth \in Nat /\ Depth > 1 /\ frames[Depth].kind = "while" /\ Depth \in 1..Depth
        /\ currentCounter' = currentCounter /\ functions' = functions /\ stage' = stage
    BY TopFrame, TopStanding DEF WhileEnd
  <1>3. /\ frames[Depth].n < currentCounter
        /\ \A k \in 1..Depth : frames[k].kind \in StatementFrames /\ k # Depth
                               => frames[k].n # frames[Depth].n
    BY TopNumber DEF StatementFrames, WhileEnd
  <1>4. /\ IsLabel(code'[Len(code) + 3]) /\ ~IsJump(code'[Len(code) + 3])
        /\ code'[Len(code) + 3].label = l
        /\ l.kind = "while_end" /\ l.n = frames[Depth].n
        /\ ~IsLabel(code'[Len(code) + 1]) /\ ~IsJump(code'[Len(code) + 1])
        /\ ~IsLabel(code'[Len(code) + 2]) /\ code'[Len(code) + 2].dst = b
    BY <1>1, LabelFacts
  <1>5. /\ 3 \in Nat /\ LabelOnlyAt(3, 3) /\ Kept(3)
        /\ \A i \in 1..3 : IsJump(code'[Len(code) + i]) => i = 2
    <2>1. \A i \in 1..3 : i = 1 \/ i = 2 \/ i = 3
      OBVIOUS
    <2> QED
      BY <1>1, <1>4, <2>1 DEF LabelOnlyAt
  <1>6. \A j \in 1..Len(code) : code[j] # Label(l)
    BY <1>2, OwedFacts DEF OwedLabelsAbsent
  <1>7. LabelInv'
    BY <1>1, <1>2, <1>3, <1>5, <1>6, ControlLabelStep DEF LabelInv, ControlKinds
  <1>8. FramesNest' /\ FrameNumbersFresh'
    BY <1>1, <1>2, FramesDropped
  <1>9. \A k \in 1..Depth' : /\ k \in 1..Depth /\ k # Depth
                             /\ frames'[k] = frames[k] /\ Outside(k)' = Outside(k)
    BY <1>1, <1>2, OutsideFacts DEF Dropped
  <1>10. OwedLabelsAbsent'
    <2>1. ASSUME NEW k \in 1..Depth', NEW kind \in OwedKinds(frames'[k].kind)
          PROVE  /\ \E q \in 1..Depth : /\ frames[q].n = frames'[k].n
                                        /\ kind \in OwedKinds(frames[q].kind)
                 /\ code'[Len(code) + 3] # Label(ControlLabel(kind, frames'[k].n))
      <3>1. frames[k].kind \in StatementFrames
        BY <1>9, <2>1, OwedFacts
      <3>2. frames'[k].n # frames[Depth].n
        BY <1>3, <1>9, <3>1
      <3> QED
        BY <1>1, <1>9, <3>2, LabelFacts
    <2> QED
      BY <1>5, <2>1, OwedStep DEF OwedAfter
  <1>11. LoopsBegun'
    BY <1>1, <1>5, <1>9, LoopStep
  <1>12. JumpsAccounted'
    <2>1. Outside(Depth) = Around /\ AwaitedKind("while") = "while_end"
      BY <1>2, OutsideFacts, OwedFacts
    <2>3. ASSUME NEW i \in 1..Len(code'), i \notin 1..Len(code), IsJump(code'[i])
          PROVE  JumpAccounted(i)'
      <3>1. i = Len(code) + 2
        <4>1. \E d \in 1..3 : i = Len(code) + d
          BY <1>5, <2>3, KeptInstr
        <4> QED
          BY <1>5, <2>3, <4>1
      <3>2. PICK j \in 1..Len(code) : code[j] = Label(b) /\ home[j] = Outside(Depth)
        BY <1>2 DEF LoopsBegun
      <3>3. IsLabel(code[j])
        BY <3>2, LabelFacts
      <3>4. code'[j] = code[j] /\ home'[j] = home[j] /\ j \in 1..Len(code')
        BY <1>1, <1>5, <3>3, KeptInstr
      <3> QED
        BY <1>1, <1>4, <2>1, <3>1, <3>2, <3>4 DEF JumpAccounted
    <2>4. ASSUME NEW k \in 1..Depth, k \notin 1..Depth' PROVE k = Depth
      BY <1>1, <1>2, <2>4 DEF Dropped
    <2> QED
      BY <1>1, <1>2, <1>5, <1>9, <2>1, <2>3, <2>4, JumpStep
  <1> QED
    BY <1>1, <1>7, <1>8, <1>10, <1>11, <1>12 DEF LabelInv

\* then branch done: the jump over the else branch is now awaited by the same
\* frame, and the label that the condition jumps to is appended.
LEMMA IfElseJumps ==
    ASSUME JumpInv, IfElse
    PROVE  JumpInv'
  <1> USE DEF JumpInv
  <1> DEFINE e == ControlLabel("ifelse_end", frames[Depth].n)
             l == ControlLabel("else_begin", frames[Depth].n)
             fr == Frame("else", frames[Depth].n)
  <1>1. /\ TypeOK' /\ Kept(4) /\ Depth' = Depth
        /\ \A j \in 1..Depth : /\ frames'[j] = IF j = Depth THEN fr ELSE frames[j]
                               /\ scopePushInstr'[j] = IF j = Depth THEN Len(code) + 4
                                                       ELSE scopePushInstr[j]
        /\ code'[Len(code) + 1] = PopScope(StackSize)
        /\ code'[Len(code) + 2] = Jmp(e) /\ home'[Len(code) + 2] = Around
        /\ code'[Len(code) + 3] = Label(l) /\ home'[Len(code) + 3] = Around
        /\ code'[Len(code) + 4] = PushScope(0)
    BY IfElseStep
  <1>2. /\ Depth \in Nat /\ Depth > 1 /\ frames[Depth].kind = "then" /\ Depth \in 1..Depth
        /\ currentCounter' = currentCounter /\ functions' = functions /\ stage' = stage
        /\ fr.kind = "else" /\ fr.n = frames[Depth].n
    BY TopFrame, TopStanding DEF IfElse, Frame
  <1>3. /\ frames[Depth].n < currentCounter
        /\ \A k \in 1..Depth : frames[k].kind \in StatementFrames /\ k # Depth
                               => frames[k].n # frames[Depth].n
    BY TopNumber DEF StatementFrames, IfElse
  <1>4. /\ IsLabel(code'[Len(code) + 3]) /\ ~IsJump(code'[Len(code) + 3])
        /\ code'[Len(code) + 3].label = l
        /\ l.kind = "else_begin" /\ l.n = frames[Depth].n
        /\ ~IsLabel(code'[Len(code) + 1]) /\ ~IsJump(code'[Len(code) + 1])
        /\ ~IsLabel(code'[Len(code) + 2]) /\ code'[Len(code) + 2].dst = e
        /\ ~IsLabel(code'[Len(code) + 4]) /\ ~IsJump(code'[Len(code) + 4])
    BY <1>1, LabelFacts
  <1>5. /\ 4 \in Nat /\ LabelOnlyAt(3, 4) /\ Kept(4)
        /\ \A i \in 1..4 : IsJump(code'[Len(code) + i]) => i = 2
    <2>1. \A i \in 1..4 : i = 1 \/ i = 2 \/ i = 3 \/ i = 4
      OBVIOUS
    <2> QED
      BY <1>1, <1>4, <2>1 DEF LabelOnlyAt
  <1>6. \A j \in 1..Len(code) : code[j] # Label(l)
    BY <1>2, OwedFacts DEF OwedLabelsAbsent
  <1>7. LabelInv'
    BY SMTT(40), <1>1, <1>2, <1>3, <1>5, <1>6, ControlLabelStep DEF LabelInv, ControlKinds
  <1>8. FramesNest'
    BY <1>1, <1>2 DEF FramesNest
  <1>9. FrameNumbersFresh'
    <2>1. \A k \in 1..Depth : /\ frames'[k].n = frames[k].n
                              /\ frames'[k].kind \in StatementFrames
                                    <=> frames[k].kind \in StatementFrames
      BY <1>1, <1>2 DEF StatementFrames
    <2> QED
      BY <1>1, <1>2, <2>1 DEF FrameNumbersFresh
  <1>10. \A k \in 1..Depth : Outside(k)' = Outside(k)
    BY <1>1, <1>2 DEF Outside
  <1>11. OwedLabelsAbsent'
    <2>1. ASSUME NEW k \in 1..Depth', NEW kind \in OwedKinds(frames'[k].kind)
          PROVE  /\ \E q \in 1..Depth : /\ frames[q].n = frames'[k].n
                                        /\ kind \in OwedKinds(frames[q].kind)
                 /\ code'[Len(code) + 3] # Label(ControlLabel(kind, frames'[k].n))
      <3>1. CASE k = Depth
        BY <1>1, <1>2, <2>1, <3>1, LabelFacts, OwedFacts
      <3>2. CASE k # Depth
        <4>1. frames[k].kind \in StatementFrames /\ frames'[k] = frames[k] /\ k \in 1..Depth
          BY <1>1, <2>1, <3>2, OwedFacts
        <4>2. frames'[k].n # frames[Depth].n
          BY <1>3, <3>2, <4>1
        <4> QED
          BY <1>1, <2>1, <4>1, <4>2, LabelFacts
      <3> QED
        BY <3>1, <3>2
    <2> QED
      BY <1>5, <2>1, OwedStep DEF OwedAfter
  <1>12. LoopsBegun'
    BY <1>1, <1>2, <1>5, <1>10, LoopStep
  <1>13. JumpsAccounted'
    <2>1. /\ Outside(Depth) = Around /\ Outside(Depth)' = Around
          /\ AwaitedKind("then") = "else_begin" /\ AwaitedKind("else") = "ifelse_end"
      BY <1>1, <1>2, <1>10, OutsideFacts, OwedFacts
    <2>2. ASSUME NEW i \in 1..Len(code'), i \notin 1..Len(code), IsJump(code'[i])
          PROVE  JumpAccounted(i)'
      <3>1. i = Len(code) + 2
        <4>1. \E d \in 1..4 : i = Len(code) + d
          BY <1>5, <2>2, KeptInstr
        <4> QED
          BY <1>5, <2>2, <4>1
      <3>2. /\ Depth \in 1..Depth' /\ frames'[Depth].kind \in StatementFrames
            /\ code'[i].dst = ControlLabel(AwaitedKind(frames'[Depth].kind), frames'[Depth].n)
            /\ home'[i] = Outside(Depth)'
        BY <1>1, <1>2, <1>4, <2>1, <3>1 DEF StatementFrames
      <3> QED
        BY <1>1, <3>2 DEF JumpAccounted
    <2> QED
      BY <1>1, <1>2, <1>5, <1>10, <2>1, <2>2, JumpStep
  <1> QED
    BY <1>1, <1>7, <1>8, <1>9, <1>11, <1>12, <1>13 DEF LabelInv

\* if: the condition's jump is awaited by the frame that the step opens.
LEMMA IfBeginJumps ==
    ASSUME JumpInv, IfBegin
    PROVE  JumpInv'
  <1> USE DEF JumpInv
  <1> DEFINE l == ControlLabel("else_begin", currentCounter)
             fr == Frame("then", currentCounter)
  <1>1. /\ TypeOK' /\ Kept(2) /\ Opened(Len(code) + 2, fr) /\ Depth > 0
        /\ code'[Len(code) + 1] = JmpCond(l) /\ home'[Len(code) + 1] = Innermost
        /\ code'[Len(code) + 2] = PushScope(0)
    BY IfBeginStep
  <1>2. /\ Depth \in Nat /\ Depth' = Depth + 1
        /\ currentCounter' = currentCounter + 1 /\ functions' = functions /\ stage' = stage
        /\ fr.kind = "then" /\ fr.n = currentCounter /\ fr \in Frames
        /\ frames'[Depth'] = fr /\ Depth' \in 1..Depth'
        /\ \A k \in 1..Depth' : k \in 1..Depth \/ k = Depth'
        /\ \A k \in 1..Depth : k \in 1..Depth' /\ frames'[k] = frames[k]
    <2>1. fr.kind = "then" /\ fr.n = currentCounter /\ fr \in Frames
      BY DEF Frame, Frames, TypeOK
    <2>2. currentCounter' = currentCounter + 1 /\ functions' = functions /\ stage' = stage
      BY DEF IfBegin
    <2>3. currentCounter \in Nat
      BY DEF TypeOK
    <2> HIDE DEF fr
    <2> QED
      BY <1>1, <2>1, <2>2, <2>3, OpenedFacts
  <1>3. /\ ~IsLabel(code'[Len(code) + 1]) /\ code'[Len(code) + 1].dst = l
        /\ ~IsLabel(code'[Len(code) + 2]) /\ ~IsJump(code'[Len(code) + 2])
    BY <1>1, LabelFacts
  <1>4. /\ 2 \in Nat /\ LabelOnlyAt(1, 2) /\ Kept(2)
        /\ \A i \in 1..2 : IsJump(code'[Len(code) + i]) => i = 1
    <2>1. \A i \in 1..2 : i = 1 \/ i = 2
      OBVIOUS
    <2> QED
      BY <1>1, <1>3, <2>1 DEF LabelOnlyAt
  <1>5. LabelInv'
    <2>1. currentCounter' \in {currentCounter, currentCounter + 1}
      BY <1>2
    <2> QED
      BY <1>2, <1>3, <1>4, <2>1, LabelStep DEF LabelInv
  <1>6. FramesNest' /\ FrameNumbersFresh'
    BY <1>1, <1>2, FramesOpened
  <1>7. /\ \A k \in 1..Depth : Outside(k)' = Outside(k)
        /\ Outside(Depth)' = Innermost
    BY <1>1, OutsideFacts
  <1>8. OwedLabelsAbsent'
    <2>1. \A lab : code'[Len(code) + 1] # Label(lab)
      BY <1>3, LabelFacts
    <2> QED
      BY <1>2, <1>4, <2>1, OwedStep DEF OwedAfter
  <1>9. LoopsBegun'
    BY <1>2, <1>4, <1>7, LoopStep
  <1>10. JumpsAccounted'
    <2>1. ASSUME NEW i \in 1..Len(code'), i \notin 1..Len(code), IsJump(code'[i])
          PROVE  JumpAccounted(i)'
      <3>1. i = Len(code) + 1
        <4>1. \E d \in 1..2 : i = Len(code) + d
          BY ZenonT(60), <1>4, <2>1, KeptInstr
        <4> QED
          BY <1>4, <2>1, <4>1
      <3>2. AwaitedKind("then") = "else_begin"
        BY OwedFacts
      <3> QED
        BY <1>1, <1>2, <1>3, <1>7, <3>1, <3>2 DEF JumpAccounted, StatementFrames
    <2> QED
      BY <1>2, <1>4, <1>7, <2>1, JumpStep
  <1> QED
    BY <1>1, <1>5, <1>6, <1>8, <1>9, <1>10 DEF LabelInv

\* while: the loop's label is new, and the exit jump is awaited by the frame.
LEMMA WhileBeginJumps ==
    ASSUME JumpInv, WhileBegin
    PROVE  JumpInv'
  <1> USE DEF JumpInv
  <1> DEFINE b == ControlLabel("while_begin", currentCounter)
             e == ControlLabel("while_end", currentCounter)
             fr == Frame("while", currentCounter)
  <1>1. /\ TypeOK' /\ Kept(3) /\ Opened(Len(code) + 3, fr) /\ Depth > 0
        /\ code'[Len(code) + 1] = Label(b) /\ home'[Len(code) + 1] = Innermost
        /\ code'[Len(code) + 2] = JmpCond(e) /\ home'[Len(code) + 2] = Innermost
        /\ code'[Len(code) + 3] = PushScope(0)
    BY WhileBeginStep
  <1>2. /\ Depth \in Nat /\ Depth' = Depth + 1 /\ currentCounter \in Nat
        /\ currentCounter' = currentCounter + 1 /\ functions' = functions /\ stage' = stage
        /\ fr.kind = "while" /\ fr.n = currentCounter /\ fr \in Frames
        /\ frames'[Depth'] = fr /\ Depth' \in 1..Depth'
        /\ \A k \in 1..Depth' : k \in 1..Depth \/ k = Depth'
        /\ \A k \in 1..Depth : k \in 1..Depth' /\ frames'[k] = frames[k]
    <2>1. fr.kind = "while" /\ fr.n = currentCounter /\ fr \in Frames
      BY DEF Frame, Frames, TypeOK
    <2>2. currentCounter' = currentCounter + 1 /\ functions' = functions /\ stage' = stage
      BY DEF WhileBegin
    <2>3. currentCounter \in Nat
      BY DEF TypeOK
    <2> HIDE DEF fr
    <2> QED
      BY <1>1, <2>1, <2>2, <2>3, OpenedFacts
  <1>3. /\ IsLabel(code'[Len(code) + 1]) /\ ~IsJump(code'[Len(code) + 1])
        /\ ~IsLabel(code'[Len(code) + 2]) /\ code'[Len(code) + 2].dst = e
        /\ ~IsLabel(code'[Len(code) + 3]) /\ ~IsJump(code'[Len(code) + 3])
    BY <1>1, LabelFacts
  <1>4. /\ 3 \in Nat /\ LabelOnlyAt(1, 3) /\ Kept(3) /\ 1 \in 1..3
        /\ \A i \in 1..3 : IsJump(code'[Len(code) + i]) => i = 2
    <2>1. \A i \in 1..3 : i = 1 \/ i = 2 \/ i = 3
      OBVIOUS
    <2> QED
      BY <1>1, <1>3, <2>1 DEF LabelOnlyAt
  <1>5. LabelInv'
    <2>1. currentCounter' \in {currentCounter, currentCounter + 1} /\ currentCounter < currentCounter'
      BY <1>2
    <2>2. ASSUME NEW j \in 1..Len(code), code[j] = Label(b) PROVE FALSE
      <3>1. IsLabel(code[j]) /\ code[j].label.kind = "while_begin" /\ code[j].label.n = currentCounter
        BY <2>2, LabelFacts
      <3>2. currentCounter < currentCounter
        BY <3>1 DEF LabelNumbersFresh, ControlKinds
      <3> QED
        BY <1>2, <3>2
    <2>3. "while_begin" \in ControlKinds
      BY DEF ControlKinds
    <2> QED
      BY <1>1, <1>2, <1>4, <2>1, <2>2, <2>3, ControlLabelStep DEF LabelInv
  <1>6. FramesNest' /\ FrameNumbersFresh'
    BY <1>1, <1>2, FramesOpened
  <1>7. /\ \A k \in 1..Depth : Outside(k)' = Outside(k)
        /\ Outside(Depth)' = Innermost
    BY <1>1, OutsideFacts
  <1>8. OwedLabelsAbsent'
    <2>1. \A frame : "while_begin" \notin OwedKinds(frame)
      BY DEF OwedKinds
    <2>2. ASSUME NEW frame, NEW kind \in OwedKinds(frame), NEW n
          PROVE  code'[Len(code) + 1] # Label(ControlLabel(kind, n))
      BY <1>1, <2>1, <2>2, LabelFacts
    <2> QED
      BY <1>2, <1>4, <2>2, OwedStep DEF OwedAfter
  <1>9. LoopsBegun'
    BY <1>1, <1>2, <1>4, <1>7, LoopStep
  <1>10. JumpsAccounted'
    <2>1. ASSUME NEW i \in 1..Len(code'), i \notin 1..Len(code), IsJump(code'[i])
          PROVE  JumpAccounted(i)'
      <3>1. i = Len(code) + 2
        <4>1. \E d \in 1..3 : i = Len(code) + d
          BY <1>4, <2>1, KeptInstr
        <4> QED
          BY <1>4, <2>1, <4>1
      <3>2. AwaitedKind("while") = "while_end"
        BY OwedFacts
      <3> QED
        BY SMTT(40), <1>1, <1>2, <1>3, <1>7, <3>1, <3>2 DEF JumpAccounted, StatementFrames
    <2> QED
      BY <1>2, <1>4, <1>7, <2>1, JumpStep
  <1> QED
    BY <1>1, <1>5, <1>6, <1>8, <1>9, <1>10 DEF LabelInv

\* begin-end: the frame it opens owes nothing.
LEMMA ScopeBeginJumps ==
    ASSUME JumpInv, ScopeBegin
    PROVE  JumpInv'
  <1> USE DEF JumpInv
  <1> DEFINE fr == Frame("scope", 0)
  <1>1. /\ TypeOK' /\ Kept(1) /\ Opened(Len(code) + 1, fr) /\ Depth > 0
        /\ code'[Len(code) + 1] = PushScope(0)
    BY ScopeBeginStep
  <1>2. /\ fr.kind = "scope" /\ fr \in Frames
        /\ fr.kind \notin StatementFrames /\ OwedKinds(fr.kind) = {}
        /\ currentCounter' = currentCounter /\ functions' = functions /\ stage' = stage
    BY OwedFacts DEF ScopeBegin, Frame, Frames, StatementFrames
  <1> HIDE DEF fr
  <1>3. /\ Depth' = Depth + 1 /\ frames'[Depth'] = fr
        /\ \A k \in 1..Depth' : k \in 1..Depth \/ k = Depth'
        /\ \A k \in 1..Depth : k \in 1..Depth' /\ frames'[k] = frames[k]
    BY <1>1, OpenedFacts
  <1>4. ~IsLabel(code'[Len(code) + 1]) /\ ~IsJump(code'[Len(code) + 1])
    BY <1>1, LabelFacts
  <1>5. LabelOnlyAt(1, 1) /\ 1 \in Nat /\ \A i \in 1..1 : ~IsJump(code'[Len(code) + i])
    BY <1>1, <1>4 DEF LabelOnlyAt
  <1>6. LabelInv'
    BY <1>2, <1>4, <1>5, LabelStep DEF LabelInv
  <1>7. FramesNest' /\ FrameNumbersFresh'
    BY <1>1, <1>2, FramesOpened
  <1>8. \A k \in 1..Depth : Outside(k)' = Outside(k)
    BY <1>1, OutsideFacts
  <1>9. OwedLabelsAbsent'
    <2>1. \A lab : code'[Len(code) + 1] # Label(lab)
      BY <1>4, LabelFacts
    <2> QED
      BY <1>2, <1>3, <1>5, <2>1, OwedStep DEF OwedAfter
  <1>10. LoopsBegun'
    BY <1>1, <1>2, <1>3, <1>8, LoopStep
  <1>11. JumpsAccounted'
    <2>1. \A i \in 1..Len(code') : i \notin 1..Len(code) => ~IsJump(code'[i])
      BY <1>1, <1>5, NewJumps
    <2> QED
      BY <1>1, <1>3, <1>8, <2>1, JumpStep
  <1> QED
    BY <1>1, <1>6, <1>7, <1>9, <1>10, <1>11 DEF LabelInv

\* main begins once, and nothing but its label is appended.
LEMMA BeginMainJumps ==
    ASSUME JumpInv, BeginMain
    PROVE  JumpInv'
  <1> USE DEF JumpInv
  <1> DEFINE fr == Frame("main", 0)
  <1>1. /\ TypeOK' /\ Kept(3) /\ Opened(Len(code) + 3, fr)
        /\ code'[Len(code) + 1] = Label(MainLabel)
        /\ code'[Len(code) + 2] = Simple("locale")
        /\ code'[Len(code) + 3] = PushScope(0)
    BY BeginMainStep
  <1>2. /\ fr.kind = "main" /\ OwedKinds(fr.kind) = {} /\ fr.kind \notin StatementFrames
        /\ currentCounter' = currentCounter /\ functions' = functions
        /\ stage = "between" /\ stage' = "main"
    BY OwedFacts DEF BeginMain, Frame, StatementFrames
  <1> HIDE DEF fr
  <1>3. Depth = 0 /\ Depth' = 1 /\ frames'[1] = fr
    BY <1>1, <1>2, OpenedFacts DEF FramesNest
  <1>4. /\ IsLabel(code'[Len(code) + 1]) /\ ~IsJump(code'[Len(code) + 1])
        /\ code'[Len(code) + 1].label = MainLabel /\ MainLabel.kind = "main"
        /\ ~IsLabel(code'[Len(code) + 2]) /\ ~IsJump(code'[Len(code) + 2])
        /\ ~IsLabel(code'[Len(code) + 3]) /\ ~IsJump(code'[Len(code) + 3])
    BY <1>1, LabelFacts DEF SimpleKinds
  <1>5. /\ LabelOnlyAt(1, 3) /\ 3 \in Nat /\ \A i \in 1..3 : ~IsJump(code'[Len(code) + i])
    <2>1. \A i \in 1..3 : i = 1 \/ i = 2 \/ i = 3
      OBVIOUS
    <2> QED
      BY <1>1, <1>4, <2>1 DEF LabelOnlyAt
  <1>6. LabelInv'
    <2>1. \A j \in 1..Len(code) : IsLabel(code[j]) => code[j].label # MainLabel
      BY <1>2, <1>4 DEF FunctionLabels
    <2>2. "main" \notin ControlKinds
      BY DEF ControlKinds
    <2> QED
      BY <1>2, <1>4, <1>5, <2>1, <2>2, LabelStep DEF LabelInv
  <1>7. FramesNest' /\ FrameNumbersFresh'
    BY <1>2, <1>3 DEF FramesNest, FrameNumbersFresh
  <1>8. OwedLabelsAbsent'
    BY <1>2, <1>3, <1>5, OwedStep DEF OwedAfter
  <1>9. LoopsBegun'
    BY <1>1, <1>2, <1>3, LoopStep
  <1>10. JumpsAccounted'
    <2>1. \A i \in 1..Len(code') : i \notin 1..Len(code) => ~IsJump(code'[i])
      BY <1>1, <1>5, NewJumps
    <2> QED
      BY <1>1, <1>3, <2>1, JumpStep
  <1> QED
    BY <1>1, <1>6, <1>7, <1>8, <1>9, <1>10 DEF LabelInv

\* A function's label is new because its name is.
LEMMA BeginFunctionJumps ==
    ASSUME JumpInv, NEW f \in Funcs, NEW ps \in Seq(Names), BeginFunction(f, ps)
    PROVE  JumpInv'
  <1> USE DEF JumpInv
  <1> DEFINE fr == Frame("func", 0)
             n == 2 * Len(ps)
             m == 2 + n
  <1>1. /\ TypeOK' /\ Kept(m) /\ Depth' = 1 /\ frames'[1] = fr
        /\ code'[Len(code) + 1] = Label(FuncLabel(f))
        /\ code'[Len(code) + 2] = PushScope(0)
        /\ \A i \in 1..n : code'[Len(code) + 2 + i] = IF i % 2 = 1 THEN Declare(ps[(i + 1) \div 2])
                                                      ELSE Simple("param")
    BY BeginFunctionStep
  <1>2. /\ fr.kind = "func" /\ OwedKinds(fr.kind) = {} /\ fr.kind \notin StatementFrames
        /\ currentCounter' = currentCounter
        /\ f \notin functions /\ functions' = functions \cup {f}
        /\ stage = "between" /\ stage' = "func"
    BY OwedFacts DEF BeginFunction, Frame, StatementFrames
  <1>3. n \in Nat /\ m \in Nat /\ Len(code) \in Nat
    BY StateFacts, LenProperties
  <1> HIDE DEF fr, n
  <1>4. Depth = 0
    BY <1>2, StateFacts DEF FramesNest
  <1>5. /\ IsLabel(code'[Len(code) + 1]) /\ ~IsJump(code'[Len(code) + 1])
        /\ code'[Len(code) + 1].label = FuncLabel(f)
        /\ FuncLabel(f).kind = "func" /\ FuncLabel(f).func = f
        /\ ~IsLabel(code'[Len(code) + 2]) /\ ~IsJump(code'[Len(code) + 2])
    BY <1>1, LabelFacts
  <1>6. ASSUME NEW i \in 1..n
        PROVE  ~IsLabel(code'[Len(code) + 2 + i]) /\ ~IsJump(code'[Len(code) + 2 + i])
    <2>1. /\ ~IsLabel(Simple("param")) /\ ~IsJump(Simple("param"))
          /\ \A v : ~IsLabel(Declare(v)) /\ ~IsJump(Declare(v))
      BY LabelFacts DEF SimpleKinds
    <2> QED
      BY <1>1, <2>1
  <1>7. ASSUME NEW i \in 1..m
        PROVE  /\ ~IsJump(code'[Len(code) + i])
               /\ i # 1 => ~IsLabel(code'[Len(code) + i])
    <2>1. CASE i = 1 \/ i = 2
      BY <1>5, <2>1
    <2>2. CASE i > 2
      <3>1. i - 2 \in 1..n /\ Len(code) + 2 + (i - 2) = Len(code) + i
        BY <1>3, <2>2
      <3> QED
        BY <1>6, <2>2, <3>1
    <2> QED
      BY <1>3, <2>1, <2>2
  <1>8. LabelOnlyAt(1, m) /\ \A i \in 1..m : ~IsJump(code'[Len(code) + i])
    <2>1. 1 \in 1..m
      BY <1>3
    <2> QED
      BY <1>1, <1>7, <2>1 DEF LabelOnlyAt
  <1> HIDE DEF m
  <1>9. LabelInv'
    <2>1. \A j \in 1..Len(code) : IsLabel(code[j]) => code[j].label # FuncLabel(f)
      BY <1>2, <1>5 DEF FunctionLabels
    <2>2. "func" \notin ControlKinds
      BY DEF ControlKinds
    <2> QED
      BY <1>2, <1>3, <1>5, <1>8, <2>1, <2>2, LabelStep DEF LabelInv
  <1>10. FramesNest' /\ FrameNumbersFresh'
    BY <1>1, <1>2 DEF FramesNest, FrameNumbersFresh
  <1>11. OwedLabelsAbsent'
    BY <1>1, <1>2, <1>3, <1>8, OwedStep DEF OwedAfter
  <1>12. LoopsBegun'
    BY <1>1, <1>2, <1>3, LoopStep
  <1>13. JumpsAccounted'
    <2>1. \A i \in 1..Len(code') : i \notin 1..Len(code) => ~IsJump(code'[i])
      BY <1>1, <1>3, <1>8, NewJumps
    <2> QED
      BY <1>1, <1>3, <1>4, <2>1, JumpStep
  <1> QED
    BY <1>1, <1>9, <1>10, <1>11, <1>12, <1>13 DEF LabelInv

-----------------------------------------------------------------------------
LEMMA InitJumps == Init => JumpInv
  <1> SUFFICES ASSUME Init PROVE JumpInv
    OBVIOUS
  <1>1. TypeOK
    BY InitType
  <1>2. Len(code) = 0 /\ Depth = 0 /\ stage = "between"
    BY DEF Init, Depth
  <1>3. \A i : i \notin 1..0
    OBVIOUS
  <1> QED
    BY <1>1, <1>2, <1>3
    DEF JumpInv, FramesNest, LabelsUnique, LabelNumbersFresh, FrameNumbersFresh,
        FunctionLabels, OwedLabelsAbsent, LoopsBegun, JumpsAccounted

LEMMA NextJumps == JumpInv /\ [Next]_vars => JumpInv'
  <1> SUFFICES ASSUME JumpInv, [Next]_vars PROVE JumpInv'
    OBVIOUS
  <1>0. TypeOK /\ TypeOK'
    BY NextType DEF JumpInv
  <1>1. CASE \E f \in Funcs, ps \in ParamLists : BeginFunction(f, ps)
    BY <1>1, ParamListsAreSeqs, BeginFunctionJumps
  <1>2. CASE EndFunction \/ EndMain \/ ScopeEnd
    BY <1>2, ClosingJumps
  <1>3. CASE BeginMain
    BY <1>3, BeginMainJumps
  <1>4. CASE (\E kind \in StmtKinds : Statement(kind)) \/ PrintLn \/ ReturnStmt
    BY <1>0, <1>4, StatementStep, StraightJumps
  <1>5. CASE \E v \in Names : DeclStmt(v)
    <2>1. Straight(2) /\ 2 \in 1..2
      BY <1>0, <1>5, DeclStep
    <2> QED
      BY <1>0, <2>1, StraightJumps
  <1>6. CASE IfBegin
    BY <1>6, IfBeginJumps
  <1>7. CASE IfElse
    BY <1>7, IfElseJumps
  <1>8. CASE IfEnd
    BY <1>8, IfEndJumps
  <1>9. CASE WhileBegin
    BY <1>9, WhileBeginJumps
  <1>10. CASE WhileEnd
    BY <1>10, WhileEndJumps
  <1>11. CASE ScopeBegin
    BY <1>11, ScopeBeginJumps
  <1>12. CASE UNCHANGED vars
    BY <1>12 DEF vars, JumpInv, TypeOK, FramesNest, LabelsUnique, LabelNumbersFresh,
                 FrameNumbersFresh, FunctionLabels, OwedLabelsAbsent, LoopsBegun,
                 JumpsAccounted, Depth, Outside
  <1> QED
    BY <1>1, <1>2, <1>3, <1>4, <1>5, <1>6, <1>7, <1>8, <1>9, <1>10, <1>11, <1>12 DEF Next

\* The inductive invariant.
THEOREM JumpInvariant == Spec => []JumpInv
  BY InitJumps, NextJumps, PTL DEF Spec

\* No label is defined twice, however many functions and statements there are.
THEOREM UniqueLabels == Spec => []LabelsUnique
  <1>1. JumpInv => LabelsUnique
    BY DEF JumpInv
  <1> QED
    BY <1>1, JumpInvariant, PTL

\* A jump and its target lie in the same scope instance.
THEOREM JumpsBalanced == Spec => []JumpsStayInScope
  <1>1. JumpInv => JumpsStayInScope
    <2> SUFFICES ASSUME JumpInv, NEW i \in 1..Len(code), NEW j \in 1..Len(code),
                        IsJump(code[i]), IsLabel(code[j]), code[j].label = code[i].dst
                 PROVE  home[i] = home[j]
      BY DEF JumpsStayInScope
    <2> USE DEF JumpInv
    <2>1. CASE \E q \in 1..Len(code) : code[q] = Label(code[i].dst) /\ home[q] = home[i]
      <3>1. PICK q \in 1..Len(code) : code[q] = Label(code[i].dst) /\ home[q] = home[i]
        BY <2>1
      <3>2. IsLabel(code[q]) /\ code[q].label = code[i].dst
        BY <3>1, LabelFacts
      <3>3. q = j
        BY <3>2 DEF LabelsUnique
      <3> QED
        BY <3>1, <3>3
    <2>2. CASE \E k \in 1..Depth : /\ frames[k].kind \in StatementFrames
                                   /\ code[i].dst = ControlLabel(AwaitedKind(frames[k].kind),
                                                                 frames[k].n)
                                   /\ home[i] = Outside(k)
      <3>1. PICK k \in 1..Depth : /\ frames[k].kind \in StatementFrames
                                  /\ code[i].dst = ControlLabel(AwaitedKind(frames[k].kind),
                                                                frames[k].n)
        BY <2>2
      <3>2. AwaitedKind(frames[k].kind) \in OwedKinds(frames[k].kind)
        BY <3>1, OwedFacts DEF StatementFrames
      <3>3. code[j] = Label(code[i].dst)
        BY LabelShape
      <3> QED
        BY <3>1, <3>2, <3>3 DEF OwedLabelsAbsent
    <2> QED
      BY <2>1, <2>2 DEF JumpsAccounted
  <1> QED
    BY <1>1, JumpInvariant, PTL

\* Between functions every jump has its label.
THEOREM JumpsHaveTargets == Spec => []JumpsResolve
  <1>1. JumpInv => JumpsResolve
    <2> SUFFICES ASSUME JumpInv, frames = <<>>, NEW i \in 1..Len(code), IsJump(code[i])
                 PROVE  \E j \in 1..Len(code) : IsLabel(code[j]) /\ code[j].label = code[i].dst
      BY DEF JumpsResolve
    <2>1. Depth = 0
      BY StateFacts DEF JumpInv
    <2>2. PICK j \in 1..Len(code) : code[j] = Label(code[i].dst)
      BY <2>1 DEF JumpInv, JumpsAccounted
    <2> QED
      BY <2>2, LabelFacts
  <1> QED
    BY <1>1, JumpInvariant, PTL

-----------------------------------------------------------------------------
(* Scopes: ScopeInv is inductive.                                          *)

\* New declarations are made in the innermost scope, or in a new one.
DeclaresHere(m) ==
    \A d \in 1..m : code'[Len(code) + d].op = "declare" =>
        home'[Len(code) + d] = Innermost \/ home'[Len(code) + d] > Len(code)

\* DeclaredIn of the next state, for a position of this one.
DeclaredNext(p) ==
    {code'[j].var : j \in {d \in 1..Len(code') : home'[d] = p /\ code'[d].op = "declare"}}

\* A scope that no new declaration is made in keeps its names.
LEMMA DeclaredKept ==
    ASSUME TypeOK, NEW m \in Nat, Kept(m), NEW p,
           \A d \in 1..m : code'[Len(code) + d].op = "declare" => home'[Len(code) + d] # p
    PROVE  DeclaredNext(p) = DeclaredIn(p)
  <1> DEFINE old == {d \in 1..Len(code) : home[d] = p /\ code[d].op = "declare"}
             new == {d \in 1..Len(code') : home'[d] = p /\ code'[d].op = "declare"}
  <1>1. /\ Len(code) \in Nat /\ Len(code') = Len(code) + m
        /\ \A i \in 1..Len(code) : /\ home'[i] = home[i] /\ code'[i].op = code[i].op
                                   /\ code[i].op # "pushscope" => code'[i] = code[i]
    BY StateFacts DEF Kept
  <1>2. \A i \in 1..Len(code') : i \in 1..Len(code) \/ \E d \in 1..m : i = Len(code) + d
    BY KeptInstr
  <1>3. new = old
    <2>1. ASSUME NEW i \in new PROVE i \in old
      BY <1>1, <1>2
    <2>2. ASSUME NEW i \in old PROVE i \in new
      BY <1>1
    <2> QED
      BY <2>1, <2>2
  <1>4. \A i \in old : code'[i] = code[i]
    BY <1>1
  <1>5. DeclaredIn(p) = {code[j].var : j \in old} /\ DeclaredNext(p) = {code'[j].var : j \in new}
    BY DEF DeclaredIn, DeclaredNext
  <1> HIDE DEF old, new
  <1> QED
    BY <1>3, <1>4, <1>5

\* What an action has to establish.  New PopScopes close the innermost scope;
\* the stack of PushScopes keeps a prefix and may get one new element.
ClosesHere(m) ==
    \A d \in 1..m : code'[Len(code) + d].op = "popscope" =>
        /\ Depth > 0 /\ home'[Len(code) + d] = Innermost
        /\ code'[Len(code) + d] = PopScope(StackSize)
        /\ code'[Innermost] = PushScope(StackSize)
        /\ \A k \in 1..Depth' : scopePushInstr'[k] # Innermost
        /\ DeclaredNext(Innermost) = DeclaredIn(Innermost)

HomesBefore(m) == \A d \in 1..m : home'[Len(code) + d] < Len(code) + d

StackStep ==
    \A k \in 1..Depth' :
        \/ k \in 1..Depth /\ scopePushInstr'[k] = scopePushInstr[k]
        \/ k = Depth' /\ scopePushInstr'[k] > Len(code)

LEMMA ScopeStep ==
    ASSUME ScopeInv, TypeOK', FramesNest', NEW m \in Nat, Kept(m),
           DeclaresHere(m), ClosesHere(m), HomesBefore(m), StackStep,
           \A k \in 1..Depth' : scope'[k] = DeclaredNext(scopePushInstr'[k])
    PROVE  ScopeInv'
  <1> USE DEF ScopeInv
  <1>1. /\ Len(code) \in Nat /\ Len(code') = Len(code) + m /\ Depth \in Nat
        /\ \A i \in 1..Len(code) : /\ home'[i] = home[i] /\ code'[i].op = code[i].op
                                   /\ code[i].op # "pushscope" => code'[i] = code[i]
                                   /\ i # Innermost => code'[i] = code[i]
        /\ \A i \in 1..Len(code') : i \in 1..Len(code) \/ \E d \in 1..m : i = Len(code) + d
    BY StateFacts, KeptInstr DEF Kept
  <1>2. \A i \in 1..Len(code') : home'[i] < i
    BY <1>1 DEF HomesBefore
  <1>3. \A k, l \in 1..Depth' : k < l => scopePushInstr'[k] < scopePushInstr'[l]
    <2> SUFFICES ASSUME NEW k \in 1..Depth', NEW l \in 1..Depth', k < l
                 PROVE  scopePushInstr'[k] < scopePushInstr'[l]
      OBVIOUS
    <2>1. Depth' \in Nat
      BY StateFacts, LenProperties DEF Depth, TypeOK
    <2>2. k \in 1..Depth /\ scopePushInstr'[k] = scopePushInstr[k]
      BY <2>1 DEF StackStep
    <2>3. scopePushInstr[k] \in 1..Len(code)
      BY <2>2 DEF TypeOK
    <2>4. CASE l \in 1..Depth /\ scopePushInstr'[l] = scopePushInstr[l]
      BY <2>2, <2>4
    <2>5. CASE scopePushInstr'[l] > Len(code)
      <3>1. scopePushInstr'[l] \in Nat
        BY ElementOfSeq DEF TypeOK, Depth, Positions
      <3> QED
        BY <1>1, <2>2, <2>3, <2>5, <3>1
    <2> QED
      BY <2>4, <2>5 DEF StackStep
  <1>4. ASSUME NEW i \in 1..Len(code), code[i].op = "popscope"
        PROVE  /\ home[i] \in 1..(i - 1) /\ home[i] \in 1..Len(code) /\ home[i] # Innermost
               /\ \A k \in 1..Depth : home[i] # scopePushInstr[k]
    <2>1. home[i] \in 1..(i - 1) /\ \A k \in 1..Depth : home[i] # scopePushInstr[k]
      BY <1>4 DEF ScopeSizesAgree
    <2>2. home[i] \in 1..Len(code)
      BY <1>1, <2>1
    <2> QED
      BY <1>1, <2>1, <2>2 DEF Innermost
  <1>5. \A i \in 1..Len(code') : code'[i].op = "popscope" =>
            \A k \in 1..Depth' : home'[i] # scopePushInstr'[k]
    <2> SUFFICES ASSUME NEW i \in 1..Len(code'), code'[i].op = "popscope", NEW k \in 1..Depth'
                 PROVE  home'[i] # scopePushInstr'[k]
      OBVIOUS
    <2>1. CASE i \in 1..Len(code)
      <3>1. /\ home'[i] = home[i] /\ home[i] \in 1..Len(code)
            /\ \A q \in 1..Depth : home[i] # scopePushInstr[q]
        <4>1. code[i].op = "popscope" /\ home'[i] = home[i]
          BY <1>1, <2>1
        <4> QED
          BY <1>4, <2>1, <4>1
      <3>2. ~(home[i] > Len(code))
        BY <1>1, <3>1
      <3> QED
        BY <3>1, <3>2 DEF StackStep
    <2>2. CASE \E d \in 1..m : i = Len(code) + d
      BY <2>2 DEF ClosesHere
    <2> QED
      BY <1>1, <2>1, <2>2
  <1>6. ScopeSizesAgree'
    <2> SUFFICES ASSUME NEW i \in 1..Len(code'), code'[i].op = "popscope"
                 PROVE  /\ home'[i] \in 1..(i - 1)
                        /\ code'[home'[i]] = PushScope(code'[i].size)
                        /\ code'[i].size = AlignedSize(Cardinality(DeclaredNext(home'[i])))
      BY DEF ScopeSizesAgree, DeclaredIn, DeclaredNext
    <2>1. CASE i \in 1..Len(code)
      <3>1. /\ code[i].op = "popscope" /\ code'[i] = code[i] /\ home'[i] = home[i]
            /\ home[i] \in 1..(i - 1) /\ home[i] \in 1..Len(code) /\ home[i] # Innermost
        <4>1. code[i].op = "popscope" /\ code'[i] = code[i] /\ home'[i] = home[i]
          BY <1>1, <2>1
        <4> QED
          BY <1>4, <2>1, <4>1
      <3>2. \A d \in 1..m : code'[Len(code) + d].op = "declare" => home'[Len(code) + d] # home[i]
        <4>1. ~(home[i] > Len(code))
          BY <1>1, <3>1
        <4> QED
          BY <3>1, <4>1 DEF DeclaresHere
      <3>3. DeclaredNext(home[i]) = DeclaredIn(home[i])
        BY <3>2, DeclaredKept
      <3>4. /\ code[home[i]] = PushScope(code[i].size)
            /\ code[i].size = AlignedSize(Cardinality(DeclaredIn(home[i])))
        BY <2>1, <3>1 DEF ScopeSizesAgree
      <3> QED
        BY <1>1, <3>1, <3>3, <3>4
    <2>2. CASE \E d \in 1..m : i = Len(code) + d
      <3>1. /\ Depth > 0 /\ home'[i] = Innermost
            /\ code'[i] = PopScope(StackSize) /\ code'[Innermost] = PushScope(StackSize)
            /\ DeclaredNext(Innermost) = DeclaredIn(Innermost)
        BY <2>2 DEF ClosesHere
      <3>2. Innermost \in 1..(i - 1)
        BY <1>1, <2>2, <3>1, StateFacts
      <3>3. scope[Depth] = DeclaredIn(Innermost)
        BY <1>1, <3>1, StateFacts
      <3> QED
        BY <3>1, <3>2, <3>3 DEF StackSize, PopScope
    <2> QED
      BY <1>1, <2>1, <2>2
  <1>7. \A k \in 1..Depth' : scope'[k] = DeclaredIn(scopePushInstr[k])'
    BY DEF DeclaredIn, DeclaredNext
  <1> QED
    BY <1>2, <1>3, <1>5, <1>6, <1>7

\* A step without declarations leaves the names of every scope alone.
LEMMA NoDeclares ==
    ASSUME TypeOK, NEW m \in Nat, Kept(m),
           \A d \in 1..m : code'[Len(code) + d].op # "declare"
    PROVE  DeclaresHere(m) /\ \A p : DeclaredNext(p) = DeclaredIn(p)
  BY DeclaredKept DEF DeclaresHere

\* Positions of this state come before those of new instructions.
LEMMA PositionFacts ==
    ASSUME ScopeInv
    PROVE  /\ Len(code) \in Nat /\ Depth \in Nat
           /\ Innermost \in Nat /\ Innermost <= Len(code)
           /\ Around \in Nat /\ Around <= Len(code)
           /\ Depth > 0 => Innermost = scopePushInstr[Depth] /\ scope[Depth] = DeclaredIn(Innermost)
           /\ \A k \in 1..Depth : scopePushInstr[k] <= Len(code)
           /\ \A k \in 1..Depth : k # Depth => scopePushInstr[k] # Innermost
  <1>1. /\ Len(code) \in Nat /\ Depth \in Nat
        /\ \A k \in 1..Depth : scopePushInstr[k] \in 1..Len(code)
        /\ \A k, l \in 1..Depth : k < l => scopePushInstr[k] < scopePushInstr[l]
        /\ \A k \in 1..Depth : scope[k] = DeclaredIn(scopePushInstr[k])
    BY StateFacts DEF ScopeInv, TypeOK
  <1> QED
    BY <1>1 DEF Innermost, Around

LEMMA HomesInside ==
    ASSUME ScopeInv, NEW m \in Nat,
           \A d \in 1..m : home'[Len(code) + d] = Innermost \/ home'[Len(code) + d] = Around
    PROVE  HomesBefore(m)
  <1> SUFFICES ASSUME NEW d \in 1..m PROVE home'[Len(code) + d] < Len(code) + d
    BY DEF HomesBefore
  <1>1. Innermost < Len(code) + d /\ Around < Len(code) + d
    BY PositionFacts
  <1> QED
    BY <1>1

LEMMA SimpleScopes ==
    ASSUME ScopeInv, TypeOK', FramesNest', NEW m \in 1..2, Straight(m), SimpleOnly(m),
           scope' = scope
    PROVE  ScopeInv'
  <1>1. /\ Kept(m) /\ m \in Nat /\ Depth' = Depth /\ scopePushInstr' = scopePushInstr
        /\ \A d \in 1..m : code'[Len(code) + d].op \in SimpleKinds
        /\ \A d \in 1..m : home'[Len(code) + d] = Innermost
    <2>1. m \in Nat
      OBVIOUS
    <2>2. Depth' = Depth
      BY DEF Straight, Depth
    <2> QED
      BY <2>1, <2>2 DEF Straight, SimpleOnly
  <1>2. \A d \in 1..m : /\ code'[Len(code) + d].op # "declare"
                        /\ code'[Len(code) + d].op # "popscope"
    BY <1>1 DEF SimpleKinds
  <1>3. DeclaresHere(m) /\ \A p : DeclaredNext(p) = DeclaredIn(p)
    BY <1>1, <1>2, NoDeclares DEF ScopeInv
  <1>4. ClosesHere(m) /\ HomesBefore(m) /\ StackStep
    <2>1. ClosesHere(m)
      BY <1>2 DEF ClosesHere
    <2>2. HomesBefore(m)
      BY <1>1, HomesInside
    <2>3. StackStep
      BY <1>1 DEF StackStep
    <2> QED
      BY <2>1, <2>2, <2>3
  <1>5. \A k \in 1..Depth' : scope'[k] = DeclaredNext(scopePushInstr'[k])
    BY <1>1, <1>3 DEF ScopeInv
  <1> QED
    BY <1>1, <1>3, <1>4, <1>5, ScopeStep

LEMMA DeclScopes ==
    ASSUME ScopeInv, TypeOK', FramesNest', NEW v \in Names, DeclStmt(v)
    PROVE  ScopeInv'
  <1>1. /\ Kept(2) /\ 2 \in Nat /\ Depth > 0 /\ Depth' = Depth
        /\ scopePushInstr' = scopePushInstr
        /\ home'[Len(code) + 1] = Innermost /\ home'[Len(code) + 2] = Innermost
        /\ code'[Len(code) + 1] = Declare(v) /\ code'[Len(code) + 2] = Simple("move")
        /\ \A k \in 1..Depth : scope'[k] = IF k = Depth THEN scope[k] \cup {v} ELSE scope[k]
    <2>1. TypeOK
      BY DEF ScopeInv
    <2>2. /\ Straight(2)
          /\ code'[Len(code) + 1] = Declare(v) /\ code'[Len(code) + 2] = Simple("move")
          /\ \A k \in 1..Depth : scope'[k] = IF k = Depth THEN scope[k] \cup {v} ELSE scope[k]
      BY <2>1, DeclStep
    <2>3. Depth' = Depth
      BY <2>2 DEF Straight, Depth
    <2>4. 1 \in 1..2 /\ 2 \in 1..2
      OBVIOUS
    <2> QED
      BY <2>2, <2>3, <2>4 DEF Straight
  <1>2. \A d \in 1..2 : d = 1 \/ d = 2
    OBVIOUS
  <1>3. /\ Declare(v).op = "declare" /\ Declare(v).var = v /\ Simple("move").op = "move"
    BY DEF Declare, Simple
  <1>4. DeclaresHere(2) /\ ClosesHere(2)
    BY <1>1, <1>2, <1>3 DEF DeclaresHere, ClosesHere
  <1>5. HomesBefore(2) /\ StackStep
    BY <1>1, <1>2, PositionFacts DEF HomesBefore, StackStep
  <1>6. \A p : p # Innermost => DeclaredNext(p) = DeclaredIn(p)
    BY <1>1, <1>2, <1>3, DeclaredKept DEF ScopeInv
  <1>7. DeclaredNext(Innermost) = DeclaredIn(Innermost) \cup {v}
    <2> DEFINE old == {d \in 1..Len(code) : home[d] = Innermost /\ code[d].op = "declare"}
               new == {d \in 1..Len(code') : home'[d] = Innermost /\ code'[d].op = "declare"}
    <2>1. /\ Len(code) \in Nat /\ Len(code') = Len(code) + 2
          /\ \A i \in 1..Len(code) : /\ home'[i] = home[i] /\ code'[i].op = code[i].op
                                     /\ code[i].op # "pushscope" => code'[i] = code[i]
      BY <1>1, PositionFacts DEF Kept
    <2>2. new = old \cup {Len(code) + 1}
      <3>1. \A i \in 1..Len(code') : i \in 1..Len(code) \/ i = Len(code) + 1 \/ i = Len(code) + 2
        BY <2>1
      <3>2. Len(code) + 1 \in 1..Len(code') /\ \A i \in 1..Len(code) : i \in 1..Len(code')
        BY <2>1
      <3>3. ASSUME NEW i \in new PROVE i \in old \cup {Len(code) + 1}
        BY <1>1, <1>3, <2>1, <3>1
      <3>4. ASSUME NEW i \in old PROVE i \in new
        BY <2>1, <3>2
      <3>5. Len(code) + 1 \in new
        BY <1>1, <1>3, <3>2
      <3> QED
        BY <3>3, <3>4, <3>5
    <2>3. \A i \in old : code'[i] = code[i]
      BY <2>1
    <2>4. /\ DeclaredIn(Innermost) = {code[j].var : j \in old}
          /\ DeclaredNext(Innermost) = {code'[j].var : j \in new}
      BY DEF DeclaredIn, DeclaredNext
    <2> HIDE DEF old, new
    <2> QED
      BY <1>1, <1>3, <2>2, <2>3, <2>4
  <1>8. \A k \in 1..Depth' : scope'[k] = DeclaredNext(scopePushInstr'[k])
    <2> SUFFICES ASSUME NEW k \in 1..Depth PROVE scope'[k] = DeclaredNext(scopePushInstr[k])
      BY <1>1
    <2>1. scope[k] = DeclaredIn(scopePushInstr[k])
      BY DEF ScopeInv
    <2>2. CASE k = Depth
      BY <1>1, <1>7, <2>1, <2>2, PositionFacts
    <2>3. CASE k # Depth
      BY <1>1, <1>6, <2>1, <2>3, PositionFacts
    <2> QED
      BY <2>2, <2>3
  <1> QED
    BY <1>1, <1>4, <1>5, <1>8, ScopeStep

\* The innermost scope is closed and what follows is outside it.
LEMMA DroppedScopes ==
    ASSUME ScopeInv, TypeOK', FramesNest', NEW m \in Nat, Kept(m), 1 \in 1..m, Dropped, Depth > 0,
           code'[Innermost] = PushScope(StackSize),
           code'[Len(code) + 1] = PopScope(StackSize), home'[Len(code) + 1] = Innermost,
           \A d \in 1..m : d # 1 => /\ code'[Len(code) + d].op # "declare"
                                    /\ code'[Len(code) + d].op # "popscope"
                                    /\ home'[Len(code) + d] = Around
    PROVE  ScopeInv'
  <1>1. PopScope(StackSize).op = "popscope"
    BY DEF PopScope
  <1>2. /\ Depth' = Depth - 1 /\ Depth \in Nat
        /\ \A k \in 1..Depth' : k \in 1..Depth /\ k # Depth
        /\ \A k \in 1..Depth' : scopePushInstr'[k] = scopePushInstr[k] /\ scope'[k] = scope[k]
    BY PositionFacts DEF Dropped
  <1>3. DeclaresHere(m) /\ \A p : DeclaredNext(p) = DeclaredIn(p)
    <2>1. \A d \in 1..m : code'[Len(code) + d].op # "declare"
      BY <1>1
    <2> QED
      BY <2>1, NoDeclares DEF ScopeInv
  <1>4. ClosesHere(m)
    BY <1>2, <1>3, PositionFacts DEF ClosesHere
  <1>5. HomesBefore(m) /\ StackStep
    <2>1. HomesBefore(m)
      BY HomesInside
    <2>2. StackStep
      BY <1>2 DEF StackStep
    <2> QED
      BY <2>1, <2>2
  <1>6. \A k \in 1..Depth' : scope'[k] = DeclaredNext(scopePushInstr'[k])
    BY <1>2, <1>3 DEF ScopeInv
  <1> QED
    BY <1>3, <1>4, <1>5, <1>6, ScopeStep

\* No code can stand in a scope before it is opened.
LEMMA NothingDeclaredYet ==
    ASSUME ScopeInv, NEW p, p \in Nat, p > Len(code)
    PROVE  DeclaredIn(p) = {}
  <1>1. \A i \in 1..Len(code) : home[i] < i
    BY DEF ScopeInv
  <1>2. Len(code) \in Nat /\ home \in Seq(Nat) /\ Len(home) = Len(code)
    BY StateFacts DEF ScopeInv, Positions
  <1>3. \A i \in 1..Len(code) : home[i] # p
    BY <1>1, <1>2
  <1> QED
    BY <1>3 DEF DeclaredIn

\* A scope is opened in the innermost one.
LEMMA OpenedScopes ==
    ASSUME ScopeInv, TypeOK', FramesNest', NEW m \in Nat, Kept(m), NEW q \in 1..m,
           NEW fr, Opened(Len(code) + q, fr),
           \A d \in 1..m : /\ code'[Len(code) + d].op # "declare"
                           /\ code'[Len(code) + d].op # "popscope"
                           /\ home'[Len(code) + d] = Innermost
    PROVE  ScopeInv'
  <1>1. /\ Depth' = Depth + 1 /\ Depth \in Nat /\ Len(code) \in Nat
        /\ \A k \in 1..Depth' : k \in 1..Depth \/ k = Depth'
        /\ \A k \in 1..Depth : scopePushInstr'[k] = scopePushInstr[k] /\ scope'[k] = scope[k]
        /\ scopePushInstr'[Depth'] = Len(code) + q /\ scope'[Depth'] = {}
        /\ Len(code) + q > Len(code) /\ Len(code) + q \in Nat
    BY PositionFacts DEF Opened
  <1>2. DeclaresHere(m) /\ \A p : DeclaredNext(p) = DeclaredIn(p)
    BY NoDeclares DEF ScopeInv
  <1>3. ClosesHere(m)
    BY DEF ClosesHere
  <1>4. HomesBefore(m) /\ StackStep
    <2>1. HomesBefore(m)
      BY HomesInside
    <2>2. StackStep
      BY <1>1 DEF StackStep
    <2> QED
      BY <2>1, <2>2
  <1>5. DeclaredIn(Len(code) + q) = {}
    BY <1>1, NothingDeclaredYet
  <1>6. \A k \in 1..Depth' : scope'[k] = DeclaredNext(scopePushInstr'[k])
    BY <1>1, <1>2, <1>5 DEF ScopeInv
  <1> QED
    BY <1>2, <1>3, <1>4, <1>6, ScopeStep

\* Neither jumps, labels, PushScopes nor simple instructions bear on scopes.
LEMMA OtherOps ==
    /\ \A l : /\ Label(l).op # "declare" /\ Label(l).op # "popscope"
              /\ Jmp(l).op # "declare" /\ Jmp(l).op # "popscope"
              /\ JmpCond(l).op # "declare" /\ JmpCond(l).op # "popscope"
    /\ \A n : PushScope(n).op # "declare" /\ PushScope(n).op # "popscope"
    /\ \A k \in SimpleKinds : Simple(k).op # "declare" /\ Simple(k).op # "popscope"
    /\ \A n : PopScope(n).op = "popscope"
    /\ \A v : Declare(v).op = "declare" /\ Declare(v).var = v
  BY DEF Label, Jmp, JmpCond, PushScope, PopScope, Declare, Simple, SimpleKinds

\* The blocks and statements that end.
LEMMA EndScopes ==
    ASSUME ScopeInv, TypeOK', FramesNest',
           EndFunction \/ EndMain \/ ScopeEnd \/ IfEnd \/ WhileEnd
    PROVE  ScopeInv'
  <1>1. TypeOK /\ 1 \in 1..1 /\ 1 \in 1..2 /\ 1 \in 1..3
    BY DEF ScopeInv
  <1>2. Depth > 0
    BY <1>1, TopFrame DEF EndFunction, EndMain, ScopeEnd, IfEnd, WhileEnd
  <1>3. CASE EndFunction \/ EndMain \/ ScopeEnd
    <2>1. \A d \in 1..1 : d = 1
      OBVIOUS
    <2> QED
      BY <1>1, <1>2, <1>3, <2>1, ClosingStep, DroppedScopes
  <1>4. CASE IfEnd
    <2>1. \A d \in 1..2 : d # 1 => d = 2
      OBVIOUS
    <2>2. \A d \in 1..2 : d # 1 => /\ code'[Len(code) + d].op # "declare"
                                   /\ code'[Len(code) + d].op # "popscope"
                                   /\ home'[Len(code) + d] = Around
      BY <1>1, <1>4, <2>1, IfEndStep, OtherOps
    <2> QED
      BY <1>1, <1>2, <1>4, <2>2, IfEndStep, DroppedScopes
  <1>5. CASE WhileEnd
    <2>1. \A d \in 1..3 : d # 1 => d = 2 \/ d = 3
      OBVIOUS
    <2>2. \A d \in 1..3 : d # 1 => /\ code'[Len(code) + d].op # "declare"
                                   /\ code'[Len(code) + d].op # "popscope"
                                   /\ home'[Len(code) + d] = Around
      BY <1>1, <1>5, <2>1, WhileEndStep, OtherOps
    <2> QED
      BY <1>1, <1>2, <1>5, <2>2, WhileEndStep, DroppedScopes
  <1> QED
    BY <1>3, <1>4, <1>5

\* The statements and main, which open a scope.
LEMMA BeginScopes ==
    ASSUME ScopeInv, TypeOK', FramesNest', IfBegin \/ WhileBegin \/ ScopeBegin \/ BeginMain
    PROVE  ScopeInv'
  <1>1. TypeOK
    BY DEF ScopeInv
  <1>2. CASE IfBegin
    <2>1. \A d \in 1..2 : d = 1 \/ d = 2
      OBVIOUS
    <2>2. \A d \in 1..2 : /\ code'[Len(code) + d].op # "declare"
                          /\ code'[Len(code) + d].op # "popscope"
                          /\ home'[Len(code) + d] = Innermost
      BY <1>1, <1>2, <2>1, IfBeginStep, OtherOps
    <2>3. Kept(2) /\ 2 \in 1..2 /\ 2 \in Nat /\ Opened(Len(code) + 2, Frame("then", currentCounter))
      BY <1>1, <1>2, IfBeginStep
    <2> QED
      BY <2>2, <2>3, OpenedScopes
  <1>3. CASE WhileBegin
    <2>1. \A d \in 1..3 : d = 1 \/ d = 2 \/ d = 3
      OBVIOUS
    <2>2. \A d \in 1..3 : /\ code'[Len(code) + d].op # "declare"
                          /\ code'[Len(code) + d].op # "popscope"
                          /\ home'[Len(code) + d] = Innermost
      BY <1>1, <1>3, <2>1, WhileBeginStep, OtherOps
    <2>3. Kept(3) /\ 3 \in 1..3 /\ 3 \in Nat /\ Opened(Len(code) + 3, Frame("while", currentCounter))
      BY <1>1, <1>3, WhileBeginStep
    <2> QED
      BY <2>2, <2>3, OpenedScopes
  <1>4. CASE ScopeBegin
    <2>1. \A d \in 1..1 : d = 1
      OBVIOUS
    <2>2. \A d \in 1..1 : /\ code'[Len(code) + d].op # "declare"
                          /\ code'[Len(code) + d].op # "popscope"
                          /\ home'[Len(code) + d] = Innermost
      BY <1>1, <1>4, <2>1, ScopeBeginStep, OtherOps
    <2>3. Kept(1) /\ 1 \in 1..1 /\ 1 \in Nat /\ Opened(Len(code) + 1, Frame("scope", 0))
      BY <1>1, <1>4, ScopeBeginStep
    <2> QED
      BY <2>2, <2>3, OpenedScopes
  <1>5. CASE BeginMain
    <2>1. \A d \in 1..3 : d = 1 \/ d = 2 \/ d = 3
      OBVIOUS
    <2>2. "locale" \in SimpleKinds
      BY DEF SimpleKinds
    <2>3. \A d \in 1..3 : /\ code'[Len(code) + d].op # "declare"
                          /\ code'[Len(code) + d].op # "popscope"
                          /\ home'[Len(code) + d] = Innermost
      BY <1>1, <1>5, <2>1, <2>2, BeginMainStep, OtherOps
    <2>4. Kept(3) /\ 3 \in 1..3 /\ 3 \in Nat /\ Opened(Len(code) + 3, Frame("main", 0))
      BY <1>1, <1>5, BeginMainStep
    <2> QED
      BY <2>3, <2>4, OpenedScopes
  <1> QED
    BY <1>2, <1>3, <1>4, <1>5

\* The then branch's scope is closed and the else branch's one opened.
LEMMA IfElseScopes ==
    ASSUME ScopeInv, TypeOK', FramesNest', IfElse
    PROVE  ScopeInv'
  <1>1. /\ Kept(4) /\ 4 \in Nat /\ Depth' = Depth
        /\ code'[Innermost] = PushScope(StackSize)
        /\ \A j \in 1..Depth : /\ scope'[j] = IF j = Depth THEN {} ELSE scope[j]
                               /\ scopePushInstr'[j] = IF j = Depth THEN Len(code) + 4
                                                       ELSE scopePushInstr[j]
        /\ code'[Len(code) + 1] = PopScope(StackSize) /\ home'[Len(code) + 1] = Innermost
        /\ home'[Len(code) + 2] = Around /\ home'[Len(code) + 3] = Around
        /\ home'[Len(code) + 4] = Around
    BY IfElseStep DEF ScopeInv
  <1>2. \A d \in 2..4 : code'[Len(code) + d].op # "declare" /\ code'[Len(code) + d].op # "popscope"
    <2>1. \A d \in 2..4 : d = 2 \/ d = 3 \/ d = 4
      OBVIOUS
    <2> QED
      BY <2>1, IfElseStep, OtherOps DEF ScopeInv
  <1>3. \A d \in 1..4 : d # 1 => d \in 2..4
    OBVIOUS
  <1>4. Depth > 0 /\ Depth \in 1..Depth
    BY TopFrame DEF ScopeInv, IfElse
  <1>5. DeclaresHere(4) /\ \A p : DeclaredNext(p) = DeclaredIn(p)
    <2>1. \A d \in 1..4 : code'[Len(code) + d].op # "declare"
      BY <1>1, <1>2, <1>3, OtherOps
    <2> QED
      BY <1>1, <2>1, NoDeclares DEF ScopeInv
  <1>6. Len(code) + 4 \in Nat /\ Len(code) + 4 > Len(code) /\ Len(code) + 4 # Innermost
    BY PositionFacts
  <1>7. ClosesHere(4)
    <2>1. \A k \in 1..Depth' : scopePushInstr'[k] # Innermost
      BY <1>1, <1>6, PositionFacts
    <2> QED
      BY <1>1, <1>2, <1>3, <1>4, <1>5, <2>1 DEF ClosesHere
  <1>8. HomesBefore(4)
    <2>1. \A d \in 1..4 : d = 1 \/ d = 2 \/ d = 3 \/ d = 4
      OBVIOUS
    <2>2. \A d \in 1..4 : home'[Len(code) + d] = Innermost \/ home'[Len(code) + d] = Around
      BY <1>1, <2>1
    <2> QED
      BY <2>2, HomesInside
  <1>9. StackStep
    BY <1>1, <1>6 DEF StackStep
  <1>10. DeclaredIn(Len(code) + 4) = {}
    BY <1>6, NothingDeclaredYet
  <1>11. \A k \in 1..Depth' : scope'[k] = DeclaredNext(scopePushInstr'[k])
    BY <1>1, <1>5, <1>10 DEF ScopeInv
  <1> QED
    BY <1>1, <1>5, <1>7, <1>8, <1>9, <1>11, ScopeStep

\* A function's scope starts with the names of its parameters.
LEMMA BeginFunctionScopes ==
    ASSUME ScopeInv, TypeOK', FramesNest',
           NEW f \in Funcs, NEW ps \in Seq(Names), BeginFunction(f, ps)
    PROVE  ScopeInv'
  <1> DEFINE n == 2 * Len(ps)
             m == 2 + n
             p == Len(code) + 2
  <1>1. /\ Kept(m) /\ Depth' = 1 /\ scopePushInstr'[1] = p
        /\ scope'[1] = {ps[i] : i \in 1..Len(ps)}
        /\ code'[Len(code) + 1] = Label(FuncLabel(f)) /\ code'[p] = PushScope(0)
        /\ home'[Len(code) + 1] = 0 /\ home'[p] = 0
        /\ \A i \in 1..n : /\ code'[p + i] = IF i % 2 = 1 THEN Declare(ps[(i + 1) \div 2])
                                             ELSE Simple("param")
                           /\ home'[p + i] = p
    BY BeginFunctionStep DEF ScopeInv
  <1>2. Len(ps) \in Nat /\ n \in Nat /\ m \in Nat /\ Len(code) \in Nat /\ p \in Nat /\ p > Len(code)
    BY PositionFacts, LenProperties
  <1>3. "param" \in SimpleKinds
    BY DEF SimpleKinds
  <1>4. \A d \in 1..m : d = 1 \/ d = 2 \/ \E i \in 1..n : d = 2 + i /\ Len(code) + d = p + i
    <2> SUFFICES ASSUME NEW d \in 1..m, d # 1, d # 2
                 PROVE  \E i \in 1..n : d = 2 + i /\ Len(code) + d = p + i
      OBVIOUS
    <2>1. d - 2 \in 1..n /\ d = 2 + (d - 2) /\ Len(code) + d = p + (d - 2)
      BY <1>2
    <2> QED
      BY <2>1
  <1> HIDE DEF n, m
  <1>5. \A i \in 1..n : code'[p + i].op # "popscope"
    BY <1>1, <1>3, OtherOps
  <1>6. \A d \in 1..m : /\ code'[Len(code) + d].op # "popscope"
                        /\ code'[Len(code) + d].op = "declare" => home'[Len(code) + d] = p
                        /\ home'[Len(code) + d] < Len(code) + d
    <2> SUFFICES ASSUME NEW d \in 1..m
                 PROVE  /\ code'[Len(code) + d].op # "popscope"
                        /\ code'[Len(code) + d].op = "declare" => home'[Len(code) + d] = p
                        /\ home'[Len(code) + d] < Len(code) + d
      OBVIOUS
    <2>1. CASE d = 1
      <3>1. 0 < Len(code) + 1
        BY <1>2
      <3> QED
        BY <1>1, <2>1, <3>1, OtherOps
    <2>3. CASE d = 2
      <3>1. 0 < Len(code) + 2
        BY <1>2
      <3> QED
        BY <1>1, <2>3, <3>1, OtherOps
    <2>2. CASE \E i \in 1..n : d = 2 + i /\ Len(code) + d = p + i
      <3>1. PICK i \in 1..n : d = 2 + i /\ Len(code) + d = p + i
        BY <2>2
      <3>2. p < p + i
        BY <1>2
      <3>3. home'[p + i] = p
        BY <1>1
      <3> QED
        BY <1>5, <3>1, <3>2, <3>3
    <2> QED
      BY <1>4, <2>1, <2>2, <2>3
  <1>7. DeclaresHere(m) /\ ClosesHere(m) /\ HomesBefore(m) /\ StackStep
    <2>1. DeclaresHere(m)
      BY <1>2, <1>6 DEF DeclaresHere
    <2>2. ClosesHere(m)
      BY <1>6 DEF ClosesHere
    <2>3. HomesBefore(m)
      BY <1>6 DEF HomesBefore
    <2>4. \A k \in 1..1 : k = 1
      OBVIOUS
    <2>5. StackStep
      BY <1>1, <1>2, <2>4 DEF StackStep
    <2> QED
      BY <2>1, <2>2, <2>3, <2>5
  <1>8. DeclaredNext(p) = {ps[i] : i \in 1..Len(ps)}
    <2> DEFINE new == {d \in 1..Len(code') : home'[d] = p /\ code'[d].op = "declare"}
    <2>1. ASSUME NEW i \in 1..Len(ps)
          PROVE  \E j \in new : code'[j].var = ps[i]
      <3> DEFINE k == 2 * i - 1
      <3>1. k \in 1..n /\ k % 2 = 1 /\ (k + 1) \div 2 = i
        BY <1>2 DEF n
      <3>2. code'[p + k] = Declare(ps[i]) /\ home'[p + k] = p
        BY <1>1, <3>1
      <3>3. p + k \in 1..Len(code')
        BY <1>1, <1>2, <3>1 DEF Kept, m
      <3> QED
        BY <3>2, <3>3, OtherOps
    <2>2. ASSUME NEW j \in new
          PROVE  \E i \in 1..Len(ps) : code'[j].var = ps[i]
      <3>1. j \notin 1..Len(code)
        <4>1. ASSUME j \in 1..Len(code) PROVE FALSE
          <5>1. home'[j] = home[j] /\ home[j] < j
            BY <1>1, <4>1 DEF Kept, ScopeInv
          <5> QED
            BY <1>2, <4>1, <5>1
        <4> QED
          BY <4>1
      <3>2. PICK d \in 1..m : j = Len(code) + d
        <4>1. TypeOK /\ j \in 1..Len(code')
          BY DEF ScopeInv
        <4> QED
          BY <1>1, <1>2, <3>1, <4>1, KeptInstr
      <3>3. d # 1 /\ d # 2
        BY <1>1, <3>2, OtherOps
      <3>4. PICK i \in 1..n : j = p + i
        BY <1>4, <3>2, <3>3
      <3>5. i % 2 = 1 /\ code'[j] = Declare(ps[(i + 1) \div 2])
        BY <1>1, <1>3, <3>4, OtherOps
      <3>6. (i + 1) \div 2 \in 1..Len(ps)
        BY SMTT(40), <1>2, <3>5 DEF n
      <3> QED
        BY <3>5, <3>6, OtherOps
    <2>3. DeclaredNext(p) = {code'[j].var : j \in new}
      BY DEF DeclaredNext
    <2> HIDE DEF new
    <2>4. \A x : x \in DeclaredNext(p) => x \in {ps[i] : i \in 1..Len(ps)}
      BY <2>2, <2>3
    <2>5. \A x : x \in {ps[i] : i \in 1..Len(ps)} => x \in DeclaredNext(p)
      BY <2>1, <2>3
    <2> QED
      BY <2>4, <2>5
  <1>9. \A k \in 1..Depth' : scope'[k] = DeclaredNext(scopePushInstr'[k])
    <2>1. \A k \in 1..1 : k = 1
      OBVIOUS
    <2>2. scope'[1] = DeclaredNext(scopePushInstr'[1])
      BY <1>1, <1>8
    <2> QED
      BY <1>1, <2>1, <2>2
  <1> QED
    BY <1>1, <1>2, <1>7, <1>9, ScopeStep

LEMMA InitScopes == Init => ScopeInv
  <1> SUFFICES ASSUME Init PROVE ScopeInv
    OBVIOUS
  <1>1. TypeOK /\ FramesNest
    BY InitJumps DEF JumpInv
  <1>2. Len(code) = 0 /\ Depth = 0
    BY DEF Init, Depth
  <1> QED
    BY <1>1, <1>2 DEF ScopeInv, ScopeSizesAgree

LEMMA NextScopes == JumpInv /\ ScopeInv /\ [Next]_vars => ScopeInv'
  <1> SUFFICES ASSUME JumpInv, ScopeInv, [Next]_vars PROVE ScopeInv'
    OBVIOUS
  <1>0. TypeOK /\ TypeOK' /\ FramesNest'
    BY NextJumps DEF JumpInv
  <1>1. CASE \E f \in Funcs, ps \in ParamLists : BeginFunction(f, ps)
    BY <1>0, <1>1, ParamListsAreSeqs, BeginFunctionScopes
  <1>2. CASE EndFunction \/ EndMain \/ ScopeEnd \/ IfEnd \/ WhileEnd
    BY <1>0, <1>2, EndScopes
  <1>3. CASE IfBegin \/ WhileBegin \/ ScopeBegin \/ BeginMain
    BY <1>0, <1>3, BeginScopes
  <1>4. CASE (\E kind \in StmtKinds : Statement(kind)) \/ PrintLn \/ ReturnStmt
    BY <1>0, <1>4, StatementStep, SimpleScopes
  <1>5. CASE \E v \in Names : DeclStmt(v)
    BY <1>0, <1>5, DeclScopes
  <1>6. CASE IfElse
    BY <1>0, <1>6, IfElseScopes
  <1>7. CASE UNCHANGED vars
    <2>1. /\ code' = code /\ home' = home /\ scope' = scope
          /\ scopePushInstr' = scopePushInstr /\ Depth' = Depth
      BY <1>7 DEF vars, Depth
    <2>2. /\ \A i \in 1..Len(code') : home'[i] < i
          /\ \A k, l \in 1..Depth' : k < l => scopePushInstr'[k] < scopePushInstr'[l]
          /\ \A i \in 1..Len(code') : code'[i].op = "popscope" =>
                \A k \in 1..Depth' : home'[i] # scopePushInstr'[k]
      BY <2>1 DEF ScopeInv
    <2>3. ScopeSizesAgree'
      <3>1. \A p : DeclaredNext(p) = DeclaredIn(p)
        BY <2>1 DEF DeclaredIn, DeclaredNext
      <3>2. \A i \in 1..Len(code') : code'[i].op = "popscope" =>
              /\ home'[i] \in 1..(i - 1)
              /\ code'[home'[i]] = PushScope(code'[i].size)
              /\ code'[i].size = AlignedSize(Cardinality(DeclaredNext(home'[i])))
        BY <2>1, <3>1 DEF ScopeInv, ScopeSizesAgree
      <3> QED
        BY <3>2 DEF ScopeSizesAgree, DeclaredIn, DeclaredNext
    <2>4. \A k \in 1..Depth' : scope'[k] = DeclaredIn(scopePushInstr[k])'
      BY <2>1 DEF ScopeInv, DeclaredIn
    <2> QED
      BY <1>0, <2>2, <2>3, <2>4 DEF ScopeInv
  <1> QED
    BY <1>1, <1>2, <1>3, <1>4, <1>5, <1>6, <1>7 DEF Next

\* The inductive invariant of the scopes, under that of the jumps.
THEOREM ScopeInvariant == Spec => []ScopeInv
  BY InitScopes, NextScopes, JumpInvariant, PTL DEF Spec

\* Every PopScope gives back exactly the bytes its PushScope took, and these
\* are the aligned size of the names declared in the scope.
THEOREM ScopesBalanced == Spec => []ScopeSizesAgree
  <1>1. ScopeInv => ScopeSizesAgree
    BY DEF ScopeInv
  <1> QED
    BY <1>1, ScopeInvariant, PTL

-----------------------------------------------------------------------------
(* How the code of a program is laid out: what GenerateCode and a run      *)
(* (StackFrame) rely on, as an invariant on top of JumpInv and ScopeInv.   *)

\* Labels at which a function starts, and the one of a function but main.
StartLabel(i) == IsLabel(i) /\ i.label.kind \in {"func", "main"}
FuncStart(i)  == IsLabel(i) /\ i.label.kind = "func"

\* The scope in force after code[i].
HomeAfter(instr, homes, i) == CASE instr[i].op = "pushscope" -> i
                                [] instr[i].op = "popscope" -> homes[homes[i]]
                                [] OTHER -> homes[i]
NextHome(i) == HomeAfter(code, home, i)

\* From one instruction to the next a scope is entered at its PushScope and
\* left after its PopScope; the end of the code is in the innermost scope.
HomesFollow ==
    /\ Len(code) > 0 => home[1] = 0
    /\ \A i \in 1..Len(code) : i < Len(code) => home[i + 1] = NextHome(i)
    /\ Len(code) > 0 => Innermost = NextHome(Len(code))
    /\ \A k \in 1..Depth : home[scopePushInstr[k]] = Outside(k)

\* A scope is named by a PushScope before its code.
HomesArePushes ==
    \A i \in 1..Len(code) : home[i] # 0 => /\ home[i] \in 1..(i - 1)
                                           /\ code[home[i]].op = "pushscope"

\* Outside all scopes there is only a function's label, main's label and
\* LocaleInstr, and the PushScope after them.
FunctionLevel ==
    \A i \in 1..Len(code) :
        /\ StartLabel(code[i]) => home[i] = 0
        /\ home[i] = 0 =>
              \/ StartLabel(code[i])
              \/ /\ i > 1
                 /\ \/ code[i].op = "locale" /\ code[i - 1] = Label(MainLabel)
                    \/ code[i].op = "pushscope" /\ FuncStart(code[i - 1])
                    \/ code[i].op = "pushscope" /\ code[i - 1].op = "locale"

\* A label outside all scopes is followed by the PushScope of its function.
FunctionsOpen ==
    \A i \in 1..Len(code) :
        /\ FuncStart(code[i]) => i < Len(code) /\ code[i + 1].op = "pushscope"
        /\ code[i] = Label(MainLabel) =>
              /\ i + 1 < Len(code) /\ code[i + 1].op = "locale"
              /\ code[i + 2].op = "pushscope"
        /\ code[i].op = "locale" => home[i] = 0

\* A closed scope has the size of the names it declares.
ClosedScopesSized ==
    \A i \in 1..Len(code) :
        code[i].op = "pushscope" /\ (\A k \in 1..Depth : scopePushInstr[k] # i)
            => code[i].size = AlignedSize(Cardinality(DeclaredIn(i)))

\* No declaration of scope p in code[i + 1 .. j - 1].
QuietBetween(p, i, j) ==
    \A d \in 1..Len(code) : i < d /\ d < j /\ home[d] = p => code[d].op # "declare"

\* What lies between a jump and its label declares nothing in their scope, so
\* that they see the same slots taken.
JumpsPassNoDeclare ==
    \A i, j \in 1..Len(code) :
        IsJump(code[i]) /\ IsLabel(code[j]) /\ code[j].label = code[i].dst
            => QuietBetween(home[i], i, j) /\ QuietBetween(home[i], j, i)

\* The same for the jumps whose label is owed, and for the labels of loops.
OwedJumpsQuiet ==
    \A k \in 1..Depth : frames[k].kind \in StatementFrames =>
        /\ \A i \in 1..Len(code) :
              IsJump(code[i]) /\ code[i].dst = ControlLabel(AwaitedKind(frames[k].kind), frames[k].n)
                => QuietBetween(Outside(k), i, Len(code) + 1)
        /\ \A i \in 1..Len(code) :
              frames[k].kind = "while" /\ code[i] = Label(ControlLabel("while_begin", frames[k].n))
                => QuietBetween(Outside(k), i, Len(code) + 1)

\* The positions of the moves of a function's parameters.
ParamsAt(p) == {i \in 1..Len(code) : code[i].op = "param" /\ home[i] = p}

\* A function's parameters come right after its PushScope, a Declare and a
\* move each.
ParamsInFront ==
    /\ \A i \in 1..Len(code) : FuncStart(code[i]) =>
          \E n \in 0..MaxParams : ParamsAt(i + 1) = {i + 1 + 2 * m : m \in 1..n}
    /\ \A i \in 1..Len(code) : code[i].op = "param" =>
          /\ home[i] > 1 /\ FuncStart(code[home[i] - 1])
          /\ code[i - 1].op = "declare" /\ home[i - 1] = home[i]

\* What is called has a label, and so has main once it was begun.
FunctionsLabelled ==
    /\ \A f \in functions : \E i \in 1..Len(code) : code[i] = Label(FuncLabel(f))
    /\ stage \in {"main", "done"} => \E i \in 1..Len(code) : code[i] = Label(MainLabel)

LayoutInv ==
    /\ HomesFollow /\ HomesArePushes /\ FunctionLevel /\ FunctionsOpen
    /\ ClosedScopesSized /\ JumpsPassNoDeclare /\ OwedJumpsQuiet
    /\ ParamsInFront /\ FunctionsLabelled
-----------------------------------------------------------------------------
(* The shapes that steps have.                                             *)

\* Instructions inside a scope that neither open nor close one, nor declare.
PlainOps == {"label", "jmp", "jmpcond", "noop", "eval", "move", "read", "free", "print", "exit",
             "return"}
Plain(i) == i.op \in PlainOps /\ ~StartLabel(i)

\* Instructions of the innermost scope.
Straightens(m) ==
    /\ Straight(m)
    /\ \A d \in 1..m : Plain(code'[Len(code) + d]) \/ code'[Len(code) + d].op = "declare"

\* The end of a scope, and what follows it outside.
Closes(m) ==
    /\ Kept(m) /\ Dropped /\ Depth > 0 /\ (m > 1 => Depth > 1)
    /\ code'[Innermost] = PushScope(StackSize)
    /\ code'[Len(code) + 1] = PopScope(StackSize) /\ home'[Len(code) + 1] = Innermost
    /\ \A d \in 1..m : d # 1 => Plain(code'[Len(code) + d]) /\ home'[Len(code) + d] = Around

\* What comes before a new scope, and its PushScope.
Opens(m, fr) ==
    /\ Kept(m) /\ Opened(Len(code) + m, fr)
    /\ code'[Len(code) + m] = PushScope(0)
    /\ \A d \in 1..m : /\ home'[Len(code) + d] = Innermost
                       /\ d # m => code'[Len(code) + d].op \notin {"pushscope", "popscope", "declare", "param"}

\* From a then branch to the else branch.
Turns ==
    /\ Kept(4) /\ Depth > 1 /\ Depth' = Depth
    /\ code'[Innermost] = PushScope(StackSize)
    /\ \A j \in 1..Depth : scopePushInstr'[j] = IF j = Depth THEN Len(code) + 4
                                                ELSE scopePushInstr[j]
    /\ code'[Len(code) + 1] = PopScope(StackSize) /\ home'[Len(code) + 1] = Innermost
    /\ Plain(code'[Len(code) + 2]) /\ home'[Len(code) + 2] = Around
    /\ Plain(code'[Len(code) + 3]) /\ home'[Len(code) + 3] = Around
    /\ code'[Len(code) + 4] = PushScope(0) /\ home'[Len(code) + 4] = Around

LEMMA PlainFacts ==
    /\ \A k \in ControlKinds : \A n : Plain(Label(ControlLabel(k, n)))
    /\ \A l : Plain(Jmp(l)) /\ Plain(JmpCond(l))
    /\ \A kind \in StmtKinds \cup {"print", "return", "move"} : Plain(Simple(kind))
    /\ \A v : Declare(v).op = "declare" /\ ~IsLabel(Declare(v))
    /\ \A n : PushScope(n).op = "pushscope" /\ PopScope(n).op = "popscope"
    /\ \A f : FuncStart(Label(FuncLabel(f))) /\ StartLabel(Label(MainLabel))
    /\ \A f : Label(FuncLabel(f)) # Label(MainLabel) /\ ~FuncStart(Label(MainLabel))
  BY StmtKindsAssumption
     DEF Plain, PlainOps, Label, ControlLabel, ControlKinds, StartLabel, FuncStart, IsLabel, Jmp,
         JmpCond, Simple, Declare, PushScope, PopScope, FuncLabel, MainLabel

LEMMA StatementStraightens ==
    ASSUME TypeOK, \/ \E kind \in StmtKinds : Statement(kind)
                   \/ PrintLn
                   \/ ReturnStmt
                   \/ \E v \in Names : DeclStmt(v)
    PROVE  \E m \in 1..2 : Straightens(m)
  <1>1. ASSUME NEW v \in Names, DeclStmt(v) PROVE Straightens(2)
    <2>1. /\ Straight(2)
          /\ code'[Len(code) + 1] = Declare(v) /\ code'[Len(code) + 2] = Simple("move")
      BY <1>1, DeclStep
    <2>2. \A d \in 1..2 : d = 1 \/ d = 2
      OBVIOUS
    <2> QED
      BY <2>1, <2>2, PlainFacts DEF Straightens
  <1>2. ASSUME NEW instrs \in Seq(Instrs), Emit(instrs), InStmtList,
               \A i \in 1..Len(instrs) : instrs[i].op \in SimpleKinds /\ Plain(instrs[i]),
               UNCHANGED <<scope, scopePushInstr, frames, currentCounter, functions, stage>>
        PROVE  Straightens(Len(instrs))
    <2>1. Straight(Len(instrs))
      BY <1>2, SimpleStep
    <2>2. \A i \in 1..Len(instrs) : code'[Len(code) + i] = instrs[i]
      BY <1>2, EmitFacts
    <2> QED
      BY <1>2, <2>1, <2>2 DEF Straightens
  <1>3. ASSUME NEW kind \in SimpleKinds, Plain(Simple(kind)), InStmtList, Emit(<<Simple(kind)>>),
               UNCHANGED <<scope, scopePushInstr, frames, currentCounter, functions, stage>>
        PROVE  Straightens(1)
    <2> DEFINE one == <<Simple(kind)>>
    <2>1. /\ one \in Seq(Instrs) /\ Len(one) = 1
          /\ \A i \in 1..1 : one[i].op \in SimpleKinds /\ Plain(one[i])
      BY <1>3, InstrTypes DEF Simple
    <2>2. Emit(one)
      BY <1>3
    <2> HIDE DEF one
    <2> QED
      BY <1>2, <1>3, <2>1, <2>2
  <1>4. ASSUME NEW kind \in StmtKinds, Statement(kind) PROVE Straightens(1)
    <2>1. kind \in SimpleKinds /\ Plain(Simple(kind))
      BY StmtKindsAssumption, PlainFacts DEF SimpleKinds
    <2> QED
      BY <1>3, <1>4, <2>1 DEF Statement
  <1>5. ASSUME ReturnStmt PROVE Straightens(1)
    <2>1. "return" \in SimpleKinds /\ Plain(Simple("return"))
      BY PlainFacts DEF SimpleKinds
    <2> QED
      BY <1>3, <1>5, <2>1 DEF ReturnStmt
  <1>6. ASSUME PrintLn PROVE Straightens(2)
    <2> DEFINE two == <<Simple("print"), Simple("print")>>
    <2>1. "print" \in SimpleKinds /\ Plain(Simple("print")) /\ Simple("print") \in Instrs
          /\ Simple("print").op = "print"
      BY PlainFacts, InstrTypes DEF SimpleKinds, Simple
    <2>2. /\ two \in Seq(Instrs) /\ Len(two) = 2
          /\ \A i \in 1..2 : two[i].op \in SimpleKinds /\ Plain(two[i])
      BY <2>1
    <2>3. Emit(two)
      BY <1>6 DEF PrintLn
    <2>4. InStmtList /\ UNCHANGED <<scope, scopePushInstr, frames, currentCounter, functions, stage>>
      BY <1>6 DEF PrintLn
    <2> HIDE DEF two
    <2> QED
      BY <1>2, <2>2, <2>3, <2>4
  <1> QED
    BY <1>1, <1>4, <1>5, <1>6

LEMMA EndingCloses ==
    ASSUME JumpInv, EndFunction \/ EndMain \/ ScopeEnd \/ IfEnd \/ WhileEnd
    PROVE  \E m \in 1..3 : Closes(m)
  <1> USE DEF JumpInv
  <1>1. CASE EndFunction \/ EndMain \/ ScopeEnd
    <2>1. /\ Kept(1) /\ Dropped
          /\ code'[Innermost] = PushScope(StackSize)
          /\ code'[Len(code) + 1] = PopScope(StackSize) /\ home'[Len(code) + 1] = Innermost
      BY <1>1, ClosingStep
    <2>2. Depth > 0
      BY <1>1, TopFrame DEF EndFunction, EndMain, ScopeEnd
    <2> QED
      BY <2>1, <2>2 DEF Closes
  <1>2. CASE IfEnd
    <2>1. /\ Kept(2) /\ Dropped
          /\ code'[Innermost] = PushScope(StackSize)
          /\ code'[Len(code) + 1] = PopScope(StackSize) /\ home'[Len(code) + 1] = Innermost
          /\ code'[Len(code) + 2] = Label(ControlLabel("ifelse_end", frames[Depth].n))
          /\ home'[Len(code) + 2] = Around
      BY <1>2, IfEndStep
    <2>2. Depth > 1 /\ Depth > 0
      BY <1>2, TopStanding, TopFrame DEF IfEnd
    <2>3. Plain(code'[Len(code) + 2])
      BY <2>1, PlainFacts DEF ControlKinds
    <2>4. \A d \in 1..2 : d = 1 \/ d = 2
      OBVIOUS
    <2>5. Closes(2)
      BY <2>1, <2>2, <2>3, <2>4 DEF Closes
    <2> QED
      BY <2>5
  <1>3. CASE WhileEnd
    <2>1. /\ Kept(3) /\ Dropped
          /\ code'[Innermost] = PushScope(StackSize)
          /\ code'[Len(code) + 1] = PopScope(StackSize) /\ home'[Len(code) + 1] = Innermost
          /\ code'[Len(code) + 2] = Jmp(ControlLabel("while_begin", frames[Depth].n))
          /\ home'[Len(code) + 2] = Around
          /\ code'[Len(code) + 3] = Label(ControlLabel("while_end", frames[Depth].n))
          /\ home'[Len(code) + 3] = Around
      BY <1>3, WhileEndStep
    <2>2. Depth > 1 /\ Depth > 0
      BY <1>3, TopStanding, TopFrame DEF WhileEnd
    <2>3. Plain(code'[Len(code) + 2]) /\ Plain(code'[Len(code) + 3])
      BY <2>1, PlainFacts DEF ControlKinds
    <2>4. \A d \in 1..3 : d = 1 \/ d = 2 \/ d = 3
      OBVIOUS
    <2>5. Closes(3)
      BY <2>1, <2>2, <2>3, <2>4 DEF Closes
    <2> QED
      BY <2>5
  <1> QED
    BY <1>1, <1>2, <1>3

LEMMA IfElseTurns ==
    ASSUME JumpInv, IfElse
    PROVE  Turns
  <1> USE DEF JumpInv
  <1>1. Depth > 1
    BY TopStanding DEF IfElse
  <1>2. /\ Kept(4) /\ Depth' = Depth
        /\ code'[Innermost] = PushScope(StackSize)
        /\ \A j \in 1..Depth : scopePushInstr'[j] = IF j = Depth THEN Len(code) + 4
                                                    ELSE scopePushInstr[j]
        /\ code'[Len(code) + 1] = PopScope(StackSize) /\ home'[Len(code) + 1] = Innermost
        /\ code'[Len(code) + 2] = Jmp(ControlLabel("ifelse_end", frames[Depth].n))
        /\ home'[Len(code) + 2] = Around
        /\ code'[Len(code) + 3] = Label(ControlLabel("else_begin", frames[Depth].n))
        /\ home'[Len(code) + 3] = Around
        /\ code'[Len(code) + 4] = PushScope(0) /\ home'[Len(code) + 4] = Around
    BY IfElseStep
  <1>3. Plain(code'[Len(code) + 2]) /\ Plain(code'[Len(code) + 3])
    BY <1>2, PlainFacts DEF ControlKinds
  <1> QED
    BY <1>1, <1>2, <1>3 DEF Turns

LEMMA BeginningOpens ==
    ASSUME TypeOK, IfBegin \/ WhileBegin \/ ScopeBegin
    PROVE  /\ Depth > 0
           /\ \E m \in 1..3 : \E fr : Opens(m, fr) /\ \A d \in 1..m : d # m => Plain(code'[Len(code) + d])
  <1>1. ASSUME NEW m \in Nat, NEW fr, Kept(m), Opened(Len(code) + m, fr),
               code'[Len(code) + m] = PushScope(0),
               \A d \in 1..m : /\ home'[Len(code) + d] = Innermost
                               /\ d # m => Plain(code'[Len(code) + d])
        PROVE  Opens(m, fr)
    BY <1>1 DEF Opens, Plain, PlainOps
  <1>2. CASE IfBegin
    <2>1. /\ Kept(2) /\ Opened(Len(code) + 2, Frame("then", currentCounter)) /\ Depth > 0
          /\ code'[Len(code) + 1] = JmpCond(ControlLabel("else_begin", currentCounter))
          /\ code'[Len(code) + 2] = PushScope(0)
          /\ home'[Len(code) + 1] = Innermost /\ home'[Len(code) + 2] = Innermost
      BY <1>2, IfBeginStep
    <2>2. \A d \in 1..2 : d = 1 \/ d = 2
      OBVIOUS
    <2>3. \A d \in 1..2 : /\ home'[Len(code) + d] = Innermost
                          /\ d # 2 => Plain(code'[Len(code) + d])
      BY <2>1, <2>2, PlainFacts
    <2>4. Opens(2, Frame("then", currentCounter))
      BY <1>1, <2>1, <2>3
    <2> QED
      BY <2>1, <2>3, <2>4
  <1>3. CASE WhileBegin
    <2>1. /\ Kept(3) /\ Opened(Len(code) + 3, Frame("while", currentCounter)) /\ Depth > 0
          /\ code'[Len(code) + 1] = Label(ControlLabel("while_begin", currentCounter))
          /\ code'[Len(code) + 2] = JmpCond(ControlLabel("while_end", currentCounter))
          /\ code'[Len(code) + 3] = PushScope(0)
          /\ home'[Len(code) + 1] = Innermost /\ home'[Len(code) + 2] = Innermost
          /\ home'[Len(code) + 3] = Innermost
      BY <1>3, WhileBeginStep
    <2>2. \A d \in 1..3 : d = 1 \/ d = 2 \/ d = 3
      OBVIOUS
    <2>3. \A d \in 1..3 : /\ home'[Len(code) + d] = Innermost
                          /\ d # 3 => Plain(code'[Len(code) + d])
      BY <2>1, <2>2, PlainFacts DEF ControlKinds
    <2>4. Opens(3, Frame("while", currentCounter))
      BY <1>1, <2>1, <2>3
    <2> QED
      BY <2>1, <2>3, <2>4
  <1>4. CASE ScopeBegin
    <2>1. /\ Kept(1) /\ Opened(Len(code) + 1, Frame("scope", 0)) /\ Depth > 0
          /\ code'[Len(code) + 1] = PushScope(0) /\ home'[Len(code) + 1] = Innermost
      BY <1>4, ScopeBeginStep
    <2>2. Opens(1, Frame("scope", 0))
      BY <1>1, <2>1
    <2> QED
      BY <2>1, <2>2
  <1> QED
    BY <1>2, <1>3, <1>4

LEMMA MainOpens ==
    ASSUME JumpInv, BeginMain
    PROVE  /\ Opens(3, Frame("main", 0)) /\ Depth = 0
           /\ code'[Len(code) + 1] = Label(MainLabel) /\ code'[Len(code) + 2] = Simple("locale")
  <1> USE DEF JumpInv
  <1>1. /\ Kept(3) /\ Opened(Len(code) + 3, Frame("main", 0))
        /\ code'[Len(code) + 1] = Label(MainLabel)
        /\ code'[Len(code) + 2] = Simple("locale")
        /\ code'[Len(code) + 3] = PushScope(0)
        /\ home'[Len(code) + 1] = Innermost /\ home'[Len(code) + 2] = Innermost
        /\ home'[Len(code) + 3] = Innermost
    BY BeginMainStep
  <1>2. Depth = 0
    BY StateFacts DEF BeginMain, FramesNest
  <1>3. \A d \in 1..3 : d = 1 \/ d = 2 \/ d = 3
    OBVIOUS
  <1>4. Opens(3, Frame("main", 0))
    BY <1>1, <1>3 DEF Opens, Label, Simple
  <1> QED
    BY <1>1, <1>2, <1>4

-----------------------------------------------------------------------------
(* Scopes follow each other as the text says.                              *)

LEMMA HomesStep ==
    ASSUME TypeOK, ScopeInv, HomesFollow, NEW m \in Nat, m > 0, Kept(m),
           home'[Len(code) + 1] = Innermost,
           \A d \in 1..m : d # m => home'[Len(code) + d + 1] = HomeAfter(code', home', Len(code) + d),
           Innermost' = HomeAfter(code', home', Len(code) + m),
           \A k \in 1..Depth' : home'[scopePushInstr'[k]] = Outside(k)'
    PROVE  HomesFollow'
  <1>1. /\ Len(code) \in Nat /\ Len(code') = Len(code) + m
        /\ \A i \in 1..Len(code) : home'[i] = home[i] /\ code'[i].op = code[i].op
        /\ \A i \in 1..Len(code') : i \in 1..Len(code) \/ \E d \in 1..m : i = Len(code) + d
    BY KeptInstr DEF Kept
  <1>2. ASSUME NEW i \in 1..Len(code) PROVE HomeAfter(code', home', i) = NextHome(i)
    <2>1. code[i].op = "popscope" => home[i] \in 1..Len(code)
      <3>1. code[i].op = "popscope" => home[i] \in 1..(i - 1)
        BY DEF ScopeInv, ScopeSizesAgree
      <3> QED
        BY <1>1, <3>1
    <2> QED
      BY <1>1, <2>1 DEF NextHome, HomeAfter
  <1>3. home'[1] = 0
    <2>1. CASE Len(code) = 0
      <3>1. Innermost = 0
        BY <2>1, StateFacts DEF Innermost
      <3> QED
        BY <2>1, <3>1
    <2>2. CASE Len(code) > 0
      <3>1. 1 \in 1..Len(code) /\ home[1] = 0
        BY <1>1, <2>2 DEF HomesFollow
      <3> QED
        BY <1>1, <3>1
    <2> QED
      BY <1>1, <2>1, <2>2
  <1>4. ASSUME NEW i \in 1..Len(code'), i < Len(code') PROVE home'[i + 1] = HomeAfter(code', home', i)
    <2>1. CASE i \in 1..Len(code) /\ i < Len(code)
      <3>1. i + 1 \in 1..Len(code) /\ home[i + 1] = NextHome(i)
        BY <1>1, <2>1 DEF HomesFollow
      <3> QED
        BY <1>1, <1>2, <2>1, <3>1
    <2>2. CASE i \in 1..Len(code) /\ i = Len(code)
      BY <1>1, <1>2, <2>2 DEF HomesFollow
    <2>3. CASE \E d \in 1..m : i = Len(code) + d
      <3>1. PICK d \in 1..m : i = Len(code) + d
        BY <2>3
      <3>2. d # m /\ i + 1 = Len(code) + d + 1
        BY <1>1, <1>4, <3>1
      <3> QED
        BY <3>1, <3>2
    <2>4. i \in 1..Len(code) => i < Len(code) \/ i = Len(code)
      BY <1>1
    <2> QED
      BY <1>1, <2>1, <2>2, <2>3, <2>4
  <1>5. Len(code') = Len(code) + m
    BY <1>1
  <1> QED
    BY <1>1, <1>3, <1>4, <1>5 DEF HomesFollow, NextHome

LEMMA HomesArePushesStep ==
    ASSUME TypeOK, HomesArePushes, NEW m \in Nat, Kept(m),
           \A d \in 1..m : home'[Len(code) + d] # 0 =>
              /\ home'[Len(code) + d] \in 1..(Len(code) + d - 1)
              /\ code'[home'[Len(code) + d]].op = "pushscope"
    PROVE  HomesArePushes'
  <1>1. /\ Len(code) \in Nat /\ Len(code') = Len(code) + m
        /\ \A i \in 1..Len(code) : home'[i] = home[i] /\ code'[i].op = code[i].op
        /\ \A i \in 1..Len(code') : i \in 1..Len(code) \/ \E d \in 1..m : i = Len(code) + d
    BY KeptInstr DEF Kept
  <1> SUFFICES ASSUME NEW i \in 1..Len(code'), home'[i] # 0
               PROVE  home'[i] \in 1..(i - 1) /\ code'[home'[i]].op = "pushscope"
    BY DEF HomesArePushes
  <1>2. CASE i \in 1..Len(code)
    <2>1. home[i] \in 1..(i - 1) /\ code[home[i]].op = "pushscope" /\ home[i] \in 1..Len(code)
      BY <1>1, <1>2 DEF HomesArePushes
    <2> QED
      BY <1>1, <1>2, <2>1
  <1>3. CASE \E d \in 1..m : i = Len(code) + d
    BY SMTT(40), <1>3
  <1> QED
    BY <1>1, <1>2, <1>3

\* The innermost scope and the one around it, in the code after a step.
LEMMA OpenScopesAre ==
    ASSUME TypeOK, NEW m \in Nat, Kept(m), NEW d \in 1..m
    PROVE  /\ Innermost # 0 => /\ Innermost \in 1..(Len(code) + d - 1)
                               /\ code'[Innermost].op = "pushscope"
           /\ Around # 0 => /\ Around \in 1..(Len(code) + d - 1)
                            /\ code'[Around].op = "pushscope"
           /\ Depth > 0 => Innermost # 0
           /\ Depth > 1 => Around # 0
  <1>1. /\ \A k \in 1..Depth : /\ scopePushInstr[k] \in 1..Len(code)
                               /\ code'[scopePushInstr[k]].op = "pushscope"
        /\ Len(code) \in Nat /\ Depth \in Nat
    <2>1. \A k \in 1..Depth : /\ scopePushInstr[k] \in 1..Len(code)
                              /\ code[scopePushInstr[k]].op = "pushscope"
      BY DEF TypeOK
    <2>2. \A i \in 1..Len(code) : code'[i].op = code[i].op
      BY DEF Kept
    <2> QED
      BY <2>1, <2>2, StateFacts
  <1>2. Depth > 0 => Innermost = scopePushInstr[Depth] /\ Depth \in 1..Depth
    BY <1>1 DEF Innermost
  <1>3. Depth > 1 => Around = scopePushInstr[Depth - 1] /\ Depth - 1 \in 1..Depth
    BY <1>1 DEF Around
  <1>4. (Depth = 0 => Innermost = 0) /\ (Depth <= 1 => Around = 0)
    BY <1>1 DEF Innermost, Around
  <1>5. \A p \in 1..Len(code) : p \in 1..(Len(code) + d - 1) /\ p # 0
    BY <1>1
  <1> QED
    BY SMTT(40), <1>1, <1>2, <1>3, <1>4, <1>5

LEMMA InsideArePushes ==
    ASSUME TypeOK, HomesArePushes, NEW m \in Nat, Kept(m),
           \A d \in 1..m : home'[Len(code) + d] \in {Innermost, Around}
    PROVE  HomesArePushes'
  BY OpenScopesAre, HomesArePushesStep

HomesInv == HomesFollow /\ HomesArePushes

LEMMA StraightHomes ==
    ASSUME TypeOK, ScopeInv, HomesInv, NEW m \in 1..2, Straightens(m)
    PROVE  HomesInv'
  <1> USE DEF HomesInv
  <1>1. /\ Kept(m) /\ scopePushInstr' = scopePushInstr
        /\ \A d \in 1..m : /\ home'[Len(code) + d] = Innermost
                           /\ code'[Len(code) + d].op \notin {"pushscope", "popscope"}
    BY DEF Straightens, Straight, Plain, PlainOps
  <1>2. Depth' = Depth /\ Innermost' = Innermost /\ \A k : Outside(k)' = Outside(k)
    BY <1>1 DEF Depth, Innermost, Outside
  <1>3. \A d \in 1..m : HomeAfter(code', home', Len(code) + d) = Innermost
    BY <1>1 DEF HomeAfter
  <1>4. \A d \in 1..m : d # m => home'[Len(code) + d + 1] = Innermost
    <2>1. \A d \in 1..m : d # m => d + 1 \in 1..m /\ Len(code) + (d + 1) = Len(code) + d + 1
      BY StateFacts
    <2> QED
      BY <1>1, <2>1
  <1>5. \A k \in 1..Depth' : home'[scopePushInstr'[k]] = Outside(k)'
    <2>1. ASSUME NEW k \in 1..Depth
          PROVE  home'[scopePushInstr[k]] = Outside(k)
      <3>1. scopePushInstr[k] \in 1..Len(code)
        BY DEF TypeOK
      <3> QED
        BY <1>1, <3>1 DEF HomesFollow, Kept
    <2> QED
      BY <1>1, <1>2, <2>1
  <1>6. HomesFollow'
    <2>1. m \in Nat /\ m > 0 /\ 1 \in 1..m /\ m \in 1..m
      OBVIOUS
    <2> QED
      BY <1>1, <1>2, <1>3, <1>4, <1>5, <2>1, HomesStep
  <1> QED
    BY <1>1, <1>6, InsideArePushes

\* After the PopScope of a scope the surrounding one is in force.
LEMMA AfterPop ==
    ASSUME TypeOK, HomesFollow, Depth > 0, NEW m \in Nat, Kept(m),
           code'[Len(code) + 1].op = "popscope", home'[Len(code) + 1] = Innermost
    PROVE  HomeAfter(code', home', Len(code) + 1) = Around
  <1>1. /\ Innermost = scopePushInstr[Depth] /\ Innermost \in 1..Len(code) /\ Depth \in 1..Depth
    BY StateFacts
  <1>2. home'[Innermost] = Around
    <2>1. home[Innermost] = Outside(Depth)
      BY <1>1 DEF HomesFollow
    <2>2. Outside(Depth) = Around
      BY OutsideFacts
    <2> QED
      BY <1>1, <2>1, <2>2 DEF Kept
  <1> QED
    BY <1>2 DEF HomeAfter

LEMMA ClosingHomes ==
    ASSUME TypeOK, ScopeInv, HomesInv, NEW m \in 1..3, Closes(m)
    PROVE  HomesInv'
  <1> USE DEF HomesInv
  <1>1. /\ Kept(m) /\ Dropped /\ Depth > 0
        /\ code'[Len(code) + 1] = PopScope(StackSize) /\ home'[Len(code) + 1] = Innermost
        /\ \A d \in 1..m : d # 1 => /\ home'[Len(code) + d] = Around
                                    /\ code'[Len(code) + d].op \notin {"pushscope", "popscope"}
    BY DEF Closes, Plain, PlainOps
  <1>2. /\ Depth \in Nat /\ Depth' = Depth - 1
        /\ \A k \in 1..Depth' : scopePushInstr'[k] = scopePushInstr[k] /\ k \in 1..Depth
        /\ \A k \in 1..Depth' : Outside(k)' = Outside(k)
    BY <1>1, StateFacts, OutsideFacts DEF Dropped
  <1>3. Innermost' = Around
    <2>1. CASE Depth = 1
      BY <1>2, <2>1 DEF Innermost, Around
    <2>2. CASE Depth > 1
      BY <1>2, <2>2 DEF Innermost, Around
    <2> QED
      BY <1>1, <1>2, <2>1, <2>2
  <1>4. \A d \in 1..m : HomeAfter(code', home', Len(code) + d) = Around
    <2>1. HomeAfter(code', home', Len(code) + 1) = Around
      BY <1>1, AfterPop DEF PopScope
    <2>2. \A d \in 1..m : d # 1 => HomeAfter(code', home', Len(code) + d) = Around
      BY <1>1 DEF HomeAfter
    <2> QED
      BY <2>1, <2>2
  <1>5. \A d \in 1..m : d # m => home'[Len(code) + d + 1] = Around
    <2>1. \A d \in 1..m : d # m => d + 1 \in 1..m /\ d + 1 # 1 /\ Len(code) + (d + 1) = Len(code) + d + 1
      BY StateFacts
    <2> QED
      BY SMTT(40), <1>1, <2>1
  <1>6. \A k \in 1..Depth' : home'[scopePushInstr'[k]] = Outside(k)'
    <2>1. ASSUME NEW k \in 1..Depth PROVE home'[scopePushInstr[k]] = Outside(k)
      <3>1. scopePushInstr[k] \in 1..Len(code)
        BY DEF TypeOK
      <3> QED
        BY <1>1, <3>1 DEF HomesFollow, Kept
    <2> QED
      BY <1>2, <2>1
  <1>7. m \in Nat /\ m > 0 /\ 1 \in 1..m /\ m \in 1..m
    OBVIOUS
  <1>8. HomesFollow'
    BY <1>1, <1>3, <1>4, <1>5, <1>6, <1>7, HomesStep
  <1>9. \A d \in 1..m : home'[Len(code) + d] \in {Innermost, Around}
    BY <1>1
  <1> QED
    BY <1>1, <1>7, <1>8, <1>9, InsideArePushes

LEMMA OpeningHomes ==
    ASSUME TypeOK, ScopeInv, HomesInv, NEW m \in 1..3, NEW fr, Opens(m, fr)
    PROVE  HomesInv'
  <1> USE DEF HomesInv
  <1>1. /\ Kept(m) /\ Opened(Len(code) + m, fr)
        /\ code'[Len(code) + m].op = "pushscope"
        /\ \A d \in 1..m : /\ home'[Len(code) + d] = Innermost
                           /\ d # m => code'[Len(code) + d].op \notin {"pushscope", "popscope"}
    BY DEF Opens, PushScope
  <1>2. /\ Depth \in Nat /\ Depth' = Depth + 1
        /\ \A k \in 1..Depth' : k \in 1..Depth \/ k = Depth'
        /\ \A k \in 1..Depth : scopePushInstr'[k] = scopePushInstr[k] /\ Outside(k)' = Outside(k)
        /\ scopePushInstr'[Depth'] = Len(code) + m
        /\ Outside(Depth)' = Innermost
    BY <1>1, OpenedFacts, OutsideFacts DEF Opened
  <1>3. Innermost' = Len(code) + m
    BY <1>2 DEF Innermost
  <1>4. /\ \A d \in 1..m : d # m => HomeAfter(code', home', Len(code) + d) = Innermost
        /\ HomeAfter(code', home', Len(code) + m) = Len(code) + m
    BY <1>1 DEF HomeAfter
  <1>5. \A d \in 1..m : d # m => home'[Len(code) + d + 1] = Innermost
    <2>1. \A d \in 1..m : d # m => d + 1 \in 1..m /\ Len(code) + (d + 1) = Len(code) + d + 1
      BY StateFacts
    <2> QED
      BY <1>1, <2>1
  <1>6. \A k \in 1..Depth' : home'[scopePushInstr'[k]] = Outside(k)'
    <2>1. ASSUME NEW k \in 1..Depth PROVE home'[scopePushInstr'[k]] = Outside(k)'
      <3>1. scopePushInstr[k] \in 1..Len(code)
        BY DEF TypeOK
      <3> QED
        BY SMTT(40), <1>1, <1>2, <3>1 DEF HomesFollow, Kept
    <2>2. home'[scopePushInstr'[Depth']] = Outside(Depth)'
      BY <1>1, <1>2
    <2> QED
      BY <1>2, <2>1, <2>2
  <1>7. m \in Nat /\ m > 0 /\ 1 \in 1..m /\ m \in 1..m
    OBVIOUS
  <1>8. HomesFollow'
    BY <1>1, <1>3, <1>4, <1>5, <1>6, <1>7, HomesStep
  <1> QED
    BY <1>1, <1>7, <1>8, InsideArePushes

LEMMA TurningHomes ==
    ASSUME TypeOK, ScopeInv, HomesInv, Turns
    PROVE  HomesInv'
  <1> USE DEF HomesInv
  <1>1. /\ Kept(4) /\ Depth > 1 /\ Depth' = Depth /\ Depth \in Nat
        /\ \A j \in 1..Depth : scopePushInstr'[j] = IF j = Depth THEN Len(code) + 4
                                                    ELSE scopePushInstr[j]
        /\ code'[Len(code) + 1].op = "popscope" /\ home'[Len(code) + 1] = Innermost
        /\ code'[Len(code) + 2].op \notin {"pushscope", "popscope"} /\ home'[Len(code) + 2] = Around
        /\ code'[Len(code) + 3].op \notin {"pushscope", "popscope"} /\ home'[Len(code) + 3] = Around
        /\ code'[Len(code) + 4].op = "pushscope" /\ home'[Len(code) + 4] = Around
    BY SMTT(40), StateFacts DEF Turns, Plain, PlainOps, PushScope, PopScope
  <1>2. Innermost' = Len(code) + 4
    BY <1>1 DEF Innermost
  <1>3. \A k \in 1..Depth : Outside(k)' = Outside(k)
    BY <1>1 DEF Outside
  <1>4. Outside(Depth) = Around
    BY <1>1, OutsideFacts
  <1>5. /\ HomeAfter(code', home', Len(code) + 1) = Around
        /\ HomeAfter(code', home', Len(code) + 2) = Around
        /\ HomeAfter(code', home', Len(code) + 3) = Around
        /\ HomeAfter(code', home', Len(code) + 4) = Len(code) + 4
    <2>1. HomeAfter(code', home', Len(code) + 1) = Around
      BY <1>1, AfterPop
    <2> QED
      BY <1>1, <2>1 DEF HomeAfter
  <1>6. \A d \in 1..4 : d = 1 \/ d = 2 \/ d = 3 \/ d = 4
    OBVIOUS
  <1>7. \A d \in 1..4 : d # 4 => home'[Len(code) + d + 1] = HomeAfter(code', home', Len(code) + d)
    <2>1. Len(code) + 1 + 1 = Len(code) + 2 /\ Len(code) + 2 + 1 = Len(code) + 3
          /\ Len(code) + 3 + 1 = Len(code) + 4
      BY StateFacts
    <2> QED
      BY <1>1, <1>5, <1>6, <2>1
  <1>8. \A k \in 1..Depth' : home'[scopePushInstr'[k]] = Outside(k)'
    <2> SUFFICES ASSUME NEW k \in 1..Depth PROVE home'[scopePushInstr'[k]] = Outside(k)
      BY <1>1, <1>3
    <2>1. scopePushInstr[k] \in 1..Len(code)
      BY DEF TypeOK
    <2>2. home'[scopePushInstr[k]] = Outside(k)
      BY <1>1, <2>1 DEF HomesFollow, Kept
    <2> QED
      BY <1>1, <1>4, <2>2
  <1>9. HomesFollow'
    BY <1>1, <1>2, <1>5, <1>7, <1>8, HomesStep
  <1>10. \A d \in 1..4 : home'[Len(code) + d] \in {Innermost, Around}
    BY <1>1, <1>6
  <1> QED
    BY <1>1, <1>9, <1>10, InsideArePushes

\* A function's label, its PushScope and its n parameters.
FunctionOpens(n) ==
    /\ n \in 0..MaxParams /\ Kept(2 + 2 * n) /\ Depth = 0
    /\ Depth' = 1 /\ scopePushInstr'[1] = Len(code) + 2 /\ frames'[1] = Frame("func", 0)
    /\ FuncStart(code'[Len(code) + 1]) /\ home'[Len(code) + 1] = 0
    /\ code'[Len(code) + 2] = PushScope(0) /\ home'[Len(code) + 2] = 0
    /\ \A i \in 1..(2 * n) :
          /\ code'[Len(code) + 2 + i].op = IF i % 2 = 1 THEN "declare" ELSE "param"
          /\ home'[Len(code) + 2 + i] = Len(code) + 2

LEMMA BeginFunctionOpens ==
    ASSUME JumpInv, NEW f \in Funcs, NEW ps \in ParamLists, BeginFunction(f, ps)
    PROVE  /\ FunctionOpens(Len(ps))
           /\ code'[Len(code) + 1] = Label(FuncLabel(f)) /\ functions' = functions \cup {f}
           /\ stage = "between" /\ stage' = "func"
  <1> USE DEF JumpInv
  <1>1. Len(ps) \in 0..MaxParams /\ ps \in Seq(Names)
    <2>1. PICK k \in 0..MaxParams : ps \in [1..k -> Names]
      BY DEF ParamLists
    <2>2. k \in Nat
      BY BoundsAssumption
    <2> QED
      BY <2>1, <2>2, ParamListsAreSeqs
  <1>2. /\ Kept(2 + 2 * Len(ps)) /\ Depth' = 1
        /\ scopePushInstr'[1] = Len(code) + 2 /\ frames'[1] = Frame("func", 0)
        /\ code'[Len(code) + 1] = Label(FuncLabel(f))
        /\ code'[Len(code) + 2] = PushScope(0)
        /\ home'[Len(code) + 1] = 0 /\ home'[Len(code) + 2] = 0
        /\ \A i \in 1..(2 * Len(ps)) :
             /\ code'[Len(code) + 2 + i] = IF i % 2 = 1 THEN Declare(ps[(i + 1) \div 2])
                                           ELSE Simple("param")
             /\ home'[Len(code) + 2 + i] = Len(code) + 2
    BY <1>1, BeginFunctionStep
  <1>3. /\ Depth = 0 /\ stage = "between" /\ stage' = "func" /\ functions' = functions \cup {f}
    BY StateFacts DEF BeginFunction, FramesNest
  <1>4. \A i \in 1..(2 * Len(ps)) :
           code'[Len(code) + 2 + i].op = IF i % 2 = 1 THEN "declare" ELSE "param"
    <2> SUFFICES ASSUME NEW i \in 1..(2 * Len(ps))
                 PROVE  code'[Len(code) + 2 + i].op = IF i % 2 = 1 THEN "declare" ELSE "param"
      OBVIOUS
    <2>1. CASE i % 2 = 1
      <3>1. code'[Len(code) + 2 + i] = Declare(ps[(i + 1) \div 2])
        BY <1>2, <2>1
      <3> QED
        BY <2>1, <3>1, PlainFacts
    <2>2. CASE i % 2 # 1
      <3>1. code'[Len(code) + 2 + i] = Simple("param")
        BY <1>2, <2>2
      <3> QED
        BY <2>2, <3>1 DEF Simple
    <2> QED
      BY <2>1, <2>2
  <1> QED
    BY <1>1, <1>2, <1>3, <1>4, PlainFacts DEF FunctionOpens

LEMMA FunctionHomes ==
    ASSUME TypeOK, ScopeInv, HomesInv, NEW n, FunctionOpens(n)
    PROVE  HomesInv'
  <1> USE DEF HomesInv
  <1> DEFINE m == 2 + 2 * n
  <1>1. /\ n \in Nat /\ Kept(m) /\ Depth = 0 /\ Depth' = 1 /\ scopePushInstr'[1] = Len(code) + 2
        /\ code'[Len(code) + 1].op = "label" /\ home'[Len(code) + 1] = 0
        /\ code'[Len(code) + 2].op = "pushscope" /\ home'[Len(code) + 2] = 0
        /\ \A i \in 1..(2 * n) : /\ code'[Len(code) + 2 + i].op \notin {"pushscope", "popscope"}
                                 /\ home'[Len(code) + 2 + i] = Len(code) + 2
    <2>1. /\ n \in Nat /\ Kept(m) /\ Depth = 0 /\ Depth' = 1 /\ scopePushInstr'[1] = Len(code) + 2
          /\ home'[Len(code) + 1] = 0 /\ home'[Len(code) + 2] = 0
      BY DEF FunctionOpens
    <2>2. code'[Len(code) + 1].op = "label"
      BY DEF FunctionOpens, FuncStart, IsLabel
    <2>3. code'[Len(code) + 2].op = "pushscope"
      BY DEF FunctionOpens, PushScope
    <2>4. ASSUME NEW i \in 1..(2 * n)
          PROVE  /\ code'[Len(code) + 2 + i].op \notin {"pushscope", "popscope"}
                 /\ home'[Len(code) + 2 + i] = Len(code) + 2
      <3>1. code'[Len(code) + 2 + i].op = IF i % 2 = 1 THEN "declare" ELSE "param"
        BY <2>4 DEF FunctionOpens
      <3>2. home'[Len(code) + 2 + i] = Len(code) + 2
        BY <2>4 DEF FunctionOpens
      <3> QED
        BY <3>1, <3>2
    <2> QED
      BY <2>1, <2>2, <2>3, <2>4
  <1>2. Len(code) \in Nat /\ Innermost = 0 /\ Innermost' = Len(code) + 2
    BY <1>1, StateFacts DEF Innermost
  <1>3. \A d \in 1..m : d = 1 \/ d = 2 \/ \E i \in 1..(2 * n) : d = 2 + i
    <2> SUFFICES ASSUME NEW d \in 1..m, d # 1, d # 2 PROVE \E i \in 1..(2 * n) : d = 2 + i
      OBVIOUS
    <2>1. d - 2 \in 1..(2 * n) /\ d = 2 + (d - 2)
      BY <1>1
    <2> QED
      BY <2>1
  <1>4. \A d \in 1..m : d # 1 => HomeAfter(code', home', Len(code) + d) = Len(code) + 2
    <2> SUFFICES ASSUME NEW d \in 1..m, d # 1
                 PROVE  HomeAfter(code', home', Len(code) + d) = Len(code) + 2
      OBVIOUS
    <2>1. CASE d = 2
      BY <1>1, <2>1 DEF HomeAfter
    <2>2. CASE \E i \in 1..(2 * n) : d = 2 + i
      <3>1. PICK i \in 1..(2 * n) : d = 2 + i
        BY <2>2
      <3>2. Len(code) + d = Len(code) + 2 + i
        BY <1>2, <3>1
      <3> QED
        BY <1>1, <3>2 DEF HomeAfter
    <2> QED
      BY <1>3, <2>1, <2>2
  <1>5. HomeAfter(code', home', Len(code) + 1) = 0
    BY <1>1 DEF HomeAfter
  <1>6. \A d \in 1..m : d # m => home'[Len(code) + d + 1] = HomeAfter(code', home', Len(code) + d)
    <2> SUFFICES ASSUME NEW d \in 1..m, d # m
                 PROVE  home'[Len(code) + d + 1] = HomeAfter(code', home', Len(code) + d)
      OBVIOUS
    <2>1. CASE d = 1
      <3>1. Len(code) + d + 1 = Len(code) + 2
        BY <1>2, <2>1
      <3> QED
        BY <1>1, <1>5, <2>1, <3>1
    <2>2. CASE d # 1
      <3>1. d - 1 \in 1..(2 * n) /\ Len(code) + d + 1 = Len(code) + 2 + (d - 1)
        BY <1>1, <1>2, <2>2
      <3> QED
        BY <1>1, <1>4, <2>2, <3>1
    <2> QED
      BY <2>1, <2>2
  <1>7. m \in Nat /\ m > 0 /\ m \in 1..m /\ m # 1
    BY <1>1
  <1>8. \A k \in 1..Depth' : home'[scopePushInstr'[k]] = Outside(k)'
    BY <1>1 DEF Outside
  <1>9. HomesFollow'
    <2> HIDE DEF m
    <2> QED
      BY <1>1, <1>2, <1>4, <1>6, <1>7, <1>8, HomesStep
  <1>10. HomesArePushes'
    <2>1. \A d \in 1..m : home'[Len(code) + d] # 0 =>
              /\ home'[Len(code) + d] \in 1..(Len(code) + d - 1)
              /\ code'[home'[Len(code) + d]].op = "pushscope"
      <3> SUFFICES ASSUME NEW d \in 1..m, home'[Len(code) + d] # 0
                   PROVE  /\ home'[Len(code) + d] \in 1..(Len(code) + d - 1)
                          /\ code'[home'[Len(code) + d]].op = "pushscope"
        OBVIOUS
      <3>1. PICK i \in 1..(2 * n) : d = 2 + i
        BY <1>1, <1>3
      <3>2. Len(code) + d = Len(code) + 2 + i /\ Len(code) + 2 \in 1..(Len(code) + d - 1)
        BY <1>1, <1>2, <3>1
      <3> QED
        BY <1>1, <3>2
    <2> HIDE DEF m
    <2> QED
      BY <1>1, <1>7, <2>1, HomesArePushesStep
  <1> QED
    BY <1>9, <1>10

-----------------------------------------------------------------------------
(* Functions are laid out as GenerateCode and a run expect.                *)

LevelInv == FunctionLevel /\ FunctionsOpen

LEMMA KeptStarts ==
    ASSUME TypeOK, NEW m \in Nat, Kept(m)
    PROVE  /\ Len(code) \in Nat /\ Len(code') = Len(code) + m
           /\ \A i \in 1..Len(code) : /\ home'[i] = home[i] /\ code'[i].op = code[i].op
                                      /\ StartLabel(code'[i]) <=> StartLabel(code[i])
                                      /\ FuncStart(code'[i]) <=> FuncStart(code[i])
                                      /\ code'[i] = Label(MainLabel) <=> code[i] = Label(MainLabel)
           /\ \A i \in 1..Len(code') : i \in 1..Len(code) \/ \E d \in 1..m : i = Len(code) + d
  <1>1. \A i \in 1..Len(code) : IsLabel(code[i]) => code'[i] = code[i]
    BY DEF Kept, IsLabel
  <1>2. \A i \in 1..Len(code) : IsLabel(code'[i]) <=> IsLabel(code[i])
    BY DEF Kept, IsLabel
  <1>3. IsLabel(Label(MainLabel))
    BY LabelFacts
  <1> QED
    BY <1>1, <1>2, <1>3, KeptInstr DEF Kept, StartLabel, FuncStart

\* What LevelInv says of the instructions there were stays true.
LEMMA OldLevels ==
    ASSUME TypeOK, LevelInv, NEW m \in Nat, Kept(m), NEW i \in 1..Len(code)
    PROVE  /\ StartLabel(code'[i]) => home'[i] = 0
           /\ home'[i] = 0 =>
                 \/ StartLabel(code'[i])
                 \/ /\ i > 1
                    /\ \/ code'[i].op = "locale" /\ code'[i - 1] = Label(MainLabel)
                       \/ code'[i].op = "pushscope" /\ FuncStart(code'[i - 1])
                       \/ code'[i].op = "pushscope" /\ code'[i - 1].op = "locale"
           /\ FuncStart(code'[i]) => i < Len(code') /\ code'[i + 1].op = "pushscope"
           /\ code'[i] = Label(MainLabel) => /\ i + 1 < Len(code') /\ code'[i + 1].op = "locale"
                                             /\ code'[i + 2].op = "pushscope"
           /\ code'[i].op = "locale" => home'[i] = 0
  <1>1. /\ Len(code) \in Nat /\ Len(code') = Len(code) + m
        /\ \A j \in 1..Len(code) : /\ home'[j] = home[j] /\ code'[j].op = code[j].op
                                   /\ StartLabel(code'[j]) <=> StartLabel(code[j])
                                   /\ FuncStart(code'[j]) <=> FuncStart(code[j])
                                   /\ code'[j] = Label(MainLabel) <=> code[j] = Label(MainLabel)
    BY KeptStarts
  <1>2. i > 1 => i - 1 \in 1..Len(code)
    BY <1>1
  <1>3. /\ StartLabel(code'[i]) => home'[i] = 0
        /\ home'[i] = 0 =>
              \/ StartLabel(code'[i])
              \/ /\ i > 1
                 /\ \/ code'[i].op = "locale" /\ code'[i - 1] = Label(MainLabel)
                    \/ code'[i].op = "pushscope" /\ FuncStart(code'[i - 1])
                    \/ code'[i].op = "pushscope" /\ code'[i - 1].op = "locale"
    BY <1>1, <1>2 DEF LevelInv, FunctionLevel
  <1>4. FuncStart(code'[i]) => i < Len(code') /\ code'[i + 1].op = "pushscope"
    <2> SUFFICES ASSUME FuncStart(code'[i]) PROVE i < Len(code') /\ code'[i + 1].op = "pushscope"
      OBVIOUS
    <2>1. i < Len(code) /\ code[i + 1].op = "pushscope"
      BY <1>1 DEF LevelInv, FunctionsOpen
    <2>2. i + 1 \in 1..Len(code)
      BY <1>1, <2>1
    <2> QED
      BY <1>1, <2>1, <2>2
  <1>5. code'[i] = Label(MainLabel) => /\ i + 1 < Len(code') /\ code'[i + 1].op = "locale"
                                       /\ code'[i + 2].op = "pushscope"
    <2> SUFFICES ASSUME code'[i] = Label(MainLabel)
                 PROVE  /\ i + 1 < Len(code') /\ code'[i + 1].op = "locale"
                        /\ code'[i + 2].op = "pushscope"
      OBVIOUS
    <2>1. /\ i + 1 < Len(code) /\ code[i + 1].op = "locale"
          /\ code[i + 2].op = "pushscope"
      BY <1>1 DEF LevelInv, FunctionsOpen
    <2>2. i + 1 \in 1..Len(code) /\ i + 2 \in 1..Len(code)
      BY <1>1, <2>1
    <2> QED
      BY <1>1, <2>1, <2>2
  <1>6. code'[i].op = "locale" => home'[i] = 0
    BY <1>1 DEF LevelInv, FunctionsOpen
  <1> QED
    BY <1>3, <1>4, <1>5, <1>6

\* Statements stay inside the scopes of their function.
LEMMA InsideLevels ==
    ASSUME TypeOK, LevelInv, NEW m \in Nat, Kept(m),
           \A d \in 1..m : /\ ~StartLabel(code'[Len(code) + d])
                           /\ code'[Len(code) + d].op # "locale"
                           /\ home'[Len(code) + d] # 0
    PROVE  LevelInv'
  <1>1. \A i \in 1..Len(code') : i \in 1..Len(code) \/ \E d \in 1..m : i = Len(code) + d
    BY KeptStarts
  <1>2. \A i : FuncStart(i) => StartLabel(i)
    BY DEF FuncStart, StartLabel
  <1>3. StartLabel(Label(MainLabel))
    BY PlainFacts
  <1>4. \A i \in 1..Len(code') : i \in 1..Len(code) \/
          (~StartLabel(code'[i]) /\ code'[i].op # "locale" /\ home'[i] # 0)
    BY <1>1
  <1>5. FunctionLevel'
    BY <1>4, OldLevels DEF FunctionLevel
  <1>6. FunctionsOpen'
    BY <1>2, <1>3, <1>4, OldLevels DEF FunctionsOpen
  <1> QED
    BY <1>5, <1>6 DEF LevelInv

LEMMA MainLevels ==
    ASSUME TypeOK, LevelInv, Opens(3, Frame("main", 0)), Depth = 0,
           code'[Len(code) + 1] = Label(MainLabel), code'[Len(code) + 2] = Simple("locale")
    PROVE  LevelInv'
  <1>1. /\ Kept(3) /\ code'[Len(code) + 3].op = "pushscope"
        /\ home'[Len(code) + 1] = 0 /\ home'[Len(code) + 2] = 0 /\ home'[Len(code) + 3] = 0
    BY DEF Opens, PushScope, Innermost
  <1>2. /\ Len(code) \in Nat /\ Len(code') = Len(code) + 3
        /\ \A i \in 1..Len(code') : \/ i \in 1..Len(code) \/ i = Len(code) + 1
                                    \/ i = Len(code) + 2 \/ i = Len(code) + 3
    <2>1. /\ Len(code) \in Nat /\ Len(code') = Len(code) + 3
          /\ \A i \in 1..Len(code') : i \in 1..Len(code) \/ \E d \in 1..3 : i = Len(code) + d
      BY ZenonT(60), <1>1, KeptStarts
    <2>2. \A d \in 1..3 : d = 1 \/ d = 2 \/ d = 3
      OBVIOUS
    <2> QED
      BY <2>1, <2>2
  <1>3. /\ code'[Len(code) + 1].op = "label" /\ StartLabel(code'[Len(code) + 1])
        /\ ~FuncStart(code'[Len(code) + 1])
        /\ code'[Len(code) + 2].op = "locale"
    <2>1. StartLabel(Label(MainLabel)) /\ ~FuncStart(Label(MainLabel))
      BY PlainFacts
    <2>2. Label(MainLabel).op = "label" /\ Simple("locale").op = "locale"
      BY DEF Label, Simple
    <2> QED
      BY <2>1, <2>2
  <1>4. \A i : FuncStart(i) \/ StartLabel(i) \/ i = Label(MainLabel) => i.op = "label"
    BY DEF FuncStart, StartLabel, Label, IsLabel
  <1>5. Len(code) + 2 - 1 = Len(code) + 1 /\ Len(code) + 3 - 1 = Len(code) + 2
        /\ Len(code) + 1 + 1 = Len(code) + 2 /\ Len(code) + 1 + 2 = Len(code) + 3
        /\ Len(code) + 2 > 1 /\ Len(code) + 3 > 1 /\ Len(code) + 1 + 1 < Len(code')
    BY <1>2
  <1>6. FunctionLevel'
    BY <1>1, <1>2, <1>3, <1>4, <1>5, OldLevels DEF FunctionLevel
  <1>7. FunctionsOpen'
    BY SMTT(40), <1>1, <1>2, <1>3, <1>4, <1>5, OldLevels DEF FunctionsOpen
  <1> QED
    BY <1>6, <1>7 DEF LevelInv

LEMMA FunctionLevels ==
    ASSUME TypeOK, LevelInv, NEW n, FunctionOpens(n)
    PROVE  LevelInv'
  <1> DEFINE m == 2 + 2 * n
  <1>1. /\ n \in Nat /\ m \in Nat /\ Kept(m)
        /\ FuncStart(code'[Len(code) + 1]) /\ home'[Len(code) + 1] = 0
        /\ code'[Len(code) + 2].op = "pushscope" /\ home'[Len(code) + 2] = 0
        /\ \A i \in 1..(2 * n) : /\ code'[Len(code) + 2 + i].op \in {"declare", "param"}
                                 /\ home'[Len(code) + 2 + i] = Len(code) + 2
    <2>1. /\ n \in Nat /\ m \in Nat /\ Kept(m)
          /\ FuncStart(code'[Len(code) + 1]) /\ home'[Len(code) + 1] = 0
          /\ home'[Len(code) + 2] = 0
      BY DEF FunctionOpens
    <2>3. \A i \in 1..(2 * n) : /\ code'[Len(code) + 2 + i].op \in {"declare", "param"}
                                /\ home'[Len(code) + 2 + i] = Len(code) + 2
      <3> SUFFICES ASSUME NEW i \in 1..(2 * n)
                   PROVE  /\ code'[Len(code) + 2 + i].op \in {"declare", "param"}
                          /\ home'[Len(code) + 2 + i] = Len(code) + 2
        OBVIOUS
      <3>1. code'[Len(code) + 2 + i].op = IF i % 2 = 1 THEN "declare" ELSE "param"
        BY DEF FunctionOpens
      <3>2. home'[Len(code) + 2 + i] = Len(code) + 2
        BY DEF FunctionOpens
      <3> QED
        BY <3>1, <3>2
    <2>2. code'[Len(code) + 2].op = "pushscope"
      BY DEF FunctionOpens, PushScope
    <2> QED
      BY <2>1, <2>2, <2>3
  <1>2. /\ Len(code) \in Nat /\ Len(code') = Len(code) + m
        /\ \A i \in 1..Len(code') : i \in 1..Len(code) \/ \E d \in 1..m : i = Len(code) + d
    BY <1>1, KeptStarts
  <1>3. ASSUME NEW i \in 1..Len(code')
        PROVE  \/ i \in 1..Len(code) \/ i = Len(code) + 1 \/ i = Len(code) + 2
               \/ code'[i].op \in {"declare", "param"} /\ home'[i] # 0
    <2> SUFFICES ASSUME i \notin 1..Len(code), i # Len(code) + 1, i # Len(code) + 2
                 PROVE  code'[i].op \in {"declare", "param"} /\ home'[i] # 0
      OBVIOUS
    <2> DEFINE k == i - Len(code) - 2
    <2>1. k \in 1..(2 * n) /\ i = Len(code) + 2 + k /\ Len(code) + 2 # 0
      BY SMTT(40), <1>1, <1>2
    <2> HIDE DEF k
    <2> QED
      BY <1>1, <2>1
  <1>4. \A i : FuncStart(i) \/ StartLabel(i) \/ i = Label(MainLabel) => i.op = "label"
    BY DEF FuncStart, StartLabel, Label, IsLabel
  <1>5. /\ StartLabel(code'[Len(code) + 1]) /\ code'[Len(code) + 1] # Label(MainLabel)
    BY <1>1, PlainFacts DEF FuncStart, StartLabel
  <1>6. Len(code) + 2 - 1 = Len(code) + 1 /\ Len(code) + 1 + 1 = Len(code) + 2
        /\ Len(code) + 2 > 1 /\ Len(code) + 1 < Len(code')
    BY <1>1, <1>2
  <1>7. FunctionLevel'
    BY SMTT(40), <1>1, <1>3, <1>4, <1>5, <1>6, OldLevels DEF FunctionLevel
  <1>8. FunctionsOpen'
    BY SMTT(40), <1>1, <1>3, <1>4, <1>5, <1>6, OldLevels DEF FunctionsOpen
  <1> QED
    BY <1>7, <1>8 DEF LevelInv

-----------------------------------------------------------------------------
(* A scope that has been closed has the size of its names.                 *)

LEMMA SizedStep ==
    ASSUME ScopeInv, ClosedScopesSized, NEW m \in Nat, Kept(m), DeclaresHere(m),
           \A k \in 1..Depth :
              \/ k \in 1..Depth' /\ scopePushInstr'[k] = scopePushInstr[k]
              \/ /\ k = Depth /\ code'[Innermost] = PushScope(StackSize)
                 /\ DeclaredNext(Innermost) = DeclaredIn(Innermost),
           \A d \in 1..m : code'[Len(code) + d].op = "pushscope" =>
              \E k \in 1..Depth' : scopePushInstr'[k] = Len(code) + d
    PROVE  ClosedScopesSized'
  <1>1. /\ TypeOK /\ Len(code) \in Nat /\ Len(code') = Len(code) + m
        /\ \A i \in 1..Len(code) : code'[i].op = code[i].op /\ (i # Innermost => code'[i] = code[i])
        /\ \A i \in 1..Len(code') : i \in 1..Len(code) \/ \E d \in 1..m : i = Len(code) + d
    BY KeptInstr DEF ScopeInv, Kept
  <1>2. /\ Depth \in Nat
        /\ Depth > 0 => /\ Innermost = scopePushInstr[Depth] /\ Depth \in 1..Depth
                        /\ scope[Depth] = DeclaredIn(Innermost)
        /\ Depth = 0 => Innermost = 0
    BY PositionFacts DEF Innermost
  <1> SUFFICES ASSUME NEW i \in 1..Len(code'), code'[i].op = "pushscope",
                      \A k \in 1..Depth' : scopePushInstr'[k] # i
               PROVE  code'[i].size = AlignedSize(Cardinality(DeclaredNext(i)))
    BY DEF ClosedScopesSized, DeclaredIn, DeclaredNext
  <1>3. i \in 1..Len(code) /\ code[i].op = "pushscope"
    BY <1>1
  <1>4. CASE \E k \in 1..Depth : scopePushInstr[k] = i
    <2>1. PICK k \in 1..Depth : scopePushInstr[k] = i
      BY <1>4
    <2>2. /\ k = Depth /\ code'[Innermost] = PushScope(StackSize)
          /\ DeclaredNext(Innermost) = DeclaredIn(Innermost)
      BY <2>1
    <2>3. i = Innermost /\ scope[Depth] = DeclaredIn(Innermost)
      BY <1>2, <2>1, <2>2
    <2>4. code'[i].size = StackSize
      BY <2>2, <2>3 DEF PushScope
    <2> QED
      BY <2>2, <2>3, <2>4 DEF StackSize
  <1>5. CASE \A k \in 1..Depth : scopePushInstr[k] # i
    <2>1. i # Innermost
      BY <1>2, <1>3, <1>5
    <2>2. code'[i] = code[i] /\ code[i].size = AlignedSize(Cardinality(DeclaredIn(i)))
      BY <1>1, <1>3, <1>5, <2>1 DEF ClosedScopesSized
    <2>3. ASSUME NEW d \in 1..m, code'[Len(code) + d].op = "declare"
          PROVE  home'[Len(code) + d] # i
      <3>1. home'[Len(code) + d] = Innermost \/ home'[Len(code) + d] > Len(code)
        BY <2>3 DEF DeclaresHere
      <3>2. ~(i > Len(code))
        BY <1>1, <1>3
      <3> QED
        BY <2>1, <3>1, <3>2
    <2>4. DeclaredNext(i) = DeclaredIn(i)
      BY <1>1, <2>3, DeclaredKept
    <2> QED
      BY <2>2, <2>4
  <1> QED
    BY <1>4, <1>5

-----------------------------------------------------------------------------
(* Between a jump and its label nothing is declared.                       *)

QuietInv == JumpsPassNoDeclare /\ OwedJumpsQuiet

\* The jump whose label a statement owes stands where the statement does.
LEMMA AwaitedQuiet ==
    ASSUME JumpInv, OwedJumpsQuiet, NEW k \in 1..Depth, frames[k].kind \in StatementFrames,
           NEW i \in 1..Len(code), IsJump(code[i]),
           code[i].dst = ControlLabel(AwaitedKind(frames[k].kind), frames[k].n)
    PROVE  home[i] = Outside(k) /\ QuietBetween(home[i], i, Len(code) + 1)
  <1> DEFINE l == ControlLabel(AwaitedKind(frames[k].kind), frames[k].n)
  <1>1. AwaitedKind(frames[k].kind) \in OwedKinds(frames[k].kind)
    BY OwedFacts DEF StatementFrames
  <1>2. \A j \in 1..Len(code) : code[j] # Label(l)
    BY <1>1 DEF JumpInv, OwedLabelsAbsent
  <1>3. PICK q \in 1..Depth : /\ frames[q].kind \in StatementFrames
                              /\ l = ControlLabel(AwaitedKind(frames[q].kind), frames[q].n)
                              /\ home[i] = Outside(q)
    BY <1>2 DEF JumpInv, JumpsAccounted
  <1>4. frames[q].n = frames[k].n
    BY <1>3, LabelFacts
  <1>5. q = k
    BY <1>3, <1>4 DEF JumpInv, FrameNumbersFresh
  <1> QED
    BY <1>3, <1>5 DEF OwedJumpsQuiet

\* Nobody jumps to a label that is not there, unless a frame owes it.
LEMMA NoJumpTo ==
    ASSUME JumpInv, NEW l, \A j \in 1..Len(code) : code[j] # Label(l),
           \A k \in 1..Depth : frames[k].kind \in StatementFrames =>
              l # ControlLabel(AwaitedKind(frames[k].kind), frames[k].n)
    PROVE  \A i \in 1..Len(code) : IsJump(code[i]) => code[i].dst # l
  BY DEF JumpInv, JumpsAccounted

\* A number that no statement has yet is in no label and no jump.
LEMMA NumberUnused ==
    ASSUME JumpInv, NEW kind \in ControlKinds
    PROVE  /\ \A j \in 1..Len(code) : code[j] # Label(ControlLabel(kind, currentCounter))
           /\ \A i \in 1..Len(code) :
                 IsJump(code[i]) => code[i].dst # ControlLabel(kind, currentCounter)
  <1> DEFINE l == ControlLabel(kind, currentCounter)
  <1>1. currentCounter \in Nat /\ l.kind = kind /\ l.n = currentCounter
    BY LabelFacts DEF JumpInv, TypeOK
  <1>2. \A j \in 1..Len(code) : code[j] # Label(l)
    <2> SUFFICES ASSUME NEW j \in 1..Len(code), code[j] = Label(l) PROVE FALSE
      OBVIOUS
    <2>1. IsLabel(code[j]) /\ code[j].label = l
      BY LabelFacts
    <2>2. code[j].label.n < currentCounter
      BY <1>1, <2>1 DEF JumpInv, LabelNumbersFresh
    <2> QED
      BY <1>1, <2>1, <2>2
  <1>3. \A k \in 1..Depth : frames[k].kind \in StatementFrames =>
           l # ControlLabel(AwaitedKind(frames[k].kind), frames[k].n)
    <2> SUFFICES ASSUME NEW k \in 1..Depth, frames[k].kind \in StatementFrames,
                        l = ControlLabel(AwaitedKind(frames[k].kind), frames[k].n)
                 PROVE  FALSE
      OBVIOUS
    <2>1. frames[k].n = currentCounter /\ frames[k].n < currentCounter
      BY LabelFacts DEF JumpInv, FrameNumbersFresh
    <2> QED
      BY <1>1, <2>1
  <1> HIDE DEF l
  <1>4. \A i \in 1..Len(code) : IsJump(code[i]) => code[i].dst # l
    BY <1>2, <1>3, NoJumpTo
  <1> QED
    BY <1>2, <1>4 DEF l

\* A step appends no declaration, a label only where the jumps to it are quiet
\* up to here, and a jump only where that holds from its label.
Silent(m) == \A d \in 1..m : code'[Len(code) + d].op # "declare"
LabelsSilent(m) ==
    \A d \in 1..m, i \in 1..Len(code) :
        IsLabel(code'[Len(code) + d]) /\ IsJump(code[i]) /\ code[i].dst = code'[Len(code) + d].label
            => QuietBetween(home[i], i, Len(code) + 1)
JumpsSilent(m) ==
    \A d \in 1..m, j \in 1..Len(code) :
        IsJump(code'[Len(code) + d]) /\ IsLabel(code[j]) /\ code[j].label = code'[Len(code) + d].dst
            => QuietBetween(home'[Len(code) + d], j, Len(code) + 1)

\* A frame was there before, or no code waits for its labels yet.
Unawaited(k) ==
    \A i \in 1..Len(code) :
        /\ IsJump(code[i]) =>
              code[i].dst # ControlLabel(AwaitedKind(frames'[k].kind), frames'[k].n)
        /\ frames'[k].kind = "while" => code[i] # Label(ControlLabel("while_begin", frames'[k].n))
FramesSilent ==
    \A k \in 1..Depth' : frames'[k].kind \in StatementFrames =>
        \/ k \in 1..Depth /\ frames'[k] = frames[k] /\ Outside(k)' = Outside(k)
        \/ Unawaited(k)

LEMMA QuietStep ==
    ASSUME TypeOK, QuietInv, NEW m \in Nat, Kept(m),
           Silent(m), LabelsSilent(m), JumpsSilent(m), FramesSilent
    PROVE  QuietInv'
  <1>1. /\ Len(code) \in Nat /\ Len(code') = Len(code) + m
        /\ \A i \in 1..Len(code) : /\ home'[i] = home[i] /\ code'[i].op = code[i].op
                                   /\ IsLabel(code'[i]) <=> IsLabel(code[i])
                                   /\ IsJump(code'[i]) <=> IsJump(code[i])
                                   /\ IsLabel(code[i]) \/ IsJump(code[i]) => code'[i] = code[i]
        /\ \A i \in 1..Len(code') : i \in 1..Len(code) \/ \E d \in 1..m : i = Len(code) + d
    BY KeptInstr DEF Kept
  <1>2. \A d \in 1..Len(code') : code'[d].op = "declare" => d \in 1..Len(code)
    BY <1>1 DEF Silent
  <1>0. \A i \in 1..Len(code') : i \in Nat /\ (i \notin 1..Len(code) => i > Len(code))
    BY <1>1
  <1>3. ASSUME NEW p, NEW i, NEW j \in Nat, QuietBetween(p, i, Len(code) + 1)
        PROVE  \A d \in 1..Len(code') : i < d /\ d < j /\ home'[d] = p => code'[d].op # "declare"
    BY SMTT(40), <1>1, <1>2, <1>3 DEF QuietBetween
  <1>4. ASSUME NEW p, NEW i \in Nat, NEW j, i > Len(code)
        PROVE  \A d \in 1..Len(code') : i < d /\ d < j /\ home'[d] = p => code'[d].op # "declare"
    BY SMTT(40), <1>1, <1>2, <1>4
  <1>5. JumpsPassNoDeclare'
    <2> SUFFICES ASSUME NEW i \in 1..Len(code'), NEW j \in 1..Len(code'),
                        IsJump(code'[i]), IsLabel(code'[j]), code'[j].label = code'[i].dst
                 PROVE  /\ \A d \in 1..Len(code') : i < d /\ d < j /\ home'[d] = home'[i]
                              => code'[d].op # "declare"
                        /\ \A d \in 1..Len(code') : j < d /\ d < i /\ home'[d] = home'[i]
                              => code'[d].op # "declare"
      BY DEF JumpsPassNoDeclare, QuietBetween
    <2>1. CASE i \in 1..Len(code) /\ j \in 1..Len(code)
      <3>1. QuietBetween(home[i], i, j) /\ QuietBetween(home[i], j, i)
        BY <1>1, <2>1 DEF QuietInv, JumpsPassNoDeclare
      <3> QED
        BY <1>1, <1>2, <2>1, <3>1 DEF QuietBetween
    <2>2. CASE i \in 1..Len(code) /\ j \notin 1..Len(code)
      <3>1. PICK d \in 1..m : j = Len(code) + d
        BY <1>1, <2>2
      <3>2. QuietBetween(home[i], i, Len(code) + 1)
        BY <1>1, <2>2, <3>1 DEF LabelsSilent
      <3>3. i \in Nat /\ j \in Nat /\ j > Len(code) /\ home'[i] = home[i]
        BY <1>0, <1>1, <2>2
      <3> QED
        BY <1>3, <1>4, <3>2, <3>3
    <2>3. CASE i \notin 1..Len(code) /\ j \in 1..Len(code)
      <3>1. PICK d \in 1..m : i = Len(code) + d
        BY <1>1, <2>3
      <3>2. QuietBetween(home'[i], j, Len(code) + 1)
        BY <1>1, <2>3, <3>1 DEF JumpsSilent
      <3>3. i \in Nat /\ j \in Nat /\ i > Len(code)
        BY <1>0, <2>3
      <3> QED
        BY <1>3, <1>4, <3>2, <3>3
    <2>4. CASE i \notin 1..Len(code) /\ j \notin 1..Len(code)
      <3>1. i \in Nat /\ j \in Nat /\ i > Len(code) /\ j > Len(code)
        BY <1>0, <2>4
      <3> QED
        BY <1>4, <3>1
    <2> QED
      BY <2>1, <2>2, <2>3, <2>4
  <1>6. OwedJumpsQuiet'
    <2> SUFFICES ASSUME NEW k \in 1..Depth', frames'[k].kind \in StatementFrames,
                        NEW i \in 1..Len(code'),
                        \/ /\ IsJump(code'[i])
                           /\ code'[i].dst = ControlLabel(AwaitedKind(frames'[k].kind), frames'[k].n)
                        \/ /\ frames'[k].kind = "while"
                           /\ code'[i] = Label(ControlLabel("while_begin", frames'[k].n))
                 PROVE  \A d \in 1..Len(code') :
                           i < d /\ d < Len(code') + 1 /\ home'[d] = Outside(k)'
                              => code'[d].op # "declare"
      BY DEF OwedJumpsQuiet, QuietBetween
    <2>1. CASE i > Len(code)
      BY <1>0, <1>4, <2>1
    <2>2. CASE i \in 1..Len(code)
      <3>1. code'[i] = code[i]
        BY <1>1, <2>2, LabelFacts
      <3>2. k \in 1..Depth /\ frames'[k] = frames[k] /\ Outside(k)' = Outside(k)
        BY <2>2, <3>1 DEF FramesSilent, Unawaited
      <3>3. QuietBetween(Outside(k), i, Len(code) + 1)
        BY <1>1, <2>2, <3>1, <3>2 DEF QuietInv, OwedJumpsQuiet
      <3>4. Len(code') + 1 \in Nat
        BY <1>1
      <3> QED
        BY <1>3, <3>2, <3>3, <3>4
    <2> QED
      BY <1>0, <2>1, <2>2
  <1> QED
    BY <1>5, <1>6 DEF QuietInv

\* Where a scope of the frames starts is not the innermost one.
LEMMA InnermostIsInside ==
    ASSUME ScopeInv, NEW k \in 1..Depth
    PROVE  Outside(k) < Innermost
  <1>1. /\ Depth \in Nat /\ Innermost = scopePushInstr[Depth] /\ Depth \in 1..Depth
        /\ \A j \in 1..Depth : scopePushInstr[j] \in 1..Len(code)
        /\ \A j, l \in 1..Depth : j < l => scopePushInstr[j] < scopePushInstr[l]
    <2>1. \A j, l \in 1..Depth : j < l => scopePushInstr[j] < scopePushInstr[l]
      BY DEF ScopeInv
    <2>2. \A j \in 1..Depth : scopePushInstr[j] \in 1..Len(code)
      BY DEF ScopeInv, TypeOK
    <2>3. Depth \in Nat /\ (Depth > 0 => Innermost = scopePushInstr[Depth])
      BY PositionFacts
    <2> QED
      BY <2>1, <2>2, <2>3
  <1>2. CASE k = 1
    BY <1>1, <1>2 DEF Outside
  <1>3. CASE k # 1
    <2>1. k - 1 \in 1..Depth /\ k - 1 < Depth
      BY <1>1, <1>3
    <2> QED
      BY <1>1, <1>3, <2>1 DEF Outside
  <1> QED
    BY <1>2, <1>3

\* Declarations are made in the innermost scope, where no jump waits.
LEMMA StraightQuiet ==
    ASSUME JumpInv, ScopeInv, QuietInv, NEW m \in 1..2, Straight(m)
    PROVE  QuietInv'
  <1>1. /\ Kept(m) /\ Depth' = Depth /\ frames' = frames
        /\ \A k : Outside(k)' = Outside(k)
        /\ \A d \in 1..m : /\ ~IsLabel(code'[Len(code) + d]) /\ ~IsJump(code'[Len(code) + d])
                           /\ home'[Len(code) + d] = Innermost
    BY DEF Straight, SimpleKinds, IsLabel, IsJump, Depth, Outside
  <1>2. /\ TypeOK /\ Len(code) \in Nat /\ Len(code') = Len(code) + m
        /\ \A i \in 1..Len(code) : /\ home'[i] = home[i] /\ code'[i].op = code[i].op
                                   /\ IsLabel(code'[i]) <=> IsLabel(code[i])
                                   /\ IsJump(code'[i]) <=> IsJump(code[i])
                                   /\ IsLabel(code[i]) \/ IsJump(code[i]) => code'[i] = code[i]
        /\ \A i \in 1..Len(code') : i \in 1..Len(code) \/ \E d \in 1..m : i = Len(code) + d
    <2>1. m \in Nat /\ TypeOK
      BY DEF JumpInv
    <2> QED
      BY <1>1, <2>1, KeptInstr DEF Kept
  <1>3. \A i \in 1..Len(code') : IsLabel(code'[i]) \/ IsJump(code'[i]) =>
           i \in 1..Len(code) /\ code'[i] = code[i]
    BY <1>1, <1>2
  <1>4. JumpsPassNoDeclare'
    <2> SUFFICES ASSUME NEW i \in 1..Len(code'), NEW j \in 1..Len(code'),
                        IsJump(code'[i]), IsLabel(code'[j]), code'[j].label = code'[i].dst
                 PROVE  /\ \A d \in 1..Len(code') : i < d /\ d < j /\ home'[d] = home'[i]
                              => code'[d].op # "declare"
                        /\ \A d \in 1..Len(code') : j < d /\ d < i /\ home'[d] = home'[i]
                              => code'[d].op # "declare"
      BY DEF JumpsPassNoDeclare, QuietBetween
    <2>1. i \in 1..Len(code) /\ code'[i] = code[i] /\ j \in 1..Len(code) /\ code'[j] = code[j]
      BY <1>3
    <2>2. QuietBetween(home[i], i, j) /\ QuietBetween(home[i], j, i)
      BY <2>1 DEF QuietInv, JumpsPassNoDeclare
    <2>3. \A d \in 1..Len(code') : d < i \/ d < j => d \in 1..Len(code)
      BY SMTT(40), <1>2, <2>1
    <2> QED
      BY <1>2, <2>1, <2>2, <2>3 DEF QuietBetween
  <1>5. OwedJumpsQuiet'
    <2> SUFFICES ASSUME NEW k \in 1..Depth, frames[k].kind \in StatementFrames,
                        NEW i \in 1..Len(code'),
                        \/ /\ IsJump(code'[i])
                           /\ code'[i].dst = ControlLabel(AwaitedKind(frames[k].kind), frames[k].n)
                        \/ /\ frames[k].kind = "while"
                           /\ code'[i] = Label(ControlLabel("while_begin", frames[k].n)),
                        NEW d \in 1..Len(code'), i < d, home'[d] = Outside(k)
                 PROVE  code'[d].op # "declare"
      BY <1>1 DEF OwedJumpsQuiet, QuietBetween
    <2>1. i \in 1..Len(code) /\ code'[i] = code[i]
      BY <1>3, LabelFacts
    <2>2. QuietBetween(Outside(k), i, Len(code) + 1)
      BY <2>1 DEF QuietInv, OwedJumpsQuiet
    <2>3. Outside(k) # Innermost
      <3>1. Outside(k) < Innermost /\ Innermost \in Nat
        BY InnermostIsInside, PositionFacts
      <3> QED
        BY <3>1
    <2>4. d \in 1..Len(code) /\ d < Len(code) + 1
      <3>1. \A e \in 1..m : d # Len(code) + e
        BY <1>1, <2>3
      <3>2. d \in 1..Len(code)
        BY <1>2, <3>1
      <3> QED
        BY <1>2, <3>2
    <2> QED
      BY <1>2, <2>2, <2>4 DEF QuietBetween
  <1> QED
    BY <1>4, <1>5 DEF QuietInv

\* The statement on top owes the label that its jumps wait for.
LEMMA TopAwaited ==
    ASSUME JumpInv, QuietInv, NEW kind \in StatementFrames, InBlock(kind),
           NEW i \in 1..Len(code), IsJump(code[i]),
           code[i].dst = ControlLabel(AwaitedKind(kind), frames[Depth].n)
    PROVE  QuietBetween(home[i], i, Len(code) + 1)
  <1>1. TypeOK /\ OwedJumpsQuiet
    BY DEF JumpInv, QuietInv
  <1>2. Depth \in 1..Depth /\ frames[Depth].kind = kind
    BY <1>1, TopFrame
  <1> QED
    BY <1>1, <1>2, AwaitedQuiet

LEMMA ClosingQuiet ==
    ASSUME JumpInv, QuietInv, EndFunction \/ EndMain \/ ScopeEnd \/ IfEnd \/ WhileEnd
    PROVE  QuietInv'
  <1> USE DEF JumpInv
  <1> DEFINE n == frames[Depth].n
  <1>1. ASSUME Dropped PROVE FramesSilent
    <2>1. Depth \in Nat /\ Depth' = Depth - 1
      BY <1>1, StateFacts DEF Dropped
    <2> QED
      BY <1>1, <2>1, OutsideFacts DEF Dropped, FramesSilent
  <1>2. CASE EndFunction \/ EndMain \/ ScopeEnd
    <2>1. Kept(1) /\ Dropped /\ code'[Len(code) + 1] = PopScope(StackSize)
      BY <1>2, ClosingStep
    <2>2. \A d \in 1..1 : d = 1
      OBVIOUS
    <2>3. \A d \in 1..1 : /\ code'[Len(code) + d].op # "declare"
                          /\ ~IsLabel(code'[Len(code) + d]) /\ ~IsJump(code'[Len(code) + d])
      BY <2>1, <2>2, LabelFacts, OtherOps
    <2>4. Silent(1) /\ LabelsSilent(1) /\ JumpsSilent(1) /\ 1 \in Nat
      BY <2>3 DEF Silent, LabelsSilent, JumpsSilent
    <2> QED
      BY <1>1, <2>1, <2>4, QuietStep
  <1>3. CASE IfEnd
    <2>1. /\ Kept(2) /\ Dropped /\ code'[Len(code) + 1] = PopScope(StackSize)
          /\ code'[Len(code) + 2] = Label(ControlLabel("ifelse_end", n))
      BY <1>3, IfEndStep
    <2>2. \A d \in 1..2 : d = 1 \/ d = 2
      OBVIOUS
    <2>3. \A d \in 1..2 : code'[Len(code) + d].op # "declare" /\ ~IsJump(code'[Len(code) + d])
      BY <2>1, <2>2, LabelFacts, OtherOps
    <2>4. \A d \in 1..2 : IsLabel(code'[Len(code) + d]) =>
             code'[Len(code) + d].label = ControlLabel("ifelse_end", n)
      BY <2>1, <2>2, LabelFacts
    <2>5. \A i \in 1..Len(code) : IsJump(code[i]) /\ code[i].dst = ControlLabel("ifelse_end", n)
             => QuietBetween(home[i], i, Len(code) + 1)
      BY <1>3, TopAwaited, OwedFacts DEF IfEnd, StatementFrames
    <2>6. Silent(2) /\ JumpsSilent(2) /\ 2 \in Nat
      BY <2>3 DEF Silent, JumpsSilent
    <2>7. LabelsSilent(2)
      BY <2>4, <2>5 DEF LabelsSilent
    <2> QED
      BY <1>1, <2>1, <2>6, <2>7, QuietStep
  <1>4. CASE WhileEnd
    <2>1. /\ Kept(3) /\ Dropped /\ code'[Len(code) + 1] = PopScope(StackSize)
          /\ code'[Len(code) + 2] = Jmp(ControlLabel("while_begin", n))
          /\ home'[Len(code) + 2] = Around
          /\ code'[Len(code) + 3] = Label(ControlLabel("while_end", n))
      BY <1>4, WhileEndStep
    <2>2. \A d \in 1..3 : d = 1 \/ d = 2 \/ d = 3
      OBVIOUS
    <2>3. \A d \in 1..3 : code'[Len(code) + d].op # "declare"
      BY <2>1, <2>2, OtherOps
    <2>4. /\ \A d \in 1..3 : IsLabel(code'[Len(code) + d]) =>
                code'[Len(code) + d].label = ControlLabel("while_end", n)
          /\ \A d \in 1..3 : IsJump(code'[Len(code) + d]) =>
                /\ code'[Len(code) + d].dst = ControlLabel("while_begin", n)
                /\ home'[Len(code) + d] = Around
      BY <2>1, <2>2, LabelFacts
    <2>5. \A i \in 1..Len(code) : IsJump(code[i]) /\ code[i].dst = ControlLabel("while_end", n)
             => QuietBetween(home[i], i, Len(code) + 1)
      BY <1>4, TopAwaited, OwedFacts DEF WhileEnd, StatementFrames
    <2>6. /\ Depth \in 1..Depth /\ frames[Depth].kind = "while" /\ Outside(Depth) = Around
      BY <1>4, TopFrame, OutsideFacts DEF WhileEnd
    <2>7. \A j \in 1..Len(code) : IsLabel(code[j]) /\ code[j].label = ControlLabel("while_begin", n)
             => QuietBetween(Around, j, Len(code) + 1)
      BY <2>6, LabelShape DEF QuietInv, OwedJumpsQuiet, StatementFrames
    <2> HIDE DEF n
    <2>8. JumpsSilent(3)
      BY <2>4, <2>7, Zenon DEF JumpsSilent
    <2>9. LabelsSilent(3)
      BY <2>4, <2>5, Zenon DEF LabelsSilent
    <2>10. Silent(3) /\ 3 \in Nat
      BY <2>3 DEF Silent
    <2> QED
      BY <1>1, <2>1, <2>8, <2>9, <2>10, QuietStep
  <1> QED
    BY <1>2, <1>3, <1>4

LEMMA TurningQuiet ==
    ASSUME JumpInv, QuietInv, IfElse
    PROVE  QuietInv'
  <1> USE DEF JumpInv
  <1> DEFINE n == frames[Depth].n
  <1>1. /\ Kept(4) /\ Depth' = Depth /\ Depth \in Nat /\ Depth > 1
        /\ \A j \in 1..Depth : /\ frames'[j] = IF j = Depth THEN Frame("else", n) ELSE frames[j]
                               /\ scopePushInstr'[j] = IF j = Depth THEN Len(code) + 4
                                                       ELSE scopePushInstr[j]
        /\ code'[Len(code) + 1] = PopScope(StackSize)
        /\ code'[Len(code) + 2] = Jmp(ControlLabel("ifelse_end", n))
        /\ code'[Len(code) + 3] = Label(ControlLabel("else_begin", n))
        /\ code'[Len(code) + 4] = PushScope(0)
    BY SMTT(40), IfElseStep, TopStanding, StateFacts DEF IfElse
  <1>2. \A d \in 1..4 : d = 1 \/ d = 2 \/ d = 3 \/ d = 4
    OBVIOUS
  <1>3. /\ \A d \in 1..4 : code'[Len(code) + d].op # "declare"
        /\ \A d \in 1..4 : IsLabel(code'[Len(code) + d]) =>
              code'[Len(code) + d].label = ControlLabel("else_begin", n)
        /\ \A d \in 1..4 : IsJump(code'[Len(code) + d]) =>
              code'[Len(code) + d].dst = ControlLabel("ifelse_end", n)
    BY <1>1, <1>2, OtherOps, LabelFacts
  <1>4. \A i \in 1..Len(code) : IsJump(code[i]) /\ code[i].dst = ControlLabel("else_begin", n)
           => QuietBetween(home[i], i, Len(code) + 1)
    BY TopAwaited, OwedFacts DEF IfElse, StatementFrames
  <1>5. Depth \in 1..Depth /\ frames[Depth].kind = "then" /\ n < currentCounter
    <2>1. InBlock("then") /\ "then" \in StatementFrames
      BY DEF IfElse, StatementFrames
    <2> QED
      BY <2>1, TopFrame, TopNumber
  <1>6. \A j \in 1..Len(code) : code[j] # Label(ControlLabel("ifelse_end", n))
    <2>1. "ifelse_end" \in OwedKinds(frames[Depth].kind)
      BY <1>5, OwedFacts
    <2> QED
      BY <1>5, <2>1 DEF OwedLabelsAbsent
  <1>7. \A i \in 1..Len(code) : IsJump(code[i]) => code[i].dst # ControlLabel("ifelse_end", n)
    <2>1. ASSUME NEW k \in 1..Depth, frames[k].kind \in StatementFrames,
                 ControlLabel("ifelse_end", n) = ControlLabel(AwaitedKind(frames[k].kind), frames[k].n)
          PROVE  FALSE
      <3>1. AwaitedKind(frames[k].kind) = "ifelse_end" /\ frames[k].n = n
        BY <2>1, LabelFacts
      <3>2. k = Depth
        BY <1>5, <2>1, <3>1 DEF FrameNumbersFresh, StatementFrames
      <3> QED
        BY <1>5, <3>1, <3>2, OwedFacts
    <2> QED
      BY <1>6, <2>1, NoJumpTo
  <1>8. \A k \in 1..Depth : k # Depth => /\ frames'[k] = frames[k] /\ Outside(k)' = Outside(k)
    <2> SUFFICES ASSUME NEW k \in 1..Depth, k # Depth
                 PROVE  frames'[k] = frames[k] /\ Outside(k)' = Outside(k)
      OBVIOUS
    <2>1. k # 1 => k - 1 \in 1..Depth /\ k - 1 # Depth
      BY <1>1
    <2> QED
      BY <1>1, <2>1 DEF Outside
  <1>9. Unawaited(Depth)
    <2>1. frames'[Depth].kind = "else" /\ frames'[Depth].n = n
      BY <1>1, <1>5 DEF Frame
    <2> QED
      BY <1>7, <2>1, OwedFacts DEF Unawaited
  <1>10. FramesSilent
    BY <1>1, <1>8, <1>9 DEF FramesSilent
  <1> HIDE DEF n
  <1>11. LabelsSilent(4)
    BY <1>3, <1>4, Zenon DEF LabelsSilent
  <1>12. JumpsSilent(4)
    BY <1>3, <1>6, LabelShape DEF JumpsSilent
  <1>13. Silent(4) /\ 4 \in Nat
    BY <1>3 DEF Silent
  <1> QED
    BY <1>1, <1>10, <1>11, <1>12, <1>13, QuietStep

\* A frame that is opened waits for labels that no code jumps to yet.
LEMMA OpenedSilent ==
    ASSUME JumpInv, NEW p, NEW fr, Opened(p, fr),
           fr.kind \in StatementFrames => fr.n = currentCounter
    PROVE  FramesSilent
  <1> USE DEF JumpInv
  <1>1. /\ Depth' = Depth + 1 /\ frames'[Depth'] = fr
        /\ \A k \in 1..Depth' : k \in 1..Depth \/ k = Depth'
        /\ \A k \in 1..Depth : frames'[k] = frames[k] /\ Outside(k)' = Outside(k)
    BY OpenedFacts, OutsideFacts
  <1>2. ASSUME frames'[Depth'].kind \in StatementFrames PROVE Unawaited(Depth')
    <2>1. fr.kind \in StatementFrames /\ fr.n = currentCounter
      BY <1>1, <1>2
    <2>2. AwaitedKind(fr.kind) \in ControlKinds /\ "while_begin" \in ControlKinds
      BY <2>1, OwedFacts DEF StatementFrames, ControlKinds
    <2> QED
      BY <1>1, <2>1, <2>2, NumberUnused DEF Unawaited
  <1> QED
    BY <1>1, <1>2 DEF FramesSilent

LEMMA OpeningQuiet ==
    ASSUME JumpInv, QuietInv, IfBegin \/ WhileBegin \/ ScopeBegin \/ BeginMain
    PROVE  QuietInv'
  <1> USE DEF JumpInv
  <1> DEFINE c == currentCounter
  <1>1. CASE IfBegin
    <2>1. /\ Kept(2) /\ Opened(Len(code) + 2, Frame("then", c))
          /\ code'[Len(code) + 1] = JmpCond(ControlLabel("else_begin", c))
          /\ code'[Len(code) + 2] = PushScope(0)
      BY <1>1, IfBeginStep
    <2>2. \A d \in 1..2 : d = 1 \/ d = 2
      OBVIOUS
    <2>3. /\ \A d \in 1..2 : code'[Len(code) + d].op # "declare" /\ ~IsLabel(code'[Len(code) + d])
          /\ \A d \in 1..2 : IsJump(code'[Len(code) + d]) =>
                code'[Len(code) + d].dst = ControlLabel("else_begin", c)
      BY <2>1, <2>2, OtherOps, LabelFacts
    <2>4. FramesSilent
      BY <2>1, OpenedSilent DEF Frame
    <2>5. \A j \in 1..Len(code) : code[j] # Label(ControlLabel("else_begin", c))
      BY NumberUnused DEF ControlKinds
    <2> HIDE DEF c
    <2>6. JumpsSilent(2)
      BY <2>3, <2>5, LabelShape DEF JumpsSilent
    <2>7. Silent(2) /\ LabelsSilent(2) /\ 2 \in Nat
      BY <2>3 DEF Silent, LabelsSilent
    <2> QED
      BY <2>1, <2>4, <2>6, <2>7, QuietStep
  <1>2. CASE WhileBegin
    <2>1. /\ Kept(3) /\ Opened(Len(code) + 3, Frame("while", c))
          /\ code'[Len(code) + 1] = Label(ControlLabel("while_begin", c))
          /\ code'[Len(code) + 2] = JmpCond(ControlLabel("while_end", c))
          /\ code'[Len(code) + 3] = PushScope(0)
      BY <1>2, WhileBeginStep
    <2>2. \A d \in 1..3 : d = 1 \/ d = 2 \/ d = 3
      OBVIOUS
    <2>3. /\ \A d \in 1..3 : code'[Len(code) + d].op # "declare"
          /\ \A d \in 1..3 : IsLabel(code'[Len(code) + d]) =>
                code'[Len(code) + d].label = ControlLabel("while_begin", c)
          /\ \A d \in 1..3 : IsJump(code'[Len(code) + d]) =>
                code'[Len(code) + d].dst = ControlLabel("while_end", c)
      BY <2>1, <2>2, OtherOps, LabelFacts
    <2>4. FramesSilent
      BY <2>1, OpenedSilent DEF Frame
    <2>5. /\ \A j \in 1..Len(code) : code[j] # Label(ControlLabel("while_end", c))
          /\ \A i \in 1..Len(code) : IsJump(code[i]) => code[i].dst # ControlLabel("while_begin", c)
      BY NumberUnused DEF ControlKinds
    <2> HIDE DEF c
    <2>6. JumpsSilent(3)
      BY <2>3, <2>5, LabelShape DEF JumpsSilent
    <2>7. LabelsSilent(3)
      BY <2>3, <2>5 DEF LabelsSilent
    <2>8. Silent(3) /\ 3 \in Nat
      BY <2>3 DEF Silent
    <2> QED
      BY <2>1, <2>4, <2>6, <2>7, <2>8, QuietStep
  <1>3. CASE ScopeBegin
    <2>1. /\ Kept(1) /\ Opened(Len(code) + 1, Frame("scope", 0))
          /\ code'[Len(code) + 1] = PushScope(0)
      BY <1>3, ScopeBeginStep
    <2>2. \A d \in 1..1 : d = 1
      OBVIOUS
    <2>3. \A d \in 1..1 : /\ code'[Len(code) + d].op # "declare"
                          /\ ~IsLabel(code'[Len(code) + d]) /\ ~IsJump(code'[Len(code) + d])
      BY <2>1, <2>2, LabelFacts, OtherOps
    <2>4. Silent(1) /\ LabelsSilent(1) /\ JumpsSilent(1) /\ 1 \in Nat
      BY <2>3 DEF Silent, LabelsSilent, JumpsSilent
    <2>5. FramesSilent
      BY <2>1, OpenedSilent DEF Frame, StatementFrames
    <2> QED
      BY <2>1, <2>4, <2>5, QuietStep
  <1>4. CASE BeginMain
    <2>1. /\ Kept(3) /\ Opened(Len(code) + 3, Frame("main", 0))
          /\ code'[Len(code) + 1] = Label(MainLabel)
          /\ code'[Len(code) + 2] = Simple("locale")
          /\ code'[Len(code) + 3] = PushScope(0)
      BY <1>4, BeginMainStep
    <2>2. \A d \in 1..3 : d = 1 \/ d = 2 \/ d = 3
      OBVIOUS
    <2>3. "locale" \in SimpleKinds
      BY DEF SimpleKinds
    <2>4. /\ \A d \in 1..3 : code'[Len(code) + d].op # "declare" /\ ~IsJump(code'[Len(code) + d])
          /\ \A d \in 1..3 : IsLabel(code'[Len(code) + d]) => code'[Len(code) + d].label = MainLabel
      BY <2>1, <2>2, <2>3, OtherOps, LabelFacts
    <2>5. FramesSilent
      BY <2>1, OpenedSilent DEF Frame, StatementFrames
    <2>6. \A i \in 1..Len(code) : IsJump(code[i]) => code[i].dst # MainLabel
      <3>1. \A j \in 1..Len(code) : code[j] # Label(MainLabel)
        <4> SUFFICES ASSUME NEW j \in 1..Len(code), code[j] = Label(MainLabel) PROVE FALSE
          OBVIOUS
        <4>1. IsLabel(code[j]) /\ code[j].label.kind = "main"
          BY LabelFacts
        <4>2. stage \in {"main", "done"} /\ stage = "between"
          BY <1>4, <4>1 DEF FunctionLabels, BeginMain
        <4> QED
          BY <4>2
      <3>2. Depth = 0
        BY <1>4, StateFacts DEF BeginMain, FramesNest
      <3> QED
        BY <3>1, <3>2, NoJumpTo
    <2>7. Silent(3) /\ JumpsSilent(3) /\ 3 \in Nat
      BY <2>4 DEF Silent, JumpsSilent
    <2>8. LabelsSilent(3)
      BY <2>4, <2>6 DEF LabelsSilent
    <2> QED
      BY <2>1, <2>5, <2>7, <2>8, QuietStep
  <1> QED
    BY <1>1, <1>2, <1>3, <1>4

\* A function declares its parameters in a scope that no code jumps in yet.
LEMMA FunctionQuiet ==
    ASSUME JumpInv, QuietInv, NEW n, FunctionOpens(n), NEW f, f \notin functions,
           code'[Len(code) + 1] = Label(FuncLabel(f))
    PROVE  QuietInv'
  <1> USE DEF JumpInv
  <1> DEFINE m == 2 + 2 * n
  <1>1. /\ n \in Nat /\ m \in Nat /\ Kept(m) /\ Depth = 0 /\ Depth' = 1
        /\ frames'[1] = Frame("func", 0)
    BY DEF FunctionOpens
  <1>2. /\ Len(code) \in Nat /\ Len(code') = Len(code) + m
        /\ \A i \in 1..Len(code) : /\ home'[i] = home[i] /\ code'[i].op = code[i].op
                                   /\ IsLabel(code'[i]) <=> IsLabel(code[i])
                                   /\ IsJump(code'[i]) <=> IsJump(code[i])
                                   /\ IsLabel(code[i]) \/ IsJump(code[i]) => code'[i] = code[i]
    BY <1>1, KeptInstr DEF Kept
  <1>3. ASSUME NEW i \in 1..Len(code'), i \notin 1..Len(code)
        PROVE  ~IsJump(code'[i]) /\ (IsLabel(code'[i]) => i = Len(code) + 1)
    <2>1. CASE i = Len(code) + 1
      BY <2>1, LabelFacts
    <2>2. CASE i = Len(code) + 2
      BY <2>2, LabelFacts DEF FunctionOpens
    <2>3. CASE i > Len(code) + 2
      <3> DEFINE k == i - Len(code) - 2
      <3>1. k \in 1..(2 * n) /\ i = Len(code) + 2 + k
        BY <1>1, <1>2, <2>3
      <3> HIDE DEF k
      <3>2. code'[i].op = IF k % 2 = 1 THEN "declare" ELSE "param"
        BY <3>1 DEF FunctionOpens
      <3> QED
        BY <3>2 DEF IsJump, IsLabel
    <2> QED
      BY <1>2, <1>3, <2>1, <2>2, <2>3
  <1>4. \A i \in 1..Len(code) : IsJump(code[i]) => code[i].dst # FuncLabel(f)
    <2>1. \A j \in 1..Len(code) : code[j] # Label(FuncLabel(f))
      <3> SUFFICES ASSUME NEW j \in 1..Len(code), code[j] = Label(FuncLabel(f)) PROVE FALSE
        OBVIOUS
      <3>1. IsLabel(code[j]) /\ code[j].label.kind = "func" /\ code[j].label.func = f
        BY LabelFacts
      <3> QED
        BY <3>1 DEF FunctionLabels
    <2> QED
      BY <1>1, <2>1, NoJumpTo
  <1>5. JumpsPassNoDeclare'
    <2> SUFFICES ASSUME NEW i \in 1..Len(code'), NEW j \in 1..Len(code'),
                        IsJump(code'[i]), IsLabel(code'[j]), code'[j].label = code'[i].dst
                 PROVE  /\ \A d \in 1..Len(code') : i < d /\ d < j /\ home'[d] = home'[i]
                              => code'[d].op # "declare"
                        /\ \A d \in 1..Len(code') : j < d /\ d < i /\ home'[d] = home'[i]
                              => code'[d].op # "declare"
      BY DEF JumpsPassNoDeclare, QuietBetween
    <2>1. i \in 1..Len(code) /\ code'[i] = code[i]
      BY <1>2, <1>3
    <2>2. j # Len(code) + 1
      BY <1>4, <2>1, LabelFacts
    <2>3. j \in 1..Len(code) /\ code'[j] = code[j]
      BY <1>2, <1>3, <2>2
    <2>4. QuietBetween(home[i], i, j) /\ QuietBetween(home[i], j, i)
      BY <2>1, <2>3 DEF QuietInv, JumpsPassNoDeclare
    <2>5. \A d \in 1..Len(code') : d < i \/ d < j => d \in 1..Len(code)
      BY <1>2, <2>1, <2>3
    <2> QED
      BY <1>2, <2>1, <2>4, <2>5 DEF QuietBetween
  <1>6. OwedJumpsQuiet'
    BY <1>1 DEF OwedJumpsQuiet, Frame, StatementFrames
  <1> QED
    BY <1>5, <1>6 DEF QuietInv

-----------------------------------------------------------------------------
(* Parameters and labels of functions.                                     *)

LEMMA NoParamsStep ==
    ASSUME TypeOK, ScopeInv, ParamsInFront, NEW m \in Nat, Kept(m),
           \A d \in 1..m : code'[Len(code) + d].op # "param" /\ ~FuncStart(code'[Len(code) + d])
    PROVE  ParamsInFront'
  <1>1. /\ Len(code) \in Nat /\ Len(code') = Len(code) + m
        /\ \A i \in 1..Len(code) : /\ home'[i] = home[i] /\ code'[i].op = code[i].op
                                   /\ FuncStart(code'[i]) <=> FuncStart(code[i])
        /\ \A i \in 1..Len(code') : i \in 1..Len(code) \/ \E d \in 1..m : i = Len(code) + d
    BY KeptStarts
  <1>2. \A i \in 1..Len(code') : code'[i].op = "param" \/ FuncStart(code'[i]) => i \in 1..Len(code)
    BY <1>1
  <1>3. ASSUME NEW p
        PROVE  {i \in 1..Len(code') : code'[i].op = "param" /\ home'[i] = p} = ParamsAt(p)
    <2>1. 1..Len(code) \subseteq 1..Len(code')
      BY <1>1
    <2> QED
      BY ZenonT(60), <1>1, <1>2, <2>1 DEF ParamsAt
  <1>4. ASSUME NEW i \in 1..Len(code'), FuncStart(code'[i])
        PROVE  \E n \in 0..MaxParams :
                  {j \in 1..Len(code') : code'[j].op = "param" /\ home'[j] = i + 1}
                     = {i + 1 + 2 * k : k \in 1..n}
    <2>1. i \in 1..Len(code) /\ FuncStart(code[i])
      BY <1>1, <1>2, <1>4
    <2>2. \E n \in 0..MaxParams : ParamsAt(i + 1) = {i + 1 + 2 * k : k \in 1..n}
      BY <2>1 DEF ParamsInFront
    <2> QED
      BY <1>3, <2>2
  <1>5. ASSUME NEW i \in 1..Len(code'), code'[i].op = "param"
        PROVE  /\ home'[i] > 1 /\ FuncStart(code'[home'[i] - 1])
               /\ code'[i - 1].op = "declare" /\ home'[i - 1] = home'[i]
    <2>1. i \in 1..Len(code) /\ code[i].op = "param" /\ home'[i] = home[i]
      BY <1>1, <1>2, <1>5
    <2>2. /\ home[i] > 1 /\ FuncStart(code[home[i] - 1])
          /\ code[i - 1].op = "declare" /\ home[i - 1] = home[i]
      BY <2>1 DEF ParamsInFront
    <2>3. home[i] < i /\ home[i] \in Nat
      <3>1. home \in Seq(Nat) /\ Len(home) = Len(code)
        BY DEF TypeOK, Positions
      <3>2. home[i] < i
        BY <2>1 DEF ScopeInv
      <3> QED
        BY <2>1, <3>1, <3>2
    <2>4. home[i] - 1 \in 1..Len(code) /\ i - 1 \in 1..Len(code)
      BY SMTT(40), <1>1, <2>1, <2>2, <2>3
    <2> QED
      BY <1>1, <2>1, <2>2, <2>4
  <1> QED
    BY <1>4, <1>5 DEF ParamsInFront, ParamsAt

LEMMA FunctionParams ==
    ASSUME TypeOK, ScopeInv, ParamsInFront, NEW n, FunctionOpens(n)
    PROVE  ParamsInFront'
  <1> DEFINE m == 2 + 2 * n
             p == Len(code) + 2
  <1>1. /\ n \in Nat /\ n \in 0..MaxParams /\ m \in Nat /\ Kept(m)
        /\ FuncStart(code'[Len(code) + 1])
        /\ code'[p] = PushScope(0)
        /\ \A i \in 1..(2 * n) : /\ code'[p + i].op = IF i % 2 = 1 THEN "declare" ELSE "param"
                                 /\ home'[p + i] = p
    BY DEF FunctionOpens
  <1>2. /\ Len(code) \in Nat /\ Len(code') = Len(code) + m
        /\ \A i \in 1..Len(code) : /\ home'[i] = home[i] /\ code'[i].op = code[i].op
                                   /\ FuncStart(code'[i]) <=> FuncStart(code[i])
    BY <1>1, KeptStarts
  <1>3. \A i \in 1..Len(code) : home[i] < i /\ home[i] \in Nat /\ home[i] < Len(code)
    <2>1. \A i \in 1..Len(code) : home[i] < i /\ home[i] \in Nat
      BY DEF ScopeInv, TypeOK, Positions
    <2> QED
      BY <1>2, <2>1
  <1>4. ASSUME NEW i \in 1..Len(code'), i \notin 1..Len(code)
        PROVE  \/ i = Len(code) + 1 /\ code'[i].op = "label"
               \/ i = p /\ code'[i].op = "pushscope"
               \/ \E k \in 1..(2 * n) : i = p + k
    <2>1. i > p => i - p \in 1..(2 * n) /\ i = p + (i - p)
      BY SMTT(40), <1>1, <1>2
    <2>2. code'[Len(code) + 1].op = "label" /\ code'[p].op = "pushscope"
      BY <1>1 DEF FuncStart, IsLabel, PushScope
    <2>3. i = Len(code) + 1 \/ i = p \/ i > p
      BY <1>2, <1>4
    <2> QED
      BY <2>1, <2>2, <2>3
  <1> HIDE DEF m
  <1>5. ASSUME NEW q
        PROVE  /\ q = p => {i \in 1..Len(code') : code'[i].op = "param" /\ home'[i] = q}
                              = {p + 2 * k : k \in 1..n}
               /\ q # p => {i \in 1..Len(code') : code'[i].op = "param" /\ home'[i] = q} = ParamsAt(q)
    <2> DEFINE S == {i \in 1..Len(code') : code'[i].op = "param" /\ home'[i] = q}
    <2>1. ASSUME q = p, NEW i \in S PROVE i \in {p + 2 * k : k \in 1..n}
      <3>1. i \notin 1..Len(code)
        BY <1>2, <1>3, <2>1
      <3>2. PICK k \in 1..(2 * n) : i = p + k
        BY <1>4, <3>1
      <3>3. k % 2 # 1
        BY <1>1, <3>2
      <3>4. k \div 2 \in 1..n /\ k = 2 * (k \div 2)
        BY <1>1, <3>3
      <3> QED
        BY <3>2, <3>4
    <2>2. ASSUME q = p, NEW k \in 1..n PROVE p + 2 * k \in S
      <3>1. 2 * k \in 1..(2 * n) /\ (2 * k) % 2 # 1
        BY <1>1
      <3>2. code'[p + 2 * k].op = "param" /\ home'[p + 2 * k] = p
        BY <1>1, <3>1
      <3>3. p + 2 * k \in 1..Len(code')
        BY <1>1, <1>2, <3>1 DEF m
      <3> QED
        BY <2>2, <3>2, <3>3
    <2>3. ASSUME q # p, NEW i \in 1..Len(code'), code'[i].op = "param", home'[i] = q
          PROVE  i \in 1..Len(code)
      BY <1>1, <1>4, <2>3
    <2>4. 1..Len(code) \subseteq 1..Len(code')
      BY <1>1, <1>2
    <2>5. q # p => S = ParamsAt(q)
      BY <1>2, <2>3, <2>4 DEF ParamsAt
    <2>6. q = p => S = {p + 2 * k : k \in 1..n}
      BY <2>1, <2>2
    <2> QED
      BY <2>5, <2>6
  <1>6. ASSUME NEW i \in 1..Len(code'), FuncStart(code'[i])
        PROVE  \E l \in 0..MaxParams :
                  {j \in 1..Len(code') : code'[j].op = "param" /\ home'[j] = i + 1}
                     = {i + 1 + 2 * k : k \in 1..l}
    <2>1. CASE i = Len(code) + 1
      <3>1. i + 1 = p
        BY <1>2, <2>1
      <3>2. {j \in 1..Len(code') : code'[j].op = "param" /\ home'[j] = i + 1}
               = {i + 1 + 2 * k : k \in 1..n}
        BY SMTT(40), <1>5, <3>1
      <3> QED
        BY <1>1, <3>2
    <2>2. CASE i # Len(code) + 1
      <3>1. i \in 1..Len(code)
        <4>1. code'[i].op = "label"
          BY <1>6 DEF FuncStart, IsLabel
        <4> QED
          BY <1>1, <1>4, <2>2, <4>1
      <3>2. \E l \in 0..MaxParams : ParamsAt(i + 1) = {i + 1 + 2 * k : k \in 1..l}
        BY <1>2, <1>6, <3>1 DEF ParamsInFront
      <3>3. i + 1 # p
        BY <1>2, <3>1
      <3> QED
        BY <1>5, <3>2, <3>3
    <2> QED
      BY <2>1, <2>2
  <1>7. ASSUME NEW i \in 1..Len(code'), code'[i].op = "param"
        PROVE  /\ home'[i] > 1 /\ FuncStart(code'[home'[i] - 1])
               /\ code'[i - 1].op = "declare" /\ home'[i - 1] = home'[i]
    <2>1. CASE i \in 1..Len(code)
      <3>1. /\ home[i] > 1 /\ FuncStart(code[home[i] - 1])
            /\ code[i - 1].op = "declare" /\ home[i - 1] = home[i]
        BY <1>2, <1>7, <2>1 DEF ParamsInFront
      <3>2. home[i] - 1 \in 1..Len(code) /\ i - 1 \in 1..Len(code)
        BY <1>2, <1>3, <2>1, <3>1
      <3> QED
        BY <1>2, <2>1, <3>1, <3>2
    <2>2. CASE i \notin 1..Len(code)
      <3>1. PICK k \in 1..(2 * n) : i = p + k
        BY <1>4, <1>7, <2>2
      <3>2. k % 2 # 1 /\ home'[i] = p
        BY <1>1, <1>7, <3>1
      <3>3. k - 1 \in 1..(2 * n) /\ (k - 1) % 2 = 1 /\ i - 1 = p + (k - 1)
        BY SMTT(40), <1>1, <1>2, <3>1, <3>2
      <3>4. code'[i - 1].op = "declare" /\ home'[i - 1] = p
        BY <1>1, <3>3
      <3>5. p > 1 /\ p - 1 = Len(code) + 1
        BY <1>2
      <3> QED
        BY <1>1, <3>2, <3>4, <3>5
    <2> QED
      BY <2>1, <2>2
  <1> QED
    BY <1>6, <1>7 DEF ParamsInFront, ParamsAt

LEMMA LabelledStep ==
    ASSUME TypeOK, FunctionsLabelled, NEW m \in Nat, Kept(m),
           \A f \in functions' : f \in functions \/ (code'[Len(code) + 1] = Label(FuncLabel(f)) /\ m > 0),
           stage' \in {"main", "done"} =>
              stage \in {"main", "done"} \/ (code'[Len(code) + 1] = Label(MainLabel) /\ m > 0)
    PROVE  FunctionsLabelled'
  <1>1. /\ Len(code) \in Nat /\ Len(code') = Len(code) + m
        /\ \A i \in 1..Len(code) : code[i].op # "pushscope" => code'[i] = code[i]
    BY StateFacts DEF Kept
  <1>2. 1..Len(code) \subseteq 1..Len(code') /\ (m > 0 => Len(code) + 1 \in 1..Len(code'))
    BY <1>1
  <1>3. \A l : Label(l).op # "pushscope"
    BY DEF Label
  <1>4. \A l : (\E i \in 1..Len(code) : code[i] = Label(l)) => \E i \in 1..Len(code') : code'[i] = Label(l)
    BY <1>1, <1>2, <1>3
  <1> QED
    BY <1>2, <1>4 DEF FunctionsLabelled

-----------------------------------------------------------------------------
(* The layout invariant.                                                   *)

LayoutParts ==
    HomesInv /\ LevelInv /\ ClosedScopesSized /\ QuietInv /\ ParamsInFront /\ FunctionsLabelled

LEMMA LayoutSplit == LayoutInv <=> LayoutParts
  BY DEF LayoutInv, LayoutParts, HomesInv, LevelInv, QuietInv

LEMMA StraightLayout ==
    ASSUME JumpInv, ScopeInv, LayoutParts, NEW m \in 1..2, Straightens(m)
    PROVE  LayoutParts'
  <1> USE DEF LayoutParts
  <1>1. TypeOK /\ m \in Nat /\ Straight(m) /\ Kept(m)
    BY DEF JumpInv, Straightens, Straight
  <1>2. /\ Depth > 0 /\ Depth' = Depth /\ scopePushInstr' = scopePushInstr
        /\ functions' = functions /\ stage' = stage
        /\ \A d \in 1..m : home'[Len(code) + d] = Innermost
    BY <1>1 DEF Straight, Depth
  <1>3. \A d \in 1..m : /\ ~StartLabel(code'[Len(code) + d]) /\ ~FuncStart(code'[Len(code) + d])
                        /\ code'[Len(code) + d].op \notin {"locale", "pushscope", "param"}
    BY DEF Straightens, Plain, PlainOps, StartLabel, FuncStart, IsLabel
  <1>4. Innermost # 0
    BY <1>1, <1>2, StateFacts
  <1>5. HomesInv'
    BY <1>1, StraightHomes
  <1>6. LevelInv'
    BY <1>1, <1>2, <1>3, <1>4, InsideLevels
  <1>7. ClosedScopesSized'
    <2>1. DeclaresHere(m)
      BY <1>2 DEF DeclaresHere
    <2> QED
      BY <1>1, <1>2, <1>3, <2>1, SizedStep
  <1>8. QuietInv'
    BY <1>1, StraightQuiet
  <1>9. ParamsInFront'
    BY <1>1, <1>3, NoParamsStep
  <1>10. FunctionsLabelled'
    BY <1>1, <1>2, LabelledStep
  <1> QED
    BY <1>5, <1>6, <1>7, <1>8, <1>9, <1>10

LEMMA ClosingLayout ==
    ASSUME JumpInv, ScopeInv, LayoutParts,
           EndFunction \/ EndMain \/ ScopeEnd \/ IfEnd \/ WhileEnd
    PROVE  LayoutParts'
  <1> USE DEF LayoutParts
  <1>0. TypeOK
    BY DEF JumpInv
  <1>1. PICK m \in 1..3 : Closes(m)
    BY EndingCloses
  <1>2. /\ m \in Nat /\ Kept(m) /\ Dropped /\ Depth > 0 /\ (m > 1 => Depth > 1)
        /\ code'[Innermost] = PushScope(StackSize)
        /\ code'[Len(code) + 1].op = "popscope" /\ home'[Len(code) + 1] = Innermost
        /\ \A d \in 1..m : d # 1 => Plain(code'[Len(code) + d]) /\ home'[Len(code) + d] = Around
    BY <1>1 DEF Closes, PopScope
  <1>3. /\ Innermost # 0 /\ Depth \in Nat /\ Depth' = Depth - 1
        /\ \A j \in 1..Depth' : scopePushInstr'[j] = scopePushInstr[j]
    BY <1>0, <1>2, StateFacts DEF Dropped
  <1>4. \A d \in 1..m : d # 1 => Around # 0
    <2>1. \A d \in 1..m : d # 1 => m > 1
      OBVIOUS
    <2>2. Depth > 1 => Around # 0
      <3>1. Depth > 1 => Around = scopePushInstr[Depth - 1] /\ Depth - 1 \in 1..Depth
        BY <1>3 DEF Around
      <3> QED
        BY <1>0, <3>1 DEF TypeOK
    <2> QED
      BY <1>2, <2>1, <2>2
  <1>5. \A d \in 1..m : /\ ~StartLabel(code'[Len(code) + d]) /\ ~FuncStart(code'[Len(code) + d])
                        /\ code'[Len(code) + d].op \notin {"locale", "pushscope", "param", "declare"}
                        /\ home'[Len(code) + d] # 0
    <2>1. \A i : Plain(i) => /\ ~StartLabel(i) /\ ~FuncStart(i)
                             /\ i.op \notin {"locale", "pushscope", "param", "declare"}
      BY DEF Plain, PlainOps, StartLabel, FuncStart
    <2>2. \A i : i.op = "popscope" => ~StartLabel(i) /\ ~FuncStart(i)
      BY DEF StartLabel, FuncStart, IsLabel
    <2> QED
      BY <1>2, <1>3, <1>4, <2>1, <2>2
  <1>6. HomesInv'
    BY <1>0, <1>1, ClosingHomes
  <1>7. LevelInv'
    BY <1>0, <1>2, <1>5, InsideLevels
  <1>8. ClosedScopesSized'
    <2>1. DeclaresHere(m) /\ DeclaredNext(Innermost) = DeclaredIn(Innermost)
      BY <1>0, <1>2, <1>5, NoDeclares
    <2>2. \A k \in 1..Depth :
             \/ k \in 1..Depth' /\ scopePushInstr'[k] = scopePushInstr[k]
             \/ /\ k = Depth /\ code'[Innermost] = PushScope(StackSize)
                /\ DeclaredNext(Innermost) = DeclaredIn(Innermost)
      BY <1>2, <1>3, <2>1
    <2> QED
      BY <1>2, <1>5, <2>1, <2>2, SizedStep
  <1>9. QuietInv'
    BY ClosingQuiet
  <1>10. ParamsInFront'
    BY <1>0, <1>2, <1>5, NoParamsStep
  <1>11. FunctionsLabelled'
    <2>1. /\ functions' = functions
          /\ stage' \in {"main", "done"} => stage \in {"main", "done"}
      <3>1. EndFunction => functions' = functions /\ stage' = "between"
        BY DEF EndFunction
      <3>2. EndMain => functions' = functions /\ stage = "main"
        <4>1. EndMain => Depth = 1 /\ frames[Depth].kind = "main" /\ functions' = functions
          BY <1>0, TopStanding, TopFrame DEF EndMain, JumpInv
        <4> QED
          BY <4>1 DEF JumpInv, FramesNest
      <3>3. ScopeEnd \/ IfEnd \/ WhileEnd => functions' = functions /\ stage' = stage
        BY DEF ScopeEnd, IfEnd, WhileEnd
      <3> QED
        BY <3>1, <3>2, <3>3
    <2> QED
      BY <1>0, <1>2, <2>1, LabelledStep
  <1> QED
    BY <1>6, <1>7, <1>8, <1>9, <1>10, <1>11

LEMMA OpeningLayout ==
    ASSUME JumpInv, ScopeInv, LayoutParts, IfBegin \/ WhileBegin \/ ScopeBegin
    PROVE  LayoutParts'
  <1> USE DEF LayoutParts
  <1>0. TypeOK
    BY DEF JumpInv
  <1>1. /\ Depth > 0
        /\ \E m \in 1..3 : \E fr : Opens(m, fr) /\ \A d \in 1..m : d # m => Plain(code'[Len(code) + d])
    BY <1>0, BeginningOpens
  <1>m. PICK m \in 1..3 : \E f : Opens(m, f) /\ \A d \in 1..m : d # m => Plain(code'[Len(code) + d])
    BY <1>1
  <1>2. PICK fr : Opens(m, fr) /\ \A d \in 1..m : d # m => Plain(code'[Len(code) + d])
    BY <1>m
  <1>3. /\ m \in Nat /\ m \in 1..m /\ Kept(m) /\ Opened(Len(code) + m, fr)
        /\ code'[Len(code) + m].op = "pushscope"
        /\ \A d \in 1..m : home'[Len(code) + d] = Innermost
    BY <1>2 DEF Opens, PushScope
  <1>4. /\ Innermost # 0 /\ Depth \in Nat /\ Depth' = Depth + 1
        /\ \A j \in 1..Depth : scopePushInstr'[j] = scopePushInstr[j] /\ j \in 1..Depth'
        /\ scopePushInstr'[Depth'] = Len(code) + m /\ Depth' \in 1..Depth'
    <2>1. Depth > 0
      BY <1>1
    <2> QED
      BY <1>0, <1>3, <2>1, StateFacts DEF Opened
  <1>5. /\ \A d \in 1..m : /\ ~StartLabel(code'[Len(code) + d]) /\ ~FuncStart(code'[Len(code) + d])
                           /\ code'[Len(code) + d].op \notin {"locale", "param", "declare"}
        /\ \A d \in 1..m : d # m => code'[Len(code) + d].op # "pushscope"
    <2>1. \A i : Plain(i) => /\ ~StartLabel(i) /\ ~FuncStart(i)
                             /\ i.op \notin {"locale", "pushscope", "param", "declare"}
      BY DEF Plain, PlainOps, StartLabel, FuncStart
    <2>2. \A i : i.op = "pushscope" => ~StartLabel(i) /\ ~FuncStart(i)
      BY DEF StartLabel, FuncStart, IsLabel
    <2> QED
      BY <1>2, <1>3, <2>1, <2>2
  <1>6. HomesInv'
    BY <1>0, <1>2, OpeningHomes
  <1>7. LevelInv'
    BY <1>0, <1>3, <1>4, <1>5, InsideLevels
  <1>8. ClosedScopesSized'
    <2>1. DeclaresHere(m)
      BY <1>0, <1>3, <1>5, NoDeclares
    <2>2. \A d \in 1..m : code'[Len(code) + d].op = "pushscope" =>
              \E k \in 1..Depth' : scopePushInstr'[k] = Len(code) + d
      BY <1>4, <1>5
    <2> QED
      BY <1>3, <1>4, <2>1, <2>2, SizedStep
  <1>9. QuietInv'
    BY OpeningQuiet
  <1>10. ParamsInFront'
    BY <1>0, <1>3, <1>5, NoParamsStep
  <1>11. FunctionsLabelled'
    <2>1. functions' = functions /\ stage' = stage
      BY DEF IfBegin, WhileBegin, ScopeBegin
    <2> QED
      BY <1>0, <1>3, <2>1, LabelledStep
  <1> QED
    BY <1>6, <1>7, <1>8, <1>9, <1>10, <1>11

LEMMA MainLayout ==
    ASSUME JumpInv, ScopeInv, LayoutParts, BeginMain
    PROVE  LayoutParts'
  <1> USE DEF LayoutParts
  <1>0. TypeOK
    BY DEF JumpInv
  <1>1. /\ Opens(3, Frame("main", 0)) /\ Depth = 0
        /\ code'[Len(code) + 1] = Label(MainLabel) /\ code'[Len(code) + 2] = Simple("locale")
    BY MainOpens
  <1>2. /\ 3 \in Nat /\ 3 \in 1..3 /\ Kept(3) /\ Opened(Len(code) + 3, Frame("main", 0))
        /\ code'[Len(code) + 3].op = "pushscope"
    BY <1>1 DEF Opens, PushScope
  <1>3. Depth' = 1 /\ scopePushInstr'[1] = Len(code) + 3
    BY <1>1, <1>2 DEF Opened
  <1>4. \A d \in 1..3 : d = 1 \/ d = 2 \/ d = 3
    OBVIOUS
  <1>5. /\ \A d \in 1..3 : ~FuncStart(code'[Len(code) + d]) /\ code'[Len(code) + d].op \notin {"param", "declare"}
        /\ \A d \in 1..3 : d # 3 => code'[Len(code) + d].op # "pushscope"
    <2>1. /\ code'[Len(code) + 1].op = "label" /\ ~FuncStart(code'[Len(code) + 1])
          /\ code'[Len(code) + 2].op = "locale"
      <3>1. ~FuncStart(Label(MainLabel))
        BY PlainFacts
      <3>2. Label(MainLabel).op = "label" /\ Simple("locale").op = "locale"
        BY DEF Label, Simple
      <3> QED
        BY <1>1, <3>1, <3>2
    <2>2. \A i : i.op \in {"locale", "pushscope"} => ~FuncStart(i)
      BY DEF FuncStart, IsLabel
    <2> QED
      BY <1>2, <1>4, <2>1, <2>2
  <1>6. HomesInv'
    BY <1>0, <1>1, <1>2, OpeningHomes
  <1>7. LevelInv'
    BY <1>0, <1>1, MainLevels
  <1>8. ClosedScopesSized'
    <2>1. DeclaresHere(3)
      BY <1>0, <1>2, <1>5, NoDeclares
    <2>2. \A d \in 1..3 : code'[Len(code) + d].op = "pushscope" =>
              \E k \in 1..Depth' : scopePushInstr'[k] = Len(code) + d
      BY <1>3, <1>5
    <2>3. 1..Depth = {}
      BY <1>1
    <2> QED
      BY <1>2, <2>1, <2>2, <2>3, SizedStep
  <1>9. QuietInv'
    BY OpeningQuiet
  <1>10. ParamsInFront'
    BY <1>0, <1>2, <1>5, NoParamsStep
  <1>11. FunctionsLabelled'
    <2>1. functions' = functions
      BY DEF BeginMain
    <2> QED
      BY <1>0, <1>1, <1>2, <2>1, LabelledStep
  <1> QED
    BY <1>6, <1>7, <1>8, <1>9, <1>10, <1>11

LEMMA TurningLayout ==
    ASSUME JumpInv, ScopeInv, LayoutParts, IfElse
    PROVE  LayoutParts'
  <1> USE DEF LayoutParts
  <1>0. TypeOK
    BY DEF JumpInv
  <1>1. Turns
    BY IfElseTurns
  <1>2. /\ 4 \in Nat /\ Kept(4) /\ Depth > 1 /\ Depth \in Nat /\ Depth' = Depth
        /\ code'[Innermost] = PushScope(StackSize)
        /\ \A j \in 1..Depth : scopePushInstr'[j] = IF j = Depth THEN Len(code) + 4
                                                    ELSE scopePushInstr[j]
        /\ code'[Len(code) + 1].op = "popscope" /\ home'[Len(code) + 1] = Innermost
        /\ Plain(code'[Len(code) + 2]) /\ home'[Len(code) + 2] = Around
        /\ Plain(code'[Len(code) + 3]) /\ home'[Len(code) + 3] = Around
        /\ code'[Len(code) + 4].op = "pushscope" /\ home'[Len(code) + 4] = Around
    BY <1>0, <1>1, StateFacts DEF Turns, PushScope, PopScope
  <1>3. Innermost # 0 /\ Around # 0
    <2>1. Around = scopePushInstr[Depth - 1] /\ Depth - 1 \in 1..Depth /\ Depth > 0
      BY <1>2 DEF Around
    <2> QED
      BY <1>0, <2>1, StateFacts DEF TypeOK
  <1>4. \A d \in 1..4 : d = 1 \/ d = 2 \/ d = 3 \/ d = 4
    OBVIOUS
  <1>5. /\ \A d \in 1..4 : /\ ~StartLabel(code'[Len(code) + d]) /\ ~FuncStart(code'[Len(code) + d])
                           /\ code'[Len(code) + d].op \notin {"locale", "param", "declare"}
                           /\ home'[Len(code) + d] # 0
        /\ \A d \in 1..4 : d # 4 => code'[Len(code) + d].op # "pushscope"
    <2>1. \A i : Plain(i) => /\ ~StartLabel(i) /\ ~FuncStart(i)
                             /\ i.op \notin {"locale", "pushscope", "param", "declare"}
      BY DEF Plain, PlainOps, StartLabel, FuncStart
    <2>2. \A i : i.op \in {"pushscope", "popscope"} => ~StartLabel(i) /\ ~FuncStart(i)
      BY DEF StartLabel, FuncStart, IsLabel
    <2> QED
      BY <1>2, <1>3, <1>4, <2>1, <2>2
  <1>6. HomesInv'
    BY <1>0, <1>1, TurningHomes
  <1>7. LevelInv'
    BY <1>0, <1>2, <1>5, InsideLevels
  <1>8. ClosedScopesSized'
    <2>1. DeclaresHere(4) /\ DeclaredNext(Innermost) = DeclaredIn(Innermost)
      BY <1>0, <1>2, <1>5, NoDeclares
    <2>2. \A k \in 1..Depth :
             \/ k \in 1..Depth' /\ scopePushInstr'[k] = scopePushInstr[k]
             \/ /\ k = Depth /\ code'[Innermost] = PushScope(StackSize)
                /\ DeclaredNext(Innermost) = DeclaredIn(Innermost)
      BY <1>2, <2>1
    <2>3. \A d \in 1..4 : code'[Len(code) + d].op = "pushscope" =>
              \E k \in 1..Depth' : scopePushInstr'[k] = Len(code) + d
      <3>1. Depth \in 1..Depth' /\ scopePushInstr'[Depth] = Len(code) + 4
        BY <1>2
      <3> QED
        BY <1>5, <3>1
    <2> QED
      BY <1>2, <2>1, <2>2, <2>3, SizedStep
  <1>9. QuietInv'
    BY TurningQuiet
  <1>10. ParamsInFront'
    BY <1>0, <1>2, <1>5, NoParamsStep
  <1>11. FunctionsLabelled'
    <2>1. functions' = functions /\ stage' = stage
      BY DEF IfElse
    <2> QED
      BY <1>0, <1>2, <2>1, LabelledStep
  <1> QED
    BY <1>6, <1>7, <1>8, <1>9, <1>10, <1>11

LEMMA FunctionLayout ==
    ASSUME JumpInv, ScopeInv, LayoutParts, NEW f \in Funcs, NEW ps \in ParamLists,
           BeginFunction(f, ps)
    PROVE  LayoutParts'
  <1> USE DEF LayoutParts
  <1>0. TypeOK
    BY DEF JumpInv
  <1> DEFINE n == Len(ps)
             m == 2 + 2 * n
  <1>1. /\ FunctionOpens(n)
        /\ code'[Len(code) + 1] = Label(FuncLabel(f)) /\ functions' = functions \cup {f}
        /\ stage = "between" /\ stage' = "func" /\ f \notin functions
    BY BeginFunctionOpens DEF BeginFunction
  <1> HIDE DEF n
  <1>2. /\ n \in Nat /\ m \in Nat /\ m > 0 /\ Kept(m) /\ Depth = 0 /\ Depth' = 1
        /\ scopePushInstr'[1] = Len(code) + 2
        /\ code'[Len(code) + 1].op = "label"
        /\ \A i \in 1..(2 * n) : /\ code'[Len(code) + 2 + i].op # "pushscope"
                                 /\ home'[Len(code) + 2 + i] = Len(code) + 2
    <2>1. /\ n \in Nat /\ m \in Nat /\ m > 0 /\ Kept(m) /\ Depth = 0 /\ Depth' = 1
          /\ scopePushInstr'[1] = Len(code) + 2
          /\ code'[Len(code) + 1].op = "label"
      BY <1>1 DEF FunctionOpens, FuncStart, IsLabel
    <2>2. ASSUME NEW i \in 1..(2 * n)
          PROVE  /\ code'[Len(code) + 2 + i].op # "pushscope"
                 /\ home'[Len(code) + 2 + i] = Len(code) + 2
      BY <1>1 DEF FunctionOpens
    <2> QED
      BY <2>1, <2>2
  <1>3. code'[Len(code) + 2].op = "pushscope"
    BY <1>1 DEF FunctionOpens, PushScope
  <1>4. ASSUME NEW d \in 1..m
        PROVE  /\ code'[Len(code) + d].op = "pushscope" => d = 2
               /\ code'[Len(code) + d].op = "declare" => home'[Len(code) + d] > Len(code)
    <2>1. CASE d = 1
      BY <1>2, <2>1
    <2>2. CASE d = 2
      BY <1>3, <2>2
    <2>3. CASE d > 2
      <3>1. d - 2 \in 1..(2 * n) /\ Len(code) + d = Len(code) + 2 + (d - 2)
            /\ Len(code) + 2 > Len(code)
        BY <1>0, <1>2, <2>3, StateFacts
      <3> QED
        BY <1>2, <3>1
    <2> QED
      BY <2>1, <2>2, <2>3
  <1>5. HomesInv'
    BY <1>0, <1>1, FunctionHomes
  <1>6. LevelInv'
    BY <1>0, <1>1, FunctionLevels
  <1>7. ClosedScopesSized'
    <2>1. DeclaresHere(m)
      BY <1>4 DEF DeclaresHere
    <2>2. \A d \in 1..m : code'[Len(code) + d].op = "pushscope" =>
              \E k \in 1..Depth' : scopePushInstr'[k] = Len(code) + d
      BY <1>2, <1>4
    <2>3. 1..Depth = {}
      BY <1>2
    <2> HIDE DEF m
    <2> QED
      BY <1>2, <2>1, <2>2, <2>3, SizedStep
  <1>8. QuietInv'
    BY <1>1, FunctionQuiet
  <1>9. ParamsInFront'
    BY <1>0, <1>1, FunctionParams
  <1>10. FunctionsLabelled'
    <2> HIDE DEF m
    <2> QED
      BY <1>0, <1>1, <1>2, LabelledStep
  <1> QED
    BY <1>5, <1>6, <1>7, <1>8, <1>9, <1>10

LEMMA InitLayout == Init => LayoutInv
  BY DEF Init, LayoutInv, HomesFollow, HomesArePushes, FunctionLevel, FunctionsOpen,
         ClosedScopesSized, JumpsPassNoDeclare, OwedJumpsQuiet, ParamsInFront, FunctionsLabelled,
         Depth

LEMMA StayLayout == LayoutInv /\ UNCHANGED vars => LayoutInv'
  <1> SUFFICES ASSUME LayoutInv, UNCHANGED vars PROVE LayoutInv'
    OBVIOUS
  <1>1. /\ code' = code /\ home' = home /\ scopePushInstr' = scopePushInstr /\ frames' = frames
        /\ functions' = functions /\ stage' = stage
    BY DEF vars
  <1>2. /\ Depth' = Depth /\ Innermost' = Innermost
        /\ \A k : Outside(k)' = Outside(k)
    BY <1>1 DEF Depth, Innermost, Outside
  <1>4. HomesFollow' /\ HomesArePushes'
    BY <1>1, <1>2 DEF LayoutInv, HomesFollow, HomesArePushes, NextHome
  <1>5. FunctionLevel' /\ FunctionsOpen' /\ FunctionsLabelled'
    BY <1>1 DEF LayoutInv, FunctionLevel, FunctionsOpen, FunctionsLabelled
  <1>6. ClosedScopesSized'
    BY <1>1, <1>2 DEF LayoutInv, ClosedScopesSized, DeclaredIn
  <1>7. JumpsPassNoDeclare' /\ OwedJumpsQuiet'
    BY <1>1, <1>2 DEF LayoutInv, JumpsPassNoDeclare, OwedJumpsQuiet, QuietBetween
  <1>8. ParamsInFront'
    BY ZenonT(60), <1>1 DEF LayoutInv, ParamsInFront, ParamsAt
  <1> QED
    BY <1>4, <1>5, <1>6, <1>7, <1>8 DEF LayoutInv

LEMMA NextLayout == JumpInv /\ ScopeInv /\ LayoutInv /\ [Next]_vars => LayoutInv'
  <1> SUFFICES ASSUME JumpInv, ScopeInv, LayoutInv, [Next]_vars PROVE LayoutInv'
    OBVIOUS
  <1>1. TypeOK /\ LayoutParts
    BY LayoutSplit DEF JumpInv
  <1>2. CASE UNCHANGED vars
    BY <1>2, StayLayout
  <1>3. CASE Next
    <2> SUFFICES LayoutParts'
      BY DEF LayoutInv, LayoutParts, HomesInv, LevelInv, QuietInv
    <2>1. CASE \E f \in Funcs, ps \in ParamLists : BeginFunction(f, ps)
      BY <1>1, <2>1, FunctionLayout
    <2>2. CASE EndFunction \/ EndMain \/ ScopeEnd \/ IfEnd \/ WhileEnd
      BY <1>1, <2>2, ClosingLayout
    <2>3. CASE IfBegin \/ WhileBegin \/ ScopeBegin
      BY <1>1, <2>3, OpeningLayout
    <2>4. CASE BeginMain
      BY <1>1, <2>4, MainLayout
    <2>5. CASE \/ \E kind \in StmtKinds : Statement(kind)
               \/ PrintLn
               \/ ReturnStmt
               \/ \E v \in Names : DeclStmt(v)
      <3>1. PICK m \in 1..2 : Straightens(m)
        BY <1>1, <2>5, StatementStraightens
      <3> QED
        BY <1>1, <3>1, StraightLayout
    <2>6. CASE IfElse
      BY <1>1, <2>6, TurningLayout
    <2> QED
      BY <1>3, <2>1, <2>2, <2>3, <2>4, <2>5, <2>6 DEF Next
  <1> QED
    BY <1>2, <1>3

\* However a program was built, its code is laid out this way: scopes nest as
\* the text does, a function is a label, a PushScope and its parameters' moves
\* first, a scope that is closed has the bytes of its names, and no declaration
\* stands between a jump and its label in their scope.
THEOREM LayoutInvariant == Spec => []LayoutInv
  BY InitLayout, NextLayout, JumpInvariant, ScopeInvariant, PTL DEF Spec
-----------------------------------------------------------------------------
(* Emitted code is final.                                                  *)

FinalAt(i) ==
    \/ code'[i] = code[i]
    \/ /\ i = Innermost /\ code'[i].op = "pushscope"
       /\ i \notin {scopePushInstr'[k] : k \in 1..Len(scopePushInstr')}

LEMMA EmitFinal ==
    ASSUME TypeOK, NEW instrs \in Seq(Instrs), Emit(instrs)
    PROVE  \A i \in 1..Len(code) : FinalAt(i)
  BY EmitFacts DEF FinalAt

LEMMA StatementFinal ==
    ASSUME TypeOK, \/ \E kind \in StmtKinds : Statement(kind)
                   \/ PrintLn
                   \/ ReturnStmt
                   \/ \E v \in Names : DeclStmt(v)
    PROVE  \A i \in 1..Len(code) : FinalAt(i)
  <1>1. ASSUME NEW kind \in SimpleKinds, Emit(<<Simple(kind)>>)
        PROVE  \A i \in 1..Len(code) : FinalAt(i)
    <2>1. <<Simple(kind)>> \in Seq(Instrs)
      BY InstrTypes
    <2> QED
      BY <1>1, <2>1, EmitFinal
  <1>2. ASSUME NEW kind \in StmtKinds, Statement(kind) PROVE \A i \in 1..Len(code) : FinalAt(i)
    <2>1. kind \in SimpleKinds
      BY StmtKindsAssumption DEF SimpleKinds
    <2> QED
      BY <1>1, <1>2, <2>1 DEF Statement
  <1>3. ASSUME ReturnStmt PROVE \A i \in 1..Len(code) : FinalAt(i)
    <2>1. "return" \in SimpleKinds
      BY DEF SimpleKinds
    <2> QED
      BY <1>1, <1>3, <2>1 DEF ReturnStmt
  <1>4. ASSUME PrintLn PROVE \A i \in 1..Len(code) : FinalAt(i)
    <2> DEFINE two == <<Simple("print"), Simple("print")>>
    <2>1. "print" \in SimpleKinds
      BY DEF SimpleKinds
    <2>2. two \in Seq(Instrs)
      BY <2>1, InstrTypes
    <2>3. Emit(two)
      BY <1>4 DEF PrintLn
    <2> HIDE DEF two
    <2> QED
      BY <2>2, <2>3, EmitFinal
  <1>5. ASSUME NEW v \in Names, DeclStmt(v) PROVE \A i \in 1..Len(code) : FinalAt(i)
    <2> DEFINE two == <<Declare(v), Simple("move")>>
    <2>1. two \in Seq(Instrs)
      BY DEF Declare, Simple, Instrs
    <2>2. Emit(two)
      BY <1>5 DEF DeclStmt
    <2> HIDE DEF two
    <2> QED
      BY <2>1, <2>2, EmitFinal
  <1> QED
    BY <1>2, <1>3, <1>4, <1>5

LEMMA BeginningFinal ==
    ASSUME TypeOK, IfBegin \/ WhileBegin \/ ScopeBegin
    PROVE  \A i \in 1..Len(code) : FinalAt(i)
  <1>1. currentCounter \in Nat
    BY DEF TypeOK
  <1>2. \A kind \in ControlKinds : ControlLabel(kind, currentCounter) \in CodeLabels
    BY <1>1 DEF ControlLabel, CodeLabels
  <1>3. {"else_begin", "while_begin", "while_end"} \subseteq ControlKinds
    BY DEF ControlKinds
  <1>4. CASE IfBegin
    <2> DEFINE two == <<JmpCond(ControlLabel("else_begin", currentCounter)), PushScope(0)>>
    <2>1. two \in Seq(Instrs)
      <3>1. JmpCond(ControlLabel("else_begin", currentCounter)) \in Instrs
        BY <1>2, <1>3, InstrTypes
      <3>2. PushScope(0) \in Instrs
        BY InstrTypes
      <3> QED
        BY <3>1, <3>2
    <2>2. Emit(two)
      BY <1>4 DEF IfBegin
    <2> HIDE DEF two
    <2> QED
      BY <2>1, <2>2, EmitFinal
  <1>5. CASE WhileBegin
    <2> DEFINE three == <<Label(ControlLabel("while_begin", currentCounter)),
                          JmpCond(ControlLabel("while_end", currentCounter)), PushScope(0)>>
    <2>1. three \in Seq(Instrs)
      <3>1. /\ Label(ControlLabel("while_begin", currentCounter)) \in Instrs
            /\ JmpCond(ControlLabel("while_end", currentCounter)) \in Instrs
        BY <1>2, <1>3, InstrTypes
      <3>2. PushScope(0) \in Instrs
        BY InstrTypes
      <3> QED
        BY <3>1, <3>2
    <2>2. Emit(three)
      BY <1>5 DEF WhileBegin
    <2> HIDE DEF three
    <2> QED
      BY <2>1, <2>2, EmitFinal
  <1>6. CASE ScopeBegin
    <2>1. <<PushScope(0)>> \in Seq(Instrs)
      BY InstrTypes
    <2>2. Emit(<<PushScope(0)>>)
      BY <1>6 DEF ScopeBegin
    <2> QED
      BY <2>1, <2>2, EmitFinal
  <1> QED
    BY <1>4, <1>5, <1>6

\* A step that appends to the code while no scope is open, or replaces the
\* innermost scope, patches nothing that stays open.
LEMMA PatchedFinal ==
    ASSUME TypeOK, NEW m \in Nat, Kept(m),
           Innermost = 0 \/ \A k \in 1..Depth' : scopePushInstr'[k] # Innermost
    PROVE  \A i \in 1..Len(code) : FinalAt(i)
  <1> SUFFICES ASSUME NEW i \in 1..Len(code) PROVE FinalAt(i)
    OBVIOUS
  <1>1. CASE i # Innermost
    BY <1>1 DEF Kept, FinalAt
  <1>2. CASE i = Innermost
    <2>1. i # 0
      OBVIOUS
    <2>2. code[i].op = "pushscope"
      <3>1. Depth > 0 /\ Depth \in Nat
        BY <1>2, <2>1, StateFacts DEF Innermost
      <3>2. Depth \in 1..Depth /\ i = scopePushInstr[Depth]
        BY <1>2, <3>1 DEF Innermost
      <3> QED
        BY <3>2 DEF TypeOK
    <2>3. code'[i].op = "pushscope"
      BY <2>2 DEF Kept
    <2>4. Len(scopePushInstr') = Depth'
      BY DEF Depth
    <2> QED
      BY <1>2, <2>1, <2>3, <2>4 DEF FinalAt
  <1> QED
    BY <1>1, <1>2

LEMMA NextFinal == JumpInv /\ ScopeInv /\ [Next]_vars => \A i \in 1..Len(code) : FinalAt(i)
  <1> SUFFICES ASSUME JumpInv, ScopeInv, [Next]_vars PROVE \A i \in 1..Len(code) : FinalAt(i)
    OBVIOUS
  <1>1. TypeOK /\ Depth \in Nat
    BY StateFacts DEF JumpInv
  <1>2. CASE UNCHANGED vars
    BY <1>2 DEF vars, FinalAt
  <1>3. CASE Next
    <2>1. CASE \E f \in Funcs, ps \in ParamLists : BeginFunction(f, ps)
      <3>1. PICK f \in Funcs, ps \in ParamLists : BeginFunction(f, ps)
        BY <2>1
      <3>2. FunctionOpens(Len(ps)) /\ stage = "between" /\ Len(ps) \in Nat
        BY <3>1, BeginFunctionOpens, ParamListsAreSeqs, LenProperties
      <3>3. Kept(2 + 2 * Len(ps)) /\ Innermost = 0
        BY <3>2 DEF FunctionOpens, JumpInv, FramesNest, Innermost
      <3> QED
        BY <1>1, <3>2, <3>3, PatchedFinal
    <2>2. CASE EndFunction \/ EndMain \/ ScopeEnd \/ IfEnd \/ WhileEnd
      <3>1. PICK m \in 1..3 : Closes(m)
        BY <2>2, EndingCloses
      <3>2. Kept(m) /\ m \in Nat /\ Depth > 0 /\ Depth' = Depth - 1
            /\ \A k \in 1..Depth' : scopePushInstr'[k] = scopePushInstr[k]
        BY <3>1 DEF Closes, Dropped
      <3>3. Innermost = scopePushInstr[Depth]
        BY <3>2 DEF Innermost
      <3>4. \A k \in 1..Depth' : scopePushInstr'[k] # Innermost
        <4>1. \A k \in 1..Depth' : k \in 1..Depth /\ k < Depth /\ Depth \in 1..Depth
          BY <1>1, <3>2
        <4>2. \A k \in 1..Depth : scopePushInstr[k] \in Nat
          BY <1>1 DEF TypeOK
        <4>3. \A k \in 1..Depth' : scopePushInstr[k] < scopePushInstr[Depth]
          BY <4>1 DEF ScopeInv
        <4> QED
          BY <3>2, <3>3, <4>1, <4>2, <4>3
      <3> QED
        BY <1>1, <3>2, <3>4, PatchedFinal
    <2>3. CASE IfBegin \/ WhileBegin \/ ScopeBegin
      BY <1>1, <2>3, BeginningFinal
    <2>4. CASE BeginMain
      <3>1. Depth = 0 /\ Opens(3, Frame("main", 0))
        BY <2>4, MainOpens
      <3>2. Kept(3) /\ Innermost = 0
        BY <3>1 DEF Opens, Innermost
      <3> QED
        BY <1>1, <3>2, PatchedFinal
    <2>5. CASE \/ \E kind \in StmtKinds : Statement(kind)
               \/ PrintLn
               \/ ReturnStmt
               \/ \E v \in Names : DeclStmt(v)
      BY <1>1, <2>5, StatementFinal
    <2>6. CASE IfElse
      <3>1. Turns
        BY <2>6, IfElseTurns
      <3>2. Kept(4) /\ Depth > 1 /\ Depth' = Depth /\ Innermost = scopePushInstr[Depth]
        BY <3>1 DEF Turns, Innermost
      <3>3. ASSUME NEW k \in 1..Depth' PROVE scopePushInstr'[k] # Innermost
        <4>1. k \in 1..Depth /\ Depth \in 1..Depth
          BY <1>1, <3>2
        <4>2. scopePushInstr[k] \in Nat /\ scopePushInstr[Depth] \in 1..Len(code)
          BY <1>1, <4>1 DEF TypeOK
        <4>3. scopePushInstr'[k] = IF k = Depth THEN Len(code) + 4 ELSE scopePushInstr[k]
          BY <3>1, <4>1 DEF Turns
        <4>4. CASE k = Depth
          BY <1>1, <3>2, <4>2, <4>3, <4>4, StateFacts
        <4>5. CASE k # Depth
          <5>1. scopePushInstr[k] < scopePushInstr[Depth]
            BY <1>1, <4>1, <4>5 DEF ScopeInv
          <5> QED
            BY <3>2, <4>2, <4>3, <4>5, <5>1
        <4> QED
          BY <4>4, <4>5
      <3> QED
        BY <1>1, <3>2, <3>3, PatchedFinal
    <2> QED
      BY <1>3, <2>1, <2>2, <2>3, <2>4, <2>5, <2>6 DEF Next
  <1> QED
    BY <1>2, <1>3

\* addInstr only appends: nothing that was emitted changes later, but for the
\* size of a scope, which popScope sets when the scope is closed for good.
THEOREM CodeIsFinal == Spec => EmittedCodeIsFinal
  <1>1. JumpInv /\ ScopeInv /\ [Next]_vars
          => [\A i \in 1..Len(code) :
                code'[i] = code[i] \/ (i = Innermost /\ code'[i].op = "pushscope"
                   /\ i \notin {scopePushInstr'[k] : k \in 1..Len(scopePushInstr')})]_vars
    BY NextFinal DEF FinalAt
  <1> QED
    BY <1>1, JumpInvariant, ScopeInvariant, PTL DEF Spec, EmittedCodeIsFinal
-----------------------------------------------------------------------------
(* What may be declared twice.                                             *)

Declares(i) == code[i].op = "declare"

\* A declaration is followed by the move of its first value.
DeclaresMoved ==
    \A i \in 1..Len(code) :
        Declares(i) => i < Len(code) /\ code[i + 1] \in {Simple("move"), Simple("param")}

\* Of two declarations of a name in one scope, the earlier is a parameter's.
RepeatsAreParams ==
    \A i, j \in 1..Len(code) :
        /\ Declares(i) /\ Declares(j) /\ code[i].var = code[j].var
        /\ home[i] = home[j] /\ i < j
        => code[i + 1] = Simple("param")

DeclareInv == DeclaresMoved /\ RepeatsAreParams

\* Steps that declare nothing.
LEMMA NothingDeclared ==
    ASSUME TypeOK, DeclareInv, NEW m \in Nat, Kept(m),
           \A d \in 1..m : code'[Len(code) + d].op # "declare"
    PROVE  DeclareInv'
  <1>1. /\ Len(code) \in Nat /\ Len(code') = Len(code) + m
        /\ \A i \in 1..Len(code) : /\ home'[i] = home[i] /\ code'[i].op = code[i].op
                                   /\ code[i].op # "pushscope" => code'[i] = code[i]
    BY StateFacts DEF Kept
  <1>2. \A i \in 1..Len(code') : code'[i].op = "declare"
          => i \in 1..Len(code) /\ code[i].op = "declare" /\ code'[i] = code[i]
    BY ZenonT(60), <1>1, KeptInstr
  <1>3. \A i \in 1..Len(code) : code[i].op = "declare"
          => /\ i < Len(code) /\ i + 1 \in 1..Len(code)
             /\ code'[i + 1] = code[i + 1] /\ code[i + 1] \in {Simple("move"), Simple("param")}
    <2>1. \A kind : Simple(kind).op = kind
      BY DEF Simple
    <2>2. \A i \in 1..Len(code) : code[i].op = "declare"
            => /\ i < Len(code) /\ i + 1 \in 1..Len(code)
               /\ code[i + 1] \in {Simple("move"), Simple("param")}
      BY <1>1 DEF DeclareInv, DeclaresMoved, Declares
    <2> QED
      BY <1>1, <2>1, <2>2
  <1>4. DeclaresMoved'
    BY SMTT(40), <1>1, <1>2, <1>3 DEF DeclaresMoved, Declares
  <1>5. RepeatsAreParams'
    <2> SUFFICES ASSUME NEW i \in 1..Len(code'), NEW j \in 1..Len(code'),
                        code'[i].op = "declare", code'[j].op = "declare",
                        code'[i].var = code'[j].var, home'[i] = home'[j], i < j
                 PROVE  code'[i + 1] = Simple("param")
      BY DEF RepeatsAreParams, Declares
    <2>1. /\ i \in 1..Len(code) /\ j \in 1..Len(code)
          /\ code[i].op = "declare" /\ code[j].op = "declare"
          /\ code[i].var = code[j].var /\ home[i] = home[j]
      BY <1>1, <1>2
    <2>2. code[i + 1] = Simple("param")
      BY <2>1 DEF DeclareInv, RepeatsAreParams, Declares
    <2> QED
      BY <1>3, <2>1, <2>2
  <1> QED
    BY <1>4, <1>5 DEF DeclareInv

\* A declaration in a body: the checker has seen to the other ones.
LEMMA DeclStmtDeclares ==
    ASSUME JumpInv, ScopeInv, DeclareInv, NEW v \in Names, DeclStmt(v)
    PROVE  DeclareInv'
  <1> DEFINE n == Len(code)
  <1>1. TypeOK /\ n \in Nat /\ Len(home) = n
    BY StateFacts DEF JumpInv, TypeOK
  <1>2. /\ Kept(2) /\ Depth > 0
        /\ code'[n + 1] = Declare(v) /\ code'[n + 2] = Simple("move")
        /\ home'[n + 1] = Innermost /\ ~Redeclared(v)
    <2>1. /\ Straight(2)
          /\ code'[n + 1] = Declare(v) /\ code'[n + 2] = Simple("move")
      BY <1>1, DeclStep
    <2>2. home'[n + 1] = Innermost /\ Kept(2) /\ Depth > 0
      BY <2>1 DEF Straight
    <2>3. ~Redeclared(v)
      BY DEF DeclStmt
    <2> QED
      BY <2>1, <2>2, <2>3
  <1>3. /\ Len(code') = n + 2
        /\ \A i \in 1..n : /\ home'[i] = home[i] /\ code'[i].op = code[i].op
                           /\ code[i].op # "pushscope" => code'[i] = code[i]
    BY <1>1, <1>2 DEF Kept
  <1>4. /\ \A kind : Simple(kind).op = kind
        /\ Declare(v).op = "declare" /\ Declare(v).var = v
    BY DEF Simple, Declare
  <1>5. \A i \in 1..Len(code') : code'[i].op = "declare"
          => i = n + 1 \/ (i \in 1..n /\ code[i].op = "declare" /\ code'[i] = code[i])
    <2>1. \A i \in 1..(n + 2) : i \in 1..n \/ i = n + 1 \/ i = n + 2
      BY <1>1
    <2> QED
      BY <1>2, <1>3, <1>4, <2>1
  <1>6. \A i \in 1..n : code[i].op = "declare"
          => /\ i < n /\ i + 1 \in 1..n
             /\ code'[i + 1] = code[i + 1] /\ code[i + 1] \in {Simple("move"), Simple("param")}
    <2>1. \A i \in 1..n : code[i].op = "declare"
            => /\ i < n /\ i + 1 \in 1..n
               /\ code[i + 1] \in {Simple("move"), Simple("param")}
      BY <1>1 DEF DeclareInv, DeclaresMoved, Declares
    <2> QED
      BY <1>3, <1>4, <2>1
  <1> HIDE DEF n
  <1>7. DeclaresMoved'
    <2>1. \A i \in 1..Len(code') : code'[i].op = "declare"
            => i < Len(code') /\ code'[i + 1] \in {Simple("move"), Simple("param")}
      <3> SUFFICES ASSUME NEW i \in 1..Len(code'), code'[i].op = "declare"
                   PROVE  i < Len(code') /\ code'[i + 1] \in {Simple("move"), Simple("param")}
        OBVIOUS
      <3>1. CASE i = n + 1
        <4>1. i + 1 = n + 2
          BY <1>1, <3>1
        <4> QED
          BY <1>1, <1>2, <1>3, <3>1, <4>1
      <3>2. CASE i # n + 1
        BY <1>1, <1>3, <1>5, <1>6, <3>2
      <3> QED
        BY <3>1, <3>2
    <2> QED
      BY <2>1 DEF DeclaresMoved, Declares
  <1>8. RepeatsAreParams'
    <2> SUFFICES ASSUME NEW i \in 1..Len(code'), NEW j \in 1..Len(code'),
                        code'[i].op = "declare", code'[j].op = "declare",
                        code'[i].var = code'[j].var, home'[i] = home'[j], i < j
                 PROVE  code'[i + 1] = Simple("param")
      BY DEF RepeatsAreParams, Declares
    <2>1. i \in 1..n /\ code[i].op = "declare" /\ code'[i] = code[i] /\ home'[i] = home[i]
      <3>1. i # n + 1
        BY <1>1, <1>5
      <3> QED
        BY <1>3, <1>5, <3>1
    <2>2. CASE j = n + 1
      <3>1. code[i].var = v /\ home[i] = Innermost /\ Innermost < i
        BY <1>2, <1>4, <2>1, <2>2 DEF ScopeInv, n
      <3>2. code[i] = Declare(v)
        <4>1. code[i] \in Instrs
          BY <1>1, <2>1 DEF TypeOK, n
        <4> QED
          BY <2>1, <3>1, <4>1 DEF Instrs, Declare, SimpleKinds
      <3>3. i \in (Innermost + 1)..(n - 1)
        <4>1. Innermost \in Nat
          BY <1>1, StateFacts DEF Innermost, TypeOK
        <4> QED
          BY <1>1, <1>6, <2>1, <3>1, <4>1
      <3>4. code[i + 1] # Simple("move")
        BY <1>2, <3>1, <3>2, <3>3 DEF Redeclared, n
      <3> QED
        BY <1>6, <2>1, <3>4
    <2>3. CASE j # n + 1
      <3>1. /\ j \in 1..n /\ code[j].op = "declare" /\ code[j].var = code[i].var
            /\ home[j] = home[i]
        BY <1>3, <1>5, <2>1, <2>3
      <3>2. code[i + 1] = Simple("param")
        BY <2>1, <3>1 DEF DeclareInv, RepeatsAreParams, Declares, n
      <3> QED
        BY <1>6, <2>1, <3>2
    <2> QED
      BY <2>2, <2>3
  <1> QED
    BY <1>7, <1>8 DEF DeclareInv

\* A function's parameters: the only names declared in their scope so far.
LEMMA FunctionDeclares ==
    ASSUME JumpInv, ScopeInv, DeclareInv,
           NEW f \in Funcs, NEW ps \in ParamLists, BeginFunction(f, ps)
    PROVE  DeclareInv'
  <1> DEFINE n == Len(code)
             p == Len(ps)
  <1>1. TypeOK /\ n \in Nat /\ Len(home) = n /\ p \in Nat /\ ps \in Seq(Names)
    BY StateFacts, ParamListsAreSeqs, LenProperties DEF JumpInv, TypeOK
  <1>2. /\ Kept(2 + 2 * p)
        /\ code'[n + 1] = Label(FuncLabel(f)) /\ code'[n + 2] = PushScope(0)
        /\ \A i \in 1..(2 * p) :
             /\ code'[n + 2 + i] = IF i % 2 = 1 THEN Declare(ps[(i + 1) \div 2]) ELSE Simple("param")
             /\ home'[n + 2 + i] = n + 2
    BY <1>1, BeginFunctionStep
  <1>3. /\ Len(code') = n + (2 + 2 * p)
        /\ \A i \in 1..n : /\ home'[i] = home[i] /\ code'[i].op = code[i].op
                           /\ code[i].op # "pushscope" => code'[i] = code[i]
    BY <1>2 DEF Kept
  <1>4. /\ \A kind : Simple(kind).op = kind
        /\ \A v : Declare(v).op = "declare"
        /\ Label(FuncLabel(f)).op = "label" /\ PushScope(0).op = "pushscope"
    BY DEF Simple, Declare, Label, PushScope
  <1>5. \A i \in 1..n : code[i].op = "declare"
          => /\ i < n /\ i + 1 \in 1..n
             /\ code'[i + 1] = code[i + 1] /\ code[i + 1] \in {Simple("move"), Simple("param")}
    <2>1. \A i \in 1..n : code[i].op = "declare"
            => /\ i < n /\ i + 1 \in 1..n
               /\ code[i + 1] \in {Simple("move"), Simple("param")}
      BY <1>1 DEF DeclareInv, DeclaresMoved, Declares
    <2> QED
      BY <1>3, <1>4, <2>1
  <1>6. \A i \in 1..n : home[i] < n + 2
    BY <1>1 DEF ScopeInv, TypeOK, Positions
  <1> HIDE DEF n, p
  <1>7. ASSUME NEW i \in 1..Len(code'), code'[i].op = "declare"
        PROVE  \/ i \in 1..n /\ code[i].op = "declare" /\ code'[i] = code[i]
               \/ /\ i > n /\ home'[i] = n + 2 /\ i < Len(code')
                  /\ code'[i + 1] = Simple("param")
    <2>1. i \in 1..n \/ i = n + 1 \/ i = n + 2 \/ \E d \in 1..(2 * p) : i = n + 2 + d
      <3>1. i \in Nat /\ i <= n + (2 + 2 * p) /\ i > 0
        BY <1>1, <1>3
      <3>2. i > n + 2 => i - n - 2 \in 1..(2 * p) /\ i = n + 2 + (i - n - 2)
        BY <1>1, <3>1
      <3> QED
        BY <1>1, <3>1, <3>2
    <2>2. CASE i \in 1..n
      BY <1>3, <1>7, <2>2
    <2>3. ASSUME NEW d \in 1..(2 * p), i = n + 2 + d
          PROVE  i > n /\ home'[i] = n + 2 /\ i < Len(code') /\ code'[i + 1] = Simple("param")
      <3>1. d % 2 = 1
        BY <1>2, <1>4, <1>7, <2>3
      <3>2. d + 1 \in 1..(2 * p) /\ (d + 1) % 2 # 1
        BY <1>1, <3>1
      <3>3. code'[n + 2 + (d + 1)] = Simple("param") /\ home'[i] = n + 2
        BY <1>2, <2>3, <3>2
      <3>4. n + 2 + (d + 1) = i + 1 /\ i > n /\ i < Len(code')
        BY <1>1, <1>3, <2>3, <3>2
      <3> QED
        BY <3>3, <3>4
    <2> QED
      BY <1>2, <1>4, <1>7, <2>1, <2>2, <2>3
  <1>8. DeclaresMoved'
    BY <1>1, <1>3, <1>5, <1>7 DEF DeclaresMoved, Declares
  <1>9. RepeatsAreParams'
    <2> SUFFICES ASSUME NEW i \in 1..Len(code'), NEW j \in 1..Len(code'),
                        code'[i].op = "declare", code'[j].op = "declare",
                        code'[i].var = code'[j].var, home'[i] = home'[j], i < j
                 PROVE  code'[i + 1] = Simple("param")
      BY DEF RepeatsAreParams, Declares
    <2>1. CASE i \in 1..n /\ code[i].op = "declare" /\ code'[i] = code[i]
      <3>1. home'[i] < n + 2
        BY <1>3, <1>6, <2>1
      <3>2. j \in 1..n /\ code[j].op = "declare" /\ code'[j] = code[j] /\ home'[j] = home[j]
        BY <1>1, <1>3, <1>7, <3>1
      <3>3. code[i + 1] = Simple("param")
        BY <1>3, <2>1, <3>2 DEF DeclareInv, RepeatsAreParams, Declares, n
      <3> QED
        BY <1>5, <2>1, <3>3
    <2> QED
      BY <1>7, <2>1
  <1> QED
    BY <1>8, <1>9 DEF DeclareInv

LEMMA InitDeclares == Init => DeclareInv
  BY DEF Init, DeclareInv, DeclaresMoved, RepeatsAreParams

LEMMA NextDeclares == JumpInv /\ ScopeInv /\ DeclareInv /\ [Next]_vars => DeclareInv'
  <1> SUFFICES ASSUME JumpInv, ScopeInv, DeclareInv, [Next]_vars PROVE DeclareInv'
    OBVIOUS
  <1>1. TypeOK
    BY DEF JumpInv
  <1>2. CASE UNCHANGED vars
    BY <1>2 DEF vars, DeclareInv, DeclaresMoved, RepeatsAreParams, Declares
  <1>3. CASE Next
    <2>0. \A i : Plain(i) => i.op # "declare"
      BY DEF Plain, PlainOps
    <2>1. CASE \E f \in Funcs, ps \in ParamLists : BeginFunction(f, ps)
      BY <2>1, FunctionDeclares
    <2>2. CASE EndFunction \/ EndMain \/ ScopeEnd \/ IfEnd \/ WhileEnd
      <3>1. PICK m \in 1..3 : Closes(m)
        BY <2>2, EndingCloses
      <3>2. \A d \in 1..m : code'[Len(code) + d].op # "declare"
        BY <2>0, <3>1 DEF Closes, PopScope
      <3>3. Kept(m) /\ m \in Nat
        BY <3>1 DEF Closes
      <3> QED
        BY <1>1, <3>2, <3>3, NothingDeclared
    <2>3. CASE IfBegin \/ WhileBegin \/ ScopeBegin
      <3>1. PICK m \in 1..3 : \E fr : Opens(m, fr)
        BY <1>1, <2>3, BeginningOpens
      <3>2. Kept(m) /\ m \in Nat
        BY <3>1 DEF Opens
      <3>3. \A d \in 1..m : code'[Len(code) + d].op # "declare"
        BY SMTT(40), <3>1 DEF Opens, PushScope
      <3> QED
        BY <1>1, <3>2, <3>3, NothingDeclared
    <2>4. CASE BeginMain
      <3>1. Opens(3, Frame("main", 0))
        BY <2>4, MainOpens
      <3>2. Kept(3) /\ \A d \in 1..3 : code'[Len(code) + d].op # "declare"
        BY <3>1 DEF Opens, PushScope
      <3> QED
        BY <1>1, <3>2, NothingDeclared
    <2>5. CASE \E v \in Names : DeclStmt(v)
      BY <2>5, DeclStmtDeclares
    <2>6. CASE \/ \E kind \in StmtKinds : Statement(kind)
               \/ PrintLn
               \/ ReturnStmt
      <3>1. PICK m \in Nat : Straight(m) /\ SimpleOnly(m)
        BY <1>1, <2>6, StatementStep
      <3>2. Kept(m) /\ \A d \in 1..m : code'[Len(code) + d].op # "declare"
        BY <3>1 DEF Straight, SimpleOnly, SimpleKinds
      <3> QED
        BY <1>1, <3>1, <3>2, NothingDeclared
    <2>7. CASE IfElse
      <3>1. Turns
        BY <2>7, IfElseTurns
      <3>2. \A d \in 1..4 : code'[Len(code) + d].op # "declare"
        <4>1. \A d \in 1..4 : d = 1 \/ d = 2 \/ d = 3 \/ d = 4
          OBVIOUS
        <4> QED
          BY <2>0, <3>1, <4>1 DEF Turns, PopScope, PushScope
      <3> QED
        BY <1>1, <3>1, <3>2, NothingDeclared DEF Turns
    <2> QED
      BY <1>3, <2>1, <2>2, <2>3, <2>4, <2>5, <2>6, <2>7 DEF Next
  <1> QED
    BY <1>2, <1>3

\* A scope never declares a name twice, but that the body of a function may
\* declare a parameter again, or the parameters repeat each other: the checker
\* compares a declaration with the other ones of its scope and nothing else.
THEOREM OnlyParamsRepeat == Spec => []RepeatsAreParams
  <1>1. DeclareInv => RepeatsAreParams
    BY DEF DeclareInv
  <1> QED
    BY <1>1, InitDeclares, NextDeclares, JumpInvariant, ScopeInvariant, PTL DEF Spec
=============================================================================
