--------------------------- MODULE ExprCode_proofs ---------------------------
(***************************************************************************)
(* For every number of registers, all expressions and all instructions:    *)
(* the registers are accounted for, no code overwrites a register of the   *)
(* pool in which a value waits, and no expression of plain operators that  *)
(* is lighter than a perfect tree takes more registers than there are.     *)
(***************************************************************************)
EXTENDS ExprCode, Recursion_proofs, SequenceTheorems, FiniteSetTheorems

-----------------------------------------------------------------------------
(* The inductive invariant.                                                *)

FrameSet ==
    [task : {"expr", "place"}, node : Exprs, dst : ArgRegisters \cup Pool, at : Nat, regs : Seq(Pool)]
    \cup [task : {"stmt"}, node : Statements, dst : {0}, at : Nat, regs : Seq(Pool)]

\* A frame has the registers that its next action or its caller refers to.
Shaped(f) ==
    /\ f.at = 0 => f.regs = <<>>
    /\ f.task = "expr" /\ f.node.kind = "binary" /\ f.at = 2 => f.regs # <<>>
    /\ f.task = "expr" /\ f.node.kind \in {"elem", "field"} /\ f.at = 1 => f.regs # <<>>
    /\ f.task = "expr" /\ f.node.kind = "new" /\ f.at > 0 => f.regs # <<>>
    /\ f.task = "place" /\ f.node.kind = "elem" /\ f.at > 0 => f.regs # <<>>
    /\ f.task = "stmt" /\ f.node.kind \in OneExprKinds /\ f.at = 1 => f.regs # <<>>
    /\ f.task = "stmt" /\ f.node.kind = "read" /\ f.at = 1 => f.regs # <<>>
    /\ f.task = "stmt" /\ f.node.kind = "move" =>
          /\ f.at = 1 => Len(f.regs) = 1
          /\ f.at \in {2, 3} => Len(f.regs) = 2 /\ f.regs[1] # f.regs[2]

\* Calls in progress and the registers used: who holds a register is its only
\* holder; a call's destination is an argument register or held by a caller;
\* and no caller needs the contents of a destination below it.
Sound(fs, used) ==
    /\ fs \in Seq(FrameSet)
    /\ \A r : r \in used <=> \E n \in 1..Len(fs) : r \in Held(fs[n])
    /\ \A m, n \in 1..Len(fs) : m # n => Held(fs[m]) \cap Held(fs[n]) = {}
    /\ \A n \in 1..Len(fs) : Shaped(fs[n])
    /\ \A n \in 1..Len(fs) : fs[n].task = "stmt" <=> n = 1
    /\ \A n \in 1..Len(fs) :
          fs[n].dst \in ArgRegisters \/ \E k \in 1..(n - 1) : fs[n].dst \in Held(fs[k])
    /\ \A m, n \in 1..Len(fs) : m < n => fs[n].dst \notin Needs(fs[m]) \cap Pool

IInv ==
    /\ stmt \in Statements
    /\ stage \in {"compiling", "panicked", "compiled"}
    /\ (stage = "compiled") = (frames = <<>>)
    /\ Sound(frames, registerUseList)
    /\ \E S : code \in Seq(S)

-----------------------------------------------------------------------------
(* Frames.                                                                 *)

LEMMA FrameFields ==
    ASSUME NEW f \in FrameSet
    PROVE  /\ f.dst \in ArgRegisters \cup Pool
           /\ f.at \in Nat
           /\ f.regs \in Seq(Pool)
           /\ Len(f.regs) \in Nat
           /\ \A n \in 1..Len(f.regs) : f.regs[n] \in Pool /\ f.regs[n] \in Held(f)
           /\ f.task \in {"expr", "place", "stmt"}
           /\ f.task # "stmt" => f.node \in Exprs
           /\ f.task = "stmt" => f.node \in Statements
  <1>1. f.regs \in Seq(Pool)
    BY DEF FrameSet
  <1>2. Len(f.regs) \in Nat /\ \A n \in 1..Len(f.regs) : f.regs[n] \in Pool
    BY <1>1
  <1> QED
    BY <1>1, <1>2 DEF FrameSet, Held, ArgRegisters

LEMMA HeldInPool ==
    ASSUME NEW f \in FrameSet
    PROVE  Held(f) \subseteq Pool
  BY FrameFields DEF Held

LEMMA FirstHeld ==
    ASSUME NEW f \in FrameSet, f.regs # <<>>
    PROVE  /\ f.regs[1] \in Held(f)
           /\ f.regs[1] \in Pool
  <1>1. Len(f.regs) >= 1
    <2>1. f.regs \in Seq(Pool)
      BY FrameFields
    <2> QED
      BY <2>1
  <1> QED
    BY <1>1, FrameFields

LEMMA NoneHeld ==
    ASSUME NEW f, f.regs = <<>>
    PROVE  Held(f) = {}
  BY DEF Held

LEMMA AppendHeld ==
    ASSUME NEW f \in FrameSet, NEW t \in FrameSet, NEW r \in Pool, t.regs = Append(f.regs, r)
    PROVE  /\ Held(t) = Held(f) \cup {r}
           /\ t.regs # <<>>
           /\ Len(t.regs) = Len(f.regs) + 1
           /\ \A n \in 1..Len(f.regs) : t.regs[n] = f.regs[n]
           /\ t.regs[Len(f.regs) + 1] = r
  <1>1. f.regs \in Seq(Pool) /\ Len(f.regs) \in Nat
    BY FrameFields
  <1>2. /\ t.regs # <<>>
        /\ Len(t.regs) = Len(f.regs) + 1
        /\ \A n \in 1..Len(f.regs) : t.regs[n] = f.regs[n]
        /\ t.regs[Len(f.regs) + 1] = r
    BY <1>1, AppendProperties
  <1>3. Held(t) = Held(f) \cup {r}
    BY <1>1, <1>2 DEF Held
  <1> QED
    BY <1>2, <1>3

\* What a call needs is its destination or one of its own registers.
LEMMA NeedsAre ==
    ASSUME NEW f \in FrameSet, Shaped(f)
    PROVE  Needs(f) \subseteq {f.dst} \cup Held(f)
  <1>1. CASE f.task = "stmt" /\ f.node.kind = "move" /\ f.at = 3
    <2>1. Len(f.regs) = 2
      BY <1>1 DEF Shaped
    <2>2. f.regs[1] \in Held(f)
      BY <2>1, FrameFields
    <2>3. Needs(f) = {f.regs[1]}
      BY <1>1 DEF Needs
    <2> QED
      BY <2>2, <2>3
  <1>2. CASE ~(f.task = "stmt" /\ f.node.kind = "move" /\ f.at = 3)
    <2>1. Needs(f) \subseteq {f.dst}
      BY <1>2 DEF Needs
    <2> QED
      BY <2>1
  <1> QED
    BY <1>1, <1>2

-----------------------------------------------------------------------------
(* What the ways to go on do to sound frames.                              *)

\* The contents a caller needs are in a register that it or one of its own
\* callers holds, or in an argument register.
LEMMA NeedsHeld ==
    ASSUME NEW fs, NEW used, Sound(fs, used), NEW m \in 1..Len(fs), NEW r \in Needs(fs[m]) \cap Pool
    PROVE  \E k \in 1..m : r \in Held(fs[k])
  <1>1. fs[m] \in FrameSet /\ Shaped(fs[m])
    BY DEF Sound
  <1>2. r = fs[m].dst \/ r \in Held(fs[m])
    BY <1>1, NeedsAre
  <1>3. CASE r \in Held(fs[m])
    <2>1. m \in 1..m
      <3>1. Len(fs) \in Nat
        BY DEF Sound
      <3> QED
        BY <3>1
    <2> QED
      BY <1>3, <2>1
  <1>4. CASE r = fs[m].dst
    <2>1. r \notin ArgRegisters
      BY DEF Pool, ArgRegisters
    <2>2. \E k \in 1..(m - 1) : r \in Held(fs[k])
      BY <2>1, <1>4 DEF Sound
    <2> QED
      BY <2>2
  <1> QED
    BY <1>2, <1>3, <1>4

\* The innermost call takes new registers, gives some back, or only goes on.
LEMMA SoundTop ==
    ASSUME NEW fs, NEW used, Sound(fs, used), fs # <<>>,
           NEW t \in FrameSet, Shaped(t),
           t.task = fs[Len(fs)].task, t.dst = fs[Len(fs)].dst,
           \A r \in Held(t) : r \in Held(fs[Len(fs)]) \/ r \notin used
    PROVE  Sound([fs EXCEPT ![Len(fs)] = t], (used \ Held(fs[Len(fs)])) \cup Held(t))
  <1> DEFINE L == Len(fs)
             gs == [fs EXCEPT ![L] = t]
             now == (used \ Held(fs[L])) \cup Held(t)
  <1>1. fs \in Seq(FrameSet) /\ L \in Nat /\ L \in 1..L
    BY EmptySeq DEF Sound
  <1>2. gs \in Seq(FrameSet) /\ Len(gs) = L /\ \A j \in 1..L : gs[j] = IF j = L THEN t ELSE fs[j]
    BY SMTT(40), <1>1, ExceptSeq
  <1>3. gs[L] = t /\ \A j \in 1..L : j # L => gs[j] = fs[j]
    BY <1>1, <1>2
  <1> HIDE DEF gs, L
  <1>4. ASSUME NEW r PROVE r \in now <=> \E n \in 1..L : r \in Held(gs[n])
    <2>1. CASE r \in Held(t)
      BY <2>1, <1>1, <1>3 DEF now
    <2>2. CASE r \notin Held(t) /\ r \in Held(fs[L])
      <3>1. \A n \in 1..L : n # L => r \notin Held(fs[n])
        BY <2>2, <1>1 DEF Sound, L
      <3> QED
        BY <2>2, <3>1, <1>3 DEF now
    <2>3. CASE r \notin Held(t) /\ r \notin Held(fs[L])
      <3>1. r \in used <=> \E n \in 1..L : r \in Held(fs[n])
        BY DEF Sound, L
      <3> QED
        BY <2>3, <3>1, <1>3 DEF now
    <2> QED
      BY <2>1, <2>2, <2>3
  <1>5. ASSUME NEW n \in 1..L, n # L PROVE Held(gs[n]) \cap Held(t) = {}
    <2>1. Held(fs[n]) \cap Held(fs[L]) = {} /\ \A r \in Held(fs[n]) : r \in used
      BY <1>1, <1>5 DEF Sound, L
    <2> QED
      BY <2>1, <1>3, <1>5 DEF L
  <1>6. ASSUME NEW m \in 1..L, NEW n \in 1..L, m # n PROVE Held(gs[m]) \cap Held(gs[n]) = {}
    <2>1. CASE m = L
      BY <2>1, <1>6, <1>5, <1>3
    <2>2. CASE n = L
      BY <2>2, <1>6, <1>5, <1>3
    <2>3. CASE m # L /\ n # L
      <3>1. Held(fs[m]) \cap Held(fs[n]) = {}
        BY <1>6 DEF Sound, L
      <3> QED
        BY <3>1, <2>3, <1>3
    <2> QED
      BY <2>1, <2>2, <2>3
  <1>7. \A n \in 1..L : Shaped(gs[n])
    BY <1>3 DEF Sound, L
  <1>8. \A n \in 1..L : gs[n].task = "stmt" <=> n = 1
    BY <1>3 DEF Sound, L
  <1>9. ASSUME NEW n \in 1..L
        PROVE  gs[n].dst \in ArgRegisters \/ \E k \in 1..(n - 1) : gs[n].dst \in Held(gs[k])
    <2>1. gs[n].dst = fs[n].dst
      BY <1>3 DEF L
    <2>2. fs[n].dst \in ArgRegisters \/ \E k \in 1..(n - 1) : fs[n].dst \in Held(fs[k])
      BY DEF Sound, L
    <2>3. \A k \in 1..(n - 1) : k \in 1..L /\ k # L
      BY <1>1
    <2> QED
      BY <2>1, <2>2, <2>3, <1>3
  <1>10. ASSUME NEW m \in 1..L, NEW n \in 1..L, m < n PROVE gs[n].dst \notin Needs(gs[m]) \cap Pool
    <2>1. gs[n].dst = fs[n].dst
      BY <1>3 DEF L
    <2>2. gs[m] = fs[m]
      BY <1>10, <1>3, <1>1
    <2>3. fs[n].dst \notin Needs(fs[m]) \cap Pool
      BY <1>10 DEF Sound, L
    <2> QED
      BY <2>1, <2>2, <2>3
  <1>11. Sound(gs, now)
    BY <1>2, <1>4, <1>6, <1>7, <1>8, <1>9, <1>10 DEF Sound
  <1> QED
    BY <1>11 DEF gs, L, now

\* The innermost call calls: the callee's destination is a register of its
\* caller, that caller's own destination or an argument register.
LEMMA SoundCall ==
    ASSUME NEW fs, NEW used, Sound(fs, used), fs # <<>>,
           NEW g \in FrameSet, g.task # "stmt", g.at = 0, g.regs = <<>>,
           g.dst \in ArgRegisters \cup {fs[Len(fs)].dst} \cup Held(fs[Len(fs)]),
           g.dst \notin Needs(fs[Len(fs)]) \cap Pool
    PROVE  Sound(fs \o <<g>>, used)
  <1> DEFINE L == Len(fs)
             gs == fs \o <<g>>
  <1>1. fs \in Seq(FrameSet) /\ L \in Nat /\ L \in 1..L
    BY EmptySeq DEF Sound
  <1>2. <<g>> \in Seq(FrameSet) /\ Len(<<g>>) = 1 /\ <<g>>[1] = g
    OBVIOUS
  <1>3. gs \in Seq(FrameSet) /\ Len(gs) = L + 1
        /\ \A i \in 1..(L + 1) : gs[i] = IF i <= L THEN fs[i] ELSE <<g>>[i - L]
    BY <1>1, <1>2, ConcatProperties
  <1>4. gs[L + 1] = g /\ \A i \in 1..L : gs[i] = fs[i]
    BY <1>1, <1>2, <1>3
  <1>5. Held(g) = {}
    BY NoneHeld
  <1> HIDE DEF gs, L
  <1>6. \A n \in 1..(L + 1) : n \in 1..L \/ n = L + 1
    BY <1>1
  <1>7. \A n \in 1..L : n \in 1..(L + 1)
    BY <1>1
  <1>8. ASSUME NEW r PROVE r \in used <=> \E n \in 1..(L + 1) : r \in Held(gs[n])
    <2>1. r \in used <=> \E n \in 1..L : r \in Held(fs[n])
      BY DEF Sound, L
    <2> QED
      BY <2>1, <1>4, <1>5, <1>6, <1>7
  <1>9. ASSUME NEW m \in 1..(L + 1), NEW n \in 1..(L + 1), m # n
        PROVE  Held(gs[m]) \cap Held(gs[n]) = {}
    <2>1. CASE m \in 1..L /\ n \in 1..L
      BY <2>1, <1>9, <1>4 DEF Sound, L
    <2>2. CASE m = L + 1 \/ n = L + 1
      BY <2>2, <1>4, <1>5
    <2> QED
      BY <2>1, <2>2, <1>6
  <1>10. Shaped(g)
    BY DEF Shaped
  <1>11. \A n \in 1..(L + 1) : Shaped(gs[n])
    BY <1>4, <1>6, <1>10 DEF Sound, L
  <1>12. \A n \in 1..(L + 1) : gs[n].task = "stmt" <=> n = 1
    <2>1. L + 1 # 1
      BY <1>1
    <2>2. \A n \in 1..L : fs[n].task = "stmt" <=> n = 1
      BY DEF Sound, L
    <2> QED
      BY <2>1, <2>2, <1>4, <1>6
  <1>13. g.dst \in ArgRegisters \/ \E k \in 1..L : g.dst \in Held(fs[k])
    <2>1. CASE g.dst = fs[L].dst
      <3>1. fs[L].dst \in ArgRegisters \/ \E k \in 1..(L - 1) : fs[L].dst \in Held(fs[k])
        BY <1>1 DEF Sound, L
      <3>2. \A k \in 1..(L - 1) : k \in 1..L
        BY <1>1
      <3> QED
        BY <2>1, <3>1, <3>2
    <2>2. CASE g.dst \in Held(fs[L])
      BY <2>2, <1>1
    <2> QED
      BY <2>1, <2>2 DEF L
  <1>14. ASSUME NEW n \in 1..(L + 1)
         PROVE  gs[n].dst \in ArgRegisters \/ \E k \in 1..(n - 1) : gs[n].dst \in Held(gs[k])
    <2>1. CASE n \in 1..L
      <3>1. fs[n].dst \in ArgRegisters \/ \E k \in 1..(n - 1) : fs[n].dst \in Held(fs[k])
        BY <2>1 DEF Sound, L
      <3>2. \A k \in 1..(n - 1) : k \in 1..L
        BY <2>1, <1>1
      <3> QED
        BY <2>1, <3>1, <3>2, <1>4
    <2>2. CASE n = L + 1
      <3>1. 1..(n - 1) = 1..L
        BY <2>2, <1>1
      <3> QED
        BY <2>2, <3>1, <1>13, <1>4
    <2> QED
      BY <2>1, <2>2, <1>6
  <1>15. ASSUME NEW m \in 1..L, g.dst \in Pool PROVE g.dst \notin Needs(fs[m])
    <2>1. CASE m = L
      BY <2>1, <1>15 DEF L
    <2>2. CASE m # L /\ g.dst = fs[L].dst
      <3>1. m < L
        BY <2>2, <1>1
      <3> QED
        BY <2>2, <3>1, <1>1, <1>15 DEF Sound, L
    <2>3. CASE m # L /\ g.dst \in Held(fs[L])
      <3>1. SUFFICES ASSUME g.dst \in Needs(fs[m]) PROVE FALSE
        OBVIOUS
      <3>2. PICK k \in 1..m : g.dst \in Held(fs[k])
        BY <3>1, <1>15, NeedsHeld DEF L
      <3>3. k \in 1..L /\ k # L
        BY <2>3, <1>1
      <3> QED
        BY <2>3, <3>2, <3>3, <1>1 DEF Sound, L
    <2>4. g.dst \notin ArgRegisters
      BY <1>15 DEF Pool, ArgRegisters
    <2> QED
      BY <2>1, <2>2, <2>3, <2>4 DEF L
  <1>16. ASSUME NEW m \in 1..(L + 1), NEW n \in 1..(L + 1), m < n
         PROVE  gs[n].dst \notin Needs(gs[m]) \cap Pool
    <2>1. m \in 1..L
      BY <1>16, <1>1
    <2>2. CASE n \in 1..L
      BY <2>1, <2>2, <1>16, <1>4 DEF Sound, L
    <2>3. CASE n = L + 1
      BY <2>1, <2>3, <1>15, <1>4
    <2> QED
      BY <2>2, <2>3, <1>6
  <1>17. Sound(gs, used)
    BY <1>3, <1>8, <1>9, <1>11, <1>12, <1>14, <1>16 DEF Sound
  <1> QED
    BY <1>17 DEF gs

\* The innermost call returns and frees what it holds.
LEMMA SoundReturn ==
    ASSUME NEW fs, NEW used, Sound(fs, used), fs # <<>>
    PROVE  /\ Sound(SubSeq(fs, 1, Len(fs) - 1), used \ Held(fs[Len(fs)]))
           /\ (SubSeq(fs, 1, Len(fs) - 1) = <<>>) <=> (Len(fs) = 1)
  <1> DEFINE L == Len(fs)
             gs == SubSeq(fs, 1, L - 1)
  <1>1. fs \in Seq(FrameSet) /\ L \in Nat /\ L \in 1..L
    BY EmptySeq DEF Sound
  <1>2. \A i \in 1..(L - 1) : i \in 1..L /\ fs[i] \in FrameSet
    BY <1>1
  <1>3. gs \in Seq(FrameSet) /\ Len(gs) = L - 1 /\ \A i \in 1..(L - 1) : gs[i] = fs[i]
    <2>1. CASE L = 1
      <3>1. gs = <<>>
        BY <2>1, SubSeqEmpty
      <3> HIDE DEF gs
      <3> QED
        BY <2>1, <3>1, EmptySeq
    <2>2. CASE L # 1
      <3>1. L \in Nat /\ 1 <= L - 1 /\ 1 \in Int /\ L - 1 \in Int
        <4> HIDE DEF L, gs
        <4> QED
          BY <1>1, <2>2
      <3>2. /\ gs \in Seq(FrameSet)
            /\ Len(gs) = IF 1 <= L - 1 THEN L - 1 - 1 + 1 ELSE 0
            /\ \A i \in 1..(L - 1 - 1 + 1) : gs[i] = fs[1 + i - 1]
        BY <1>2, <3>1, SubSeqProperties
      <3> HIDE DEF gs, L
      <3>3. Len(gs) = L - 1
        BY <3>1, <3>2
      <3>4. L - 1 - 1 + 1 = L - 1
        BY <3>1
      <3>5. \A i \in 1..(L - 1) : gs[i] = fs[i]
        <4>1. \A i \in 1..(L - 1) : 1 + i - 1 = i
          OBVIOUS
        <4> QED
          BY <4>1, <3>2, <3>4
      <3> QED
        BY <3>2, <3>3, <3>5
    <2> QED
      BY <2>1, <2>2
  <1> HIDE DEF gs, L
  <1>4. (gs = <<>>) <=> (L = 1)
    BY <1>1, <1>3, EmptySeq
  <1>5. ASSUME NEW r PROVE r \in used \ Held(fs[L]) <=> \E n \in 1..(L - 1) : r \in Held(gs[n])
    <2>1. r \in used <=> \E n \in 1..L : r \in Held(fs[n])
      BY DEF Sound, L
    <2>2. \A n \in 1..(L - 1) : Held(fs[n]) \cap Held(fs[L]) = {}
      <3>1. \A n \in 1..(L - 1) : n \in 1..L /\ n # L
        BY <1>1
      <3> QED
        BY <3>1, <1>1 DEF Sound, L
    <2>3. \A n \in 1..L : n = L \/ n \in 1..(L - 1)
      BY <1>1
    <2> QED
      BY <2>1, <2>2, <2>3, <1>2, <1>3
  <1>6. \A m, n \in 1..(L - 1) : m # n => Held(gs[m]) \cap Held(gs[n]) = {}
    BY <1>2, <1>3 DEF Sound, L
  <1>7. \A n \in 1..(L - 1) : Shaped(gs[n]) /\ (gs[n].task = "stmt" <=> n = 1)
    BY <1>2, <1>3 DEF Sound, L
  <1>8. ASSUME NEW n \in 1..(L - 1)
        PROVE  gs[n].dst \in ArgRegisters \/ \E k \in 1..(n - 1) : gs[n].dst \in Held(gs[k])
    <2>1. fs[n].dst \in ArgRegisters \/ \E k \in 1..(n - 1) : fs[n].dst \in Held(fs[k])
      BY <1>2 DEF Sound, L
    <2>2. \A k \in 1..(n - 1) : k \in 1..(L - 1)
      BY <1>1
    <2> QED
      BY <2>1, <2>2, <1>3
  <1>9. \A m, n \in 1..(L - 1) : m < n => gs[n].dst \notin Needs(gs[m]) \cap Pool
    BY <1>2, <1>3 DEF Sound, L
  <1>10. Sound(gs, used \ Held(fs[L]))
    BY <1>3, <1>5, <1>6, <1>7, <1>8, <1>9 DEF Sound
  <1> QED
    BY <1>4, <1>10 DEF gs, L

-----------------------------------------------------------------------------
(* The actions' parts: going on with or without a new register, returning, *)
(* and pushing code.                                                       *)

LEMMA LowestIsFree ==
    ASSUME CanAllocate
    PROVE  Lowest \in FreeRegisters
  <1>1. FreeRegisters \subseteq Nat
    BY RegistersAssumption DEF FreeRegisters, Pool
  <1>2. PICK x \in FreeRegisters : \A y \in FreeRegisters : ~ (<<y, x>> \in OpToRel(<, Nat))
    BY <1>1, NatLessThanWellFounded, WFMin DEF CanAllocate
  <1>3. ASSUME NEW y \in FreeRegisters PROVE x <= y
    <2>1. ~ (y < x)
      BY <1>1, <1>2 DEF OpToRel
    <2> QED
      BY <2>1, <1>1
  <1> QED
    BY <1>3 DEF Lowest

LEMMA FurtherFields ==
    ASSUME NEW f \in FrameSet
    PROVE  /\ Further(f) \in FrameSet
           /\ Further(f).task = f.task /\ Further(f).node = f.node
           /\ Further(f).dst = f.dst /\ Further(f).at = f.at + 1 /\ Further(f).regs = f.regs
           /\ Held(Further(f)) = Held(f)
  <1>1. f \in [task : {"expr", "place"}, node : Exprs, dst : ArgRegisters \cup Pool, at : Nat, regs : Seq(Pool)]
        \/ f \in [task : {"stmt"}, node : Statements, dst : {0}, at : Nat, regs : Seq(Pool)]
    BY DEF FrameSet
  <1>2. f.at + 1 \in Nat
    BY <1>1
  <1>3. /\ Further(f).task = f.task /\ Further(f).node = f.node
        /\ Further(f).dst = f.dst /\ Further(f).at = f.at + 1 /\ Further(f).regs = f.regs
    BY <1>1 DEF Further
  <1>4. Further(f) \in FrameSet
    BY <1>1, <1>2 DEF Further, FrameSet
  <1> QED
    BY <1>3, <1>4 DEF Held

LEMMA FurtherWithFields ==
    ASSUME NEW f \in FrameSet, NEW r \in Pool
    PROVE  /\ FurtherWith(f, r) \in FrameSet
           /\ FurtherWith(f, r).task = f.task /\ FurtherWith(f, r).node = f.node
           /\ FurtherWith(f, r).dst = f.dst /\ FurtherWith(f, r).at = f.at + 1
           /\ FurtherWith(f, r).regs = Append(f.regs, r)
           /\ Held(FurtherWith(f, r)) = Held(f) \cup {r}
           /\ FurtherWith(f, r).regs # <<>>
           /\ Len(FurtherWith(f, r).regs) = Len(f.regs) + 1
           /\ \A n \in 1..Len(f.regs) : FurtherWith(f, r).regs[n] = f.regs[n]
           /\ FurtherWith(f, r).regs[Len(f.regs) + 1] = r
  <1>1. f \in [task : {"expr", "place"}, node : Exprs, dst : ArgRegisters \cup Pool, at : Nat, regs : Seq(Pool)]
        \/ f \in [task : {"stmt"}, node : Statements, dst : {0}, at : Nat, regs : Seq(Pool)]
    BY DEF FrameSet
  <1>2. f.at + 1 \in Nat /\ Append(f.regs, r) \in Seq(Pool)
    BY <1>1
  <1>3. /\ FurtherWith(f, r).task = f.task /\ FurtherWith(f, r).node = f.node
        /\ FurtherWith(f, r).dst = f.dst /\ FurtherWith(f, r).at = f.at + 1
        /\ FurtherWith(f, r).regs = Append(f.regs, r)
    BY <1>1 DEF FurtherWith
  <1>4. FurtherWith(f, r) \in FrameSet
    BY <1>1, <1>2 DEF FurtherWith, FrameSet
  <1> QED
    BY <1>3, <1>4, AppendHeld

\* The innermost call calls without a new register.
LEMMA CallingSound ==
    ASSUME Sound(frames, registerUseList), frames # <<>>,
           NEW task \in {"expr", "place"}, NEW node \in Exprs,
           NEW dst \in ArgRegisters \cup {Top.dst} \cup Held(Top),
           Calling(Frame(task, node, dst)),
           Shaped(Further(Top)),
           dst \notin Needs(Further(Top)) \cap Pool
    PROVE  Sound(frames', registerUseList') /\ frames' # <<>>
  <1> DEFINE L == Len(frames)
             g == Frame(task, node, dst)
             t == Further(Top)
             gs == [frames EXCEPT ![L] = t]
  <1>1. frames \in Seq(FrameSet) /\ L \in Nat /\ L \in 1..L
    BY EmptySeq DEF Sound
  <1>2. Top \in FrameSet
    BY <1>1 DEF Top
  <1>3. Top.dst \in ArgRegisters \cup Pool /\ Held(Top) \subseteq Pool
    BY <1>2, FrameFields, HeldInPool
  <1>4. dst \in ArgRegisters \cup Pool
    BY <1>3
  <1>5. /\ g \in FrameSet /\ g.task = task /\ g.at = 0 /\ g.regs = <<>> /\ g.dst = dst
    BY <1>4 DEF Frame, FrameSet
  <1>6. t \in FrameSet /\ t.task = Top.task /\ t.dst = Top.dst /\ Held(t) = Held(Top)
    BY <1>2, FurtherFields
  <1>7. Held(Top) \subseteq registerUseList
    BY <1>1 DEF Sound, Top
  <1>8. (registerUseList \ Held(Top)) \cup Held(t) = registerUseList
    BY <1>6, <1>7
  <1> HIDE DEF t, g
  <1>9. Sound(gs, registerUseList)
    <2>1. Shaped(t)
      BY DEF t
    <2>2. \A r \in Held(t) : r \in Held(Top) \/ r \notin registerUseList
      BY <1>6
    <2>3. Sound(gs, (registerUseList \ Held(Top)) \cup Held(t))
      BY <1>6, <2>1, <2>2, SoundTop DEF Top
    <2> QED
      BY <2>3, <1>8
  <1>10. Len(gs) = L /\ gs[L] = t /\ gs # <<>>
    BY <1>1, <1>6, ExceptSeq, EmptySeq
  <1>11. frames' = gs \o <<g>> /\ registerUseList' = registerUseList
    BY DEF Calling, g, t, Top
  <1> HIDE DEF gs, L
  <1>12. dst \notin Needs(t) \cap Pool
    BY DEF t
  <1>13. Sound(gs \o <<g>>, registerUseList)
    BY <1>5, <1>6, <1>9, <1>10, <1>12, SoundCall
  <1>14. gs \o <<g>> # <<>>
    <2>1. gs \in Seq(FrameSet)
      BY <1>9 DEF Sound
    <2> QED
      BY <2>1
  <1> QED
    BY <1>11, <1>13, <1>14

\* The innermost call takes a register.
LEMMA TakingSound ==
    ASSUME Sound(frames, registerUseList), frames # <<>>, CanAllocate,
           Shaped(FurtherWith(Top, Lowest)),
           NEW gs, gs = [frames EXCEPT ![Len(frames)] = FurtherWith(Top, Lowest)]
    PROVE  /\ Sound(gs, registerUseList \cup {Lowest})
           /\ gs # <<>>
           /\ gs[Len(gs)] = FurtherWith(Top, Lowest)
  <1> DEFINE L == Len(frames)
             t == FurtherWith(Top, Lowest)
  <1>1. frames \in Seq(FrameSet) /\ L \in Nat /\ L \in 1..L
    BY EmptySeq DEF Sound
  <1>2. Top \in FrameSet
    BY <1>1 DEF Top
  <1>3. Lowest \in Pool /\ Lowest \notin registerUseList
    BY LowestIsFree DEF FreeRegisters
  <1>4. t \in FrameSet /\ t.task = Top.task /\ t.dst = Top.dst /\ Held(t) = Held(Top) \cup {Lowest}
    BY <1>2, <1>3, FurtherWithFields
  <1>5. Held(Top) \subseteq registerUseList
    BY <1>1 DEF Sound, Top
  <1>6. (registerUseList \ Held(Top)) \cup Held(t) = registerUseList \cup {Lowest}
    BY <1>4, <1>5
  <1>7. Shaped(t)
    OBVIOUS
  <1>8. Len(gs) = L /\ gs[L] = t /\ gs # <<>>
    BY <1>1, <1>4, ExceptSeq, EmptySeq
  <1> HIDE DEF t
  <1>9. \A r \in Held(t) : r \in Held(Top) \/ r \notin registerUseList
    BY <1>4, <1>3
  <1>10. gs = [frames EXCEPT ![Len(frames)] = t]
    BY DEF t
  <1>11. Sound(gs, (registerUseList \ Held(Top)) \cup Held(t))
    <2>1. Sound([frames EXCEPT ![Len(frames)] = t], (registerUseList \ Held(Top)) \cup Held(t))
      BY <1>4, <1>7, <1>9, SoundTop DEF Top
    <2> QED
      BY <2>1, <1>10
  <1> QED
    BY <1>6, <1>8, <1>11 DEF t

LEMMA AllocatingSound ==
    ASSUME Sound(frames, registerUseList), frames # <<>>,
           NEW task \in {"expr", "place"}, NEW node \in Exprs,
           NEW dst \in ArgRegisters \cup {Top.dst, Lowest} \cup Held(Top),
           Allocating(<<Frame(task, node, dst)>>),
           Shaped(FurtherWith(Top, Lowest)),
           dst \notin Needs(FurtherWith(Top, Lowest)) \cap Pool
    PROVE  Sound(frames', registerUseList') /\ frames' # <<>>
  <1> DEFINE g == Frame(task, node, dst)
             t == FurtherWith(Top, Lowest)
             gs == [frames EXCEPT ![Len(frames)] = t]
  <1>1. CanAllocate
    BY DEF Allocating
  <1>2. Sound(gs, registerUseList \cup {Lowest}) /\ gs # <<>> /\ gs[Len(gs)] = t
    BY <1>1, TakingSound
  <1>3. Top \in FrameSet
    <2>1. frames \in Seq(FrameSet)
      BY DEF Sound
    <2> QED
      BY <2>1, EmptySeq DEF Top
  <1>4. Lowest \in Pool
    BY <1>1, LowestIsFree DEF FreeRegisters
  <1>5. Top.dst \in ArgRegisters \cup Pool /\ Held(Top) \subseteq Pool
    BY <1>3, FrameFields, HeldInPool
  <1>6. dst \in ArgRegisters \cup Pool
    BY <1>4, <1>5
  <1>7. g \in FrameSet /\ g.task = task /\ g.at = 0 /\ g.regs = <<>> /\ g.dst = dst
    BY <1>6 DEF Frame, FrameSet
  <1>8. t.dst = Top.dst /\ Held(t) = Held(Top) \cup {Lowest}
    BY <1>3, <1>4, FurtherWithFields
  <1>9. frames' = gs \o <<g>> /\ registerUseList' = registerUseList \cup {Lowest}
    BY DEF Allocating, Top
  <1>10. dst \notin Needs(t) \cap Pool
    OBVIOUS
  <1> HIDE DEF g, t, gs
  <1>11. g.dst \in ArgRegisters \cup {gs[Len(gs)].dst} \cup Held(gs[Len(gs)])
    BY <1>2, <1>7, <1>8
  <1>12. Sound(gs \o <<g>>, registerUseList \cup {Lowest})
    BY <1>2, <1>7, <1>10, <1>11, SoundCall
  <1>13. gs \o <<g>> # <<>>
    <2>1. gs \in Seq(FrameSet)
      BY <1>2 DEF Sound
    <2> QED
      BY <2>1
  <1> QED
    BY <1>9, <1>12, <1>13

LEMMA AllocatingOnlySound ==
    ASSUME Sound(frames, registerUseList), frames # <<>>,
           Allocating(<<>>),
           Shaped(FurtherWith(Top, Lowest))
    PROVE  Sound(frames', registerUseList') /\ frames' # <<>>
  <1> DEFINE gs == [frames EXCEPT ![Len(frames)] = FurtherWith(Top, Lowest)]
  <1>1. CanAllocate
    BY DEF Allocating
  <1>2. Sound(gs, registerUseList \cup {Lowest}) /\ gs # <<>>
    BY <1>1, TakingSound
  <1>3. frames' = gs \o <<>> /\ registerUseList' = registerUseList \cup {Lowest}
    BY DEF Allocating, Top
  <1> HIDE DEF gs
  <1>4. gs \o <<>> = gs
    <2>1. gs \in Seq(FrameSet)
      BY <1>2 DEF Sound
    <2> QED
      BY <2>1
  <1> QED
    BY <1>2, <1>3, <1>4

LEMMA ReturningSound ==
    ASSUME Sound(frames, registerUseList), frames # <<>>, stage = "compiling", Returning
    PROVE  /\ Sound(frames', registerUseList')
           /\ stage' \in {"compiling", "panicked", "compiled"}
           /\ (stage' = "compiled") = (frames' = <<>>)
  <1>1. /\ Sound(SubSeq(frames, 1, Len(frames) - 1), registerUseList \ Held(Top))
        /\ (SubSeq(frames, 1, Len(frames) - 1) = <<>>) <=> (Len(frames) = 1)
    BY SoundReturn DEF Top
  <1> QED
    BY <1>1 DEF Returning

-----------------------------------------------------------------------------
(* The code pushed.                                                        *)

\* The registers the innermost call may overwrite.
Writable == ArgRegisters \cup {Top.dst} \cup Held(Top) \cup FreeRegisters
Clean(i) == Writes(i) \subseteq Writable

\* What TemporariesSurvive says of a step.
Untouched ==
    \A n \in (Len(code) + 1)..Len(code') : Writes(code'[n]) \cap Waiting \cap Pool = {}

LEMMA WaitingNotWritable ==
    ASSUME Sound(frames, registerUseList), frames # <<>>, NEW r \in Waiting \cap Pool
    PROVE  r \notin Writable
  <1> DEFINE L == Len(frames)
  <1>1. frames \in Seq(FrameSet) /\ L \in Nat /\ L \in 1..L
    BY EmptySeq DEF Sound
  <1>2. PICK m \in 1..(L - 1) : r \in Needs(frames[m])
    BY DEF Waiting
  <1> HIDE DEF L
  <1>3. m \in 1..L /\ m < L
    BY <1>1
  <1>4. PICK k \in 1..m : r \in Held(frames[k])
    BY <1>2, <1>3, NeedsHeld DEF L
  <1>5. k \in 1..L /\ k # L
    BY <1>1, <1>3
  <1>6. r \notin Held(Top)
    BY <1>1, <1>4, <1>5 DEF Sound, L, Top
  <1>7. r # Top.dst
    BY <1>1, <1>2, <1>3 DEF Sound, L, Top
  <1>8. r \notin FreeRegisters
    BY <1>4, <1>5 DEF Sound, L, FreeRegisters
  <1>9. r \notin ArgRegisters
    BY DEF Pool, ArgRegisters
  <1> QED
    BY <1>6, <1>7, <1>8, <1>9 DEF Writable

LEMMA PushingClean ==
    ASSUME Sound(frames, registerUseList), frames # <<>>,
           \E S : code \in Seq(S),
           NEW T, NEW instrs \in Seq(T), \A i \in T : Clean(i),
           Pushing(instrs)
    PROVE  Untouched /\ \E S : code' \in Seq(S)
  <1>1. PICK S : code \in Seq(S)
    OBVIOUS
  <1>2. code \in Seq(S \cup T) /\ instrs \in Seq(S \cup T)
    BY <1>1
  <1>3. code' = code \o instrs
    BY DEF Pushing
  <1>4. /\ code' \in Seq(S \cup T)
        /\ Len(code') = Len(code) + Len(instrs)
        /\ \A n \in 1..(Len(code) + Len(instrs)) :
              code'[n] = IF n <= Len(code) THEN code[n] ELSE instrs[n - Len(code)]
    BY <1>2, <1>3, ConcatProperties
  <1>5. ASSUME NEW n \in (Len(code) + 1)..Len(code')
        PROVE  Writes(code'[n]) \cap Waiting \cap Pool = {}
    <2>1. Len(code) \in Nat /\ Len(instrs) \in Nat
      BY <1>1
    <2>2. n - Len(code) \in 1..Len(instrs) /\ code'[n] = instrs[n - Len(code)]
      BY <1>4, <2>1
    <2>3. Clean(code'[n])
      BY <2>2
    <2> QED
      BY <2>3, WaitingNotWritable DEF Clean
  <1> QED
    BY <1>4, <1>5 DEF Untouched

LEMMA NothingPushed ==
    ASSUME \E S : code \in Seq(S), UNCHANGED code
    PROVE  Untouched /\ \E S : code' \in Seq(S)
  <1>1. Len(code) \in Nat
    OBVIOUS
  <1>2. (Len(code) + 1)..Len(code') = {}
    BY <1>1
  <1> QED
    BY <1>2 DEF Untouched

\* Instructions that keep to the writable registers.
LEMMA LoadClean ==
    ASSUME NEW r \in Writable, NEW src PROVE Clean(Load(r, src))
  <1> DEFINE i == Load(r, src)
  <1>1. i.op = "move" /\ i.dst.kind = "reg" /\ i.dst.id = r
    BY DEF Load, MoveInstr, RegisterExpr
  <1> HIDE DEF i
  <1>2. Writes(i) = {r}
    BY <1>1 DEF Writes, ArithmeticOps
  <1> QED
    BY <1>2 DEF Clean, i

LEMMA StoreClean ==
    ASSUME NEW place, place.kind # "reg", NEW src PROVE Clean(MoveInstr(place, src))
  <1> DEFINE i == MoveInstr(place, src)
  <1>1. i.op = "move" /\ i.dst.kind # "reg"
    BY DEF MoveInstr
  <1> HIDE DEF i
  <1>2. Writes(i) = {}
    BY <1>1 DEF Writes, ArithmeticOps
  <1> QED
    BY <1>2 DEF Clean, i

LEMMA OneClean ==
    ASSUME NEW r \in Writable,
           NEW op \in {"not", "push", "pop", "bounds", "null", "show", "print", "free"}
    PROVE  Clean(OneInstr(op, r))
  <1>1. ArgRegisters \subseteq Writable /\ 1 \in Writable
    BY DEF Writable, ArgRegisters
  <1>2. Writes(OneInstr(op, r)) \subseteq ArgRegisters \cup {1, r}
    BY DEF OneInstr, Writes, ArithmeticOps
  <1> QED
    BY <1>1, <1>2 DEF Clean

LEMMA NegClean ==
    ASSUME NEW r \in Writable, NEW type PROVE Clean(NegInstr(r, type))
  BY DEF Clean, NegInstr, Writes, ArithmeticOps

LEMMA BinClean ==
    ASSUME NEW op \in BinaryOps \cup {"+4*"}, NEW dst \in Writable,
           NEW op1 \in Writable, NEW op2 \in Writable, NEW type
    PROVE  Clean(BinInstr(op, dst, op1, op2, type))
  <1>1. ArgRegisters \subseteq Writable
    BY DEF Writable
  <1>2. Writes(BinInstr(op, dst, op1, op2, type)) \subseteq ArgRegisters \cup {dst, op1, op2}
    BY DEF BinInstr, Writes, BinaryOps, ArithmeticOps, CompareOps, OverflowReg
  <1> QED
    BY <1>1, <1>2 DEF Clean

LEMMA AllocClean ==
    ASSUME NEW r \in Writable, NEW size PROVE Clean(HeapAllocInstr(r, size))
  <1>1. Writes(HeapAllocInstr(r, size)) \subseteq {r} \cup ArgRegisters
    BY DEF HeapAllocInstr, Writes, ArithmeticOps
  <1> QED
    BY <1>1 DEF Clean, Writable

LEMMA RoutineClean ==
    /\ \A n : Clean(CallInstr(n))
    /\ \A place : Clean(ReadInstr(place))
    /\ \A e : Clean(ImmediateInstr(e))
  BY DEF Clean, Writable, CallInstr, ReadInstr, ImmediateInstr, Writes, ArithmeticOps

LEMMA LowestWritable ==
    ASSUME CanAllocate PROVE Lowest \in Writable
  BY LowestIsFree DEF Writable

-----------------------------------------------------------------------------
(* Before a step.                                                          *)

LEMMA TopFacts ==
    ASSUME IInv, stage = "compiling"
    PROVE  /\ Sound(frames, registerUseList) /\ frames # <<>>
           /\ \E S : code \in Seq(S)
           /\ Top \in FrameSet /\ Shaped(Top)
           /\ Top.dst \notin Held(Top) /\ Top.dst \notin FreeRegisters
           /\ Held(Top) \cap FreeRegisters = {}
           /\ Top.dst \in Writable /\ {0, 1} \subseteq Writable
           /\ Held(Top) \subseteq Writable
  <1> DEFINE L == Len(frames)
  <1>1. Sound(frames, registerUseList) /\ frames # <<>> /\ \E S : code \in Seq(S)
    BY DEF IInv
  <1>2. frames \in Seq(FrameSet) /\ L \in Nat /\ L \in 1..L
    BY <1>1, EmptySeq DEF Sound
  <1>3. Top \in FrameSet /\ Shaped(Top)
    BY <1>1, <1>2 DEF Top, Sound
  <1>4. Held(Top) \subseteq registerUseList /\ Held(Top) \subseteq Pool
    BY <1>1, <1>2, <1>3, HeldInPool DEF Sound, Top
  <1> HIDE DEF L
  <1>5. Top.dst \in ArgRegisters \/ \E k \in 1..(L - 1) : Top.dst \in Held(frames[k])
    BY <1>1, <1>2 DEF Sound, Top, L
  <1>6. Top.dst \notin Held(Top) /\ Top.dst \notin FreeRegisters
    <2>1. CASE Top.dst \in ArgRegisters
      <3>1. Top.dst \notin Pool
        BY <2>1 DEF Pool, ArgRegisters
      <3> QED
        BY <3>1, <1>4 DEF FreeRegisters
    <2>2. CASE \E k \in 1..(L - 1) : Top.dst \in Held(frames[k])
      <3>1. PICK k \in 1..(L - 1) : Top.dst \in Held(frames[k])
        BY <2>2
      <3>2. k \in 1..L /\ k # L
        BY <1>2
      <3>3. Top.dst \in registerUseList
        BY <1>1, <3>1, <3>2 DEF Sound, L
      <3>4. Top.dst \notin Held(Top)
        BY ZenonT(60), <1>1, <1>2, <3>1, <3>2 DEF Sound, L, Top
      <3> QED
        BY <3>3, <3>4 DEF FreeRegisters
    <2> QED
      BY <1>5, <2>1, <2>2
  <1> QED
    BY <1>1, <1>3, <1>4, <1>6 DEF Writable, ArgRegisters, FreeRegisters

\* After a step that does not return.
LEMMA WentOn ==
    ASSUME IInv, stage = "compiling", UNCHANGED <<stmt, stage>>,
           Sound(frames', registerUseList'), frames' # <<>>, \E S : code' \in Seq(S)
    PROVE  IInv'
  BY DEF IInv

\* After one that does.
LEMMA Returned ==
    ASSUME IInv, stage = "compiling", UNCHANGED stmt, Returning, \E S : code' \in Seq(S)
    PROVE  IInv'
  <1>1. Sound(frames, registerUseList) /\ frames # <<>>
    BY TopFacts
  <1>2. /\ Sound(frames', registerUseList')
        /\ stage' \in {"compiling", "panicked", "compiled"}
        /\ (stage' = "compiled") = (frames' = <<>>)
    BY <1>1, ReturningSound
  <1> QED
    BY <1>2 DEF IInv

-----------------------------------------------------------------------------
(* The steps that evaluate a part.                                         *)

\* A call that goes on, with or without a new register.
LEMMA CallKeeps ==
    ASSUME IInv, stage = "compiling", UNCHANGED <<stmt, stage>>,
           \E S : code' \in Seq(S),
           NEW task \in {"expr", "place"}, NEW node \in Exprs,
           NEW dst \in ArgRegisters \cup {Top.dst} \cup Held(Top),
           Calling(Frame(task, node, dst)),
           Shaped(Further(Top)),
           dst \notin Needs(Further(Top)) \cap Pool
    PROVE  IInv'
  <1>1. Sound(frames, registerUseList) /\ frames # <<>>
    BY TopFacts
  <1>2. Sound(frames', registerUseList') /\ frames' # <<>>
    BY <1>1, CallingSound
  <1> QED
    BY <1>2, WentOn

LEMMA AllocateKeeps ==
    ASSUME IInv, stage = "compiling", UNCHANGED <<stmt, stage>>,
           \E S : code' \in Seq(S),
           NEW task \in {"expr", "place"}, NEW node \in Exprs,
           NEW dst \in ArgRegisters \cup {Top.dst, Lowest} \cup Held(Top),
           Allocating(<<Frame(task, node, dst)>>),
           Shaped(FurtherWith(Top, Lowest)),
           dst \notin Needs(FurtherWith(Top, Lowest)) \cap Pool
    PROVE  IInv'
  <1>1. Sound(frames, registerUseList) /\ frames # <<>>
    BY TopFacts
  <1>2. Sound(frames', registerUseList') /\ frames' # <<>>
    BY <1>1, AllocatingSound
  <1> QED
    BY <1>2, WentOn

LEMMA AllocateOnlyKeeps ==
    ASSUME IInv, stage = "compiling", UNCHANGED <<stmt, stage>>,
           \E S : code' \in Seq(S),
           Allocating(<<>>),
           Shaped(FurtherWith(Top, Lowest))
    PROVE  IInv'
  <1>1. Sound(frames, registerUseList) /\ frames # <<>>
    BY TopFacts
  <1>2. Sound(frames', registerUseList') /\ frames' # <<>>
    BY <1>1, AllocatingOnlySound
  <1> QED
    BY <1>2, WentOn

\* A call that pushes its last code and returns.
LEMMA ReturnKeeps ==
    ASSUME IInv, stage = "compiling", UNCHANGED stmt, Returning,
           NEW T, NEW instrs \in Seq(T), \A i \in T : Clean(i), Pushing(instrs)
    PROVE  IInv' /\ Untouched
  <1>1. Sound(frames, registerUseList) /\ frames # <<>> /\ \E S : code \in Seq(S)
    BY TopFacts
  <1>2. Untouched /\ \E S : code' \in Seq(S)
    BY <1>1, PushingClean
  <1> QED
    BY <1>2, Returned

\* The innermost call's frame, before the step and after it.
LEMMA FurtherTop ==
    ASSUME IInv, stage = "compiling"
    PROVE  /\ Top \in FrameSet
           /\ Further(Top).task = Top.task /\ Further(Top).node = Top.node
           /\ Further(Top).dst = Top.dst /\ Further(Top).at = Top.at + 1
           /\ Further(Top).regs = Top.regs
           /\ Top.task # "stmt" => Top.node \in Exprs
           /\ Top.task = "stmt" => Top.node \in Statements
           /\ Top.at \in Nat
  BY TopFacts, FurtherFields, FrameFields

LEMMA FurtherWithTop ==
    ASSUME IInv, stage = "compiling", CanAllocate
    PROVE  LET t == FurtherWith(Top, Lowest) IN
           /\ t.task = Top.task /\ t.node = Top.node /\ t.dst = Top.dst /\ t.at = Top.at + 1
           /\ t.regs # <<>>
           /\ Len(t.regs) = Len(Top.regs) + 1
           /\ \A n \in 1..Len(Top.regs) : t.regs[n] = Top.regs[n]
           /\ t.regs[Len(Top.regs) + 1] = Lowest
  <1>1. Lowest \in Pool
    BY LowestIsFree DEF FreeRegisters
  <1>2. Top \in FrameSet
    BY TopFacts
  <1> QED
    BY <1>1, <1>2, FurtherWithFields

LEMMA UnaryOperandKeeps ==
    ASSUME IInv, UnaryOperand PROVE IInv' /\ Untouched
  <1>1. stage = "compiling" /\ Top.task = "expr" /\ Top.node.kind = "unary" /\ Top.at = 0
    BY DEF UnaryOperand, At
  <1>2. Top.node.operand \in Exprs
    BY <1>1, FurtherTop, ExprsAssumption
  <1>3. Top.dst \in ArgRegisters \cup {Top.dst} \cup Held(Top)
    OBVIOUS
  <1>4. Shaped(Further(Top)) /\ Top.dst \notin Needs(Further(Top)) \cap Pool
    BY <1>1, FurtherTop DEF Shaped, Needs
  <1>5. Untouched /\ \E S : code' \in Seq(S)
    BY <1>1, TopFacts, NothingPushed DEF UnaryOperand
  <1>6. IInv'
    BY <1>1, <1>2, <1>3, <1>4, <1>5, CallKeeps DEF UnaryOperand
  <1> QED
    BY <1>5, <1>6

LEMMA BinaryFirstKeeps ==
    ASSUME IInv, BinaryFirst PROVE IInv' /\ Untouched
  <1>1. stage = "compiling" /\ Top.task = "expr" /\ Top.node.kind = "binary" /\ Top.at = 0
    BY DEF BinaryFirst, At
  <1>2. FirstSide(Top.node) \in Exprs
    BY <1>1, FurtherTop, ExprsAssumption DEF FirstSide
  <1>3. Top.dst \in ArgRegisters \cup {Top.dst} \cup Held(Top)
    OBVIOUS
  <1>4. Shaped(Further(Top)) /\ Top.dst \notin Needs(Further(Top)) \cap Pool
    BY <1>1, FurtherTop DEF Shaped, Needs
  <1>5. Untouched /\ \E S : code' \in Seq(S)
    BY <1>1, TopFacts, NothingPushed DEF BinaryFirst
  <1>6. IInv'
    BY <1>1, <1>2, <1>3, <1>4, <1>5, CallKeeps DEF BinaryFirst
  <1> QED
    BY <1>5, <1>6

LEMMA PlaceIndexKeeps ==
    ASSUME IInv, PlaceIndex PROVE IInv' /\ Untouched
  <1>1. stage = "compiling" /\ Top.task = "place" /\ Top.node.kind = "elem" /\ Top.at = 1
    BY DEF PlaceIndex, At
  <1>2. Top.node.index \in Exprs
    BY <1>1, FurtherTop, ExprsAssumption
  <1>3. Top.regs[1] \in ArgRegisters \cup {Top.dst} \cup Held(Top)
    <2>1. Shaped(Top) /\ Top \in FrameSet
      BY <1>1, TopFacts
    <2>2. Top.regs # <<>>
      BY <1>1, <2>1 DEF Shaped
    <2> QED
      BY <2>1, <2>2, FirstHeld
  <1>4. Shaped(Further(Top)) /\ Top.regs[1] \notin Needs(Further(Top)) \cap Pool
    <2>1. Shaped(Top) /\ Top.dst \notin Held(Top) /\ Top \in FrameSet
      BY <1>1, TopFacts
    <2>2. Top.regs # <<>>
      BY <1>1, <2>1 DEF Shaped
    <2>3. Top.regs[1] \in Held(Top)
      BY <2>1, <2>2, FirstHeld
    <2> QED
      BY <1>1, <2>1, <2>2, <2>3, FurtherTop DEF Shaped, Needs
  <1>5. Untouched /\ \E S : code' \in Seq(S)
    BY <1>1, TopFacts, NothingPushed DEF PlaceIndex
  <1>6. IInv'
    BY <1>1, <1>2, <1>3, <1>4, <1>5, CallKeeps DEF PlaceIndex
  <1> QED
    BY <1>5, <1>6

LEMMA MovePlaceKeeps ==
    ASSUME IInv, MovePlace PROVE IInv' /\ Untouched
  <1>1. stage = "compiling" /\ Top.task = "stmt" /\ Top.node.kind = "move" /\ Top.at = 2
    BY DEF MovePlace, At
  <1>2. Top.node.lhs \in Exprs
    BY <1>1, FurtherTop, ExprsAssumption
  <1>3. Top.regs[2] \in ArgRegisters \cup {Top.dst} \cup Held(Top)
    <2>1. Shaped(Top) /\ Top \in FrameSet
      BY <1>1, TopFacts
    <2>2. Len(Top.regs) = 2
      BY <1>1, <2>1 DEF Shaped
    <2> QED
      BY <2>1, <2>2, FrameFields
  <1>4. Shaped(Further(Top)) /\ Top.regs[2] \notin Needs(Further(Top)) \cap Pool
    <2>1. Shaped(Top)
      BY <1>1, TopFacts
    <2>2. Len(Top.regs) = 2 /\ Top.regs[1] # Top.regs[2]
      BY <1>1, <2>1 DEF Shaped
    <2>3. /\ Further(Top).task = "stmt" /\ Further(Top).node.kind = "move" /\ Further(Top).at = 3
          /\ Further(Top).regs = Top.regs
      BY <1>1, FurtherTop
    <2> QED
      BY <2>2, <2>3 DEF Shaped, Needs, OneExprKinds
  <1>5. Untouched /\ \E S : code' \in Seq(S)
    BY <1>1, TopFacts, NothingPushed DEF MovePlace
  <1>6. IInv'
    BY <1>1, <1>2, <1>3, <1>4, <1>5, CallKeeps DEF MovePlace
  <1> QED
    BY <1>5, <1>6

LEMMA BinarySecondKeeps ==
    ASSUME IInv, BinarySecond PROVE IInv' /\ Untouched
  <1>1. stage = "compiling" /\ Top.task = "expr" /\ Top.node.kind = "binary" /\ Top.at = 1
    BY DEF BinarySecond, At
  <1>2. SecondSide(Top.node) \in Exprs
    BY <1>1, FurtherTop, ExprsAssumption DEF SecondSide
  <1>3. Lowest \in ArgRegisters \cup {Top.dst, Lowest} \cup Held(Top)
    OBVIOUS
  <1>4. CanAllocate
    BY DEF BinarySecond, Allocating
  <1>5. Shaped(FurtherWith(Top, Lowest)) /\ Lowest \notin Needs(FurtherWith(Top, Lowest)) \cap Pool
    <2>1. Lowest # Top.dst
      BY <1>1, <1>4, TopFacts, LowestIsFree
    <2> QED
      BY <1>1, <1>4, <2>1, FurtherWithTop DEF Shaped, Needs
  <1>6. Untouched /\ \E S : code' \in Seq(S)
    BY <1>1, TopFacts, NothingPushed DEF BinarySecond
  <1>7. IInv'
    BY <1>1, <1>2, <1>3, <1>5, <1>6, AllocateKeeps DEF BinarySecond
  <1> QED
    BY <1>6, <1>7

LEMMA ElementPlaceKeeps ==
    ASSUME IInv, ElementPlace PROVE IInv' /\ Untouched
  <1>1. stage = "compiling" /\ Top.task = "expr" /\ Top.node.kind \in {"elem", "field"} /\ Top.at = 0
    BY DEF ElementPlace, At
  <1>2. Top.node \in Exprs
    BY <1>1, FurtherTop, ExprsAssumption
  <1>3. Lowest \in ArgRegisters \cup {Top.dst, Lowest} \cup Held(Top)
    OBVIOUS
  <1>4. CanAllocate
    BY DEF ElementPlace, Allocating
  <1>5. Shaped(FurtherWith(Top, Lowest)) /\ Lowest \notin Needs(FurtherWith(Top, Lowest)) \cap Pool
    BY <1>1, <1>4, FurtherTop, FurtherWithTop DEF Shaped, Needs
  <1>6. Untouched /\ \E S : code' \in Seq(S)
    BY <1>1, TopFacts, NothingPushed DEF ElementPlace
  <1>7. IInv'
    BY <1>1, <1>2, <1>3, <1>5, <1>6, AllocateKeeps DEF ElementPlace
  <1> QED
    BY <1>6, <1>7

LEMMA PlaceArrayKeeps ==
    ASSUME IInv, PlaceArray PROVE IInv' /\ Untouched
  <1>1. stage = "compiling" /\ Top.task = "place" /\ Top.node.kind = "elem" /\ Top.at = 0
    BY DEF PlaceArray, At
  <1>2. Top.node.array \in Exprs
    BY <1>1, FurtherTop, ExprsAssumption
  <1>3. Top.dst \in ArgRegisters \cup {Top.dst, Lowest} \cup Held(Top)
    OBVIOUS
  <1>4. CanAllocate
    BY DEF PlaceArray, Allocating
  <1>5. Shaped(FurtherWith(Top, Lowest)) /\ Top.dst \notin Needs(FurtherWith(Top, Lowest)) \cap Pool
    BY <1>1, <1>4, FurtherTop, FurtherWithTop DEF Shaped, Needs
  <1>6. Untouched /\ \E S : code' \in Seq(S)
    BY <1>1, TopFacts, NothingPushed DEF PlaceArray
  <1>7. IInv'
    BY <1>1, <1>2, <1>3, <1>5, <1>6, AllocateKeeps DEF PlaceArray
  <1> QED
    BY <1>6, <1>7

LEMMA StmtExprKeeps ==
    ASSUME IInv, StmtExpr PROVE IInv' /\ Untouched
  <1>1. stage = "compiling" /\ Top.task = "stmt" /\ Top.node.kind \in OneExprKinds /\ Top.at = 0
    BY DEF StmtExpr, At
  <1>2. Top.node.expr \in Exprs
    BY <1>1, FurtherTop, ExprsAssumption DEF OneExprKinds
  <1>3. Lowest \in ArgRegisters \cup {Top.dst, Lowest} \cup Held(Top)
    OBVIOUS
  <1>4. CanAllocate
    BY DEF StmtExpr, Allocating
  <1>5. Shaped(FurtherWith(Top, Lowest)) /\ Lowest \notin Needs(FurtherWith(Top, Lowest)) \cap Pool
    BY <1>1, <1>4, FurtherTop, FurtherWithTop DEF Shaped, Needs, OneExprKinds
  <1>6. Untouched /\ \E S : code' \in Seq(S)
    BY <1>1, TopFacts, NothingPushed DEF StmtExpr
  <1>7. IInv'
    BY <1>1, <1>2, <1>3, <1>5, <1>6, AllocateKeeps DEF StmtExpr
  <1> QED
    BY <1>6, <1>7

LEMMA ReadPlaceKeeps ==
    ASSUME IInv, ReadPlace PROVE IInv' /\ Untouched
  <1>1. stage = "compiling" /\ Top.task = "stmt" /\ Top.node.kind = "read" /\ Top.at = 0
    BY DEF ReadPlace, At
  <1>2. Top.node.lhs \in Exprs
    BY <1>1, FurtherTop, ExprsAssumption
  <1>3. Lowest \in ArgRegisters \cup {Top.dst, Lowest} \cup Held(Top)
    OBVIOUS
  <1>4. CanAllocate
    BY DEF ReadPlace, Allocating
  <1>5. Shaped(FurtherWith(Top, Lowest)) /\ Lowest \notin Needs(FurtherWith(Top, Lowest)) \cap Pool
    BY <1>1, <1>4, FurtherTop, FurtherWithTop DEF Shaped, Needs, OneExprKinds
  <1>6. Untouched /\ \E S : code' \in Seq(S)
    BY <1>1, TopFacts, NothingPushed DEF ReadPlace
  <1>7. IInv'
    BY <1>1, <1>2, <1>3, <1>5, <1>6, AllocateKeeps DEF ReadPlace
  <1> QED
    BY <1>6, <1>7

LEMMA MoveExprKeeps ==
    ASSUME IInv, MoveExpr PROVE IInv' /\ Untouched
  <1>1. stage = "compiling" /\ Top.task = "stmt" /\ Top.node.kind = "move" /\ Top.at = 1
    BY DEF MoveExpr, At
  <1>2. Top.node.expr \in Exprs
    BY <1>1, FurtherTop, ExprsAssumption
  <1>3. Top.regs[1] \in ArgRegisters \cup {Top.dst, Lowest} \cup Held(Top)
    <2>1. Shaped(Top) /\ Top \in FrameSet
      BY <1>1, TopFacts
    <2>2. Len(Top.regs) = 1
      BY <1>1, <2>1 DEF Shaped
    <2> QED
      BY <2>1, <2>2, FrameFields
  <1>4. CanAllocate
    BY DEF MoveExpr, Allocating
  <1>5. Shaped(FurtherWith(Top, Lowest)) /\ Top.regs[1] \notin Needs(FurtherWith(Top, Lowest)) \cap Pool
    <2> DEFINE t == FurtherWith(Top, Lowest)
    <2>1. Shaped(Top) /\ Top \in FrameSet
      BY <1>1, TopFacts
    <2>2. Len(Top.regs) = 1
      BY <1>1, <2>1 DEF Shaped
    <2>3. /\ t.task = "stmt" /\ t.node.kind = "move" /\ t.at = 2
          /\ Len(t.regs) = 2 /\ t.regs # <<>> /\ t.regs[1] = Top.regs[1] /\ t.regs[2] = Lowest
      BY <1>1, <1>4, <2>2, FurtherWithTop
    <2>4. Top.regs[1] # Lowest
      BY <1>1, <1>4, <2>1, <2>2, TopFacts, LowestIsFree, FrameFields
    <2> HIDE DEF t
    <2>5. Shaped(t) /\ Needs(t) = {}
      BY <2>3, <2>4 DEF Shaped, Needs, OneExprKinds
    <2> QED
      BY <2>5 DEF t
  <1>6. Untouched /\ \E S : code' \in Seq(S)
    BY <1>1, TopFacts, NothingPushed DEF MoveExpr
  <1>7. IInv'
    BY <1>1, <1>2, <1>3, <1>5, <1>6, AllocateKeeps DEF MoveExpr
  <1> QED
    BY <1>6, <1>7

LEMMA MoveSourceKeeps ==
    ASSUME IInv, MoveSource PROVE IInv' /\ Untouched
  <1> DEFINE t == FurtherWith(Top, Lowest)
  <1>1. stage = "compiling" /\ Top.task = "stmt" /\ Top.node.kind = "move" /\ Top.at = 0
    BY DEF MoveSource, At
  <1>2. CanAllocate
    BY DEF MoveSource, Allocating
  <1>3. Top.regs = <<>>
    BY <1>1, TopFacts DEF Shaped
  <1>4. t.task = "stmt" /\ t.node.kind = "move" /\ t.at = 1 /\ t.regs # <<>> /\ Len(t.regs) = 1
    BY <1>1, <1>2, <1>3, FurtherWithTop
  <1> HIDE DEF t
  <1>5. Shaped(t)
    BY <1>4 DEF Shaped, OneExprKinds
  <1>6. Untouched /\ \E S : code' \in Seq(S)
    BY <1>1, TopFacts, NothingPushed DEF MoveSource
  <1>7. IInv'
    BY <1>1, <1>5, <1>6, AllocateOnlyKeeps DEF MoveSource, t
  <1> QED
    BY <1>6, <1>7

-----------------------------------------------------------------------------
(* The steps that end a call.                                              *)

\* The registers a call has allocated are its to overwrite.
LEMMA FirstRegister ==
    ASSUME IInv, stage = "compiling", Top.regs # <<>>
    PROVE  /\ Top.regs[1] \in Held(Top) /\ Top.regs[1] \in Writable
           /\ Top.regs[1] # Top.dst
  <1>1. Top \in FrameSet /\ Held(Top) \subseteq Writable /\ Top.dst \notin Held(Top)
    BY TopFacts
  <1> QED
    BY <1>1, FirstHeld

\* What a call leaves at a place is stored in memory, or in a variable.
LEMMA PlaceNotRegister ==
    ASSUME NEW e, NEW r, e.kind # "reg"
    PROVE  PlaceOf(e, r).kind # "reg"
  BY DEF PlaceOf, MemExpr

LEMMA LeafKeeps ==
    ASSUME IInv, Leaf PROVE IInv' /\ Untouched
  <1> DEFINE i == Load(Top.dst, Top.node)
             instrs == <<i>>
             T == {i}
  <1>1. stage = "compiling" /\ UNCHANGED stmt /\ Returning /\ Pushing(instrs)
    BY DEF Leaf, At
  <1>2. Clean(i)
    BY <1>1, TopFacts, LoadClean
  <1> HIDE DEF i
  <1>3. instrs \in Seq(T) /\ \A j \in T : Clean(j)
    BY <1>2
  <1> HIDE DEF T, instrs
  <1> QED
    BY <1>1, <1>3, ReturnKeeps

LEMMA UnaryOperatorKeeps ==
    ASSUME IInv, UnaryOperator PROVE IInv' /\ Untouched
  <1> DEFINE r == Top.dst
             i1 == OneInstr("not", r)
             i2 == Load(Lowest, Const(1))
             i3 == BinInstr("&&", r, r, Lowest, "bool")
             i4 == NegInstr(r, Top.node.type)
             i5 == Load(r, MemExpr(r, 0))
             instrs == CASE Top.node.op = "!" -> <<i1, i2, i3>>
                         [] Top.node.op = "-" -> <<i4>>
                         [] Top.node.op = "len" -> <<i5>>
                         [] OTHER -> <<>>
             T == {i4, i5} \cup (IF Top.node.op = "!" THEN {i1, i2, i3} ELSE {})
  <1>1. stage = "compiling" /\ UNCHANGED stmt /\ Returning /\ Pushing(instrs)
        /\ (Top.node.op = "!" => CanAllocate)
    BY DEF UnaryOperator, At
  <1>2. r \in Writable
    BY <1>1, TopFacts
  <1>3. Clean(i4) /\ Clean(i5)
    BY <1>2, NegClean, LoadClean
  <1>4. ASSUME Top.node.op = "!" PROVE Clean(i1) /\ Clean(i2) /\ Clean(i3)
    <2>1. Lowest \in Writable
      BY <1>1, <1>4, LowestWritable
    <2>2. "&&" \in BinaryOps
      BY DEF BinaryOps
    <2> QED
      BY <1>2, <2>1, <2>2, OneClean, LoadClean, BinClean
  <1> HIDE DEF i1, i2, i3, i4, i5
  <1>5. \A i \in T : Clean(i)
    BY <1>3, <1>4
  <1>6. instrs \in Seq(T)
    <2>1. CASE Top.node.op = "!"
      <3>1. {i1, i2, i3} \subseteq T /\ instrs = <<i1, i2, i3>>
        BY <2>1
      <3> HIDE DEF T, instrs
      <3> QED
        BY <3>1
    <2>2. CASE Top.node.op # "!"
      <3>1. i4 \in T /\ i5 \in T
        OBVIOUS
      <3>2. instrs = <<i4>> \/ instrs = <<i5>> \/ instrs = <<>>
        BY <2>2
      <3> HIDE DEF T, instrs
      <3>3. <<i4>> \in Seq(T) /\ <<i5>> \in Seq(T) /\ <<>> \in Seq(T)
        BY <3>1
      <3> QED
        BY <3>2, <3>3
    <2> QED
      BY <2>1, <2>2
  <1> HIDE DEF T, instrs
  <1> QED
    BY <1>1, <1>5, <1>6, ReturnKeeps

LEMMA BinaryOperatorKeeps ==
    ASSUME IInv, BinaryOperator PROVE IInv' /\ Untouched
  <1> DEFINE dst == Top.dst
             helper == Top.regs[1]
             op1 == IF LeftFirst(Top.node) THEN dst ELSE helper
             op2 == IF LeftFirst(Top.node) THEN helper ELSE dst
             type == Top.node.type
             i1 == BinInstr("/", Lowest, op1, op2, type)
             i2 == BinInstr("*", Lowest, Lowest, op2, type)
             i3 == BinInstr("-", dst, op1, Lowest, type)
             i4 == BinInstr(Top.node.op, dst, op1, op2, type)
             instrs == IF Top.node.op = "%" THEN <<i1, i2, i3>> ELSE <<i4>>
             T == {i4} \cup (IF Top.node.op = "%" THEN {i1, i2, i3} ELSE {})
  <1>1. /\ stage = "compiling" /\ Top.task = "expr" /\ Top.node.kind = "binary" /\ Top.at = 2
        /\ UNCHANGED stmt /\ Returning /\ Pushing(instrs)
        /\ (Top.node.op = "%" => CanAllocate)
    BY DEF BinaryOperator, At
  <1>2. Top.regs # <<>>
    BY <1>1, TopFacts DEF Shaped
  <1>3. dst \in Writable /\ helper \in Writable
    BY <1>1, <1>2, TopFacts, FirstRegister
  <1>4. op1 \in Writable /\ op2 \in Writable
    BY <1>3
  <1>5. Top.node.op \in BinaryOps
    BY <1>1, FurtherTop, ExprsAssumption
  <1> HIDE DEF dst, helper, op1, op2, type
  <1>6. Clean(i4)
    BY <1>3, <1>4, <1>5, BinClean
  <1>7. ASSUME Top.node.op = "%" PROVE Clean(i1) /\ Clean(i2) /\ Clean(i3)
    <2>1. Lowest \in Writable
      BY <1>1, <1>7, LowestWritable
    <2>2. {"/", "*", "-"} \subseteq BinaryOps
      BY DEF BinaryOps, ArithmeticOps
    <2> QED
      BY <1>3, <1>4, <2>1, <2>2, BinClean
  <1> HIDE DEF i1, i2, i3, i4
  <1>8. \A i \in T : Clean(i)
    BY <1>6, <1>7
  <1>9. instrs \in Seq(T)
    <2>1. CASE Top.node.op = "%"
      <3>1. {i1, i2, i3} \subseteq T /\ instrs = <<i1, i2, i3>>
        BY <2>1
      <3> HIDE DEF T, instrs
      <3> QED
        BY <3>1
    <2>2. CASE Top.node.op # "%"
      <3>1. i4 \in T /\ instrs = <<i4>>
        BY <2>2
      <3> HIDE DEF T, instrs
      <3> QED
        BY <3>1
    <2> QED
      BY <2>1, <2>2
  <1> HIDE DEF T, instrs
  <1> QED
    BY <1>1, <1>8, <1>9, ReturnKeeps

LEMMA ElementLoadKeeps ==
    ASSUME IInv, ElementLoad PROVE IInv' /\ Untouched
  <1> DEFINE i == Load(Top.dst, PlaceOf(Top.node, Top.regs[1]))
             instrs == <<i>>
             T == {i}
  <1>1. stage = "compiling" /\ UNCHANGED stmt /\ Returning /\ Pushing(instrs)
    BY DEF ElementLoad, At
  <1>2. Clean(i)
    BY <1>1, TopFacts, LoadClean
  <1> HIDE DEF i
  <1>3. instrs \in Seq(T) /\ \A j \in T : Clean(j)
    BY <1>2
  <1> HIDE DEF T, instrs
  <1> QED
    BY <1>1, <1>3, ReturnKeeps

LEMMA PlaceElementKeeps ==
    ASSUME IInv, PlaceElement PROVE IInv' /\ Untouched
  <1> DEFINE ptr == Top.dst
             index == Top.regs[1]
             i1 == OneInstr("push", 0)
             i2 == OneInstr("push", 1)
             i3 == Load(1, RegisterExpr(ptr))
             i4 == Load(0, RegisterExpr(index))
             i5 == OneInstr("bounds", 0)
             i6 == OneInstr("null", ptr)
             i7 == OneInstr("pop", 1)
             i8 == OneInstr("pop", 0)
             i9 == BinInstr("+4*", ptr, ptr, index, "int")
             T == {i1, i2, i3, i4, i5, i6, i7, i8, i9}
  <1>1. /\ stage = "compiling" /\ Top.task = "place" /\ Top.node.kind = "elem" /\ Top.at = 2
        /\ UNCHANGED stmt /\ Returning /\ Pushing(<<i1, i2, i3, i4, i5, i6, i7, i8, i9>>)
    BY DEF PlaceElement, At
  <1>2. Top.regs # <<>>
    BY <1>1, TopFacts DEF Shaped
  <1>3. ptr \in Writable /\ index \in Writable /\ 0 \in Writable /\ 1 \in Writable
    BY <1>1, <1>2, TopFacts, FirstRegister
  <1>4. Clean(i1) /\ Clean(i2) /\ Clean(i5) /\ Clean(i6) /\ Clean(i7) /\ Clean(i8)
    BY <1>3, OneClean
  <1>5. Clean(i3) /\ Clean(i4)
    BY <1>3, LoadClean
  <1>6. Clean(i9)
    BY <1>3, BinClean
  <1> HIDE DEF i1, i2, i3, i4, i5, i6, i7, i8, i9
  <1>7. \A i \in T : Clean(i)
    BY <1>4, <1>5, <1>6
  <1>8. <<i1, i2, i3, i4, i5, i6, i7, i8, i9>> \in Seq(T)
    OBVIOUS
  <1> HIDE DEF T
  <1> QED
    BY <1>1, <1>7, <1>8, ReturnKeeps

LEMMA PlaceFieldKeeps ==
    ASSUME IInv, PlaceField PROVE IInv' /\ Untouched
  <1> DEFINE i1 == Load(Top.dst, Var(Top.node.object))
             i2 == OneInstr("null", Top.dst)
             instrs == <<i1, i2>>
             T == {i1, i2}
  <1>1. stage = "compiling" /\ UNCHANGED stmt /\ Returning /\ Pushing(instrs)
    BY DEF PlaceField, At
  <1>2. Clean(i1) /\ Clean(i2)
    BY <1>1, TopFacts, LoadClean, OneClean
  <1> HIDE DEF i1, i2
  <1>3. instrs \in Seq(T) /\ \A j \in T : Clean(j)
    BY <1>2
  <1> HIDE DEF T, instrs
  <1> QED
    BY <1>1, <1>3, ReturnKeeps

LEMMA PlaceVariableKeeps ==
    ASSUME IInv, PlaceVariable PROVE IInv' /\ Untouched
  <1> DEFINE T == {}
             instrs == <<>>
  <1>1. stage = "compiling" /\ UNCHANGED stmt /\ Returning /\ Pushing(instrs)
    BY DEF PlaceVariable, At
  <1>2. instrs \in Seq(T) /\ \A i \in T : Clean(i)
    OBVIOUS
  <1> HIDE DEF T, instrs
  <1> QED
    BY <1>1, <1>2, ReturnKeeps

LEMMA PrintImmediateKeeps ==
    ASSUME IInv, PrintImmediate PROVE IInv' /\ Untouched
  <1> DEFINE i == ImmediateInstr(Top.node.expr)
             instrs == <<i>>
             T == {i}
  <1>1. stage = "compiling" /\ UNCHANGED stmt /\ Returning /\ Pushing(instrs)
    BY DEF PrintImmediate, At
  <1>2. Clean(i)
    BY RoutineClean
  <1> HIDE DEF i
  <1>3. instrs \in Seq(T) /\ \A j \in T : Clean(j)
    BY <1>2
  <1> HIDE DEF T, instrs
  <1> QED
    BY <1>1, <1>3, ReturnKeeps

LEMMA StmtDoneKeeps ==
    ASSUME IInv, StmtDone PROVE IInv' /\ Untouched
  <1> DEFINE i == OneInstr(Top.node.kind, Top.regs[1])
             instrs == IF Top.node.kind = "eval" THEN <<>> ELSE <<i>>
             T == IF Top.node.kind = "eval" THEN {} ELSE {i}
  <1>1. /\ stage = "compiling" /\ Top.task = "stmt" /\ Top.node.kind \in OneExprKinds
        /\ Top.at = 1
        /\ UNCHANGED stmt /\ Returning /\ Pushing(instrs)
    BY DEF StmtDone, At
  <1>2. Top.regs # <<>>
    BY <1>1, TopFacts DEF Shaped
  <1>3. Top.regs[1] \in Writable
    BY <1>1, <1>2, FirstRegister
  <1>4. Top.node.kind # "eval" => Clean(i)
    BY <1>1, <1>3, OneClean DEF OneExprKinds
  <1> HIDE DEF i
  <1>5. instrs \in Seq(T) /\ \A j \in T : Clean(j)
    <2>1. CASE Top.node.kind = "eval"
      BY <2>1
    <2>2. CASE Top.node.kind # "eval"
      BY <1>4, <2>2
    <2> QED
      BY <2>1, <2>2
  <1> HIDE DEF T, instrs
  <1> QED
    BY <1>1, <1>5, ReturnKeeps

LEMMA ReadVariableKeeps ==
    ASSUME IInv, ReadVariable PROVE IInv' /\ Untouched
  <1> DEFINE i == ReadInstr(Top.node.lhs)
             instrs == <<i>>
             T == {i}
  <1>1. stage = "compiling" /\ UNCHANGED stmt /\ Returning /\ Pushing(instrs)
    BY DEF ReadVariable, At
  <1>2. Clean(i)
    BY RoutineClean
  <1> HIDE DEF i
  <1>3. instrs \in Seq(T) /\ \A j \in T : Clean(j)
    BY <1>2
  <1> HIDE DEF T, instrs
  <1> QED
    BY <1>1, <1>3, ReturnKeeps

LEMMA ReadDoneKeeps ==
    ASSUME IInv, ReadDone PROVE IInv' /\ Untouched
  <1> DEFINE i == ReadInstr(PlaceOf(Top.node.lhs, Top.regs[1]))
             instrs == <<i>>
             T == {i}
  <1>1. stage = "compiling" /\ UNCHANGED stmt /\ Returning /\ Pushing(instrs)
    BY DEF ReadDone, At
  <1>2. Clean(i)
    BY RoutineClean
  <1> HIDE DEF i
  <1>3. instrs \in Seq(T) /\ \A j \in T : Clean(j)
    BY <1>2
  <1> HIDE DEF T, instrs
  <1> QED
    BY <1>1, <1>3, ReturnKeeps

LEMMA MoveDoneKeeps ==
    ASSUME IInv, MoveDone PROVE IInv' /\ Untouched
  <1> DEFINE i == MoveInstr(PlaceOf(Top.node.lhs, Top.regs[2]), RegisterExpr(Top.regs[1]))
             instrs == <<i>>
             T == {i}
  <1>1. /\ stage = "compiling" /\ Top.task = "stmt" /\ Top.node.kind = "move"
        /\ UNCHANGED stmt /\ Returning /\ Pushing(instrs)
    BY DEF MoveDone, At
  <1>2. Top.node.lhs.kind # "reg"
    <2>1. Top.node.lhs \in Exprs
      BY <1>1, FurtherTop, ExprsAssumption
    <2> QED
      BY <2>1, ExprsAssumption DEF ExprKinds
  <1>3. PlaceOf(Top.node.lhs, Top.regs[2]).kind # "reg"
    BY <1>2, PlaceNotRegister
  <1>4. Clean(i)
    BY <1>3, StoreClean
  <1> HIDE DEF i
  <1>5. instrs \in Seq(T) /\ \A j \in T : Clean(j)
    BY <1>4
  <1> HIDE DEF T, instrs
  <1> QED
    BY <1>1, <1>5, ReturnKeeps

\* The pops after a call go to a free register.
LEMMA CallDoneKeeps ==
    ASSUME IInv, CallDone PROVE IInv' /\ Untouched
  <1> DEFINE n == Len(Top.node.args)
             i1 == CallInstr(n)
             i2 == Load(Top.dst, RegisterExpr(0))
             pop == OneInstr("pop", Lowest)
             pops == [k \in 1..(n - 4) |-> pop]
             instrs == <<i1, i2>> \o pops
             T == {i1, i2} \cup (IF n > 4 THEN {pop} ELSE {})
  <1>1. /\ stage = "compiling" /\ Top.task = "expr" /\ Top.node.kind = "call"
        /\ UNCHANGED stmt /\ Returning /\ Pushing(instrs)
        /\ (n > 4 => CanAllocate)
    BY DEF CallDone, At
  <1>2. n \in Nat
    <2>1. Top.node.args \in Seq(Exprs)
      BY <1>1, FurtherTop, ExprsAssumption
    <2> QED
      BY <2>1
  <1>3. Clean(i1) /\ Clean(i2)
    BY <1>1, TopFacts, RoutineClean, LoadClean
  <1>4. ASSUME n > 4 PROVE Clean(pop)
    BY <1>1, <1>4, LowestWritable, OneClean
  <1> HIDE DEF n, i1, i2, pop
  <1>5. \A i \in T : Clean(i)
    BY <1>3, <1>4
  <1>6. <<i1, i2>> \in Seq(T)
    OBVIOUS
  <1>7. pops \in Seq(T)
    <2>1. CASE n > 4
      <3>1. n - 4 \in Nat /\ pop \in T
        BY <1>2, <2>1
      <3> HIDE DEF T
      <3> QED
        BY <3>1
    <2>2. CASE ~(n > 4)
      <3>1. 1..(n - 4) = 1..0
        BY <1>2, <2>2
      <3>2. pops = [k \in 1..0 |-> pop]
        BY <3>1
      <3> HIDE DEF T
      <3>3. [k \in 1..0 |-> pop] \in Seq(T)
        OBVIOUS
      <3> QED
        BY <3>2, <3>3
    <2> QED
      BY <2>1, <2>2
  <1>8. instrs \in Seq(T)
    <2> HIDE DEF T, pops
    <2> QED
      BY <1>6, <1>7
  <1> HIDE DEF T, instrs
  <1> QED
    BY <1>1, <1>5, <1>8, ReturnKeeps

-----------------------------------------------------------------------------
(* Objects and arguments.                                                  *)

LEMMA NewObjectKeeps ==
    ASSUME IInv, NewObject PROVE IInv' /\ Untouched
  <1> DEFINE n == Len(Top.node.args)
             t == FurtherWith(Top, Lowest)
             i1 == HeapAllocInstr(Top.dst, 4 * n + Top.node.base)
             i2 == Load(Lowest, Const(n))
             i3 == MoveInstr(MemExpr(Top.dst, 0), RegisterExpr(Lowest))
             last == IF Top.node.base = 0 THEN <<>> ELSE <<i2, i3>>
             instrs == <<i1>> \o last
             T == {i1, i2, i3}
  <1>1. /\ stage = "compiling" /\ Top.task = "expr" /\ Top.node.kind = "new" /\ Top.at = 0
        /\ UNCHANGED <<stmt, stage>> /\ Allocating(<<>>) /\ CanAllocate /\ Pushing(instrs)
    BY DEF NewObject, At, Allocating
  <1>2. Clean(i1) /\ Clean(i2)
    BY <1>1, TopFacts, LowestWritable, AllocClean, LoadClean
  <1>3. Clean(i3)
    <2>1. MemExpr(Top.dst, 0).kind # "reg"
      BY DEF MemExpr
    <2> QED
      BY <2>1, StoreClean
  <1>4. /\ t.task = "expr" /\ t.node.kind = "new" /\ t.at = 1 /\ t.regs # <<>>
    BY <1>1, FurtherWithTop
  <1> HIDE DEF t
  <1>5. Shaped(t)
    BY <1>4 DEF Shaped
  <1> HIDE DEF i1, i2, i3
  <1>6. \A i \in T : Clean(i)
    BY <1>2, <1>3
  <1>7. last \in Seq(T) /\ <<i1>> \in Seq(T)
    <2>1. last = <<>> \/ last = <<i2, i3>>
      OBVIOUS
    <2>2. i1 \in T /\ i2 \in T /\ i3 \in T
      OBVIOUS
    <2> HIDE DEF last, T
    <2>3. <<i1>> \in Seq(T) /\ <<i2, i3>> \in Seq(T) /\ <<>> \in Seq(T)
      BY <2>2
    <2> QED
      BY <2>1, <2>3
  <1>8. instrs \in Seq(T)
    <2> HIDE DEF last, T
    <2> QED
      BY <1>7
  <1> HIDE DEF T, instrs
  <1>9. Untouched /\ \E S : code' \in Seq(S)
    BY <1>1, <1>6, <1>8, TopFacts, PushingClean
  <1>10. IInv'
    BY <1>1, <1>5, <1>9, AllocateOnlyKeeps DEF t
  <1> QED
    BY <1>9, <1>10

\* Storing an argument overwrites no register.
LEMMA StoreLastClean ==
    ASSUME NEW T, T = {MoveInstr(MemExpr(Top.dst, Top.node.base + 4 * (Top.at - 2)), RegisterExpr(Top.regs[1]))}
    PROVE  StoreLast \in Seq(T) /\ \A i \in T : Clean(i)
  <1> DEFINE place == MemExpr(Top.dst, Top.node.base + 4 * (Top.at - 2))
             i == MoveInstr(place, RegisterExpr(Top.regs[1]))
  <1>1. place.kind # "reg"
    BY DEF MemExpr
  <1>2. Clean(i)
    BY <1>1, StoreClean
  <1>3. StoreLast = <<>> \/ StoreLast = <<i>>
    BY DEF StoreLast
  <1>4. T = {i}
    OBVIOUS
  <1> HIDE DEF i
  <1>5. <<>> \in Seq(T) /\ <<i>> \in Seq(T)
    BY <1>4
  <1> QED
    BY <1>2, <1>3, <1>4, <1>5

LEMMA NewDoneKeeps ==
    ASSUME IInv, NewDone PROVE IInv' /\ Untouched
  <1> DEFINE T == {MoveInstr(MemExpr(Top.dst, Top.node.base + 4 * (Top.at - 2)), RegisterExpr(Top.regs[1]))}
  <1>1. stage = "compiling" /\ UNCHANGED stmt /\ Returning /\ Pushing(StoreLast)
    BY DEF NewDone, At
  <1>2. StoreLast \in Seq(T) /\ \A i \in T : Clean(i)
    BY StoreLastClean
  <1> HIDE DEF T
  <1> QED
    BY <1>1, <1>2, ReturnKeeps

LEMMA NewArgumentKeeps ==
    ASSUME IInv, NewArgument PROVE IInv' /\ Untouched
  <1> DEFINE T == {MoveInstr(MemExpr(Top.dst, Top.node.base + 4 * (Top.at - 2)), RegisterExpr(Top.regs[1]))}
             t == Further(Top)
             arg == Top.node.args[Top.at]
  <1>1. /\ stage = "compiling" /\ Top.task = "expr" /\ Top.node.kind = "new"
        /\ Top.at \in 1..Len(Top.node.args)
        /\ UNCHANGED <<stmt, stage>> /\ Pushing(StoreLast)
        /\ Calling(Frame("expr", arg, Top.regs[1]))
    BY DEF NewArgument, At
  <1>2. arg \in Exprs
    <2>1. Top.node.args \in Seq(Exprs)
      BY <1>1, FurtherTop, ExprsAssumption
    <2> QED
      BY <1>1, <2>1
  <1>3. Top.at > 0
    BY <1>1
  <1>4. Top.regs # <<>>
    BY <1>1, <1>3, TopFacts DEF Shaped
  <1>5. Top.regs[1] \in Held(Top) /\ Top.regs[1] # Top.dst
    BY <1>1, <1>4, FirstRegister
  <1>6. /\ t.task = "expr" /\ t.node.kind = "new" /\ t.at > 1 /\ t.regs # <<>> /\ t.dst = Top.dst
    BY <1>1, <1>3, <1>4, FurtherTop
  <1> HIDE DEF t, arg
  <1>7. Shaped(t) /\ Top.regs[1] \notin Needs(t) \cap Pool
    BY <1>5, <1>6 DEF Shaped, Needs
  <1>8. StoreLast \in Seq(T) /\ \A i \in T : Clean(i)
    BY StoreLastClean
  <1> HIDE DEF T
  <1>9. Untouched /\ \E S : code' \in Seq(S)
    BY <1>1, <1>8, TopFacts, PushingClean
  <1>10. IInv'
    BY <1>1, <1>2, <1>5, <1>7, <1>9, CallKeeps DEF t
  <1> QED
    BY <1>9, <1>10

LEMMA NextArgument ==
    ASSUME IInv, stage = "compiling", Top.task = "expr", AtArgument
    PROVE  Top.node.args[Top.at + 1] \in Exprs
  <1>1. Top.node.args \in Seq(Exprs) /\ Top.at \in Nat
    BY FurtherTop, ExprsAssumption DEF AtArgument
  <1>2. Top.at + 1 \in 1..Len(Top.node.args)
    BY <1>1 DEF AtArgument
  <1> QED
    BY <1>1, <1>2

LEMMA RegisterArgumentKeeps ==
    ASSUME IInv, RegisterArgument PROVE IInv' /\ Untouched
  <1>1. /\ stage = "compiling" /\ Top.task = "expr" /\ Top.node.kind = "call"
        /\ Top.at \in ArgRegisters /\ AtArgument /\ Top.regs = <<>>
    BY DEF RegisterArgument, At, AtArgument
  <1>2. Top.node.args[Top.at + 1] \in Exprs
    BY <1>1, NextArgument
  <1>3. Shaped(Further(Top)) /\ Top.at \notin Needs(Further(Top)) \cap Pool
    BY <1>1, FurtherTop DEF Shaped, Needs
  <1>4. Untouched /\ \E S : code' \in Seq(S)
    BY <1>1, TopFacts, NothingPushed DEF RegisterArgument
  <1>5. IInv'
    BY <1>1, <1>2, <1>3, <1>4, CallKeeps DEF RegisterArgument
  <1> QED
    BY <1>4, <1>5

LEMMA StackArgumentKeeps ==
    ASSUME IInv, StackArgument PROVE IInv' /\ Untouched
  <1>1. /\ stage = "compiling" /\ Top.task = "expr" /\ Top.node.kind = "call" /\ AtArgument
        /\ CanAllocate
    BY DEF StackArgument, At, Allocating
  <1>2. Top.node.args[Top.at + 1] \in Exprs
    BY <1>1, NextArgument
  <1>3. Shaped(FurtherWith(Top, Lowest)) /\ Lowest \notin Needs(FurtherWith(Top, Lowest)) \cap Pool
    BY <1>1, FurtherTop, FurtherWithTop DEF Shaped, Needs
  <1>4. Untouched /\ \E S : code' \in Seq(S)
    BY <1>1, TopFacts, NothingPushed DEF StackArgument
  <1>5. IInv'
    BY <1>1, <1>2, <1>3, <1>4, AllocateKeeps DEF StackArgument
  <1> QED
    BY <1>4, <1>5

\* The argument is on the stack, its register free again.
LEMMA PushArgumentKeeps ==
    ASSUME IInv, PushArgument PROVE IInv' /\ Untouched
  <1> DEFINE L == Len(frames)
             t == [Top EXCEPT !.regs = <<>>]
             i == OneInstr("push", Top.regs[1])
             instrs == <<i>>
             T == {i}
  <1>1. /\ stage = "compiling" /\ Top.task = "expr" /\ Top.node.kind = "call" /\ Top.regs # <<>>
        /\ UNCHANGED <<stmt, stage>> /\ Pushing(instrs)
        /\ registerUseList' = registerUseList \ Held(Top)
        /\ frames' = [frames EXCEPT ![L] = t]
    BY DEF PushArgument, At, Top
  <1>2. Sound(frames, registerUseList) /\ frames # <<>> /\ Top \in FrameSet /\ \E S : code \in Seq(S)
    BY <1>1, TopFacts
  <1>3. frames \in Seq(FrameSet) /\ L \in Nat /\ L \in 1..L
    BY <1>2, EmptySeq DEF Sound
  <1>4. /\ t \in FrameSet /\ t.task = Top.task /\ t.dst = Top.dst /\ t.node = Top.node
        /\ t.regs = <<>>
    <2>1. Top \in [task : {"expr", "place"}, node : Exprs, dst : ArgRegisters \cup Pool, at : Nat, regs : Seq(Pool)]
          \/ Top \in [task : {"stmt"}, node : Statements, dst : {0}, at : Nat, regs : Seq(Pool)]
      BY <1>2 DEF FrameSet
    <2>2. t.task = Top.task /\ t.dst = Top.dst /\ t.node = Top.node /\ t.regs = <<>>
      BY <2>1
    <2>3. <<>> \in Seq(Pool)
      OBVIOUS
    <2>4. t \in FrameSet
      BY <2>1, <2>3 DEF FrameSet
    <2> QED
      BY <2>2, <2>4
  <1>5. Clean(i)
    BY <1>1, FirstRegister, OneClean
  <1> HIDE DEF i, t
  <1>6. Shaped(t) /\ Held(t) = {}
    BY <1>1, <1>4, NoneHeld DEF Shaped
  <1>7. Sound([frames EXCEPT ![L] = t], (registerUseList \ Held(Top)) \cup Held(t))
    BY <1>2, <1>4, <1>6, SoundTop DEF Top
  <1>8. (registerUseList \ Held(Top)) \cup Held(t) = registerUseList \ Held(Top)
    BY <1>6
  <1>9. [frames EXCEPT ![L] = t] # <<>>
    BY <1>3, <1>4, ExceptSeq, EmptySeq
  <1>10. Sound(frames', registerUseList') /\ frames' # <<>>
    BY <1>1, <1>7, <1>8, <1>9
  <1>11. instrs \in Seq(T) /\ \A j \in T : Clean(j)
    BY <1>5
  <1> HIDE DEF T, instrs
  <1>12. Untouched /\ \E S : code' \in Seq(S)
    BY <1>1, <1>2, <1>11, PushingClean
  <1>13. IInv'
    BY <1>1, <1>10, <1>12, WentOn
  <1> QED
    BY <1>12, <1>13

LEMMA PanicKeeps ==
    ASSUME IInv, Panic PROVE IInv' /\ Untouched
  <1>1. Untouched
    BY NothingPushed DEF Panic, IInv
  <1>2. IInv'
    BY DEF Panic, IInv
  <1> QED
    BY <1>1, <1>2

-----------------------------------------------------------------------------
(* The theorems.                                                           *)

LEMMA InitSound == CompileInit => IInv
  <1> SUFFICES ASSUME CompileInit PROVE IInv
    OBVIOUS
  <1> DEFINE f == Frame("stmt", stmt, 0)
  <1>1. stmt \in Statements /\ frames = <<f>> /\ registerUseList = {} /\ code = <<>>
        /\ stage = "compiling"
    BY DEF CompileInit
  <1>2. /\ f \in FrameSet /\ f.task = "stmt" /\ f.dst = 0 /\ f.regs = <<>> /\ f.at = 0
    BY <1>1 DEF Frame, FrameSet
  <1> HIDE DEF f
  <1>3. Held(f) = {} /\ Shaped(f)
    BY <1>2, NoneHeld DEF Shaped
  <1>4. frames \in Seq(FrameSet) /\ Len(frames) = 1 /\ frames[1] = f /\ frames # <<>>
    BY <1>1, <1>2
  <1>5. \A n \in 1..Len(frames) : n = 1 /\ frames[n] = f
    BY <1>4
  <1>6. 0 \in ArgRegisters
    BY DEF ArgRegisters
  <1>7. Sound(frames, registerUseList)
    BY <1>1, <1>2, <1>3, <1>4, <1>5, <1>6 DEF Sound
  <1>8. \E S : code \in Seq(S)
    BY <1>1, EmptySeq
  <1> QED
    BY <1>1, <1>4, <1>7, <1>8 DEF IInv

LEMMA StepSound == IInv /\ [CompileNext]_vars => IInv' /\ Untouched
  <1> SUFFICES ASSUME IInv, [CompileNext]_vars PROVE IInv' /\ Untouched
    OBVIOUS
  <1>1. CASE UNCHANGED vars
    <2>1. Untouched
      BY <1>1, NothingPushed DEF IInv, vars
    <2>2. IInv'
      BY <1>1 DEF IInv, vars
    <2> QED
      BY <2>1, <2>2
  <1>2. CASE Leaf \/ UnaryOperand \/ UnaryOperator \/ BinaryFirst \/ BinarySecond \/ BinaryOperator
    BY <1>2, LeafKeeps, UnaryOperandKeeps, UnaryOperatorKeeps, BinaryFirstKeeps, BinarySecondKeeps,
       BinaryOperatorKeeps
  <1>3. CASE ElementPlace \/ ElementLoad \/ NewObject \/ NewArgument \/ NewDone
    BY <1>3, ElementPlaceKeeps, ElementLoadKeeps, NewObjectKeeps, NewArgumentKeeps, NewDoneKeeps
  <1>4. CASE RegisterArgument \/ StackArgument \/ PushArgument \/ CallDone
    BY <1>4, RegisterArgumentKeeps, StackArgumentKeeps, PushArgumentKeeps, CallDoneKeeps
  <1>5. CASE PlaceArray \/ PlaceIndex \/ PlaceElement \/ PlaceField \/ PlaceVariable
    BY <1>5, PlaceArrayKeeps, PlaceIndexKeeps, PlaceElementKeeps, PlaceFieldKeeps, PlaceVariableKeeps
  <1>6. CASE PrintImmediate \/ StmtExpr \/ StmtDone
    BY <1>6, PrintImmediateKeeps, StmtExprKeeps, StmtDoneKeeps
  <1>7. CASE MoveSource \/ MoveExpr \/ MovePlace \/ MoveDone
    BY <1>7, MoveSourceKeeps, MoveExprKeeps, MovePlaceKeeps, MoveDoneKeeps
  <1>8. CASE ReadVariable \/ ReadPlace \/ ReadDone \/ Panic
    BY <1>8, ReadVariableKeeps, ReadPlaceKeeps, ReadDoneKeeps, PanicKeeps
  <1> QED
    BY <1>1, <1>2, <1>3, <1>4, <1>5, <1>6, <1>7, <1>8 DEF CompileNext

LEMMA IInvImplies == IInv => TypeOK /\ RegistersAccounted
  <1> SUFFICES ASSUME IInv PROVE TypeOK /\ RegistersAccounted
    OBVIOUS
  <1>1. frames \in Seq(FrameSet)
    BY DEF IInv, Sound
  <1>2. \A n \in 1..Len(frames) : frames[n] \in FrameSet
    BY <1>1
  <1>3. registerUseList = UNION {Held(frames[n]) : n \in 1..Len(frames)}
    BY DEF IInv, Sound
  <1>4. registerUseList \subseteq Pool
    BY <1>2, <1>3, HeldInPool
  <1>5. RegistersAccounted
    BY <1>3 DEF IInv, Sound, RegistersAccounted
  <1>6. TypeOK
    BY <1>2, <1>4, FrameFields DEF IInv, TypeOK
  <1> QED
    BY <1>5, <1>6

\* However many registers there are and whatever is compiled, the state of
\* allocateRegisters is well formed: every call in progress has a destination
\* that is a register and has taken registers of the pool only.
THEOREM CompileTypeCorrect == CompileSpec => []TypeOK
  <1>1. CompileInit => IInv
    BY InitSound
  <1>2. IInv /\ [CompileNext]_vars => IInv'
    BY StepSound
  <1>3. IInv => TypeOK
    BY IInvImplies
  <1> QED
    BY <1>1, <1>2, <1>3, PTL DEF CompileSpec

\* The registers marked as used are the ones the calls in progress will free,
\* no register being taken twice or freed by two calls.
THEOREM CompileAccountsRegisters == CompileSpec => []RegistersAccounted
  <1>1. CompileInit => IInv
    BY InitSound
  <1>2. IInv /\ [CompileNext]_vars => IInv'
    BY StepSound
  <1>3. IInv => RegistersAccounted
    BY IInvImplies
  <1> QED
    BY <1>1, <1>2, <1>3, PTL DEF CompileSpec

\* No instruction generated for a part of an expression overwrites a register
\* of the pool in which the value of another part waits.
THEOREM CompileKeepsTemporaries == CompileSpec => TemporariesSurvive
  <1>1. CompileInit => IInv
    BY InitSound
  <1>2. IInv /\ [CompileNext]_vars => IInv'
    BY StepSound
  <1>3. IInv /\ [CompileNext]_vars
        => [\A n \in (Len(code) + 1)..Len(code') :
               Writes(code'[n]) \cap Waiting \cap Pool = {}]_vars
    BY StepSound DEF Untouched
  <1> QED
    BY <1>1, <1>2, <1>3, PTL DEF CompileSpec, TemporariesSurvive

-----------------------------------------------------------------------------
(* The recursive definitions of ExprCode.                                  *)

WeightFrom(f, e) ==
    CASE e.kind = "unary"  -> f[e.operand] + 1
      [] e.kind = "binary" -> f[e.left] + f[e.right] + 1
      [] OTHER -> 1

LEMMA WeightEquation == \A e \in Exprs : Weight[e] = WeightFrom(Weight, e)
  <1> DEFINE m == [e \in Exprs |-> Weight[e]]
             T == [f \in [Exprs -> Nat] |-> [e \in Exprs |-> WeightFrom(f, e)]]
  <1>1. m \in [Exprs -> Nat]
    BY TreesAssumption
  <1>2. ASSUME NEW f \in [Exprs -> Nat], NEW e \in Exprs PROVE WeightFrom(f, e) \in Nat
    BY ExprsAssumption DEF WeightFrom
  <1>3. T \in [[Exprs -> Nat] -> [Exprs -> Nat]]
    BY <1>2
  <1>4. ASSUME NEW f \in [Exprs -> Nat], NEW g \in [Exprs -> Nat], NEW e \in Exprs,
               \A c \in Exprs : m[c] < m[e] => f[c] = g[c]
        PROVE  T[f][e] = T[g][e]
    <2>1. T[f][e] = WeightFrom(f, e) /\ T[g][e] = WeightFrom(g, e)
      OBVIOUS
    <2>2. e.kind = "unary" => e.operand \in Exprs /\ m[e.operand] < m[e]
      BY ExprsAssumption, TreesAssumption
    <2>3. e.kind = "binary" => /\ e.left \in Exprs /\ m[e.left] < m[e]
                               /\ e.right \in Exprs /\ m[e.right] < m[e]
      BY ExprsAssumption, TreesAssumption
    <2> HIDE DEF m, T
    <2>4. WeightFrom(f, e) = WeightFrom(g, e)
      BY <1>4, <2>2, <2>3 DEF WeightFrom
    <2> QED
      BY <2>1, <2>4
  <1>5. Local(Exprs, Nat, m, T)
    <2> HIDE DEF m, T
    <2> QED
      BY <1>1, <1>3, <1>4 DEF Local
  <1>6. Nat # {}
    OBVIOUS
  <1>7. PICK f \in [Exprs -> Nat] : f = T[f]
    <2> HIDE DEF m, T
    <2> QED
      BY <1>5, <1>6, FixedPoint
  <1>8. f = [e \in Exprs |-> WeightFrom(f, e)]
    BY <1>7
  <1>9. Weight = CHOOSE w : w = [e \in Exprs |-> WeightFrom(w, e)]
    BY DEF Weight, WeightFrom
  <1>10. Weight = [e \in Exprs |-> WeightFrom(Weight, e)]
    <2> HIDE DEF m, T
    <2> QED
      BY <1>8, <1>9
  <1> QED
    BY <1>10

PlainFrom(f, e) ==
    CASE e.kind = "unary"  -> e.op # "!" /\ f[e.operand]
      [] e.kind = "binary" -> e.op # "%" /\ f[e.left] /\ f[e.right]
      [] OTHER -> e.kind \in {"const", "var"}

LEMMA PlainEquation == \A e \in Exprs : Plain[e] = PlainFrom(Plain, e)
  <1> DEFINE m == [e \in Exprs |-> Weight[e]]
             T == [f \in [Exprs -> BOOLEAN] |-> [e \in Exprs |-> PlainFrom(f, e)]]
  <1>1. m \in [Exprs -> Nat]
    BY TreesAssumption
  <1>2. ASSUME NEW f \in [Exprs -> BOOLEAN], NEW e \in Exprs PROVE PlainFrom(f, e) \in BOOLEAN
    <2>1. e.kind = "unary" => f[e.operand] \in BOOLEAN
      BY ExprsAssumption
    <2>2. e.kind = "binary" => f[e.left] \in BOOLEAN /\ f[e.right] \in BOOLEAN
      BY ExprsAssumption
    <2>3. CASE e.kind = "unary"
      BY <2>1, <2>3 DEF PlainFrom
    <2>4. CASE e.kind = "binary"
      BY <2>2, <2>4 DEF PlainFrom
    <2>5. CASE e.kind # "unary" /\ e.kind # "binary"
      <3>1. PlainFrom(f, e) = (e.kind \in {"const", "var"})
        BY <2>5 DEF PlainFrom
      <3>2. (e.kind \in {"const", "var"}) \in BOOLEAN
        OBVIOUS
      <3> QED
        BY <3>1, <3>2
    <2> QED
      BY <2>3, <2>4, <2>5
  <1>3. T \in [[Exprs -> BOOLEAN] -> [Exprs -> BOOLEAN]]
    BY <1>2
  <1>4. ASSUME NEW f \in [Exprs -> BOOLEAN], NEW g \in [Exprs -> BOOLEAN], NEW e \in Exprs,
               \A c \in Exprs : m[c] < m[e] => f[c] = g[c]
        PROVE  T[f][e] = T[g][e]
    <2>1. T[f][e] = PlainFrom(f, e) /\ T[g][e] = PlainFrom(g, e)
      OBVIOUS
    <2>2. e.kind = "unary" => e.operand \in Exprs /\ m[e.operand] < m[e]
      BY ExprsAssumption, TreesAssumption
    <2>3. e.kind = "binary" => /\ e.left \in Exprs /\ m[e.left] < m[e]
                               /\ e.right \in Exprs /\ m[e.right] < m[e]
      BY ExprsAssumption, TreesAssumption
    <2> HIDE DEF m, T
    <2>4. PlainFrom(f, e) = PlainFrom(g, e)
      BY <1>4, <2>2, <2>3 DEF PlainFrom
    <2> QED
      BY <2>1, <2>4
  <1>5. Local(Exprs, BOOLEAN, m, T)
    <2> HIDE DEF m, T
    <2> QED
      BY <1>1, <1>3, <1>4 DEF Local
  <1>6. BOOLEAN # {}
    OBVIOUS
  <1>7. PICK f \in [Exprs -> BOOLEAN] : f = T[f]
    <2> HIDE DEF m, T
    <2> QED
      BY <1>5, <1>6, FixedPoint
  <1>8. f = [e \in Exprs |-> PlainFrom(f, e)]
    BY <1>7
  <1>9. Plain = CHOOSE w : w = [e \in Exprs |-> PlainFrom(w, e)]
    BY DEF Plain, PlainFrom
  <1>10. Plain = [e \in Exprs |-> PlainFrom(Plain, e)]
    <2> HIDE DEF m, T
    <2> QED
      BY <1>8, <1>9
  <1> QED
    BY <1>10

LEMMA PerfectEquation ==
    \A n \in -1..NumRegisters :
        /\ Perfect[n] \in Nat
        /\ Perfect[n] = IF n = -1 THEN 0 ELSE 2 * Perfect[n - 1] + 1
  <1> DEFINE D == -1..NumRegisters
             Next1(f, n) == IF n = -1 THEN 0 ELSE 2 * f[n - 1] + 1
             m == [n \in D |-> n + 1]
             T == [f \in [D -> Nat] |-> [n \in D |-> Next1(f, n)]]
  <1>0. \A n \in D : n = -1 \/ n - 1 \in D
    BY RegistersAssumption
  <1>1. m \in [D -> Nat]
    BY RegistersAssumption
  <1>2. ASSUME NEW f \in [D -> Nat], NEW n \in D PROVE Next1(f, n) \in Nat
    <2>1. n # -1 => f[n - 1] \in Nat
      BY <1>0
    <2> QED
      BY <2>1
  <1>3. T \in [[D -> Nat] -> [D -> Nat]]
    <2> HIDE DEF D, Next1
    <2> QED
      BY <1>2
  <1>4. ASSUME NEW f \in [D -> Nat], NEW g \in [D -> Nat], NEW n \in D,
               \A c \in D : m[c] < m[n] => f[c] = g[c]
        PROVE  T[f][n] = T[g][n]
    <2>1. T[f][n] = Next1(f, n) /\ T[g][n] = Next1(g, n)
      <3> HIDE DEF D, Next1
      <3> QED
        OBVIOUS
    <2>2. n # -1 => n - 1 \in D /\ m[n - 1] < m[n]
      BY <1>0
    <2>3. n # -1 => f[n - 1] = g[n - 1]
      <3> HIDE DEF D, m
      <3> QED
        BY <1>4, <2>2
    <2> HIDE DEF D, m, T
    <2> QED
      BY <2>1, <2>3
  <1>5. Local(D, Nat, m, T)
    <2> HIDE DEF D, m, T
    <2> QED
      BY <1>1, <1>3, <1>4 DEF Local
  <1>6. Nat # {}
    OBVIOUS
  <1>7. PICK f \in [D -> Nat] : f = T[f]
    <2> HIDE DEF D, m, T
    <2> QED
      BY <1>5, <1>6, FixedPoint
  <1>8. f = [n \in D |-> Next1(f, n)]
    <2> HIDE DEF D, Next1
    <2> QED
      BY <1>7
  <1>9. Perfect = CHOOSE w : w = [n \in D |-> Next1(w, n)]
    BY DEF Perfect
  <1>10. Perfect = [n \in D |-> Next1(Perfect, n)]
    <2> HIDE DEF D, m, T, Next1
    <2> QED
      BY <1>8, <1>9
  <1>11. \A n \in D : Perfect[n] = Next1(Perfect, n)
    <2> HIDE DEF D, Next1
    <2> QED
      BY <1>10
  <1>12. \A n \in D : Perfect[n] \in Nat
    <2> DEFINE P == {n \in D : Perfect[n] \in Nat}
    <2>1. ASSUME NEW n \in D, \A c \in D : m[c] < m[n] => c \in P PROVE n \in P
      <3>1. n # -1 => n - 1 \in D /\ m[n - 1] < m[n]
        BY <1>0
      <3>2. n # -1 => n - 1 \in P
        <4> HIDE DEF D, m, P
        <4> QED
          BY <2>1, <3>1
      <3>3. n # -1 => Perfect[n - 1] \in Nat
        BY <3>2
      <3>4. Next1(Perfect, n) \in Nat
        BY <3>3
      <3> HIDE DEF Next1, D
      <3> QED
        BY <1>11, <3>4
    <2>2. D \subseteq P
      <3> HIDE DEF D, m, P
      <3> QED
        BY <1>1, <2>1, ByMeasure
    <2> QED
      BY <2>2
  <1> QED
    BY <1>11, <1>12

-----------------------------------------------------------------------------
(* What weights and plainness say of operands.                             *)

LEMMA WeightFacts ==
    ASSUME NEW e \in Exprs
    PROVE  /\ Weight[e] \in Nat /\ Weight[e] >= 1
           /\ e.kind = "unary" => e.operand \in Exprs /\ Weight[e.operand] < Weight[e]
           /\ e.kind = "binary" =>
                 /\ FirstSide(e) \in Exprs /\ Weight[FirstSide(e)] < Weight[e]
                 /\ SecondSide(e) \in Exprs /\ 2 * Weight[SecondSide(e)] + 1 <= Weight[e]
                 /\ Weight[SecondSide(e)] >= 1
  <1>1. ASSUME NEW c \in Exprs PROVE Weight[c] \in Nat /\ Weight[c] = WeightFrom(Weight, c)
    BY TreesAssumption, WeightEquation
  <1>2. ASSUME NEW c \in Exprs PROVE Weight[c] >= 1
    <2>1. c.kind = "unary" => c.operand \in Exprs /\ Weight[c.operand] \in Nat
      BY <1>1, ExprsAssumption
    <2>2. c.kind = "binary" => /\ c.left \in Exprs /\ Weight[c.left] \in Nat
                               /\ c.right \in Exprs /\ Weight[c.right] \in Nat
      BY <1>1, ExprsAssumption
    <2>3. Weight[c] = WeightFrom(Weight, c)
      BY <1>1
    <2>4. CASE c.kind = "unary"
      BY <2>1, <2>3, <2>4 DEF WeightFrom
    <2>5. CASE c.kind = "binary"
      BY <2>2, <2>3, <2>5 DEF WeightFrom
    <2>6. CASE c.kind # "unary" /\ c.kind # "binary"
      BY <2>3, <2>6 DEF WeightFrom
    <2> QED
      BY <2>4, <2>5, <2>6
  <1>3. e.kind = "unary" => e.operand \in Exprs /\ Weight[e.operand] < Weight[e]
    BY ExprsAssumption, TreesAssumption
  <1>4. ASSUME e.kind = "binary"
        PROVE  /\ FirstSide(e) \in Exprs /\ Weight[FirstSide(e)] < Weight[e]
               /\ SecondSide(e) \in Exprs /\ 2 * Weight[SecondSide(e)] + 1 <= Weight[e]
               /\ Weight[SecondSide(e)] >= 1
    <2>1. e.left \in Exprs /\ e.right \in Exprs
      BY <1>4, ExprsAssumption
    <2>2. Weight[e.left] \in Nat /\ Weight[e.right] \in Nat /\ Weight[e.left] >= 1 /\ Weight[e.right] >= 1
      BY <2>1, <1>1, <1>2
    <2>3. Weight[e] = Weight[e.left] + Weight[e.right] + 1
      <3>1. Weight[e] = WeightFrom(Weight, e)
        BY <1>1
      <3> QED
        BY <3>1, <1>4 DEF WeightFrom
    <2>4. CASE LeftFirst(e)
      <3>1. FirstSide(e) = e.left /\ SecondSide(e) = e.right /\ Weight[e.left] > Weight[e.right]
        BY <2>4 DEF FirstSide, SecondSide, LeftFirst
      <3> QED
        BY <2>1, <2>2, <2>3, <3>1
    <2>5. CASE ~LeftFirst(e)
      <3>1. FirstSide(e) = e.right /\ SecondSide(e) = e.left /\ ~(Weight[e.left] > Weight[e.right])
        BY <2>5 DEF FirstSide, SecondSide, LeftFirst
      <3> QED
        BY <2>1, <2>2, <2>3, <3>1
    <2> QED
      BY <2>4, <2>5
  <1> QED
    BY <1>1, <1>2, <1>3, <1>4

LEMMA PlainFacts ==
    ASSUME NEW e \in Exprs, Plain[e]
    PROVE  /\ e.kind \in {"const", "var", "unary", "binary"}
           /\ e.kind = "unary" => e.op # "!" /\ Plain[e.operand]
           /\ e.kind = "binary" => e.op # "%" /\ Plain[FirstSide(e)] /\ Plain[SecondSide(e)]
  <1>1. PlainFrom(Plain, e)
    BY PlainEquation
  <1>2. CASE e.kind = "unary"
    BY <1>1, <1>2 DEF PlainFrom
  <1>3. CASE e.kind = "binary"
    <2>1. e.op # "%" /\ Plain[e.left] /\ Plain[e.right]
      BY <1>1, <1>3 DEF PlainFrom
    <2> QED
      BY <1>3, <2>1 DEF FirstSide, SecondSide
  <1>4. CASE e.kind # "unary" /\ e.kind # "binary"
    BY <1>1, <1>4 DEF PlainFrom
  <1> QED
    BY <1>2, <1>3, <1>4

-----------------------------------------------------------------------------
(* The registers that the calls further out leave.                         *)

BelowIn(fs, n) == UNION {Held(fs[k]) : k \in 1..(n - 1)}

\* With the one the call's result goes to.
AvailableIn(fs, n) == Cardinality(Pool \ BelowIn(fs, n)) + 1

LEMMA PoolSize ==
    /\ IsFiniteSet(Pool)
    /\ Cardinality(Pool) \in Nat /\ Cardinality(Pool) = NumRegisters - 4
  <1>1. 4 \in Int /\ NumRegisters - 1 \in Int
    BY RegistersAssumption
  <1>2. /\ IsFiniteSet(4..(NumRegisters - 1))
        /\ Cardinality(4..(NumRegisters - 1))
           = IF 4 > NumRegisters - 1 THEN 0 ELSE (NumRegisters - 1) - 4 + 1
    BY <1>1, FS_Interval
  <1> QED
    BY <1>2, RegistersAssumption DEF Pool

LEMMA AvailableBound ==
    ASSUME NEW fs, NEW n
    PROVE  AvailableIn(fs, n) \in 1..NumRegisters
  <1>1. IsFiniteSet(Pool \ BelowIn(fs, n)) /\ Cardinality(Pool \ BelowIn(fs, n)) <= Cardinality(Pool)
    BY PoolSize, FS_Subset
  <1>2. Cardinality(Pool \ BelowIn(fs, n)) \in Nat
    BY <1>1, FS_CardinalityType
  <1> QED
    BY <1>1, <1>2, PoolSize, RegistersAssumption DEF AvailableIn

\* One register more is held, so one less is available.
LEMMA OneLess ==
    ASSUME NEW B, NEW r \in Pool, r \notin B
    PROVE  Cardinality(Pool \ (B \cup {r})) = Cardinality(Pool \ B) - 1
  <1>1. IsFiniteSet(Pool \ B)
    BY PoolSize, FS_Subset
  <1>2. Cardinality((Pool \ B) \ {r}) = Cardinality(Pool \ B) - 1
    BY <1>1, FS_RemoveElement
  <1>3. (Pool \ B) \ {r} = Pool \ (B \cup {r})
    OBVIOUS
  <1> QED
    BY <1>2, <1>3

LEMMA PerfectStep ==
    ASSUME NEW n \in 0..NumRegisters
    PROVE  /\ Perfect[n] \in Nat /\ Perfect[n - 1] \in Nat
           /\ Perfect[n] = 2 * Perfect[n - 1] + 1
           /\ Perfect[-1] = 0 /\ Perfect[0] = 1
  <1>1. n \in -1..NumRegisters /\ n - 1 \in -1..NumRegisters /\ n # -1
    BY RegistersAssumption
  <1>2. -1 \in -1..NumRegisters /\ 0 \in -1..NumRegisters /\ 0 # -1 /\ 0 - 1 = -1
    BY RegistersAssumption
  <1>3. Perfect[-1] = 0
    BY <1>2, PerfectEquation
  <1>4. Perfect[0] = 2 * Perfect[0 - 1] + 1
    BY <1>2, PerfectEquation
  <1>5. Perfect[0] = 1
    BY <1>2, <1>3, <1>4
  <1>6. Perfect[n] \in Nat /\ Perfect[n - 1] \in Nat /\ Perfect[n] = 2 * Perfect[n - 1] + 1
    BY <1>1, PerfectEquation
  <1> QED
    BY <1>3, <1>5, <1>6

-----------------------------------------------------------------------------
(* What a step does to the calls in progress.                              *)

LEMMA FramesFacts ==
    ASSUME IInv, stage = "compiling"
    PROVE  /\ frames \in Seq(FrameSet) /\ Len(frames) \in Nat /\ Len(frames) \in 1..Len(frames)
           /\ Top = frames[Len(frames)] /\ Top \in FrameSet
  BY TopFacts, EmptySeq DEF Sound, Top

LEMMA CalleeAdded ==
    ASSUME IInv, stage = "compiling", NEW t \in FrameSet, NEW c,
           frames' = [frames EXCEPT ![Len(frames)] = t] \o <<c>>
    PROVE  /\ Len(frames') = Len(frames) + 1
           /\ \A n \in 1..(Len(frames) - 1) : frames'[n] = frames[n]
           /\ frames'[Len(frames)] = t /\ frames'[Len(frames) + 1] = c
  <1> DEFINE L == Len(frames)
             gs == [frames EXCEPT ![L] = t]
             S == FrameSet \cup {c}
  <1>1. frames \in Seq(FrameSet) /\ L \in Nat /\ L \in 1..L
    BY FramesFacts
  <1>2. /\ gs \in Seq(FrameSet) /\ Len(gs) = L /\ gs[L] = t
        /\ \A n \in 1..(L - 1) : gs[n] = frames[n]
    BY <1>1, ExceptSeq
  <1>3. gs \in Seq(S) /\ <<c>> \in Seq(S) /\ Len(<<c>>) = 1 /\ <<c>>[1] = c
    <2> HIDE DEF gs
    <2> QED
      BY <1>2
  <1> HIDE DEF gs, S
  <1>4. frames' = gs \o <<c>>
    BY DEF gs, L
  <1>5. Len(gs \o <<c>>) = L + 1
        /\ \A n \in 1..(L + 1) : (gs \o <<c>>)[n] = IF n <= L THEN gs[n] ELSE <<c>>[n - L]
    BY <1>2, <1>3, ConcatProperties
  <1> HIDE DEF L
  <1>6. ASSUME NEW n \in 1..(L - 1) PROVE frames'[n] = frames[n]
    BY <1>1, <1>2, <1>4, <1>5
  <1>7. frames'[L] = t /\ frames'[L + 1] = c
    BY <1>1, <1>2, <1>3, <1>4, <1>5
  <1> QED
    BY <1>4, <1>5, <1>6, <1>7 DEF L

LEMMA NoneAdded ==
    ASSUME IInv, stage = "compiling", NEW t \in FrameSet,
           \/ frames' = [frames EXCEPT ![Len(frames)] = t] \o <<>>
           \/ frames' = [frames EXCEPT ![Len(frames)] = t]
    PROVE  /\ Len(frames') = Len(frames)
           /\ \A n \in 1..(Len(frames) - 1) : frames'[n] = frames[n]
           /\ frames'[Len(frames)] = t
  <1> DEFINE L == Len(frames)
             gs == [frames EXCEPT ![L] = t]
  <1>1. frames \in Seq(FrameSet) /\ L \in Nat /\ L \in 1..L
    BY FramesFacts
  <1>2. /\ gs \in Seq(FrameSet) /\ Len(gs) = L /\ gs[L] = t
        /\ \A n \in 1..(L - 1) : gs[n] = frames[n]
    BY <1>1, ExceptSeq
  <1>3. frames' = gs
    <2> HIDE DEF gs
    <2>1. gs \o <<>> = gs
      BY <1>2
    <2> QED
      BY <2>1 DEF gs
  <1> QED
    BY <1>2, <1>3

LEMMA LastRemoved ==
    ASSUME IInv, stage = "compiling", Returning
    PROVE  /\ Len(frames') = Len(frames) - 1
           /\ \A n \in 1..(Len(frames) - 1) : frames'[n] = frames[n]
  <1> DEFINE L == Len(frames)
  <1>1. frames \in Seq(FrameSet) /\ L \in Nat /\ L \in 1..L
    BY FramesFacts
  <1>2. frames' = SubSeq(frames, 1, L - 1)
    BY DEF Returning
  <1>3. CASE L = 1
    BY <1>2, <1>3, SubSeqEmpty
  <1>4. CASE L # 1
    <2>1. 1 \in Int /\ L - 1 \in Int /\ 1 <= L - 1 /\ L - 1 <= L
      <3> HIDE DEF L
      <3> QED
        BY <1>1, <1>4
    <2> HIDE DEF L
    <2>2. Len(frames') = L - 1 /\ \A n \in 1..(L - 1) : frames'[n] = frames[n]
      BY <1>1, <1>2, <2>1
    <2> QED
      BY <2>2 DEF L
  <1> QED
    BY <1>3, <1>4

\* Every step leaves the instruction, and every call that it does not end is
\* still the same call; only the innermost one changes.
SameCalls ==
    /\ stmt' = stmt
    /\ Len(frames') \in Nat
    /\ \A n \in 1..Len(frames) :
          /\ n < Len(frames) => n <= Len(frames') /\ frames'[n] = frames[n]
          /\ n <= Len(frames') => frames'[n].task = frames[n].task /\ frames'[n].node = frames[n].node

LEMMA FromCallee ==
    ASSUME IInv, stage = "compiling", stmt' = stmt, NEW t \in FrameSet,
           t.task = Top.task, t.node = Top.node,
           \/ \E c : frames' = [frames EXCEPT ![Len(frames)] = t] \o <<c>>
           \/ frames' = [frames EXCEPT ![Len(frames)] = t] \o <<>>
           \/ frames' = [frames EXCEPT ![Len(frames)] = t]
    PROVE  SameCalls
  <1> DEFINE L == Len(frames)
  <1>1. L \in Nat /\ Top = frames[L]
    BY FramesFacts
  <1>2. /\ Len(frames') \in {L, L + 1}
        /\ \A n \in 1..(L - 1) : frames'[n] = frames[n]
        /\ frames'[L] = t
    <2>1. CASE \E c : frames' = [frames EXCEPT ![L] = t] \o <<c>>
      BY <2>1, CalleeAdded
    <2>2. CASE frames' = [frames EXCEPT ![L] = t] \o <<>> \/ frames' = [frames EXCEPT ![L] = t]
      BY <2>2, NoneAdded
    <2> QED
      BY <2>1, <2>2
  <1> HIDE DEF L
  <1>3. Len(frames') \in Nat
    BY <1>1, <1>2
  <1>4. ASSUME NEW n \in 1..L
        PROVE  /\ n < L => n <= Len(frames') /\ frames'[n] = frames[n]
               /\ n <= Len(frames') => frames'[n].task = frames[n].task /\ frames'[n].node = frames[n].node
    <2>1. CASE n = L
      BY <1>1, <1>2, <2>1
    <2>2. CASE n # L
      <3>1. n \in 1..(L - 1) /\ n <= L
        BY <1>1, <2>2
      <3>2. frames'[n] = frames[n]
        BY <1>2, <3>1
      <3>3. n <= Len(frames')
        BY <1>1, <1>2, <3>1
      <3> QED
        BY <3>2, <3>3
    <2> QED
      BY <2>1, <2>2
  <1> QED
    BY <1>3, <1>4 DEF SameCalls, L

LEMMA CallingSame ==
    ASSUME IInv, stage = "compiling", stmt' = stmt, NEW c, Calling(c)
    PROVE  SameCalls
  <1>1. Further(Top) \in FrameSet /\ Further(Top).task = Top.task /\ Further(Top).node = Top.node
    BY FramesFacts, FurtherFields
  <1>2. frames' = [frames EXCEPT ![Len(frames)] = Further(Top)] \o <<c>>
    BY DEF Calling, Top
  <1> QED
    BY <1>1, <1>2, FromCallee

LEMMA AllocatingSame ==
    ASSUME IInv, stage = "compiling", stmt' = stmt,
           Allocating(<<>>) \/ \E c : Allocating(<<c>>)
    PROVE  SameCalls
  <1>1. Lowest \in Pool
    BY LowestIsFree DEF Allocating, FreeRegisters
  <1>2. /\ FurtherWith(Top, Lowest) \in FrameSet
        /\ FurtherWith(Top, Lowest).task = Top.task /\ FurtherWith(Top, Lowest).node = Top.node
    BY <1>1, FramesFacts, FurtherWithFields
  <1>3. \/ \E c : frames' = [frames EXCEPT ![Len(frames)] = FurtherWith(Top, Lowest)] \o <<c>>
        \/ frames' = [frames EXCEPT ![Len(frames)] = FurtherWith(Top, Lowest)] \o <<>>
    BY DEF Allocating, Top
  <1> QED
    BY <1>2, <1>3, FromCallee

LEMMA ReturningSame ==
    ASSUME IInv, stage = "compiling", stmt' = stmt, Returning
    PROVE  SameCalls
  <1> DEFINE L == Len(frames)
  <1>1. L \in Nat /\ Len(frames') = L - 1 /\ \A n \in 1..(L - 1) : frames'[n] = frames[n]
    BY LastRemoved, FramesFacts
  <1>2. Len(frames') \in Nat
    BY <1>1, FramesFacts
  <1> HIDE DEF L
  <1> QED
    BY <1>1, <1>2 DEF SameCalls, L

LEMMA PushArgumentSame ==
    ASSUME IInv, PushArgument
    PROVE  SameCalls
  <1>1. stage = "compiling" /\ stmt' = stmt
    BY DEF PushArgument, At
  <1>2. Top \in FrameSet /\ frames \in Seq(FrameSet) /\ Len(frames) \in 1..Len(frames)
        /\ Top = frames[Len(frames)]
    BY <1>1, FramesFacts
  <1> DEFINE t == [Top EXCEPT !.regs = <<>>]
  <1>3. t \in FrameSet /\ t.task = Top.task /\ t.node = Top.node
    <2>1. Top \in [task : {"expr", "place"}, node : Exprs, dst : ArgRegisters \cup Pool, at : Nat, regs : Seq(Pool)]
          \/ Top \in [task : {"stmt"}, node : Statements, dst : {0}, at : Nat, regs : Seq(Pool)]
      BY <1>2 DEF FrameSet
    <2>2. <<>> \in Seq(Pool)
      OBVIOUS
    <2> QED
      BY <2>1, <2>2 DEF FrameSet
  <1>4. frames' = [frames EXCEPT ![Len(frames)] = t]
    BY <1>2 DEF PushArgument
  <1> HIDE DEF t
  <1> QED
    BY <1>1, <1>3, <1>4, FromCallee

LEMMA StepSame ==
    ASSUME IInv, CompileNext
    PROVE  stage = "compiling" /\ SameCalls
  <1>1. CASE UnaryOperand \/ BinaryFirst \/ NewArgument \/ RegisterArgument \/ PlaceIndex \/ MovePlace
    BY <1>1, CallingSame
       DEF UnaryOperand, BinaryFirst, NewArgument, RegisterArgument, PlaceIndex, MovePlace, At
  <1>2. CASE BinarySecond \/ ElementPlace \/ StackArgument \/ PlaceArray \/ StmtExpr \/ MoveExpr \/ ReadPlace
    BY <1>2, AllocatingSame
       DEF BinarySecond, ElementPlace, StackArgument, PlaceArray, StmtExpr, MoveExpr, ReadPlace, At
  <1>3. CASE NewObject \/ MoveSource
    BY <1>3, AllocatingSame DEF NewObject, MoveSource, At
  <1>4. CASE Leaf \/ UnaryOperator \/ BinaryOperator \/ ElementLoad \/ NewDone \/ CallDone
    BY <1>4, ReturningSame DEF Leaf, UnaryOperator, BinaryOperator, ElementLoad, NewDone, CallDone, At
  <1>5. CASE PlaceElement \/ PlaceField \/ PlaceVariable \/ PrintImmediate \/ StmtDone \/ MoveDone
    BY <1>5, ReturningSame DEF PlaceElement, PlaceField, PlaceVariable, PrintImmediate, StmtDone, MoveDone, At
  <1>6. CASE ReadVariable \/ ReadDone
    BY <1>6, ReturningSame DEF ReadVariable, ReadDone, At
  <1>7. CASE PushArgument
    BY <1>7, PushArgumentSame DEF PushArgument, At
  <1>8. CASE Panic
    <2>1. stage = "compiling" /\ stmt' = stmt /\ frames' = frames
      BY <1>8 DEF Panic
    <2>2. Len(frames) \in Nat
      BY <2>1, FramesFacts
    <2> QED
      BY <2>1, <2>2 DEF SameCalls
  <1> QED
    BY <1>1, <1>2, <1>3, <1>4, <1>5, <1>6, <1>7, <1>8 DEF CompileNext

-----------------------------------------------------------------------------
(* The invariant.  While the expression of the instruction is lighter than *)
(* the perfect tree of the registers it starts with, every call in         *)
(* progress has an expression lighter than that of the registers left to   *)
(* it, until the place that is written to is reached.                      *)

LightCall(fs, n) ==
    /\ fs[n].task = "expr" /\ Plain[fs[n].node]
    /\ Weight[fs[n].node] < Perfect[AvailableIn(fs, n)]
    /\ fs[n].at <= 1 => fs[n].regs = <<>>

LightCalls == \A n \in 2..Len(frames) : LightCall(frames, n)

Light == stmt.kind # "read" /\ Plain[stmt.expr] /\ Weight[stmt.expr] < Perfect[ExprRegisters]

AtPlace == Len(frames) >= 2 /\ frames[2].task = "place"

SpillInv ==
    /\ frames # <<>> => frames[1].node = stmt
    /\ Light => AtPlace \/ LightCalls
    /\ stage = "panicked" /\ Light => AtPlace

LEMMA BelowUsed ==
    ASSUME NEW fs, NEW used, Sound(fs, used), fs # <<>>, fs[Len(fs)].regs = <<>>
    PROVE  BelowIn(fs, Len(fs)) = used
  <1> DEFINE L == Len(fs)
  <1>1. L \in Nat /\ L \in 1..L
    BY EmptySeq DEF Sound
  <1>2. Held(fs[L]) = {}
    BY NoneHeld
  <1>3. \A r : r \in used <=> \E n \in 1..L : r \in Held(fs[n])
    BY DEF Sound
  <1> HIDE DEF L
  <1>4. \A r : (\E n \in 1..L : r \in Held(fs[n])) <=> (\E n \in 1..(L - 1) : r \in Held(fs[n]))
    <2>1. \A n \in 1..L : n = L \/ n \in 1..(L - 1)
      BY <1>1
    <2>2. \A n \in 1..(L - 1) : n \in 1..L
      BY <1>1
    <2> QED
      BY <1>2, <2>1, <2>2
  <1>5. \A r : r \in used <=> r \in UNION {Held(fs[n]) : n \in 1..(L - 1)}
    BY <1>3, <1>4
  <1>6. used = UNION {Held(fs[n]) : n \in 1..(L - 1)}
    <2>1. \A r \in used : r \in UNION {Held(fs[n]) : n \in 1..(L - 1)}
      BY <1>5
    <2>2. \A r \in UNION {Held(fs[n]) : n \in 1..(L - 1)} : r \in used
      BY <1>5
    <2> HIDE <1>3, <1>4, <1>5
    <2> QED
      BY <2>1, <2>2
  <1> QED
    BY <1>6 DEF BelowIn, L

LEMMA OnlyOneUses ==
    ASSUME NEW fs, NEW used, Sound(fs, used), Len(fs) = 1
    PROVE  used = Held(fs[1])
  <1>1. \A r : r \in used <=> \E n \in 1..1 : r \in Held(fs[n])
    BY DEF Sound
  <1>2. \A n \in 1..1 : n = 1
    OBVIOUS
  <1>3. 1 \in 1..1
    OBVIOUS
  <1> QED
    BY <1>1, <1>2, <1>3

\* The calls further out are as light as before; what the innermost call does
\* to itself and the call it makes are left to show.
LEMMA LightCallsKept ==
    ASSUME IInv, stage = "compiling", SameCalls, LightCalls,
           Len(frames') <= Len(frames) + 1,
           Len(frames') >= Len(frames) =>
               (frames'[Len(frames)].at <= 1 => frames'[Len(frames)].regs = <<>>),
           Len(frames') = Len(frames) + 1 => LightCall(frames', Len(frames) + 1)
    PROVE  LightCalls'
  <1> DEFINE L == Len(frames)
             K == Len(frames')
  <1>1. L \in Nat /\ K \in Nat
    BY FramesFacts DEF SameCalls
  <1>2. ASSUME NEW n \in 2..K, n <= L PROVE LightCall(frames', n)
    <2>1. n \in 1..L /\ n \in 2..L /\ n - 1 \in Nat
      BY <1>1, <1>2
    <2>2. LightCall(frames, n)
      BY <2>1 DEF LightCalls
    <2>3. frames'[n].task = frames[n].task /\ frames'[n].node = frames[n].node
      BY <2>1, <1>1, <1>2 DEF SameCalls
    <2>4. \A k \in 1..(n - 1) : frames'[k] = frames[k]
      <3> SUFFICES ASSUME NEW k \in 1..(n - 1) PROVE frames'[k] = frames[k]
        OBVIOUS
      <3>1. k \in 1..L /\ k < L
        BY <1>1, <1>2
      <3> QED
        BY <3>1 DEF SameCalls
    <2>5. AvailableIn(frames', n) = AvailableIn(frames, n)
      <3>1. {Held(frames'[k]) : k \in 1..(n - 1)} = {Held(frames[k]) : k \in 1..(n - 1)}
        BY <2>4
      <3> QED
        BY <3>1 DEF AvailableIn, BelowIn
    <2>6. frames'[n].at <= 1 => frames'[n].regs = <<>>
      <3>1. CASE n = L
        BY <1>1, <1>2, <3>1
      <3>2. CASE n # L
        <4>1. n < L
          BY <1>1, <1>2, <3>2
        <4>2. frames'[n] = frames[n]
          BY <2>1, <4>1 DEF SameCalls
        <4> QED
          BY <2>2, <4>2 DEF LightCall
      <3> QED
        BY <3>1, <3>2
    <2> QED
      BY <2>2, <2>3, <2>5, <2>6 DEF LightCall
  <1>3. ASSUME NEW n \in 2..K PROVE LightCall(frames', n)
    <2>1. n <= L \/ (n = L + 1 /\ K = L + 1)
      BY <1>1
    <2> QED
      BY <1>2, <2>1
  <1> QED
    BY <1>3 DEF LightCalls

\* The innermost call ends.
LEMMA LightReturn ==
    ASSUME IInv, stage = "compiling", SameCalls, LightCalls, Returning
    PROVE  LightCalls'
  <1>1. Len(frames) \in Nat /\ Len(frames') = Len(frames) - 1
    BY LastRemoved, FramesFacts
  <1>2. Len(frames') <= Len(frames) + 1 /\ ~(Len(frames') >= Len(frames))
        /\ Len(frames') # Len(frames) + 1
    BY <1>1
  <1> QED
    BY <1>2, LightCallsKept

\* The innermost call makes another, without a new register.
LEMMA LightCalling ==
    ASSUME IInv, IInv', stage = "compiling", SameCalls, LightCalls,
           NEW node \in Exprs, NEW dst, Calling(Frame("expr", node, dst)),
           Top.regs = <<>>, Plain[node], Weight[node] < Perfect[AvailableIn(frames, Len(frames))]
    PROVE  LightCalls'
  <1> DEFINE L == Len(frames)
             c == Frame("expr", node, dst)
  <1>1. L \in Nat /\ Top \in FrameSet /\ Top = frames[L]
    BY FramesFacts
  <1>2. Further(Top) \in FrameSet /\ Further(Top).regs = <<>>
    BY <1>1, FurtherFields
  <1>3. frames' = [frames EXCEPT ![L] = Further(Top)] \o <<c>> /\ registerUseList' = registerUseList
    BY DEF Calling, Top
  <1>4. Len(frames') = L + 1 /\ frames'[L] = Further(Top) /\ frames'[L + 1] = c
    <2> HIDE DEF c
    <2> QED
      BY <1>2, <1>3, CalleeAdded
  <1>5. c.task = "expr" /\ c.node = node /\ c.regs = <<>>
    BY DEF Frame
  <1>6. AvailableIn(frames', L + 1) = AvailableIn(frames, L)
    <2>1. BelowIn(frames, L) = registerUseList
      <3>1. Sound(frames, registerUseList) /\ frames # <<>>
        BY TopFacts
      <3> QED
        BY <1>1, <3>1, BelowUsed
    <2>2. BelowIn(frames', L + 1) = registerUseList'
      <3>1. Sound(frames', registerUseList')
        BY DEF IInv
      <3>2. frames' # <<>>
        BY <1>1, <1>4
      <3>3. frames'[Len(frames')].regs = <<>>
        BY <1>4, <1>5
      <3>4. BelowIn(frames', Len(frames')) = registerUseList'
        BY <3>1, <3>2, <3>3, BelowUsed
      <3> QED
        BY <3>4, <1>4
    <2> QED
      BY <1>3, <2>1, <2>2 DEF AvailableIn
  <1>7. LightCall(frames', L + 1)
    BY <1>4, <1>5, <1>6 DEF LightCall
  <1>8. Len(frames') <= L + 1
    BY <1>1, <1>4
  <1> QED
    BY <1>2, <1>4, <1>7, <1>8, LightCallsKept

\* The innermost call makes another, with a new register.
LEMMA LightAllocating ==
    ASSUME IInv, IInv', stage = "compiling", SameCalls, LightCalls,
           NEW node \in Exprs, NEW dst, Allocating(<<Frame("expr", node, dst)>>),
           Top.at >= 1 \/ Len(frames) = 1,
           Plain[node], Weight[node] < Perfect[Cardinality(Pool \ (registerUseList \cup {Lowest})) + 1]
    PROVE  LightCalls'
  <1> DEFINE L == Len(frames)
             c == Frame("expr", node, dst)
             t == FurtherWith(Top, Lowest)
  <1>1. L \in Nat /\ Top \in FrameSet /\ Top = frames[L] /\ Top.at \in Nat
    BY FramesFacts, FrameFields
  <1>2. Lowest \in Pool
    BY LowestIsFree DEF Allocating, FreeRegisters
  <1>3. t \in FrameSet /\ t.at = Top.at + 1
    BY <1>1, <1>2, FurtherWithFields
  <1>4. frames' = [frames EXCEPT ![L] = t] \o <<c>> /\ registerUseList' = registerUseList \cup {Lowest}
    BY DEF Allocating, Top
  <1> HIDE DEF t
  <1>5. Len(frames') = L + 1 /\ frames'[L] = t /\ frames'[L + 1] = c
    <2> HIDE DEF c
    <2> QED
      BY <1>3, <1>4, CalleeAdded
  <1>6. c.task = "expr" /\ c.node = node /\ c.regs = <<>>
    BY DEF Frame
  <1>7. BelowIn(frames', L + 1) = registerUseList'
    <2>1. Sound(frames', registerUseList')
      BY DEF IInv
    <2>2. frames' # <<>>
      BY <1>1, <1>5
    <2>3. frames'[Len(frames')].regs = <<>>
      BY <1>5, <1>6
    <2>4. BelowIn(frames', Len(frames')) = registerUseList'
      BY <2>1, <2>2, <2>3, BelowUsed
    <2> QED
      BY <2>4, <1>5
  <1>8. LightCall(frames', L + 1)
    BY <1>4, <1>5, <1>6, <1>7 DEF LightCall, AvailableIn
  <1>9. Len(frames') <= L + 1
    BY <1>1, <1>5
  <1>10. CASE L = 1
    <2>1. ASSUME NEW n \in 2..Len(frames') PROVE n = L + 1
      BY <1>5, <1>10
    <2> QED
      BY <1>8, <2>1 DEF LightCalls
  <1>11. CASE Top.at >= 1
    <2>1. ~(t.at <= 1)
      BY <1>1, <1>3, <1>11
    <2> QED
      BY <1>5, <1>8, <1>9, <2>1, LightCallsKept
  <1> QED
    BY <1>10, <1>11

LEMMA Halved ==
    ASSUME NEW w \in Nat, NEW W \in Nat, NEW p \in Nat, NEW P,
           P = 2 * p + 1, 2 * w + 1 <= W, W < P
    PROVE  w < p
  OBVIOUS

\* A call of an expression light enough for the registers left to it: what it
\* calls is light enough too, and it never lacks a register.
LEMMA LightInside ==
    ASSUME IInv, IInv', CompileNext, LightCalls, Len(frames) >= 2
    PROVE  LightCalls' /\ ~Panic
  <1> DEFINE L == Len(frames)
             A == AvailableIn(frames, L)
  <1>1. stage = "compiling" /\ SameCalls
    BY StepSame
  <1>2. L \in Nat /\ L \in 2..L /\ Top = frames[L] /\ Top \in FrameSet
    BY <1>1, FramesFacts
  <1>3. /\ Top.task = "expr" /\ Plain[Top.node] /\ Weight[Top.node] < Perfect[A]
        /\ Top.at <= 1 => Top.regs = <<>>
    BY <1>2 DEF LightCalls, LightCall
  <1>4. Top.node \in Exprs /\ Top.at \in Nat
    BY <1>2, <1>3, FrameFields
  <1>5. /\ Top.node.kind \in {"const", "var", "unary", "binary"}
        /\ Top.node.kind = "unary" => Top.node.op # "!" /\ Plain[Top.node.operand]
        /\ Top.node.kind = "binary" =>
              Top.node.op # "%" /\ Plain[FirstSide(Top.node)] /\ Plain[SecondSide(Top.node)]
    BY <1>3, <1>4, PlainFacts
  <1>6. A \in 1..NumRegisters
    BY AvailableBound
  <1>7. /\ A \in Nat /\ Perfect[A] \in Nat /\ Perfect[A - 1] \in Nat
        /\ Perfect[A] = 2 * Perfect[A - 1] + 1 /\ Perfect[0] = 1
    <2>1. A \in 0..NumRegisters
      BY <1>6, RegistersAssumption
    <2> HIDE DEF A
    <2> QED
      BY <2>1, PerfectStep
  <1>8. Weight[Top.node] \in Nat
    BY <1>4, WeightFacts
  <1>9. Top.at = 1 => BelowIn(frames, L) = registerUseList
    <2>1. Sound(frames, registerUseList) /\ frames # <<>>
      BY <1>1, TopFacts
    <2> QED
      BY <1>2, <1>3, <2>1, BelowUsed
  <1> HIDE DEF A
  <1>10. ASSUME Panic PROVE FALSE
    <2>1. Top.node.kind = "binary" /\ Top.at = 1 /\ FreeRegisters = {}
      BY <1>3, <1>5, <1>10 DEF Panic, Allocates, At, CanAllocate, AtArgument
    <2>2. Pool \ BelowIn(frames, L) = {}
      BY <1>9, <2>1 DEF FreeRegisters
    <2>3. A = 1
      <3>1. Cardinality({}) = 0
        BY FS_EmptySet
      <3>2. Cardinality(Pool \ BelowIn(frames, L)) = 0
        BY <2>2, <3>1
      <3> QED
        BY <3>2 DEF A, AvailableIn
    <2>4. Perfect[A] = 3
      BY <1>7, <2>3
    <2>5. Weight[Top.node] >= 3
      <3>1. /\ SecondSide(Top.node) \in Exprs /\ Weight[SecondSide(Top.node)] >= 1
            /\ 2 * Weight[SecondSide(Top.node)] + 1 <= Weight[Top.node]
        BY <1>4, <2>1, WeightFacts
      <3>2. Weight[SecondSide(Top.node)] \in Nat
        BY <3>1, WeightFacts
      <3> QED
        BY <1>8, <3>1, <3>2
    <2> QED
      BY <1>3, <1>8, <2>4, <2>5
  <1>11. CASE Leaf \/ UnaryOperator \/ BinaryOperator
    <2>1. Returning
      BY <1>11 DEF Leaf, UnaryOperator, BinaryOperator
    <2> QED
      BY <1>1, <1>10, <2>1, LightReturn
  <1>12. CASE UnaryOperand
    <2>1. Top.node.kind = "unary" /\ Top.at = 0
      BY <1>12 DEF UnaryOperand, At
    <2>2. Calling(Frame("expr", Top.node.operand, Top.dst))
      BY <1>12 DEF UnaryOperand
    <2>3. Top.node.operand \in Exprs /\ Weight[Top.node.operand] < Weight[Top.node]
      BY <1>4, <2>1, WeightFacts
    <2>4. Weight[Top.node.operand] < Perfect[A]
      <3>1. Weight[Top.node.operand] \in Nat
        BY <2>3, WeightFacts
      <3> QED
        BY SMTT(40), <1>3, <1>7, <1>8, <2>3, <3>1
    <2>5. Top.regs = <<>> /\ Plain[Top.node.operand]
      BY <1>3, <1>5, <2>1
    <2>6. LightCalls'
      BY <1>1, <2>2, <2>3, <2>4, <2>5, LightCalling DEF A
    <2> QED
      BY <1>10, <2>6
  <1>13. CASE BinaryFirst
    <2> DEFINE c == FirstSide(Top.node)
    <2>1. Top.node.kind = "binary" /\ Top.at = 0
      BY <1>13 DEF BinaryFirst, At
    <2>2. Calling(Frame("expr", c, Top.dst))
      BY <1>13 DEF BinaryFirst
    <2>3. c \in Exprs /\ Weight[c] < Weight[Top.node]
      BY <1>4, <2>1, WeightFacts
    <2>4. Plain[c]
      BY <1>5, <2>1
    <2> HIDE DEF c
    <2>5. Weight[c] < Perfect[A]
      <3>1. Weight[c] \in Nat
        BY <2>3, WeightFacts
      <3> QED
        BY SMTT(40), <1>3, <1>7, <1>8, <2>3, <3>1
    <2>6. Top.regs = <<>>
      BY <1>3, <2>1
    <2>7. LightCalls'
      BY <1>1, <2>2, <2>3, <2>4, <2>5, <2>6, LightCalling DEF A
    <2> QED
      BY <1>10, <2>7
  <1>14. CASE BinarySecond
    <2> DEFINE c == SecondSide(Top.node)
    <2>1. Top.node.kind = "binary" /\ Top.at = 1
      BY <1>14 DEF BinarySecond, At
    <2>2. Allocating(<<Frame("expr", c, Lowest)>>)
      BY <1>14 DEF BinarySecond
    <2>3. c \in Exprs /\ 2 * Weight[c] + 1 <= Weight[Top.node]
      BY <1>4, <2>1, WeightFacts
    <2>4. Plain[c]
      BY <1>5, <2>1
    <2> HIDE DEF c
    <2>5. Lowest \in Pool /\ Lowest \notin registerUseList
      BY <2>2, LowestIsFree DEF Allocating, FreeRegisters
    <2>6. Cardinality(Pool \ (registerUseList \cup {Lowest})) + 1 = A - 1
      <3>1. Cardinality(Pool \ (registerUseList \cup {Lowest})) = Cardinality(Pool \ registerUseList) - 1
        BY <2>5, OneLess
      <3>2. A = Cardinality(Pool \ registerUseList) + 1
        BY <1>9, <2>1 DEF A, AvailableIn
      <3>3. Cardinality(Pool \ registerUseList) \in Nat
        BY PoolSize, FS_Subset, FS_CardinalityType
      <3> QED
        BY <3>1, <3>2, <3>3
    <2>7. Weight[c] < Perfect[A - 1]
      <3>1. Weight[c] \in Nat
        BY <2>3, WeightFacts
      <3> QED
        BY <1>3, <1>7, <1>8, <2>3, <3>1, Halved
    <2>8. Weight[c] < Perfect[Cardinality(Pool \ (registerUseList \cup {Lowest})) + 1]
      BY <2>6, <2>7
    <2>9. Top.at >= 1
      BY <2>1
    <2>10. LightCalls'
      BY <1>1, <2>2, <2>3, <2>4, <2>8, <2>9, LightAllocating
    <2> QED
      BY <1>10, <2>10
  <1>15. ~(ElementPlace \/ ElementLoad \/ NewObject \/ NewArgument \/ NewDone)
    BY <1>5 DEF ElementPlace, ElementLoad, NewObject, NewArgument, NewDone, At
  <1>16. ~(RegisterArgument \/ StackArgument \/ PushArgument \/ CallDone)
    BY <1>5 DEF RegisterArgument, StackArgument, PushArgument, CallDone, At
  <1>17. ~(PlaceArray \/ PlaceIndex \/ PlaceElement \/ PlaceField \/ PlaceVariable)
    BY <1>3 DEF PlaceArray, PlaceIndex, PlaceElement, PlaceField, PlaceVariable, At
  <1>18. ~(PrintImmediate \/ StmtExpr \/ StmtDone \/ MoveSource \/ MoveExpr \/ MovePlace \/ MoveDone)
    BY <1>3 DEF PrintImmediate, StmtExpr, StmtDone, MoveSource, MoveExpr, MovePlace, MoveDone, At
  <1>19. ~(ReadVariable \/ ReadPlace \/ ReadDone)
    BY <1>3 DEF ReadVariable, ReadPlace, ReadDone, At
  <1> QED
    BY <1>10, <1>11, <1>12, <1>13, <1>14, <1>15, <1>16, <1>17, <1>18, <1>19 DEF CompileNext

\* The call of the instruction itself: it has a register for what it evaluates,
\* and what it evaluates is light enough for the others.
LEMMA LightOutside ==
    ASSUME IInv, IInv', CompileNext, SpillInv, Light, Len(frames) = 1
    PROVE  (AtPlace' \/ LightCalls') /\ ~Panic
  <1>1. stage = "compiling" /\ SameCalls
    BY StepSame
  <1>2. Top = frames[1] /\ Top \in FrameSet /\ frames # <<>>
    BY <1>1, FramesFacts, TopFacts
  <1>3. Top.task = "stmt" /\ Top.node = stmt /\ Top.at \in Nat /\ Shaped(Top)
    <2>1. Sound(frames, registerUseList)
      BY DEF IInv
    <2>2. frames[1].task = "stmt" /\ Shaped(frames[1])
      BY <2>1 DEF Sound
    <2> QED
      BY <1>2, <2>2, FrameFields DEF SpillInv
  <1>4. stmt \in Statements /\ stmt.kind \in OneExprKinds \cup {"move"} /\ stmt.expr \in Exprs
    <2>1. stmt \in Statements /\ stmt.kind # "read"
      BY DEF IInv, Light
    <2> QED
      BY <2>1, ExprsAssumption
  <1>5. Plain[stmt.expr] /\ Weight[stmt.expr] < Perfect[ExprRegisters]
    BY DEF Light
  <1>6. Weight[stmt.expr] \in Nat /\ Weight[stmt.expr] >= 1
    BY <1>4, WeightFacts
  <1>7. Perfect[-1] = 0 /\ Perfect[0] = 1
    <2>1. 0 \in 0..NumRegisters
      BY RegistersAssumption
    <2> QED
      BY <2>1, PerfectStep
  <1>8. registerUseList = Held(Top)
    <2>1. Sound(frames, registerUseList)
      BY DEF IInv
    <2> QED
      BY <1>2, <2>1, OnlyOneUses
  <1>9. Top.at = 0 => registerUseList = {}
    BY <1>3, <1>8, NoneHeld DEF Shaped
  <1>10. Top.at = 1 /\ stmt.kind = "move" => \E r \in Pool : registerUseList = {r}
    <2> SUFFICES ASSUME Top.at = 1, stmt.kind = "move" PROVE \E r \in Pool : registerUseList = {r}
      OBVIOUS
    <2>1. Len(Top.regs) = 1
      BY <1>3 DEF Shaped
    <2>2. Top.regs[1] \in Pool
      <3>1. \A n \in 1..Len(Top.regs) : Top.regs[n] \in Pool
        BY <1>2, FrameFields
      <3> QED
        BY <2>1, <3>1
    <2>3. Held(Top) = {Top.regs[1]}
      BY <2>1 DEF Held
    <2> QED
      BY <1>8, <2>2, <2>3
  <1>11. ASSUME NEW r \in Pool
         PROVE  Cardinality(Pool \ {r}) = Cardinality(Pool) - 1
    BY PoolSize, FS_RemoveElement
  <1>12. Cardinality({}) = 0
    BY FS_EmptySet
  <1>13. ASSUME Panic PROVE FALSE
    <2>1. FreeRegisters = {} /\ (Top.at = 0 \/ (Top.at = 1 /\ stmt.kind = "move"))
      BY <1>3, <1>13 DEF Panic, Allocates, At, CanAllocate, AtArgument
    <2>2. CASE Top.at = 0
      <3>1. Pool = {}
        BY <1>9, <2>1, <2>2 DEF FreeRegisters
      <3>2. Cardinality(Pool) = 0
        BY <3>1, <1>12
      <3>3. ExprRegisters \in {-1, 0}
        <4>1. ExprRegisters = 0 - 1 \/ ExprRegisters = 0 - 0
          BY <3>2 DEF ExprRegisters
        <4>2. 0 - 1 = -1 /\ 0 - 0 = 0
          OBVIOUS
        <4> QED
          BY <4>1, <4>2
      <3> QED
        BY <1>5, <1>6, <1>7, <3>3
    <2>3. CASE Top.at = 1 /\ stmt.kind = "move"
      <3>1. PICK r \in Pool : registerUseList = {r}
        BY <1>10, <2>3
      <3>2. Pool \ {r} = {}
        BY <2>1, <3>1 DEF FreeRegisters
      <3>3. Cardinality(Pool \ {r}) = 0
        BY <3>2, <1>12
      <3>4. Cardinality(Pool) = 1
        <4>1. Cardinality(Pool \ {r}) = Cardinality(Pool) - 1 /\ Cardinality(Pool) \in Nat
          BY <1>11, PoolSize
        <4> QED
          BY <3>3, <4>1
      <3>5. ExprRegisters = 0
        BY <2>3, <3>4 DEF ExprRegisters
      <3> QED
        BY <1>5, <1>6, <1>7, <3>5
    <2> QED
      BY <2>1, <2>2, <2>3
  <1>14. LightCalls
    <2>1. 2..1 = {}
      OBVIOUS
    <2> QED
      BY <2>1 DEF LightCalls
  <1>15. CASE StmtExpr
    <2>1. Top.at = 0 /\ stmt.kind \in OneExprKinds
      BY <1>3, <1>15 DEF StmtExpr, At
    <2>2. Allocating(<<Frame("expr", stmt.expr, Lowest)>>)
      BY <1>3, <1>15 DEF StmtExpr
    <2>3. Lowest \in Pool
      BY <2>2, LowestIsFree DEF Allocating, FreeRegisters
    <2>4. registerUseList \cup {Lowest} = {Lowest}
      BY <1>9, <2>1
    <2>5. Cardinality(Pool \ (registerUseList \cup {Lowest})) + 1 = Cardinality(Pool)
      BY <1>11, <2>3, <2>4, PoolSize
    <2>6. ExprRegisters = Cardinality(Pool)
      BY <2>1, PoolSize DEF ExprRegisters, OneExprKinds
    <2>7. Weight[stmt.expr] < Perfect[Cardinality(Pool \ (registerUseList \cup {Lowest})) + 1]
      BY <1>5, <2>5, <2>6
    <2>8. LightCalls'
      BY <1>1, <1>4, <1>5, <1>14, <2>2, <2>7, LightAllocating
    <2> QED
      BY <1>13, <2>8
  <1>16. CASE MoveExpr
    <2>1. Top.at = 1 /\ stmt.kind = "move"
      BY <1>3, <1>16 DEF MoveExpr, At
    <2>2. Allocating(<<Frame("expr", stmt.expr, Top.regs[1])>>)
      BY <1>3, <1>16 DEF MoveExpr
    <2>3. Lowest \in Pool /\ Lowest \notin registerUseList
      BY <2>2, LowestIsFree DEF Allocating, FreeRegisters
    <2>4. PICK r \in Pool : registerUseList = {r}
      BY <1>10, <2>1
    <2>5. Cardinality(Pool \ (registerUseList \cup {Lowest})) = Cardinality(Pool \ registerUseList) - 1
      BY <2>3, OneLess
    <2>6. Cardinality(Pool \ registerUseList) = Cardinality(Pool) - 1
      BY <1>11, <2>4
    <2>7. ExprRegisters = Cardinality(Pool) - 1
      BY <2>1 DEF ExprRegisters
    <2>8. Cardinality(Pool \ (registerUseList \cup {Lowest})) + 1 = ExprRegisters
      BY <2>5, <2>6, <2>7, PoolSize
    <2>9. Weight[stmt.expr] < Perfect[Cardinality(Pool \ (registerUseList \cup {Lowest})) + 1]
      BY <1>5, <2>8
    <2>10. LightCalls'
      BY <1>1, <1>4, <1>5, <1>14, <2>2, <2>9, LightAllocating
    <2> QED
      BY <1>13, <2>10
  <1>17. CASE MovePlace
    <2> DEFINE c == Frame("place", stmt.lhs, Top.regs[2])
    <2>1. frames' = [frames EXCEPT ![Len(frames)] = Further(Top)] \o <<c>>
      BY <1>3, <1>17 DEF MovePlace, Calling, Top
    <2>2. Further(Top) \in FrameSet
      BY <1>2, FurtherFields
    <2>3. Len(frames') = 2 /\ frames'[2] = c
      <3> HIDE DEF c
      <3> QED
        BY <1>1, <2>1, <2>2, CalleeAdded
    <2>4. c.task = "place"
      BY DEF Frame
    <2>5. AtPlace'
      BY <2>3, <2>4 DEF AtPlace
    <2> QED
      BY <1>13, <2>5
  <1>18. CASE PrintImmediate \/ StmtDone \/ MoveDone
    <2>1. Returning
      BY <1>18 DEF PrintImmediate, StmtDone, MoveDone
    <2> QED
      BY <1>1, <1>13, <1>14, <2>1, LightReturn
  <1>19. CASE MoveSource
    <2>1. Allocating(<<>>)
      BY <1>19 DEF MoveSource
    <2>2. Lowest \in Pool
      BY <2>1, LowestIsFree DEF Allocating, FreeRegisters
    <2>3. FurtherWith(Top, Lowest) \in FrameSet
      BY <1>2, <2>2, FurtherWithFields
    <2>4. frames' = [frames EXCEPT ![Len(frames)] = FurtherWith(Top, Lowest)] \o <<>>
      BY <2>1 DEF Allocating, Top
    <2>5. Len(frames') = 1
      BY <1>1, <2>3, <2>4, NoneAdded
    <2>6. LightCalls'
      <3>1. 2..1 = {}
        OBVIOUS
      <3> QED
        BY <2>5, <3>1 DEF LightCalls
    <2> QED
      BY <1>13, <2>6
  <1>20. ~(Leaf \/ UnaryOperand \/ UnaryOperator \/ BinaryFirst \/ BinarySecond \/ BinaryOperator)
    BY <1>3 DEF Leaf, UnaryOperand, UnaryOperator, BinaryFirst, BinarySecond, BinaryOperator, At
  <1>21. ~(ElementPlace \/ ElementLoad \/ NewObject \/ NewArgument \/ NewDone)
    BY <1>3 DEF ElementPlace, ElementLoad, NewObject, NewArgument, NewDone, At
  <1>22. ~(RegisterArgument \/ StackArgument \/ PushArgument \/ CallDone)
    BY <1>3 DEF RegisterArgument, StackArgument, PushArgument, CallDone, At
  <1>23. ~(PlaceArray \/ PlaceIndex \/ PlaceElement \/ PlaceField \/ PlaceVariable)
    BY <1>3 DEF PlaceArray, PlaceIndex, PlaceElement, PlaceField, PlaceVariable, At
  <1>24. ~(ReadVariable \/ ReadPlace \/ ReadDone)
    BY <1>3, <1>4 DEF ReadVariable, ReadPlace, ReadDone, At, OneExprKinds
  <1> QED
    BY <1>13, <1>15, <1>16, <1>17, <1>18, <1>19, <1>20, <1>21, <1>22, <1>23, <1>24 DEF CompileNext

LEMMA PanicOnly ==
    ASSUME CompileNext, stage' = "panicked"
    PROVE  Panic
  <1> SUFFICES ASSUME ~Panic PROVE FALSE
    OBVIOUS
  <1>1. CASE UnaryOperand \/ BinaryFirst \/ BinarySecond \/ ElementPlace \/ NewObject \/ NewArgument
    BY <1>1 DEF UnaryOperand, BinaryFirst, BinarySecond, ElementPlace, NewObject, NewArgument, At
  <1>2. CASE RegisterArgument \/ StackArgument \/ PushArgument \/ PlaceArray \/ PlaceIndex
    BY <1>2 DEF RegisterArgument, StackArgument, PushArgument, PlaceArray, PlaceIndex, At
  <1>3. CASE StmtExpr \/ MoveSource \/ MoveExpr \/ MovePlace \/ ReadPlace
    BY <1>3 DEF StmtExpr, MoveSource, MoveExpr, MovePlace, ReadPlace, At
  <1>4. CASE Leaf \/ UnaryOperator \/ BinaryOperator \/ ElementLoad \/ NewDone \/ CallDone
    BY <1>4 DEF Leaf, UnaryOperator, BinaryOperator, ElementLoad, NewDone, CallDone, At, Returning
  <1>5. CASE PlaceElement \/ PlaceField \/ PlaceVariable \/ PrintImmediate \/ StmtDone \/ MoveDone
    BY <1>5 DEF PlaceElement, PlaceField, PlaceVariable, PrintImmediate, StmtDone, MoveDone, At, Returning
  <1>6. CASE ReadVariable \/ ReadDone
    BY <1>6 DEF ReadVariable, ReadDone, At, Returning
  <1> QED
    BY <1>1, <1>2, <1>3, <1>4, <1>5, <1>6 DEF CompileNext

LEMMA SpillInit == CompileInit => SpillInv
  <1> SUFFICES ASSUME CompileInit PROVE SpillInv
    OBVIOUS
  <1>1. Len(frames) = 1 /\ frames[1] = Frame("stmt", stmt, 0) /\ stage = "compiling"
    BY DEF CompileInit
  <1>2. frames[1].node = stmt
    BY <1>1 DEF Frame
  <1>3. LightCalls
    <2>1. 2..1 = {}
      OBVIOUS
    <2> QED
      BY <1>1, <2>1 DEF LightCalls
  <1> QED
    BY <1>1, <1>2, <1>3 DEF SpillInv

LEMMA SpillStep == IInv /\ IInv' /\ SpillInv /\ [CompileNext]_vars => SpillInv'
  <1> SUFFICES ASSUME IInv, IInv', SpillInv, [CompileNext]_vars PROVE SpillInv'
    OBVIOUS
  <1>1. CASE UNCHANGED vars
    BY <1>1 DEF vars, SpillInv, Light, AtPlace, LightCalls, ExprRegisters
  <1>2. CASE CompileNext
    <2>1. stage = "compiling" /\ SameCalls
      BY <1>2, StepSame
    <2>2. Len(frames) \in Nat /\ Len(frames) \in 1..Len(frames) /\ Len(frames') \in Nat
      BY <2>1, FramesFacts DEF SameCalls
    <2>3. frames # <<>>
      BY <2>1, TopFacts
    <2>4. frames' # <<>> => frames'[1].node = stmt'
      <3> SUFFICES ASSUME frames' # <<>> PROVE frames'[1].node = stmt'
        OBVIOUS
      <3>1. 1 \in 1..Len(frames) /\ 1 <= Len(frames')
        <4>1. frames' \in Seq(FrameSet)
          BY DEF IInv, Sound
        <4>2. Len(frames') # 0
          BY <4>1, EmptySeq
        <4> QED
          BY <2>2, <4>2
      <3>2. frames'[1].node = frames[1].node
        BY <2>1, <3>1 DEF SameCalls
      <3> QED
        BY <2>1, <2>3, <3>2 DEF SameCalls, SpillInv
    <2>5. Light' <=> Light
      BY <2>1 DEF SameCalls, Light, ExprRegisters
    <2>6. ASSUME Light, AtPlace PROVE AtPlace' \/ LightCalls'
      <3>1. 2 \in 1..Len(frames)
        BY <2>2, <2>6 DEF AtPlace
      <3>2. CASE Len(frames') >= 2
        BY <2>1, <2>6, <3>1, <3>2 DEF SameCalls, AtPlace
      <3>3. CASE ~(Len(frames') >= 2)
        <4>1. 2..Len(frames') = {}
          BY <2>2, <3>3
        <4> QED
          BY <4>1 DEF LightCalls
      <3> QED
        BY <3>2, <3>3
    <2>7. ASSUME Light, ~AtPlace PROVE (AtPlace' \/ LightCalls') /\ ~Panic
      <3>1. LightCalls
        BY <2>7 DEF SpillInv
      <3>2. CASE Len(frames) = 1
        BY <1>2, <2>7, <3>2, LightOutside
      <3>3. CASE Len(frames) # 1
        <4>1. ASSUME NEW L \in Nat, L \in 1..L, L # 1 PROVE L >= 2
          BY <4>1
        <4>2. Len(frames) >= 2
          BY <2>2, <3>3, <4>1
        <4> QED
          BY <1>2, <3>1, <4>2, LightInside
      <3> QED
        BY <3>2, <3>3
    <2>8. ASSUME stage' = "panicked", Light PROVE AtPlace'
      <3>1. Panic
        BY <1>2, <2>8, PanicOnly
      <3>2. AtPlace
        BY <2>7, <2>8, <3>1
      <3> QED
        BY <3>1, <3>2 DEF Panic, AtPlace
    <2> QED
      BY <2>4, <2>5, <2>6, <2>7, <2>8 DEF SpillInv
  <1> QED
    BY <1>1, <1>2

LEMMA SpillForesees == IInv /\ SpillInv => WeightsForesee
  <1> SUFFICES ASSUME IInv, SpillInv, stage = "panicked",
                      ~InPlace, Plain[stmt.expr]
               PROVE  Weight[stmt.expr] >= Perfect[ExprRegisters]
    BY DEF WeightsForesee
  <1>1. stmt.kind # "read" /\ \A n \in 1..Len(frames) : frames[n].task # "place"
    BY DEF InPlace
  <1>2. ~AtPlace
    <2> SUFFICES ASSUME AtPlace PROVE FALSE
      OBVIOUS
    <2>1. frames \in Seq(FrameSet)
      BY DEF IInv, Sound
    <2>2. 2 \in 1..Len(frames)
      BY <2>1 DEF AtPlace
    <2> QED
      BY <1>1, <2>2 DEF AtPlace
  <1>3. ~(Weight[stmt.expr] < Perfect[ExprRegisters])
    BY <1>1, <1>2 DEF SpillInv, Light
  <1>4. Weight[stmt.expr] \in Nat
    <2>1. stmt \in Statements
      BY DEF IInv
    <2>2. stmt.expr \in Exprs
      BY <1>1, <2>1, ExprsAssumption
    <2> QED
      BY <2>2, TreesAssumption
  <1>5. Perfect[ExprRegisters] \in Nat
    <2>1. ExprRegisters \in -1..NumRegisters
      BY PoolSize, RegistersAssumption DEF ExprRegisters
    <2> QED
      BY <2>1, PerfectEquation
  <1> QED
    BY <1>3, <1>4, <1>5

\* With n registers to evaluate into, every expression of plain operators that
\* is lighter than a perfect tree of n + 1 levels is compiled: whatever way it
\* leans, evaluating the heavier side first means that the allocator does not
\* run out of registers before it comes to the place written to.
THEOREM CompileForeseesWeights == CompileSpec => []WeightsForesee
  <1>1. CompileInit => IInv /\ SpillInv
    BY InitSound, SpillInit
  <1>2. (IInv /\ SpillInv) /\ [CompileNext]_vars => (IInv /\ SpillInv)'
    BY StepSound, SpillStep
  <1>3. IInv /\ SpillInv => WeightsForesee
    BY SpillForesees
  <1> QED
    BY <1>1, <1>2, <1>3, PTL DEF CompileSpec
=============================================================================
