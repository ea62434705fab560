-------------------------- MODULE Unroller_proofs ---------------------------
(***************************************************************************)
(* The loop unroller, for every list that the translator can make: however *)
(* loops are nested, unrolled, copied and unrolled again, no label occurs  *)
(* twice and every jump has its label in its own copy of the body.  The    *)
(* inductive invariant is UnrollInv.                                       *)
(***************************************************************************)
EXTENDS Unroller, Recursion_proofs

-----------------------------------------------------------------------------
(* The invariant.                                                          *)

SourceLabels == {i.label : i \in {j \in SourceInstrs : IsLabel(j)}}

Labels == SourceLabels \cup [kind : {"copy"}, of : SourceLabels, path : Seq(Int)]

Instrs == SourceInstrs
    \cup [op : {"label"}, label : Labels] \cup [op : {"jmp"}, dst : Labels]
    \cup [op : {"jmpcond"}, dst : Labels, cond : Conditions]
    \cup [op : {"pushscope", "popscope"}, size : {0}]

\* Label m is l or one that was made of it by copying.
CopyOf(m, l) ==
    /\ Origin(m) = Origin(l) /\ Len(Path(l)) <= Len(Path(m))
    /\ \A k \in 1..Len(Path(l)) : Path(m)[k] = Path(l)[k]

\* No label is a copy of another one.  That labels differ is not enough: a
\* label that stayed beside its copy would get the copy's name when it is
\* copied itself.
Apart(p) ==
    \A m, n \in 1..Len(p) :
        IsLabel(p[m]) /\ IsLabel(p[n]) /\ CopyOf(p[n].label, p[m].label) => m = n

Sound(p) == p \in Seq(Instrs) /\ Resolved(p) /\ Structured(p) /\ Apart(p)

\* The labels of the list that are copies of a label of the body were made
\* for values that the loop variable has left behind; none is yet to be copied
\* itself.
BodyApart ==
    \A n \in 1..Len(code), k \in 1..Len(loop.body) :
        IsLabel(code[n]) /\ IsLabel(loop.body[k]) =>
            LET m == code[n].label
                l == loop.body[k].label
                at == Len(Path(l)) + 1
            IN  /\ ~CopyOf(l, m)
                /\ CopyOf(m, l) => /\ loop.by > 0 => Path(m)[at] < loop.i
                                   /\ loop.by < 0 => Path(m)[at] > loop.i

LoopFields == {"open", "last", "body", "i", "end", "by"}

LoopInv ==
    /\ loop.open = TRUE /\ DOMAIN loop = LoopFields
    /\ loop.last \in node..(Len(code) - 2) /\ code[node].op = "pushscope"
    /\ code[loop.last + 1].op = "popscope" /\ IsLabel(code[loop.last + 2])
    /\ loop.i \in Int /\ loop.by \in Int \ {0}
    /\ Sound(loop.body) /\ SameScope(loop.body, 0, Len(loop.body))
    /\ BodyApart

UnrollInv ==
    /\ stage \in {"walk", "allocate", "run", "done"}
    /\ node \in 1..(Len(code) + 1)
    /\ Sound(code)
    /\ loop = NoLoop \/ LoopInv
-----------------------------------------------------------------------------
(* Sums and depths.                                                        *)

LEMMA SumsFacts ==
    ASSUME NEW t \in Seq(Int)
    PROVE  /\ Sums(t) \in [0..Len(t) -> Int] /\ Sums(t)[0] = 0
           /\ \A n \in 1..Len(t) : Sums(t)[n] = Sums(t)[n - 1] + t[n]
  <1> DEFINE N == Len(t)
             step == [p \in (1..N) \X Int |-> p[2] + t[p[1]]]
  <1>1. N \in Nat /\ 0 \in Int /\ step \in [(1..N) \X Int -> Int]
    OBVIOUS
  <1>2. \E F : Follows(F, Int, 0, N, step)
    <2> HIDE DEF N, step
    <2> QED
      BY <1>1, Iterated
  <1>3. PICK F : Follows(F, Int, 0, N, step)
    BY <1>2
  <1>4. F \in [0..N -> Int] /\ F[0] = 0 /\ \A n \in 1..N : F[n] = step[<<n, F[n - 1]>>]
    BY <1>3 DEF Follows
  <1>5. ASSUME NEW n \in 1..N PROVE F[n] = F[n - 1] + t[n]
    <2>1. F[n - 1] \in Int
      BY SMTT(40), <1>1, <1>4
    <2> QED
      BY <1>4, <2>1
  <1> HIDE DEF step
  <1>6. F = [n \in 0..N |-> IF n = 0 THEN 0 ELSE F[n - 1] + t[n]]
    BY <1>1, <1>4, <1>5
  <1>7. Sums(t) = CHOOSE s : s = [n \in 0..N |-> IF n = 0 THEN 0 ELSE s[n - 1] + t[n]]
    BY DEF Sums
  <1>8. Sums(t) = [n \in 0..N |-> IF n = 0 THEN 0 ELSE Sums(t)[n - 1] + t[n]]
    BY <1>6, <1>7
  <1>9. Sums(t)[0] = 0 /\ \A n \in 1..N : Sums(t)[n] = Sums(t)[n - 1] + t[n]
    BY SMTT(40), <1>1, <1>8
  <1>10. \A n \in 0..N : Sums(t)[n] \in Int
    <2> DEFINE good == {n \in 0..N : Sums(t)[n] \in Int}
    <2>1. ASSUME NEW n \in 0..N, \A m \in 0..(n - 1) : m \in good PROVE n \in good
      <3>1. CASE n = 0
        BY <1>9, <3>1
      <3>2. CASE n # 0
        <4>1. n \in 1..N /\ n - 1 \in 0..(n - 1)
          BY <1>1, <3>2
        <4>2. Sums(t)[n - 1] \in Int /\ t[n] \in Int
          BY <2>1, <4>1
        <4> QED
          BY <1>9, <4>1, <4>2
      <3> QED
        BY <3>1, <3>2
    <2>2. 0 \in Nat /\ N \in Nat
      BY <1>1
    <2> HIDE DEF good, N
    <2>3. \A n \in 0..N : n \in good
      BY <2>1, <2>2, AllBelow
    <2> QED
      BY <2>3 DEF good
  <1> QED
    BY <1>8, <1>9, <1>10

LEMMA DepthFacts ==
    ASSUME NEW S, NEW p \in Seq(S)
    PROVE  /\ Depth(p) \in [0..Len(p) -> Int] /\ Depth(p)[0] = 0
           /\ \A n \in 1..Len(p) : Depth(p)[n] = Depth(p)[n - 1] + Turn(p[n])
  <1> DEFINE t == [n \in 1..Len(p) |-> Turn(p[n])]
  <1>1. t \in Seq(Int) /\ Len(t) = Len(p) /\ \A n \in 1..Len(p) : t[n] = Turn(p[n])
    BY DEF Turn
  <1>2. Depth(p) = Sums(t)
    BY DEF Depth
  <1> HIDE DEF t
  <1> QED
    BY <1>1, <1>2, SumsFacts

\* From a on P grows as Q does from b on, for L steps.
Parallel(P, Q, a, b, L) == \A j \in 0..L : Q[b + j] - Q[b] = P[a + j] - P[a]

LEMMA GrowAlike ==
    ASSUME NEW M \in Nat, NEW N \in Nat, NEW P \in [0..M -> Int], NEW Q \in [0..N -> Int],
           NEW a \in Nat, NEW b \in Nat, NEW L \in Nat, a + L <= M, b + L <= N,
           \A j \in 1..L : Q[b + j] - Q[b + (j - 1)] = P[a + j] - P[a + (j - 1)]
    PROVE  Parallel(P, Q, a, b, L)
  <1> DEFINE good == {j \in 0..L : Q[b + j] - Q[b] = P[a + j] - P[a]}
  <1>1. ASSUME NEW j \in 0..L, \A m \in 0..(j - 1) : m \in good PROVE j \in good
    <2>1. CASE j = 0
      <3>1. a + 0 = a /\ b + 0 = b /\ P[a] - P[a] = Q[b] - Q[b]
        OBVIOUS
      <3> QED
        BY <2>1, <3>1
    <2>2. CASE j # 0
      <3>0. j \in 1..L /\ j - 1 \in 0..(j - 1)
        BY <2>2
      <3>1. j \in 1..L /\ j - 1 \in good
        BY <1>1, <3>0
      <3>2. /\ a + j \in 0..M /\ b + j \in 0..N /\ a + (j - 1) \in 0..M /\ b + (j - 1) \in 0..N
            /\ a \in 0..M /\ b \in 0..N
        BY <3>1
      <3>3. Q[b + (j - 1)] - Q[b] = P[a + (j - 1)] - P[a]
        BY <3>1, <3>2
      <3>4. Q[b + j] - Q[b + (j - 1)] = P[a + j] - P[a + (j - 1)]
        BY <3>1
      <3>5. /\ Q[b + j] \in Int /\ Q[b + (j - 1)] \in Int /\ Q[b] \in Int
            /\ P[a + j] \in Int /\ P[a + (j - 1)] \in Int /\ P[a] \in Int
        BY <3>2
      <3>6. Q[b + j] - Q[b] = P[a + j] - P[a]
        <4> DEFINE x == Q[b + j]
                   y == Q[b + (j - 1)]
                   z == Q[b]
                   u == P[a + j]
                   v == P[a + (j - 1)]
                   w == P[a]
        <4>1. x \in Int /\ y \in Int /\ z \in Int /\ u \in Int /\ v \in Int /\ w \in Int
          BY <3>5
        <4>2. y - z = v - w /\ x - y = u - v
          BY <3>3, <3>4
        <4> HIDE DEF x, y, z, u, v, w
        <4>3. x - z = u - w
          BY <4>1, <4>2
        <4> QED
          BY <4>3 DEF x, z, u, w
      <3> QED
        BY <3>6
    <2> QED
      BY <2>1, <2>2
  <1>2. 0 \in Nat
    OBVIOUS
  <1>3. \A j \in 0..L : j \in good
    <2> HIDE DEF good
    <2> QED
      BY <1>1, <1>2, AllBelow
  <1> QED
    BY <1>3 DEF Parallel

\* The L instructions behind a in p open and close what those behind b do in q.
SameTurns(p, q, a, b, L) ==
    /\ a \in Nat /\ b \in Nat /\ L \in Nat /\ a + L <= Len(p) /\ b + L <= Len(q)
    /\ \A j \in 1..L : Turn(q[b + j]) = Turn(p[a + j])

LEMMA SegmentDepth ==
    ASSUME NEW S, NEW p \in Seq(S), NEW q \in Seq(S), NEW a, NEW b, NEW L, SameTurns(p, q, a, b, L)
    PROVE  Parallel(Depth(p), Depth(q), a, b, L)
  <1> DEFINE P == Depth(p)
             Q == Depth(q)
             M == Len(p)
             N == Len(q)
  <1>1. M \in Nat /\ N \in Nat
    OBVIOUS
  <1>2. P \in [0..M -> Int] /\ \A n \in 1..M : P[n] = P[n - 1] + Turn(p[n])
    BY DepthFacts
  <1>3. Q \in [0..N -> Int] /\ \A n \in 1..N : Q[n] = Q[n - 1] + Turn(q[n])
    BY DepthFacts
  <1>4. \A i : Turn(i) \in Int
    BY DEF Turn
  <1>5. /\ a \in Nat /\ b \in Nat /\ L \in Nat /\ a + L <= M /\ b + L <= N
        /\ \A j \in 1..L : Turn(q[b + j]) = Turn(p[a + j])
    BY DEF SameTurns
  <1> HIDE DEF P, Q, M, N
  <1>6. ASSUME NEW j \in 1..L PROVE Q[b + j] - Q[b + (j - 1)] = P[a + j] - P[a + (j - 1)]
    <2>1. a + j \in 1..M /\ b + j \in 1..N /\ a + (j - 1) \in 0..M /\ b + (j - 1) \in 0..N
      BY <1>1, <1>5
    <2>2. P[a + j] = P[a + (j - 1)] + Turn(p[a + j]) /\ Q[b + j] = Q[b + (j - 1)] + Turn(q[b + j])
      <3> DEFINE n == a + j
                 m == b + j
      <3>1. n \in 1..M /\ m \in 1..N
        BY <2>1
      <3>2. n - 1 = a + (j - 1) /\ m - 1 = b + (j - 1)
        BY <1>5
      <3> HIDE DEF n, m
      <3>3. P[n] = P[n - 1] + Turn(p[n]) /\ Q[m] = Q[m - 1] + Turn(q[m])
        BY <1>2, <1>3, <3>1
      <3>4. P[n] = P[a + (j - 1)] + Turn(p[n]) /\ Q[m] = Q[b + (j - 1)] + Turn(q[m])
        BY <3>2, <3>3
      <3> QED
        BY <3>4 DEF n, m
    <2>3. P[a + (j - 1)] \in Int /\ Q[b + (j - 1)] \in Int /\ Turn(q[b + j]) = Turn(p[a + j])
      BY <1>2, <1>3, <1>5, <2>1
    <2> QED
      BY <1>4, <2>2, <2>3
  <1>7. Parallel(P, Q, a, b, L)
    BY <1>1, <1>2, <1>3, <1>5, <1>6, GrowAlike
  <1> QED
    BY <1>7 DEF P, Q

\* Inside a segment that two lists share, scopes are the same in both.
LEMMA SegmentScope ==
    ASSUME NEW S, NEW p \in Seq(S), NEW q \in Seq(S), NEW a, NEW b, NEW L, SameTurns(p, q, a, b, L),
           NEW i \in 0..L, NEW j \in 0..L, SameScope(p, a + i, a + j)
    PROVE  SameScope(q, b + i, b + j)
  <1> DEFINE P == Depth(p)
             Q == Depth(q)
             M == Len(p)
             N == Len(q)
  <1>1. Parallel(P, Q, a, b, L)
    BY SegmentDepth
  <1>2. P \in [0..M -> Int] /\ Q \in [0..N -> Int] /\ M \in Nat /\ N \in Nat
    BY DepthFacts
  <1>3. a \in Nat /\ b \in Nat /\ L \in Nat /\ a + L <= M /\ b + L <= N
    BY DEF SameTurns
  <1>4. P[a + i] = P[a + j] /\ \A k \in ((a + i)..(a + j)) \cup ((a + j)..(a + i)) : P[a + i] <= P[k]
    BY DEF SameScope
  <1> HIDE DEF P, Q, M, N
  <1>5. \A k \in 0..L : P[a + k] \in Int /\ Q[b + k] \in Int
    BY SMTT(40), <1>2, <1>3
  <1>6. \A k \in 0..L : Q[b + k] - Q[b + i] = P[a + k] - P[a + i]
    <2> SUFFICES ASSUME NEW k \in 0..L PROVE Q[b + k] - Q[b + i] = P[a + k] - P[a + i]
      OBVIOUS
    <2> DEFINE x == Q[b + k]
               y == Q[b + i]
               z == Q[b]
               u == P[a + k]
               v == P[a + i]
               w == P[a]
    <2>1. x \in Int /\ y \in Int /\ u \in Int /\ v \in Int
      BY <1>5
    <2>2. z \in Int /\ w \in Int
      BY SMTT(40), <1>2, <1>3
    <2>3. x - z = u - w /\ y - z = v - w
      BY <1>1 DEF Parallel
    <2> HIDE DEF x, y, z, u, v, w
    <2>4. x - y = u - v
      BY <2>1, <2>2, <2>3
    <2> QED
      BY <2>4 DEF x, y, u, v
  <1>7. ASSUME NEW k \in 0..L, P[a + i] <= P[a + k] PROVE Q[b + i] <= Q[b + k]
    BY <1>5, <1>6, <1>7
  <1>8. Q[b + i] = Q[b + j]
    BY <1>4, <1>5, <1>6
  <1>9. ASSUME NEW k \in ((b + i)..(b + j)) \cup ((b + j)..(b + i)) PROVE Q[b + i] <= Q[k]
    <2> DEFINE l == k - b
    <2>1. l \in 0..L /\ k = b + l /\ a + l \in ((a + i)..(a + j)) \cup ((a + j)..(a + i))
      BY <1>3
    <2> HIDE DEF l
    <2> QED
      BY <1>4, <1>7, <2>1
  <1> QED
    BY <1>8, <1>9 DEF SameScope, Q

-----------------------------------------------------------------------------
(* Instructions and labels.                                                *)

LEMMA InstrFacts ==
    ASSUME NEW i \in Instrs
    PROVE  /\ i.op \in Kinds
           /\ IsLabel(i) => i = Label(i.label) /\ i.label \in Labels
           /\ i.op = "jmp" => i = Jmp(i.dst)
           /\ i.op = "jmpcond" => i = JmpCondInstr(i.dst, i.cond) /\ i.cond \in Conditions
           /\ IsVarMove(i) => ConstantsOf(i.src) \subseteq Int
  <1>1. CASE i \in SourceInstrs
    <2>1. IsLabel(i) => i.label \in Labels
      BY <1>1 DEF Labels, SourceLabels
    <2> QED
      BY <1>1, <2>1, InstrsAssumption
  <1>2. CASE i \in [op : {"label"}, label : Labels]
    <2>1. i = [op |-> "label", label |-> i.label] /\ i.label \in Labels
      BY <1>2
    <2>2. i.op = "label"
      BY <1>2
    <2> QED
      BY <2>1, <2>2 DEF Kinds, IsLabel, Label, IsVarMove
  <1>3. CASE i \in [op : {"jmp"}, dst : Labels]
    <2>1. i = [op |-> "jmp", dst |-> i.dst] /\ i.op = "jmp"
      BY <1>3
    <2> QED
      BY <2>1 DEF Kinds, IsLabel, Jmp, IsVarMove
  <1>4. CASE i \in [op : {"jmpcond"}, dst : Labels, cond : Conditions]
    <2>1. i = [op |-> "jmpcond", dst |-> i.dst, cond |-> i.cond] /\ i.op = "jmpcond" /\ i.cond \in Conditions
      BY <1>4
    <2> QED
      BY <2>1 DEF Kinds, IsLabel, JmpCondInstr, IsVarMove
  <1>5. CASE i \in [op : {"pushscope", "popscope"}, size : {0}]
    <2>1. i.op \in {"pushscope", "popscope"}
      BY <1>5
    <2> QED
      BY <2>1 DEF Kinds, IsLabel, IsVarMove
  <1> QED
    BY <1>1, <1>2, <1>3, <1>4, <1>5 DEF Instrs

LEMMA LabelFacts ==
    ASSUME NEW l \in Labels
    PROVE  /\ Origin(l) \in SourceLabels /\ Path(l) \in Seq(Int)
           /\ l \in SourceLabels => l.kind # "copy"
  <1>1. ASSUME l \in SourceLabels PROVE l.kind # "copy"
    <2>1. PICK j \in SourceInstrs : IsLabel(j) /\ l = j.label
      BY <1>1 DEF SourceLabels
    <2> QED
      BY <2>1, InstrsAssumption
  <1>2. CASE l \in SourceLabels
    BY <1>1, <1>2 DEF Origin, Path
  <1>3. CASE l \in [kind : {"copy"}, of : SourceLabels, path : Seq(Int)]
    <2>1. l.kind = "copy" /\ l.of \in SourceLabels /\ l.path \in Seq(Int)
      BY <1>3
    <2> QED
      BY <1>1, <2>1 DEF Origin, Path
  <1> QED
    BY <1>1, <1>2, <1>3 DEF Labels

\* A copied label has a path of its own, one longer.
LEMMA CopiedFacts ==
    ASSUME NEW l \in Labels, NEW i \in Int
    PROVE  /\ CopiedLabel(l, i) \in Labels
           /\ Origin(CopiedLabel(l, i)) = Origin(l)
           /\ Path(CopiedLabel(l, i)) \in Seq(Int)
           /\ Len(Path(CopiedLabel(l, i))) = Len(Path(l)) + 1
           /\ \A k \in 1..Len(Path(l)) : Path(CopiedLabel(l, i))[k] = Path(l)[k]
           /\ Path(CopiedLabel(l, i))[Len(Path(l)) + 1] = i
  <1> DEFINE c == CopiedLabel(l, i)
  <1>1. Origin(l) \in SourceLabels /\ Path(l) \in Seq(Int)
    BY LabelFacts
  <1>2. c = [kind |-> "copy", of |-> Origin(l), path |-> Append(Path(l), i)]
    BY DEF CopiedLabel
  <1>3. Append(Path(l), i) \in Seq(Int)
    BY <1>1
  <1>4. c \in Labels
    BY <1>1, <1>2, <1>3 DEF Labels
  <1>5. Origin(c) = Origin(l) /\ Path(c) = Append(Path(l), i)
    BY <1>2 DEF Origin, Path
  <1>6. /\ Len(Append(Path(l), i)) = Len(Path(l)) + 1
        /\ \A k \in 1..Len(Path(l)) : Append(Path(l), i)[k] = Path(l)[k]
        /\ Append(Path(l), i)[Len(Path(l)) + 1] = i
    BY <1>1
  <1> HIDE DEF c
  <1>7. /\ Path(c) \in Seq(Int) /\ Len(Path(c)) = Len(Path(l)) + 1
        /\ \A k \in 1..Len(Path(l)) : Path(c)[k] = Path(l)[k]
        /\ Path(c)[Len(Path(l)) + 1] = i
    BY <1>3, <1>5, <1>6
  <1> QED
    BY <1>4, <1>5, <1>7 DEF c

\* What Renamed does to an instruction of the body.
LEMMA RenamedFacts ==
    ASSUME NEW i \in Instrs, NEW known \in SUBSET Labels, NEW lv \in Int, IsLabel(i) => i.label \in known
    PROVE  LET r == Renamed(Copy(i), known, lv)
           IN  /\ r \in Instrs /\ r.op = i.op /\ Turn(r) = Turn(i)
               /\ IsLabel(i) => r = Label(CopiedLabel(i.label, lv))
               /\ IsJump(i) /\ i.dst \in known => r.dst = CopiedLabel(i.dst, lv)
  <1> DEFINE r == Renamed(Copy(i), known, lv)
  <1>0. \A l \in known : CopiedLabel(l, lv) \in Labels
    BY CopiedFacts
  <1>1. CASE i.op \in {"pushscope", "popscope"}
    <2>1. Copy(i) \in [op : {"pushscope", "popscope"}, size : {0}] /\ Copy(i).op = i.op
      BY <1>1 DEF Copy, PushScope, PopScope
    <2>2. r = Copy(i)
      BY <1>1, <2>1 DEF Renamed, IsLabel
    <2> QED
      BY <1>1, <2>1, <2>2 DEF Instrs, Turn, IsLabel, IsJump
  <1>2. CASE IsLabel(i)
    <2>1. Copy(i) = i
      BY <1>2 DEF Copy, IsLabel
    <2>2. r = Label(CopiedLabel(i.label, lv))
      BY <1>2, <2>1 DEF Renamed, IsLabel
    <2>3. CopiedLabel(i.label, lv) \in Labels
      BY <1>0, <1>2
    <2>4. r \in [op : {"label"}, label : Labels] /\ r.op = "label"
      BY <2>2, <2>3 DEF Label
    <2>5. i.op = "label"
      BY <1>2 DEF IsLabel
    <2>6. Turn(r) = 0 /\ Turn(i) = 0
      BY <2>4, <2>5 DEF Turn
    <2> QED
      BY <2>2, <2>4, <2>5, <2>6 DEF Instrs, IsJump
  <1>3. CASE i.op = "jmp" /\ i.dst \in known
    <2>1. r = Jmp(CopiedLabel(i.dst, lv))
      BY <1>3 DEF Renamed, Copy, IsLabel
    <2>2. r \in [op : {"jmp"}, dst : Labels] /\ r.op = "jmp" /\ r.dst = CopiedLabel(i.dst, lv)
      BY <1>0, <1>3, <2>1 DEF Jmp
    <2> QED
      BY <1>3, <2>2 DEF Instrs, Turn, IsLabel
  <1>4. CASE i.op = "jmpcond" /\ i.dst \in known
    <2>1. r = JmpCondInstr(CopiedLabel(i.dst, lv), i.cond)
      BY <1>4 DEF Renamed, Copy, IsLabel
    <2>2. i.cond \in Conditions
      BY <1>4, InstrFacts
    <2>3. r \in [op : {"jmpcond"}, dst : Labels, cond : Conditions] /\ r.op = "jmpcond" /\ r.dst = CopiedLabel(i.dst, lv)
      BY <1>0, <1>4, <2>1, <2>2 DEF JmpCondInstr
    <2> QED
      BY <1>4, <2>3 DEF Instrs, Turn, IsLabel
  <1>5. CASE /\ i.op \notin {"pushscope", "popscope"} /\ ~IsLabel(i)
             /\ ~(i.op = "jmp" /\ i.dst \in known) /\ ~(i.op = "jmpcond" /\ i.dst \in known)
    <2>1. r = i
      BY <1>5 DEF Renamed, Copy
    <2> QED
      BY <1>5, <2>1 DEF IsJump
  <1> QED
    BY <1>1, <1>2, <1>3, <1>4, <1>5

-----------------------------------------------------------------------------
(* Copies of copies.                                                       *)

\* The copy of l for i is no copy of m, nor m of it, when neither l nor m is a
\* copy of the other or m is a copy of l for another value.
LEMMA CopiedApart ==
    ASSUME NEW l \in Labels, NEW m \in Labels, NEW i \in Int, ~CopyOf(l, m),
           CopyOf(m, l) => Path(m)[Len(Path(l)) + 1] # i
    PROVE  ~CopyOf(CopiedLabel(l, i), m) /\ ~CopyOf(m, CopiedLabel(l, i))
  <1> DEFINE c == CopiedLabel(l, i)
             P == Path(l)
             Q == Path(m)
             R == Path(c)
  <1>1. P \in Seq(Int) /\ Q \in Seq(Int)
    BY LabelFacts
  <1>2. /\ Origin(c) = Origin(l) /\ R \in Seq(Int) /\ Len(R) = Len(P) + 1
        /\ \A k \in 1..Len(P) : R[k] = P[k]
        /\ R[Len(P) + 1] = i
    BY CopiedFacts
  <1>3. Len(P) \in Nat /\ Len(Q) \in Nat
    BY <1>1
  <1>4. \A x, y : CopyOf(x, y) <=> /\ Origin(x) = Origin(y) /\ Len(Path(y)) <= Len(Path(x))
                                   /\ \A k \in 1..Len(Path(y)) : Path(x)[k] = Path(y)[k]
    BY DEF CopyOf
  <1> HIDE DEF c
  <1>5. ASSUME CopyOf(c, m) PROVE FALSE
    <2>1. Origin(l) = Origin(m) /\ Len(Q) <= Len(P) + 1 /\ \A k \in 1..Len(Q) : R[k] = Q[k]
      BY <1>2, <1>4, <1>5
    <2>2. CASE Len(Q) <= Len(P)
      BY <1>2, <1>3, <1>4, <2>1, <2>2
    <2>3. CASE Len(Q) = Len(P) + 1
      <3>1. (\A k \in 1..Len(P) : Q[k] = P[k]) /\ Q[Len(P) + 1] = i
        BY <1>2, <1>3, <2>1, <2>3
      <3> QED
        BY <1>3, <1>4, <2>1, <2>3, <3>1
    <2> QED
      BY <1>3, <2>1, <2>2, <2>3
  <1>6. ASSUME CopyOf(m, c) PROVE FALSE
    <2>1. Origin(l) = Origin(m) /\ Len(P) + 1 <= Len(Q) /\ \A k \in 1..(Len(P) + 1) : Q[k] = R[k]
      BY <1>2, <1>4, <1>6
    <2>2. (\A k \in 1..Len(P) : Q[k] = P[k]) /\ Q[Len(P) + 1] = i
      BY <1>2, <1>3, <2>1
    <2> QED
      BY <1>3, <1>4, <2>1, <2>2
  <1> QED
    BY <1>5, <1>6 DEF c

\* Copies for the same value are copies of each other only if the labels are.
LEMMA CopiedAlike ==
    ASSUME NEW l \in Labels, NEW m \in Labels, NEW i \in Int,
           CopyOf(CopiedLabel(m, i), CopiedLabel(l, i))
    PROVE  CopyOf(m, l)
  <1> DEFINE c == CopiedLabel(l, i)
             d == CopiedLabel(m, i)
  <1>1. Path(l) \in Seq(Int) /\ Path(m) \in Seq(Int)
    BY LabelFacts
  <1>2. /\ Origin(c) = Origin(l) /\ Len(Path(c)) = Len(Path(l)) + 1
        /\ \A k \in 1..Len(Path(l)) : Path(c)[k] = Path(l)[k]
    BY CopiedFacts
  <1>3. /\ Origin(d) = Origin(m) /\ Len(Path(d)) = Len(Path(m)) + 1
        /\ \A k \in 1..Len(Path(m)) : Path(d)[k] = Path(m)[k]
    BY CopiedFacts
  <1>4. /\ Origin(d) = Origin(c) /\ Len(Path(c)) <= Len(Path(d))
        /\ \A k \in 1..Len(Path(c)) : Path(d)[k] = Path(c)[k]
    BY DEF CopyOf
  <1> HIDE DEF c, d
  <1>5. Len(Path(l)) <= Len(Path(m)) /\ Len(Path(l)) \in Nat /\ Len(Path(m)) \in Nat
    BY <1>1, <1>2, <1>3, <1>4
  <1>6. ASSUME NEW k \in 1..Len(Path(l)) PROVE Path(m)[k] = Path(l)[k]
    <2>1. k \in 1..Len(Path(m)) /\ k \in 1..Len(Path(c))
      BY <1>2, <1>5
    <2> QED
      BY <1>2, <1>3, <1>4, <2>1
  <1>7. Origin(m) = Origin(l)
    BY <1>2, <1>3, <1>4
  <1> QED
    BY <1>5, <1>6, <1>7 DEF CopyOf

\* If the copy of m is a copy of l, then m is already, or l is one of m; and
\* l is no copy of it unless it is one of m, with a longer path.
LEMMA CopiedFrom ==
    ASSUME NEW l \in Labels, NEW m \in Labels, NEW i \in Int
    PROVE  /\ CopyOf(CopiedLabel(m, i), l) => CopyOf(m, l) \/ (CopyOf(l, m) /\ Len(Path(l)) = Len(Path(m)) + 1)
           /\ CopyOf(l, CopiedLabel(m, i)) => CopyOf(l, m) /\ Len(Path(l)) > Len(Path(m))
  <1> DEFINE d == CopiedLabel(m, i)
             P == Path(l)
             Q == Path(m)
             R == Path(d)
  <1>1. P \in Seq(Int) /\ Q \in Seq(Int)
    BY LabelFacts
  <1>2. /\ Origin(d) = Origin(m) /\ Len(R) = Len(Q) + 1
        /\ \A k \in 1..Len(Q) : R[k] = Q[k]
    BY CopiedFacts
  <1>3. Len(P) \in Nat /\ Len(Q) \in Nat
    BY <1>1
  <1>4. \A x, y : CopyOf(x, y) <=> /\ Origin(x) = Origin(y) /\ Len(Path(y)) <= Len(Path(x))
                                   /\ \A k \in 1..Len(Path(y)) : Path(x)[k] = Path(y)[k]
    BY DEF CopyOf
  <1> HIDE DEF d
  <1>5. ASSUME CopyOf(d, l) PROVE CopyOf(m, l) \/ (CopyOf(l, m) /\ Len(P) = Len(Q) + 1)
    <2>1. Origin(m) = Origin(l) /\ Len(P) <= Len(Q) + 1 /\ \A k \in 1..Len(P) : R[k] = P[k]
      BY <1>2, <1>4, <1>5
    <2>2. CASE Len(P) <= Len(Q)
      BY <1>2, <1>3, <1>4, <2>1, <2>2
    <2>3. CASE Len(P) = Len(Q) + 1
      BY <1>2, <1>3, <1>4, <2>1, <2>3
    <2> QED
      BY <1>3, <2>1, <2>2, <2>3
  <1>6. ASSUME CopyOf(l, d) PROVE CopyOf(l, m) /\ Len(P) > Len(Q)
    <2>1. Origin(m) = Origin(l) /\ Len(Q) + 1 <= Len(P) /\ \A k \in 1..(Len(Q) + 1) : P[k] = R[k]
      BY <1>2, <1>4, <1>6
    <2>2. \A k \in 1..Len(Q) : P[k] = Q[k]
      BY <1>2, <1>3, <2>1
    <2> QED
      BY <1>3, <1>4, <2>1, <2>2
  <1> QED
    BY <1>5, <1>6 DEF d

LEMMA CopyOfFacts ==
    ASSUME NEW l \in Labels, NEW m \in Labels
    PROVE  /\ CopyOf(l, l)
           /\ CopyOf(m, l) /\ ~CopyOf(l, m) => Path(m)[Len(Path(l)) + 1] \in Int
           /\ l = m => CopyOf(m, l)
  <1>1. Path(l) \in Seq(Int) /\ Path(m) \in Seq(Int)
    BY LabelFacts
  <1>2. CopyOf(l, l)
    BY <1>1 DEF CopyOf
  <1>3. ASSUME CopyOf(m, l), ~CopyOf(l, m) PROVE Path(m)[Len(Path(l)) + 1] \in Int
    <2>1. /\ Origin(m) = Origin(l) /\ Len(Path(l)) <= Len(Path(m))
          /\ \A k \in 1..Len(Path(l)) : Path(m)[k] = Path(l)[k]
      BY <1>3 DEF CopyOf
    <2>2. Len(Path(l)) # Len(Path(m))
      BY <1>3, <2>1 DEF CopyOf
    <2>3. Len(Path(l)) \in Nat /\ Len(Path(m)) \in Nat
      BY <1>1
    <2>4. Len(Path(l)) + 1 \in 1..Len(Path(m))
      BY <2>1, <2>2, <2>3
    <2> QED
      BY <1>1, <2>4
  <1> QED
    BY <1>2, <1>3

-----------------------------------------------------------------------------
(* What the loop's numbers are.                                            *)

\* A set of positions that is not empty has a greatest member.
LEMMA GreatestOf ==
    ASSUME NEW N \in Nat, NEW S \in SUBSET (1..N), S # {}
    PROVE  \E k \in S : \A j \in S : j <= k
  <1> DEFINE T == {N - k : k \in S}
  <1>0. \A k \in S : N - k \in Nat
    OBVIOUS
  <1>1. T \subseteq Nat /\ T # {}
    BY <1>0
  <1>2. PICK t \in T : \A u \in T : t <= u
    <2> HIDE DEF T
    <2> QED
      BY <1>1, LeastOf
  <1>3. PICK k \in S : t = N - k
    BY <1>2
  <1>4. ASSUME NEW j \in S PROVE j <= k
    <2>1. N - k <= N - j
      BY <1>2, <1>3
    <2> QED
      BY <1>3, <2>1
  <1> QED
    BY <1>3, <1>4

LEMMA MovesFacts ==
    ASSUME code \in Seq(Instrs), NEW v, NEW from \in Int, NEW to \in Int, 1 <= from, to <= Len(code),
           NEW k \in MovesTo(v, from, to)
    PROVE  k \in 1..Len(code) /\ ConstantsOf(code[k].src) \subseteq Int
  <1>1. k \in from..to /\ IsVarMove(code[k])
    BY DEF MovesTo
  <1>2. k \in 1..Len(code)
    BY <1>1
  <1>3. code[k] \in Instrs
    BY <1>2
  <1> QED
    BY <1>1, <1>2, <1>3, InstrFacts

LEMMA StartIsInt ==
    ASSUME code \in Seq(Instrs), NEW v, NEW n \in 1..Len(code), InitialisesLoopVariable(v, n)
    PROVE  LvStart(v, n) \in Int
  <1> DEFINE moves == MovesTo(v, 1, n)
             k == LastMove(v, n)
  <1>1. moves # {} /\ moves \in SUBSET (1..n) /\ n \in Nat /\ code[k].src.e = "int"
    BY DEF InitialisesLoopVariable, MovesTo
  <1>2. \E x \in moves : \A j \in moves : j <= x
    <2> HIDE DEF moves
    <2> QED
      BY <1>1, GreatestOf
  <1>3. k \in moves
    BY <1>2 DEF LastMove
  <1>4. ConstantsOf(code[k].src) \subseteq Int
    <2> HIDE DEF k
    <2> QED
      BY <1>3, MovesFacts
  <1>5. ConstantsOf(code[k].src) = {code[k].src.value}
    BY <1>1 DEF ConstantsOf
  <1> QED
    BY <1>4, <1>5 DEF LvStart

LEMMA IncrementIsInt ==
    ASSUME code \in Seq(Instrs), NEW v, NEW n \in 1..Len(code), EndOfLoop(n) \in Int,
           EndOfLoop(n) <= Len(code) + 1, LoopVariableIncrements(v, n)
    PROVE  LvIncrement(v, n) \in Int
  <1> DEFINE moves == MovesTo(v, n, EndOfLoop(n) - 1)
             t == [k \in 1..Len(code) |-> IF k \in moves THEN IncrementOf(code[k].src) ELSE 0]
  <1>1. ASSUME NEW k \in moves PROVE IncrementOf(code[k].src) \in Int
    <2> DEFINE x == code[k].src
    <2>1. IsIncrement(x, v)
      BY DEF LoopVariableIncrements
    <2>2. ConstantsOf(x) \subseteq Int
      BY MovesFacts
    <2> HIDE DEF x
    <2>3. x.e = "binary" /\ (x.left.e = "int" \/ x.right.e = "int")
      BY <2>1 DEF IsIncrement
    <2>4. ConstantsOf(x) = {y.value : y \in {z \in {x.left, x.right} : z.e = "int"}}
      BY <2>3 DEF ConstantsOf
    <2>5. IncrementOf(x) \in ConstantsOf(x)
      BY <2>3, <2>4 DEF IncrementOf
    <2> QED
      BY <2>2, <2>5 DEF x
  <1>2. t \in Seq(Int) /\ Len(t) = Len(code)
    <2> HIDE DEF moves
    <2> QED
      BY <1>1
  <1>3. Sums(t)[Len(code)] \in Int
    <2> HIDE DEF t
    <2> QED
      BY <1>2, SumsFacts
  <1> QED
    BY <1>3 DEF LvIncrement

-----------------------------------------------------------------------------
(* The loop is taken out.                                                  *)

\* A loop whose head is at n and whose end is at e.
LoopShape(p, n, e) ==
    /\ n \in 1..Len(p) /\ e \in (n + 4)..Len(p)
    /\ p[n].op = "jmpcond" /\ p[n + 1].op = "pushscope" /\ SameScope(p, n + 1, e - 3)
    /\ p[e - 2].op = "popscope" /\ p[e - 1].op = "jmp" /\ p[e] = Label(p[n].dst)

\* What remains of the list, and the place in p of each of its instructions.
Remains(p, n, e) ==
    SubSeq(p, 1, n - 1) \o <<p[n + 1], p[e - 2]>> \o SubSeq(p, e, Len(p))

Place(m, n, e) == IF m < n THEN m ELSE IF m = n THEN n + 1 ELSE m + ((e - n) - 2)

LEMMA Joined ==
    ASSUME NEW S, NEW s \in Seq(S), NEW t \in Seq(S)
    PROVE  /\ s \o t \in Seq(S) /\ Len(s \o t) = Len(s) + Len(t)
           /\ \A i \in 1..Len(s) : (s \o t)[i] = s[i]
           /\ \A i \in 1..Len(t) : (s \o t)[Len(s) + i] = t[i]
  OBVIOUS

LEMMA RemainsFacts ==
    ASSUME NEW p \in Seq(Instrs), NEW n, NEW e, LoopShape(p, n, e)
    PROVE  LET q == Remains(p, n, e)
           IN  /\ q \in Seq(Instrs) /\ Len(q) = Len(p) - ((e - n) - 2) /\ n + 2 <= Len(q)
               /\ \A m \in 1..Len(q) : m # n + 1 => q[m] = p[Place(m, n, e)]
               /\ q[n + 1] = p[e - 2]
  <1> DEFINE K == Len(p)
             a == SubSeq(p, 1, n - 1)
             b == <<p[n + 1], p[e - 2]>>
             c == SubSeq(p, e, K)
             q == Remains(p, n, e)
  <1>1. K \in Nat /\ n \in 1..K /\ e \in (n + 4)..K
    BY DEF LoopShape
  <1>2. a \in Seq(Instrs) /\ Len(a) = n - 1 /\ \A m \in 1..(n - 1) : a[m] = p[m]
    BY <1>1
  <1>3. b \in Seq(Instrs) /\ Len(b) = 2 /\ b[1] = p[n + 1] /\ b[2] = p[e - 2]
    <2>1. p[n + 1] \in Instrs /\ p[e - 2] \in Instrs
      BY <1>1
    <2> QED
      BY <2>1
  <1>4. c \in Seq(Instrs) /\ Len(c) = (K - e) + 1 /\ \A m \in 1..((K - e) + 1) : c[m] = p[(e + m) - 1]
    BY <1>1
  <1>5. q = a \o b \o c
    BY DEF Remains
  <1> HIDE DEF a, b, c, q, K
  <1>6. /\ a \o b \in Seq(Instrs) /\ Len(a \o b) = n + 1
        /\ \A m \in 1..(n - 1) : (a \o b)[m] = p[m]
        /\ (a \o b)[n] = p[n + 1] /\ (a \o b)[n + 1] = p[e - 2]
    <2>1. /\ a \o b \in Seq(Instrs) /\ Len(a \o b) = (n - 1) + 2
          /\ \A m \in 1..(n - 1) : (a \o b)[m] = a[m]
          /\ \A m \in 1..2 : (a \o b)[(n - 1) + m] = b[m]
      <3>1. /\ a \o b \in Seq(Instrs) /\ Len(a \o b) = Len(a) + Len(b)
            /\ \A m \in 1..Len(a) : (a \o b)[m] = a[m]
            /\ \A m \in 1..Len(b) : (a \o b)[Len(a) + m] = b[m]
        <4>1. a \in Seq(Instrs) /\ b \in Seq(Instrs)
          BY <1>2, <1>3
        <4> QED
          BY <4>1, Joined
      <3> QED
        BY <1>2, <1>3, <3>1
    <2>2. (n - 1) + 1 = n /\ (n - 1) + 2 = n + 1 /\ 1 \in 1..2 /\ 2 \in 1..2
      BY <1>1
    <2>3. (a \o b)[(n - 1) + 1] = b[1] /\ (a \o b)[(n - 1) + 2] = b[2]
      BY <2>1, <2>2
    <2> QED
      BY <1>2, <1>3, <2>1, <2>2, <2>3
  <1> DEFINE d == a \o b
  <1>7. q = d \o c
    BY <1>5
  <1> HIDE DEF d
  <1>8. /\ d \in Seq(Instrs) /\ Len(d) = n + 1
        /\ \A m \in 1..(n - 1) : d[m] = p[m]
        /\ d[n] = p[n + 1] /\ d[n + 1] = p[e - 2]
    BY <1>6 DEF d
  <1>9. /\ q \in Seq(Instrs) /\ Len(q) = (n + 1) + ((K - e) + 1)
        /\ \A m \in 1..(n + 1) : q[m] = d[m]
        /\ \A m \in 1..((K - e) + 1) : q[(n + 1) + m] = c[m]
    BY SMTT(40), <1>4, <1>7, <1>8, Joined
  <1>10. Len(q) = K - ((e - n) - 2) /\ n + 2 <= Len(q)
    BY <1>1, <1>9
  <1>11. ASSUME NEW m \in 1..Len(q), m # n + 1 PROVE q[m] = p[Place(m, n, e)]
    <2>1. CASE m < n
      <3>1. m \in 1..(n - 1) /\ m \in 1..(n + 1)
        BY <1>1, <1>9, <1>11, <2>1
      <3>2. q[m] = p[m]
        BY <1>8, <1>9, <3>1
      <3> QED
        BY <2>1, <3>2 DEF Place
    <2>2. CASE m = n
      BY <1>1, <1>8, <1>9, <2>2 DEF Place
    <2>3. CASE m > n
      <3> DEFINE x == m - (n + 1)
      <3>1. x \in 1..((K - e) + 1) /\ m = (n + 1) + x /\ (e + x) - 1 = m + ((e - n) - 2)
        BY <1>1, <1>9, <1>11, <2>3
      <3> HIDE DEF x
      <3>2. q[m] = p[(e + x) - 1]
        BY <1>4, <1>9, <3>1
      <3>3. Place(m, n, e) = m + ((e - n) - 2)
        BY <1>1, <2>3, <1>11 DEF Place
      <3> QED
        BY <3>1, <3>2, <3>3
    <2> QED
      BY <1>1, <2>1, <2>2, <2>3
  <1>12. q[n + 1] = p[e - 2]
    BY SMTT(40), <1>1, <1>8, <1>9
  <1> QED
    BY <1>9, <1>10, <1>11, <1>12 DEF q, K

\* The depths in the loop.
LEMMA LoopDepths ==
    ASSUME NEW p \in Seq(Instrs), NEW n, NEW e, LoopShape(p, n, e)
    PROVE  LET D == Depth(p)
           IN  /\ D \in [0..Len(p) -> Int] /\ D[n - 1] = D[n] /\ D[n + 1] = D[n] + 1
               /\ D[e - 3] = D[n] + 1 /\ D[e - 2] = D[n] /\ D[e - 1] = D[n] /\ D[e] = D[n]
               /\ \A k \in (n + 1)..(e - 3) : D[k] > D[n]
  <1> DEFINE D == Depth(p)
             K == Len(p)
  <1>1. D \in [0..K -> Int] /\ \A m \in 1..K : D[m] = D[m - 1] + Turn(p[m])
    BY DepthFacts
  <1>2. K \in Nat /\ n \in 1..K /\ e \in (n + 4)..K
    BY DEF LoopShape
  <1>3. D[n + 1] = D[e - 3] /\ \A k \in (n + 1)..(e - 3) : D[n + 1] <= D[k]
    BY DEF LoopShape, SameScope
  <1>4. /\ Turn(p[n]) = 0 /\ Turn(p[n + 1]) = 1
        /\ Turn(p[e - 2]) = -1 /\ Turn(p[e - 1]) = 0 /\ Turn(p[e]) = 0
    BY DEF LoopShape, Turn, Label
  <1> HIDE DEF D, K
  <1>5. D[n] = D[n - 1] + Turn(p[n])
    BY <1>1, <1>2
  <1>6. D[n + 1] = D[n] + Turn(p[n + 1])
    <2>1. (n + 1) - 1 = n /\ n + 1 \in 1..K
      BY <1>2
    <2> QED
      BY <1>1, <2>1
  <1>7. D[e - 2] = D[e - 3] + Turn(p[e - 2])
    <2>1. (e - 2) - 1 = e - 3 /\ e - 2 \in 1..K
      BY <1>2
    <2> QED
      BY <1>1, <2>1
  <1>8. D[e - 1] = D[e - 2] + Turn(p[e - 1])
    <2>1. (e - 1) - 1 = e - 2 /\ e - 1 \in 1..K
      BY <1>2
    <2> QED
      BY <1>1, <2>1
  <1>9. D[e] = D[e - 1] + Turn(p[e])
    <2>1. e \in 1..K
      BY <1>2
    <2> QED
      BY <1>1, <2>1
  <1>10. /\ D[n - 1] \in Int /\ D[n] \in Int /\ D[n + 1] \in Int
         /\ D[e - 3] \in Int /\ D[e - 2] \in Int /\ D[e - 1] \in Int /\ D[e] \in Int
    BY <1>1, <1>2
  <1>11. /\ D[n - 1] = D[n] /\ D[n + 1] = D[n] + 1
         /\ D[e - 3] = D[n] + 1 /\ D[e - 2] = D[n] /\ D[e - 1] = D[n] /\ D[e] = D[n]
    <2> DEFINE u == D[n - 1]
               v == D[n]
               w == D[n + 1]
               x == D[e - 3]
               y == D[e - 2]
               z == D[e - 1]
               l == D[e]
    <2>1. /\ u \in Int /\ v \in Int /\ w \in Int /\ x \in Int /\ y \in Int /\ z \in Int /\ l \in Int
          /\ w = x /\ v = u + 0 /\ w = v + 1 /\ y = x - 1 /\ z = y + 0 /\ l = z + 0
      BY <1>3, <1>4, <1>5, <1>6, <1>7, <1>8, <1>9, <1>10
    <2> HIDE DEF u, v, w, x, y, z, l
    <2>2. v = u /\ w = v + 1 /\ x = v + 1
      BY <2>1
    <2>3. y = v /\ z = v /\ l = v
      BY <2>1, <2>2
    <2> QED
      BY <2>2, <2>3 DEF u, v, w, x, y, z, l
  <1>12. ASSUME NEW k \in (n + 1)..(e - 3) PROVE D[k] > D[n]
    <2>1. D[k] \in Int /\ D[n + 1] <= D[k]
      BY SMTT(40), <1>1, <1>2, <1>3
    <2> QED
      BY <1>10, <1>11, <2>1
  <1> QED
    BY <1>1, <1>11, <1>12 DEF D, K

LEMMA RemainsDepth ==
    ASSUME NEW p \in Seq(Instrs), NEW n, NEW e, LoopShape(p, n, e),
           NEW m \in 0..Len(Remains(p, n, e))
    PROVE  /\ Place(m, n, e) \in 0..Len(p)
           /\ Depth(Remains(p, n, e))[m] = Depth(p)[Place(m, n, e)]
  <1> DEFINE q == Remains(p, n, e)
             K == Len(p)
             L == Len(q)
             D == Depth(p)
             E == Depth(q)
             good == {k \in 0..L : E[k] = D[Place(k, n, e)]}
  <1>1. /\ q \in Seq(Instrs) /\ L = K - ((e - n) - 2) /\ n + 2 <= L
        /\ \A k \in 1..L : k # n + 1 => q[k] = p[Place(k, n, e)]
        /\ q[n + 1] = p[e - 2]
    BY RemainsFacts
  <1>2. K \in Nat /\ L \in Nat /\ n \in 1..K /\ e \in (n + 4)..K
    BY SMTT(40), <1>1 DEF LoopShape
  <1>3. D \in [0..K -> Int] /\ D[0] = 0 /\ \A k \in 1..K : D[k] = D[k - 1] + Turn(p[k])
    BY DepthFacts
  <1>4. E \in [0..L -> Int] /\ E[0] = 0 /\ \A k \in 1..L : E[k] = E[k - 1] + Turn(q[k])
    BY <1>1, DepthFacts
  <1>5. D[n - 1] = D[n] /\ D[n + 1] = D[n] + 1 /\ D[e - 1] = D[n]
    BY LoopDepths
  <1>6. /\ p[n + 1].op = "pushscope" /\ p[e - 2].op = "popscope"
    BY DEF LoopShape
  <1>7. \A k \in 0..L : Place(k, n, e) \in 0..K
    BY <1>1, <1>2 DEF Place
  <1> HIDE DEF q, K, L, D, E
  <1>8. ASSUME NEW k \in 0..L, \A j \in 0..(k - 1) : j \in good PROVE k \in good
    <2>0. CASE k = 0
      <3>1. Place(0, n, e) = 0
        BY <1>2 DEF Place
      <3> QED
        BY <1>3, <1>4, <2>0, <3>1
    <2> SUFFICES ASSUME k # 0 PROVE E[k] = D[Place(k, n, e)]
      BY <2>0
    <2>1. k \in 1..L /\ k - 1 \in 0..(k - 1)
      BY <1>2
    <2>2. k - 1 \in good
      BY <1>8, <2>1
    <2>3. E[k - 1] = D[Place(k - 1, n, e)] /\ E[k] = E[k - 1] + Turn(q[k])
      BY <1>4, <2>1, <2>2
    <2>4. CASE k < n
      <3>1. Place(k, n, e) = k /\ Place(k - 1, n, e) = k - 1 /\ k \in 1..K /\ k # n + 1
        BY <1>2, <2>1, <2>4 DEF Place
      <3>2. q[k] = p[k] /\ E[k - 1] = D[k - 1]
        BY <1>1, <2>1, <2>3, <3>1
      <3> QED
        BY <1>3, <2>3, <3>1, <3>2
    <2>5. CASE k = n
      <3>1. Place(n, n, e) = n + 1 /\ Place(n - 1, n, e) = n - 1 /\ n # n + 1
        BY <1>2 DEF Place
      <3>2. q[n] = p[n + 1] /\ E[n - 1] = D[n - 1]
        BY <1>1, <2>1, <2>3, <2>5, <3>1
      <3>3. Turn(q[n]) = 1
        BY <1>6, <3>2 DEF Turn
      <3> QED
        BY <1>5, <2>3, <2>5, <3>1, <3>2, <3>3
    <2>6. CASE k = n + 1
      <3>1. Place(n + 1, n, e) = e - 1 /\ Place(n, n, e) = n + 1 /\ k - 1 = n
        BY <1>2, <2>6 DEF Place
      <3>2. E[k - 1] = D[n + 1] /\ Turn(q[k]) = -1
        BY <1>1, <1>6, <2>3, <2>6, <3>1 DEF Turn
      <3>3. D[n] \in Int
        BY <1>2, <1>3
      <3>4. E[k] = D[n]
        BY <1>5, <2>3, <3>2, <3>3
      <3> QED
        BY <1>5, <2>6, <3>1, <3>4
    <2>7. CASE k > n + 1
      <3> DEFINE x == Place(k, n, e)
      <3>1. x = k + ((e - n) - 2) /\ Place(k - 1, n, e) = x - 1 /\ x \in 1..K
        BY <1>1, <1>2, <2>1, <2>7 DEF Place
      <3>2. q[k] = p[x]
        BY SMTT(40), <1>1, <1>2, <2>1, <2>7
      <3> HIDE DEF x
      <3>3. E[k - 1] = D[x - 1]
        BY <2>3, <3>1
      <3>4. D[x] = D[x - 1] + Turn(p[x])
        BY <1>3, <3>1
      <3>5. E[k] = D[x]
        BY <2>3, <3>2, <3>3, <3>4
      <3> QED
        BY <3>5 DEF x
    <2> QED
      BY <1>2, <2>4, <2>5, <2>6, <2>7
  <1>9. \A k \in 0..L : k \in good
    <2> HIDE DEF good
    <2>1. 0 \in Nat
      OBVIOUS
    <2> QED
      BY <1>2, <1>8, <2>1, AllBelow
  <1> QED
    BY <1>7, <1>9 DEF q, K, L, D, E

LEMMA SameScopeBack ==
    ASSUME NEW S, NEW p \in Seq(S), NEW a \in 0..Len(p), NEW b \in 0..Len(p), SameScope(p, a, b)
    PROVE  SameScope(p, b, a)
  BY DEF SameScope

\* Scopes that are the same in the list are the same in what remains of it.
LEMMA RemainsScope ==
    ASSUME NEW p \in Seq(Instrs), NEW n, NEW e, LoopShape(p, n, e),
           NEW a \in 0..Len(Remains(p, n, e)), NEW b \in 0..Len(Remains(p, n, e)),
           SameScope(p, Place(a, n, e), Place(b, n, e))
    PROVE  SameScope(Remains(p, n, e), a, b)
  <1> DEFINE q == Remains(p, n, e)
             L == Len(q)
             D == Depth(p)
             E == Depth(q)
             f(m) == Place(m, n, e)
  <1>1. \A m \in 0..L : E[m] = D[f(m)]
    BY RemainsDepth
  <1>2. D[f(a)] = D[f(b)] /\ \A k \in (f(a)..f(b)) \cup (f(b)..f(a)) : D[f(a)] <= D[k]
    BY DEF SameScope
  <1>3. L \in Nat /\ n \in Nat /\ e \in Int /\ n + 4 <= e
    BY RemainsFacts DEF LoopShape
  <1> HIDE DEF q, L, D, E
  <1>4. ASSUME NEW k \in (a..b) \cup (b..a) PROVE E[a] <= E[k]
    <2>0. a \in 0..L /\ b \in 0..L
      BY DEF L, q
    <2>1. k \in 0..L
      BY <1>3, <2>0
    <2>2. \A x, y \in 0..L : x <= y => f(x) <= f(y) /\ f(x) \in Int
      BY <1>3 DEF Place
    <2>3. f(k) \in (f(a)..f(b)) \cup (f(b)..f(a))
      <3>1. CASE k \in a..b
        BY <1>3, <2>0, <2>1, <2>2, <3>1
      <3>2. CASE k \in b..a
        BY <1>3, <2>0, <2>1, <2>2, <3>2
      <3> QED
        BY <3>1, <3>2
    <2>4. E[a] = D[f(a)] /\ E[k] = D[f(k)]
      BY <1>1, <2>0, <2>1
    <2> HIDE DEF f
    <2> QED
      BY <1>2, <2>3, <2>4
  <1>5. E[a] = E[b]
    <2>1. a \in 0..L /\ b \in 0..L
      BY DEF L, q
    <2> QED
      BY <1>1, <1>2, <2>1
  <1> QED
    BY <1>4, <1>5 DEF SameScope, E, q

\* What is in the scope of a place inside the loop is inside.
LEMMA Inside ==
    ASSUME NEW p \in Seq(Instrs), NEW n, NEW e, LoopShape(p, n, e),
           NEW a \in (n + 1)..(e - 3), NEW b \in 0..Len(p), SameScope(p, a, b)
    PROVE  b \in (n + 1)..(e - 3)
  <1> DEFINE D == Depth(p)
  <1>1. D \in [0..Len(p) -> Int] /\ D[e - 2] = D[n] /\ \A k \in (n + 1)..(e - 3) : D[k] > D[n]
    BY LoopDepths
  <1>2. n \in 1..Len(p) /\ e \in (n + 4)..Len(p) /\ Len(p) \in Nat
    BY DEF LoopShape
  <1>3. \A k \in (a..b) \cup (b..a) : D[a] <= D[k]
    BY DEF SameScope
  <1> HIDE DEF D
  <1>4. D[a] \in Int /\ D[n] \in Int /\ D[a] > D[n]
    BY SMTT(40), <1>1, <1>2
  <1>5. CASE b <= n
    <2>1. n \in b..a
      BY <1>2, <1>5
    <2> QED
      BY <1>3, <1>4, <2>1
  <1>6. CASE b >= e - 2
    <2>1. e - 2 \in a..b
      BY <1>2, <1>6
    <2>2. D[a] <= D[e - 2]
      BY <1>3, <2>1
    <2> QED
      BY <1>1, <1>4, <2>2
  <1> QED
    BY <1>2, <1>5, <1>6

LEMMA StructuredLoops ==
    ASSUME NEW p
    PROVE  Structured(p) <=> \A n \in 1..Len(p) : p[n].op = "jmpcond" => \E e : LoopShape(p, n, e)
  BY DEF Structured, LoopShape

\* A loop ends in the scope it begins in.
LEMMA LoopScope ==
    ASSUME NEW p \in Seq(Instrs), NEW n, NEW e, LoopShape(p, n, e)
    PROVE  SameScope(p, n, e)
  <1> DEFINE D == Depth(p)
  <1>1. /\ D \in [0..Len(p) -> Int]
        /\ D[e - 2] = D[n] /\ D[e - 1] = D[n] /\ D[e] = D[n]
        /\ \A k \in (n + 1)..(e - 3) : D[k] > D[n]
    BY LoopDepths
  <1>2. n \in 1..Len(p) /\ e \in (n + 4)..Len(p) /\ Len(p) \in Nat
    BY DEF LoopShape
  <1> HIDE DEF D
  <1>3. ASSUME NEW k \in (n..e) \cup (e..n) PROVE D[n] <= D[k]
    <2>1. k \in {n, e - 2, e - 1, e} \cup ((n + 1)..(e - 3)) /\ k \in 0..Len(p) /\ n \in 0..Len(p)
      BY <1>2
    <2>2. D[k] \in Int /\ D[n] \in Int
      BY <1>1, <2>1
    <2>3. CASE k \in (n + 1)..(e - 3)
      BY <1>1, <2>2, <2>3
    <2>4. CASE k \in {n, e - 2, e - 1, e}
      <3>1. D[k] = D[n]
        BY <1>1, <2>4
      <3> QED
        BY <2>2, <3>1
    <2> QED
      BY <2>1, <2>3, <2>4
  <1> QED
    BY <1>1, <1>3 DEF SameScope, D

\* What is outside the loop is kept.
LEMMA Kept ==
    ASSUME NEW p \in Seq(Instrs), NEW n, NEW e, LoopShape(p, n, e),
           NEW s \in 1..Len(p), s < n \/ s >= e
    PROVE  LET m == IF s < n THEN s ELSE s - ((e - n) - 2)
           IN  /\ m \in 1..Len(Remains(p, n, e)) /\ (m < n \/ m >= n + 2)
               /\ Place(m, n, e) = s /\ Remains(p, n, e)[m] = p[s]
  <1> DEFINE m == IF s < n THEN s ELSE s - ((e - n) - 2)
             q == Remains(p, n, e)
  <1>1. n \in 1..Len(p) /\ e \in (n + 4)..Len(p) /\ Len(p) \in Nat
    BY DEF LoopShape
  <1>2. Len(q) = Len(p) - ((e - n) - 2) /\ \A k \in 1..Len(q) : k # n + 1 => q[k] = p[Place(k, n, e)]
    BY RemainsFacts
  <1> HIDE DEF q
  <1>3. m \in 1..Len(q) /\ (m < n \/ m >= n + 2)
    BY SMTT(40), <1>1, <1>2
  <1>4. Place(m, n, e) = s
    BY <1>1 DEF Place
  <1>5. q[m] = p[Place(m, n, e)]
    <2> HIDE DEF m
    <2> QED
      BY <1>1, <1>2, <1>3
  <1> QED
    BY <1>3, <1>4, <1>5 DEF q

LEMMA Stayed ==
    ASSUME NEW p \in Seq(Instrs), NEW n, NEW e, LoopShape(p, n, e),
           NEW m \in 1..Len(Remains(p, n, e)),
           Remains(p, n, e)[m].op \notin {"pushscope", "popscope"} \/ m \notin {n, n + 1}
    PROVE  /\ m < n \/ m >= n + 2
           /\ Place(m, n, e) \in 1..Len(p) /\ (Place(m, n, e) < n \/ Place(m, n, e) >= e)
           /\ Remains(p, n, e)[m] = p[Place(m, n, e)]
  <1> DEFINE q == Remains(p, n, e)
  <1>1. /\ n \in 1..Len(p) /\ e \in (n + 4)..Len(p) /\ Len(p) \in Nat
        /\ p[n + 1].op = "pushscope" /\ p[e - 2].op = "popscope"
    BY DEF LoopShape
  <1>2. /\ Len(q) = Len(p) - ((e - n) - 2) /\ \A k \in 1..Len(q) : k # n + 1 => q[k] = p[Place(k, n, e)]
        /\ q[n + 1] = p[e - 2] /\ n + 2 <= Len(q)
    BY RemainsFacts
  <1>3. m \in 1..Len(q) /\ (q[m].op \notin {"pushscope", "popscope"} \/ m \notin {n, n + 1})
    OBVIOUS
  <1> HIDE DEF q
  <1>4. q[n] = p[n + 1]
    BY <1>1, <1>2 DEF Place
  <1>5. m # n /\ m # n + 1
    BY <1>1, <1>2, <1>3, <1>4
  <1>6. m < n \/ m >= n + 2
    BY <1>1, <1>3, <1>5
  <1>7. Place(m, n, e) \in 1..Len(p) /\ (Place(m, n, e) < n \/ Place(m, n, e) >= e)
    BY <1>1, <1>2, <1>3, <1>6 DEF Place
  <1> QED
    BY <1>2, <1>3, <1>5, <1>6, <1>7 DEF q

\* A label in the scope of a place outside the loop is outside, and kept.
LEMMA LabelOutside ==
    ASSUME NEW p \in Seq(Instrs), NEW n, NEW e, LoopShape(p, n, e),
           NEW s \in 1..Len(p), s < n \/ s >= e,
           NEW k \in 1..Len(p), IsLabel(p[k]), SameScope(p, s, k)
    PROVE  k < n \/ k >= e
  <1>1. /\ n \in 1..Len(p) /\ e \in (n + 4)..Len(p) /\ Len(p) \in Nat
        /\ p[n].op = "jmpcond" /\ p[e - 2].op = "popscope" /\ p[e - 1].op = "jmp"
    BY DEF LoopShape
  <1>2. k # n /\ k # e - 2 /\ k # e - 1
    BY <1>1 DEF IsLabel
  <1>3. ASSUME k \in (n + 1)..(e - 3) PROVE FALSE
    <2>1. SameScope(p, k, s) /\ s \in 0..Len(p)
      BY SMTT(40), <1>1, SameScopeBack
    <2>2. s \in (n + 1)..(e - 3)
      BY <1>3, <2>1, Inside
    <2> QED
      BY <1>1, <2>2
  <1> QED
    BY <1>1, <1>2, <1>3

LEMMA RemainsResolved ==
    ASSUME NEW p \in Seq(Instrs), NEW n, NEW e, LoopShape(p, n, e), Resolved(p)
    PROVE  Resolved(Remains(p, n, e))
  <1> DEFINE q == Remains(p, n, e)
  <1> SUFFICES ASSUME NEW m \in 1..Len(q), IsJump(q[m])
               PROVE  \E k \in 1..Len(q) : q[k] = Label(q[m].dst) /\ SameScope(q, m, k)
    BY DEF Resolved
  <1> DEFINE s == Place(m, n, e)
  <1>1. s \in 1..Len(p) /\ (s < n \/ s >= e) /\ q[m] = p[s]
    <2>1. q[m].op \notin {"pushscope", "popscope"}
      BY DEF IsJump
    <2> QED
      BY <2>1, Stayed
  <1>2. PICK k \in 1..Len(p) : p[k] = Label(p[s].dst) /\ SameScope(p, s, k)
    <2> HIDE DEF s
    <2> QED
      BY <1>1 DEF Resolved
  <1>3. k < n \/ k >= e
    <2>1. IsLabel(p[k])
      BY <1>2 DEF IsLabel, Label
    <2> HIDE DEF s
    <2> QED
      BY <1>1, <1>2, <2>1, LabelOutside
  <1> DEFINE j == IF k < n THEN k ELSE k - ((e - n) - 2)
  <1>4. j \in 1..Len(q) /\ Place(j, n, e) = k /\ q[j] = p[k]
    BY <1>3, Kept
  <1>5. SameScope(q, m, j)
    <2>1. j \in 0..Len(q) /\ m \in 0..Len(q) /\ SameScope(p, Place(m, n, e), Place(j, n, e))
      BY <1>2, <1>4
    <2> HIDE DEF j
    <2> QED
      BY <2>1, RemainsScope
  <1>6. q[j] = Label(q[m].dst)
    BY <1>1, <1>2, <1>4
  <1> QED
    BY <1>4, <1>5, <1>6

LEMMA RemainsStructured ==
    ASSUME NEW p \in Seq(Instrs), NEW n, NEW e, LoopShape(p, n, e), Structured(p)
    PROVE  Structured(Remains(p, n, e))
  <1> DEFINE q == Remains(p, n, e)
             g == (e - n) - 2
             r(s) == IF s < n THEN s ELSE s - g
  <1> SUFFICES ASSUME NEW m \in 1..Len(q), q[m].op = "jmpcond"
               PROVE  \E k : LoopShape(q, m, k)
    BY StructuredLoops
  <1> DEFINE s == Place(m, n, e)
  <1>1. s \in 1..Len(p) /\ (s < n \/ s >= e) /\ q[m] = p[s]
    BY Stayed
  <1>2. m = r(s)
    <2>1. m < n \/ m >= n + 2
      BY Stayed
    <2>2. m \in Nat /\ n \in Nat /\ e \in Int /\ n + 4 <= e
      BY DEF LoopShape
    <2> HIDE DEF q
    <2>3. CASE m < n
      BY <2>2, <2>3 DEF Place
    <2>4. CASE m >= n + 2
      <3>1. s = m + g /\ s >= n /\ m \in Int /\ g \in Int
        BY <2>2, <2>4 DEF Place
      <3> QED
        BY <2>2, <3>1
    <2> QED
      BY <2>1, <2>3, <2>4
  <1> HIDE DEF s
  <1>3. PICK k : LoopShape(p, s, k)
    BY <1>1, StructuredLoops
  <1>4. /\ k \in (s + 4)..Len(p) /\ p[k] = Label(p[s].dst) /\ p[k - 1].op = "jmp"
        /\ p[k - 2].op = "popscope" /\ p[s + 1].op = "pushscope" /\ SameScope(p, s + 1, k - 3)
    BY <1>3 DEF LoopShape
  <1>5. /\ n \in 1..Len(p) /\ e \in (n + 4)..Len(p) /\ Len(p) \in Nat
        /\ p[n].op = "jmpcond" /\ p[e].op = "label"
    BY DEF LoopShape, Label
  <1>6. k < n \/ k >= e
    <2>1. SameScope(p, s, k)
      BY <1>3, LoopScope
    <2>2. IsLabel(p[k])
      BY <1>4 DEF IsLabel, Label
    <2>3. k \in 1..Len(p)
      BY <1>1, <1>4, <1>5
    <2> QED
      BY <1>1, <2>1, <2>2, <2>3, LabelOutside
  <1>7. s + 1 < n \/ s >= e
    <2>1. s + 1 # n
      BY <1>4, <1>5
    <2> QED
      BY <1>1, <1>5, <2>1
  <1>8. k < n \/ k - 3 >= e
    <2>1. k # e + 1 /\ k # e + 2
      <3>1. (e + 1) - 1 = e /\ (e + 2) - 2 = e
        BY <1>5
      <3>2. p[k - 1].op # "label" /\ p[k - 2].op # "label"
        BY <1>4
      <3> QED
        BY <1>5, <3>1, <3>2
    <2>2. ASSUME k = e PROVE s >= e
      <3>1. s + 1 \in 0..Len(p) /\ e - 3 \in 0..Len(p) /\ e - 3 \in (n + 1)..(e - 3)
        BY SMTT(40), <1>1, <1>4, <1>5
      <3>2. SameScope(p, e - 3, s + 1)
        BY <1>4, <2>2, <3>1, SameScopeBack
      <3>3. s + 1 \in (n + 1)..(e - 3)
        BY <3>1, <3>2, Inside
      <3> QED
        BY <1>1, <1>5, <1>7, <3>3
    <2> QED
      BY <1>1, <1>4, <1>5, <1>6, <2>1, <2>2
  <1> DEFINE j == r(k)
  <1>9. \A x \in 1..Len(p) : x < n \/ x >= e => /\ r(x) \in 1..Len(q) /\ Place(r(x), n, e) = x
                                                /\ q[r(x)] = p[x]
    BY Kept
  <1>10. /\ {s, s + 1, k - 3, k - 2, k - 1, k} \subseteq 1..Len(p)
         /\ \A x \in {s, s + 1, k - 3, k - 2, k - 1, k} : x < n \/ x >= e
    BY SMTT(40), <1>1, <1>4, <1>5, <1>7, <1>8
  <1>11. /\ r(s + 1) = m + 1 /\ r(k - 3) = j - 3 /\ r(k - 2) = j - 2 /\ r(k - 1) = j - 1
         /\ j >= m + 4
    BY <1>1, <1>2, <1>4, <1>5, <1>7, <1>8
  <1>12. /\ j \in 1..Len(q) /\ q[j] = p[k] /\ q[j - 1] = p[k - 1] /\ q[j - 2] = p[k - 2]
         /\ q[m + 1] = p[s + 1] /\ m + 1 \in 1..Len(q) /\ j - 3 \in 1..Len(q)
         /\ Place(m + 1, n, e) = s + 1 /\ Place(j - 3, n, e) = k - 3
    <2> HIDE DEF r, q
    <2>1. /\ q[r(k)] = p[k] /\ q[r(k - 1)] = p[k - 1] /\ q[r(k - 2)] = p[k - 2] /\ q[r(s + 1)] = p[s + 1]
          /\ r(k) \in 1..Len(q) /\ r(s + 1) \in 1..Len(q) /\ r(k - 3) \in 1..Len(q)
          /\ Place(r(s + 1), n, e) = s + 1 /\ Place(r(k - 3), n, e) = k - 3
      BY <1>9, <1>10
    <2> QED
      BY <1>11, <2>1
  <1>13. SameScope(q, m + 1, j - 3)
    <2>1. m + 1 \in 0..Len(q) /\ j - 3 \in 0..Len(q) /\ SameScope(p, Place(m + 1, n, e), Place(j - 3, n, e))
      BY SMTT(40), <1>4, <1>12
    <2> HIDE DEF j
    <2> QED
      BY <2>1, RemainsScope
  <1>14. j \in (m + 4)..Len(q)
    <2> HIDE DEF j
    <2> QED
      BY <1>11, <1>12
  <1> HIDE DEF j, q
  <1>15. LoopShape(q, m, j)
    BY <1>1, <1>4, <1>12, <1>13, <1>14 DEF LoopShape, q
  <1> QED
    BY <1>15 DEF q

LEMMA RemainsApart ==
    ASSUME NEW p \in Seq(Instrs), NEW n, NEW e, LoopShape(p, n, e), Apart(p)
    PROVE  Apart(Remains(p, n, e))
  <1> DEFINE q == Remains(p, n, e)
  <1> SUFFICES ASSUME NEW a \in 1..Len(q), NEW b \in 1..Len(q), IsLabel(q[a]), IsLabel(q[b]),
                      CopyOf(q[b].label, q[a].label)
               PROVE  a = b
    BY DEF Apart
  <1>1. \A m \in {a, b} : /\ m < n \/ m >= n + 2
                          /\ Place(m, n, e) \in 1..Len(p) /\ q[m] = p[Place(m, n, e)]
    <2>1. \A m \in {a, b} : q[m].op \notin {"pushscope", "popscope"} /\ m \in 1..Len(q)
      BY DEF IsLabel
    <2> QED
      BY <2>1, Stayed
  <1>2. Place(a, n, e) = Place(b, n, e)
    BY <1>1 DEF Apart
  <1>3. n \in Nat /\ e \in Nat /\ a \in Nat /\ b \in Nat /\ e >= n + 4
    BY DEF LoopShape
  <1>4. (a < n \/ a >= n + 2) /\ (b < n \/ b >= n + 2)
    BY <1>1
  <1> HIDE DEF q
  <1> QED
    BY <1>2, <1>3, <1>4 DEF Place

-----------------------------------------------------------------------------
(* The body of the loop.                                                   *)

Body(p, n, e) == SubSeq(p, n + 2, e - 3)

LEMMA BodyFacts ==
    ASSUME NEW p \in Seq(Instrs), NEW n, NEW e, LoopShape(p, n, e)
    PROVE  LET b == Body(p, n, e)
           IN  /\ b \in Seq(Instrs) /\ Len(b) = (e - n) - 4
               /\ \A k \in 1..Len(b) : b[k] = p[(n + 1) + k]
               /\ SameTurns(p, b, n + 1, 0, Len(b))
  <1> DEFINE b == Body(p, n, e)
  <1>1. n \in 1..Len(p) /\ e \in (n + 4)..Len(p) /\ Len(p) \in Nat
    BY DEF LoopShape
  <1>2. b \in Seq(Instrs) /\ Len(b) = (e - n) - 4
    BY <1>1 DEF Body
  <1>3. \A k \in 1..Len(b) : b[k] = p[((n + 2) + k) - 1]
    BY <1>1 DEF Body
  <1> HIDE DEF b
  <1>4. ASSUME NEW k \in 1..Len(b) PROVE b[k] = p[(n + 1) + k] /\ b[0 + k] = b[k]
    <2>1. ((n + 2) + k) - 1 = (n + 1) + k /\ 0 + k = k
      BY <1>1
    <2> QED
      BY <1>3, <2>1
  <1>5. SameTurns(p, b, n + 1, 0, Len(b))
    BY <1>1, <1>2, <1>4 DEF SameTurns
  <1> QED
    BY <1>2, <1>4, <1>5 DEF b

LEMMA BodyScope ==
    ASSUME NEW p \in Seq(Instrs), NEW n, NEW e, LoopShape(p, n, e),
           NEW i \in 0..((e - n) - 4), NEW j \in 0..((e - n) - 4), SameScope(p, (n + 1) + i, (n + 1) + j)
    PROVE  SameScope(Body(p, n, e), i, j)
  <1> DEFINE b == Body(p, n, e)
  <1>1. b \in Seq(Instrs) /\ Len(b) = (e - n) - 4 /\ SameTurns(p, b, n + 1, 0, Len(b))
    BY BodyFacts
  <1>2. i \in 0..Len(b) /\ j \in 0..Len(b)
    BY <1>1
  <1> HIDE DEF b
  <1>3. SameScope(b, 0 + i, 0 + j)
    BY <1>1, <1>2, SegmentScope
  <1>4. 0 + i = i /\ 0 + j = j
    BY <1>2
  <1> QED
    BY <1>3, <1>4 DEF b

LEMMA BodyBalanced ==
    ASSUME NEW p \in Seq(Instrs), NEW n, NEW e, LoopShape(p, n, e)
    PROVE  SameScope(Body(p, n, e), 0, (e - n) - 4)
  <1>1. n \in 1..Len(p) /\ e \in (n + 4)..Len(p) /\ Len(p) \in Nat /\ SameScope(p, n + 1, e - 3)
    BY DEF LoopShape
  <1>2. (n + 1) + 0 = n + 1 /\ (n + 1) + ((e - n) - 4) = e - 3
    BY <1>1
  <1>3. SameScope(p, (n + 1) + 0, (n + 1) + ((e - n) - 4))
    BY <1>1, <1>2
  <1>4. 0 \in 0..((e - n) - 4) /\ (e - n) - 4 \in 0..((e - n) - 4)
    BY <1>1
  <1> QED
    BY <1>3, <1>4, BodyScope

LEMMA BodyResolved ==
    ASSUME NEW p \in Seq(Instrs), NEW n, NEW e, LoopShape(p, n, e), Resolved(p)
    PROVE  Resolved(Body(p, n, e))
  <1> DEFINE b == Body(p, n, e)
  <1> SUFFICES ASSUME NEW m \in 1..Len(b), IsJump(b[m])
               PROVE  \E k \in 1..Len(b) : b[k] = Label(b[m].dst) /\ SameScope(b, m, k)
    BY DEF Resolved
  <1>1. /\ n \in 1..Len(p) /\ e \in (n + 4)..Len(p) /\ Len(p) \in Nat
        /\ p[n + 1].op = "pushscope"
    BY DEF LoopShape
  <1>2. Len(b) = (e - n) - 4 /\ \A k \in 1..Len(b) : b[k] = p[(n + 1) + k]
    BY BodyFacts
  <1>3. m \in 1..((e - n) - 4) /\ b[m] = p[(n + 1) + m] /\ IsJump(b[m])
    BY <1>2
  <1> HIDE DEF b
  <1> DEFINE s == (n + 1) + m
  <1>4. s \in 1..Len(p) /\ s \in (n + 1)..(e - 3)
    BY <1>1, <1>3
  <1>5. PICK k \in 1..Len(p) : p[k] = Label(p[s].dst) /\ SameScope(p, s, k)
    BY <1>3, <1>4 DEF Resolved
  <1>6. k \in (n + 1)..(e - 3)
    <2>1. k \in 0..Len(p)
      OBVIOUS
    <2> HIDE DEF s
    <2> QED
      BY <1>4, <1>5, <2>1, Inside
  <1>7. k # n + 1
    BY <1>1, <1>5 DEF Label
  <1> DEFINE j == k - (n + 1)
  <1>8. j \in 1..((e - n) - 4) /\ k = (n + 1) + j
    BY <1>1, <1>6, <1>7
  <1> HIDE DEF j
  <1>9. SameScope(b, m, j)
    <2>1. SameScope(p, (n + 1) + m, (n + 1) + j) /\ j \in 0..((e - n) - 4) /\ m \in 0..((e - n) - 4)
      BY <1>3, <1>5, <1>8
    <2> QED
      BY <2>1, BodyScope DEF b
  <1>10. b[j] = Label(b[m].dst)
    BY <1>2, <1>3, <1>5, <1>8
  <1> QED
    BY <1>2, <1>8, <1>9, <1>10 DEF b

LEMMA BodyStructured ==
    ASSUME NEW p \in Seq(Instrs), NEW n, NEW e, LoopShape(p, n, e), Structured(p)
    PROVE  Structured(Body(p, n, e))
  <1> DEFINE b == Body(p, n, e)
  <1> SUFFICES ASSUME NEW m \in 1..Len(b), b[m].op = "jmpcond"
               PROVE  \E k : LoopShape(b, m, k)
    BY StructuredLoops
  <1>1. n \in 1..Len(p) /\ e \in (n + 4)..Len(p) /\ Len(p) \in Nat
    BY DEF LoopShape
  <1>2. Len(b) = (e - n) - 4 /\ \A k \in 1..Len(b) : b[k] = p[(n + 1) + k]
    BY BodyFacts
  <1>3. m \in 1..((e - n) - 4) /\ b[m] = p[(n + 1) + m] /\ b[m].op = "jmpcond"
    BY <1>2
  <1> HIDE DEF b
  <1> DEFINE s == (n + 1) + m
  <1>4. s \in 1..Len(p) /\ s \in (n + 1)..(e - 3)
    BY <1>1, <1>3
  <1>5. PICK k : LoopShape(p, s, k)
    BY <1>3, <1>4, StructuredLoops
  <1>6. /\ k \in (s + 4)..Len(p) /\ p[k] = Label(p[s].dst) /\ p[k - 1].op = "jmp"
        /\ p[k - 2].op = "popscope" /\ p[s + 1].op = "pushscope" /\ SameScope(p, s + 1, k - 3)
    BY <1>5 DEF LoopShape
  <1>7. k \in (n + 1)..(e - 3)
    <2>1. SameScope(p, s, k) /\ k \in 0..Len(p)
      BY <1>1, <1>4, <1>5, <1>6, LoopScope
    <2> HIDE DEF s
    <2> QED
      BY <1>4, <2>1, Inside
  <1> DEFINE j == k - (n + 1)
  <1>8. j \in (m + 4)..((e - n) - 4) /\ k = (n + 1) + j
    BY <1>1, <1>3, <1>6, <1>7
  <1> HIDE DEF j
  <1>9. SameScope(b, m + 1, j - 3)
    <2>1. s + 1 = (n + 1) + (m + 1) /\ k - 3 = (n + 1) + (j - 3)
      BY <1>1, <1>3, <1>8
    <2>2. m + 1 \in 0..((e - n) - 4) /\ j - 3 \in 0..((e - n) - 4)
      BY <1>1, <1>3, <1>8
    <2>3. SameScope(p, (n + 1) + (m + 1), (n + 1) + (j - 3))
      BY <1>6, <2>1
    <2> QED
      BY <2>2, <2>3, BodyScope DEF b
  <1>10. \A x \in 1..((e - n) - 4) : b[x] = p[(n + 1) + x]
    BY <1>2
  <1>11. /\ k = (n + 1) + j /\ k - 1 = (n + 1) + (j - 1) /\ k - 2 = (n + 1) + (j - 2)
         /\ s + 1 = (n + 1) + (m + 1)
         /\ {j, j - 1, j - 2, m, m + 1} \subseteq 1..((e - n) - 4)
    BY <1>1, <1>3, <1>8
  <1> HIDE DEF s
  <1>12. b[j] = p[k] /\ b[j - 1] = p[k - 1] /\ b[j - 2] = p[k - 2] /\ b[m + 1] = p[s + 1] /\ b[m] = p[s]
    <2>1. /\ b[j] = p[(n + 1) + j] /\ b[j - 1] = p[(n + 1) + (j - 1)]
          /\ b[j - 2] = p[(n + 1) + (j - 2)] /\ b[m + 1] = p[(n + 1) + (m + 1)]
      BY <1>10, <1>11
    <2>2. /\ p[k] = p[(n + 1) + j] /\ p[k - 1] = p[(n + 1) + (j - 1)]
          /\ p[k - 2] = p[(n + 1) + (j - 2)] /\ p[s + 1] = p[(n + 1) + (m + 1)]
      BY <1>11
    <2>3. b[m] = p[s]
      BY <1>3 DEF s
    <2> QED
      BY <2>1, <2>2, <2>3
  <1>13. LoopShape(b, m, j)
    BY <1>2, <1>3, <1>6, <1>8, <1>9, <1>12 DEF LoopShape
  <1> QED
    BY <1>13 DEF b

LEMMA BodyIsApart ==
    ASSUME NEW p \in Seq(Instrs), NEW n, NEW e, LoopShape(p, n, e), Apart(p)
    PROVE  Apart(Body(p, n, e))
  <1> DEFINE b == Body(p, n, e)
  <1>1. n \in 1..Len(p) /\ e \in (n + 4)..Len(p) /\ Len(p) \in Nat
    BY DEF LoopShape
  <1>2. Len(b) = (e - n) - 4 /\ \A k \in 1..Len(b) : b[k] = p[(n + 1) + k]
    BY BodyFacts
  <1> HIDE DEF b
  <1>3. SUFFICES ASSUME NEW x \in 1..Len(b), NEW y \in 1..Len(b), IsLabel(b[x]), IsLabel(b[y]),
                        CopyOf(b[y].label, b[x].label)
                 PROVE  x = y
    BY DEF Apart, b
  <1>4. (n + 1) + x \in 1..Len(p) /\ (n + 1) + y \in 1..Len(p)
    BY <1>1, <1>2
  <1>5. (n + 1) + x = (n + 1) + y
    BY <1>2, <1>3, <1>4 DEF Apart
  <1> QED
    BY <1>1, <1>2, <1>5

LEMMA BodySound ==
    ASSUME NEW p, Sound(p), NEW n, NEW e, LoopShape(p, n, e)
    PROVE  LET b == Body(p, n, e) IN Sound(b) /\ SameScope(b, 0, Len(b))
  <1>1. p \in Seq(Instrs) /\ Resolved(p) /\ Structured(p) /\ Apart(p)
    BY DEF Sound
  <1>2. Body(p, n, e) \in Seq(Instrs) /\ Len(Body(p, n, e)) = (e - n) - 4
    BY <1>1, BodyFacts
  <1>3. SameScope(Body(p, n, e), 0, (e - n) - 4)
    BY <1>1, BodyBalanced
  <1> QED
    BY <1>1, <1>2, <1>3, BodyResolved, BodyStructured, BodyIsApart DEF Sound

LEMMA RemainsSound ==
    ASSUME NEW p, Sound(p), NEW n, NEW e, LoopShape(p, n, e)
    PROVE  Sound(Remains(p, n, e))
  <1>1. p \in Seq(Instrs) /\ Resolved(p) /\ Structured(p) /\ Apart(p)
    BY DEF Sound
  <1> QED
    BY <1>1, RemainsFacts, RemainsResolved, RemainsStructured, RemainsApart DEF Sound

-----------------------------------------------------------------------------
(* The steps.                                                              *)

LEMMA EndFacts ==
    ASSUME Sound(code), NEW n \in 1..Len(code), code[n].op = "jmpcond"
    PROVE  LoopShape(code, n, EndOfLoop(n))
  <1>1. code \in Seq(Instrs) /\ Structured(code) /\ Apart(code)
    BY DEF Sound
  <1>2. PICK e : LoopShape(code, n, e)
    BY <1>1, StructuredLoops
  <1>3. e \in (n + 4)..Len(code) /\ code[e] = Label(code[n].dst) /\ Len(code) \in Nat
    BY <1>1, <1>2 DEF LoopShape
  <1> DEFINE ends == {k \in n..Len(code) : code[k] = Label(code[n].dst)}
  <1>4. e \in ends
    BY <1>3
  <1>5. ASSUME NEW k \in ends PROVE k = e
    <2>1. k \in 1..Len(code) /\ e \in 1..Len(code) /\ code[k] = code[e] /\ IsLabel(code[e])
      BY <1>3 DEF IsLabel, Label
    <2>2. code[e].label \in Labels
      BY <1>1, <2>1, InstrFacts
    <2>3. CopyOf(code[e].label, code[k].label)
      BY <2>1, <2>2, CopyOfFacts
    <2> QED
      BY <1>1, <2>1, <2>3 DEF Apart
  <1>6. EndOfLoop(n) = IF ends = {} THEN Len(code) + 1 ELSE CHOOSE k \in ends : \A j \in ends : k <= j
    BY DEF EndOfLoop
  <1> HIDE DEF ends
  <1>7. \A j \in ends : e <= j
    BY <1>3, <1>5
  <1>8. EndOfLoop(n) = e
    BY <1>4, <1>5, <1>6, <1>7
  <1> QED
    BY <1>2, <1>8

\* When a loop is begun, none of its labels has a copy in the list.
LEMMA NothingCopied ==
    ASSUME NEW p \in Seq(Instrs), NEW n, NEW e, LoopShape(p, n, e), Apart(p),
           NEW m \in 1..Len(Remains(p, n, e)), NEW k \in 1..Len(Body(p, n, e)),
           IsLabel(Remains(p, n, e)[m]), IsLabel(Body(p, n, e)[k])
    PROVE  /\ ~CopyOf(Body(p, n, e)[k].label, Remains(p, n, e)[m].label)
           /\ ~CopyOf(Remains(p, n, e)[m].label, Body(p, n, e)[k].label)
  <1> DEFINE b == Body(p, n, e)
             q == Remains(p, n, e)
             x == Place(m, n, e)
             y == (n + 1) + k
  <1>1. n \in 1..Len(p) /\ e \in (n + 4)..Len(p) /\ Len(p) \in Nat
    BY DEF LoopShape
  <1>2. Len(b) = (e - n) - 4 /\ b[k] = p[y]
    BY BodyFacts
  <1>3. x \in 1..Len(p) /\ (x < n \/ x >= e) /\ q[m] = p[x]
    <2>1. q[m].op \notin {"pushscope", "popscope"}
      BY DEF IsLabel
    <2> QED
      BY <2>1, Stayed
  <1>4. y \in 1..Len(p) /\ y \in (n + 2)..(e - 3)
    <2>1. k \in 1..((e - n) - 4)
      BY <1>2
    <2> QED
      BY <1>1, <2>1
  <1>5. IsLabel(q[m]) /\ IsLabel(b[k])
    OBVIOUS
  <1> HIDE DEF b, q, x, y
  <1>6. x # y
    BY <1>1, <1>3, <1>4
  <1>7. ~CopyOf(p[y].label, p[x].label) /\ ~CopyOf(p[x].label, p[y].label)
    BY <1>2, <1>3, <1>4, <1>5, <1>6 DEF Apart
  <1> QED
    BY <1>2, <1>3, <1>7 DEF b, q

LEMMA BeginUnrollKeeps == UnrollInv /\ BeginUnroll => UnrollInv'
  <1> SUFFICES ASSUME UnrollInv, BeginUnroll PROVE UnrollInv'
    OBVIOUS
  <1> DEFINE e == EndOfLoop(node)
             v == LoopVariable(code[node].cond)
             q == Remains(code, node, e)
             b == Body(code, node, e)
  <1>1. node \in 1..Len(code) /\ Sound(code) /\ stage \in {"walk", "allocate", "run", "done"} /\ code \in Seq(Instrs)
    BY DEF UnrollInv, BeginUnroll, Sound
  <1>2. /\ code[node].op = "jmpcond" /\ InitialisesLoopVariable(v, node)
        /\ LoopVariableIncrements(v, node) /\ LvIncrement(v, node) # 0
    BY DEF BeginUnroll, Unrollable
  <1>3. LoopShape(code, node, e)
    BY <1>1, <1>2, EndFacts
  <1>4. LvStart(v, node) \in Int
    BY <1>1, <1>2, StartIsInt
  <1>5. LvIncrement(v, node) \in Int
    <2>1. e \in Int /\ e <= Len(code) + 1
      BY <1>1, <1>3 DEF LoopShape
    <2> QED
      BY <1>1, <1>2, <2>1, IncrementIsInt
  <1>6. /\ code' = q /\ node' = node /\ stage' = stage
        /\ loop' = [open |-> TRUE, last |-> node, body |-> b, i |-> LvStart(v, node),
                    end |-> LvEnd(code[node].cond), by |-> LvIncrement(v, node)]
    BY DEF BeginUnroll, LoopAt, Remains, Body
  <1>7. Sound(q) /\ Sound(b) /\ SameScope(b, 0, Len(b))
    BY <1>1, <1>3, RemainsSound, BodySound
  <1>8. /\ Len(q) = Len(code) - ((e - node) - 2) /\ node + 2 <= Len(q)
        /\ \A m \in 1..Len(q) : m # node + 1 => q[m] = code[Place(m, node, e)]
        /\ q[node + 1] = code[e - 2]
    BY <1>1, <1>3, RemainsFacts
  <1>9. /\ e \in (node + 4)..Len(code) /\ Len(code) \in Nat /\ node \in Nat
        /\ code[node + 1].op = "pushscope" /\ code[e - 2].op = "popscope" /\ IsLabel(code[e])
    BY <1>1, <1>3 DEF LoopShape, IsLabel, Label
  <1>10. \A m \in 1..Len(q), k \in 1..Len(b) : IsLabel(q[m]) /\ IsLabel(b[k]) =>
            ~CopyOf(b[k].label, q[m].label) /\ ~CopyOf(q[m].label, b[k].label)
    <2>1. Apart(code)
      BY <1>1 DEF Sound
    <2> QED
      BY <1>1, <1>3, <2>1, NothingCopied
  <1>11. q[node].op = "pushscope" /\ IsLabel(q[node + 2]) /\ q[node + 1].op = "popscope"
    <2>1. Place(node, node, e) = node + 1 /\ Place(node + 2, node, e) = e
      BY <1>9 DEF Place
    <2>2. node \in 1..Len(q) /\ node + 2 \in 1..Len(q) /\ node # node + 1 /\ node + 2 # node + 1
      <3>1. node \in Nat /\ node >= 1 /\ node + 2 <= Len(q) /\ Len(q) \in Int
        BY <1>1, <1>8, <1>9
      <3> HIDE DEF q
      <3> QED
        BY <3>1
    <2> QED
      BY <1>8, <1>9, <2>1, <2>2
  <1> HIDE DEF q, b, e, v
  <1>12. BodyApart'
    BY <1>6, <1>10 DEF BodyApart
  <1>13. LoopInv'
    <2>1. loop'.last = node /\ loop'.body = b /\ loop'.i = LvStart(v, node) /\ loop'.by = LvIncrement(v, node)
      BY <1>6
    <2>2. (loop.open = TRUE /\ DOMAIN loop = LoopFields)'
      BY <1>6 DEF LoopFields
    <2>3. loop'.last \in node'..(Len(code') - 2)
      BY <1>6, <1>8, <1>9, <2>1
    <2> QED
      BY <1>2, <1>4, <1>5, <1>6, <1>7, <1>11, <1>12, <2>1, <2>2, <2>3 DEF LoopInv, Sound, SameScope
  <1>14. node' \in 1..(Len(code') + 1)
    BY <1>1, <1>6, <1>8, <1>9
  <1> QED
    BY <1>1, <1>6, <1>7, <1>13, <1>14 DEF UnrollInv, Sound

-----------------------------------------------------------------------------
(* A copy of the body is put in.                                           *)

LEMMA BodyCopyFacts ==
    ASSUME NEW b \in Seq(Instrs), Resolved(b), NEW lv \in Int
    PROVE  LET r == BodyCopy(b, lv)
           IN  /\ r \in Seq(Instrs) /\ Len(r) = Len(b)
               /\ \A j \in 1..Len(b) :
                      /\ r[j].op = b[j].op /\ Turn(r[j]) = Turn(b[j])
                      /\ IsLabel(b[j]) => r[j] = Label(CopiedLabel(b[j].label, lv))
                      /\ IsJump(b[j]) => r[j].dst = CopiedLabel(b[j].dst, lv)
  <1> DEFINE known == KnownLabels(b)
             r == BodyCopy(b, lv)
  <1>1. \A j \in 1..Len(b) : IsLabel(b[j]) => b[j].label \in known
    BY DEF KnownLabels
  <1>2. known \in SUBSET Labels
    <2>1. ASSUME NEW j \in 1..Len(b), IsLabel(b[j]) PROVE b[j].label \in Labels
      BY <2>1, InstrFacts
    <2> QED
      BY <2>1 DEF KnownLabels
  <1>3. ASSUME NEW j \in 1..Len(b), IsJump(b[j]) PROVE b[j].dst \in known
    <2>1. PICK k \in 1..Len(b) : b[k] = Label(b[j].dst)
      BY <1>3 DEF Resolved
    <2>2. IsLabel(b[k]) /\ b[k].label = b[j].dst
      BY <2>1 DEF Label, IsLabel
    <2> QED
      BY <1>1, <2>2
  <1>4. r = [j \in 1..Len(b) |-> Renamed(Copy(b[j]), known, lv)]
    BY DEF BodyCopy
  <1> HIDE DEF known, r
  <1>5. ASSUME NEW j \in 1..Len(b)
        PROVE  /\ r[j] \in Instrs /\ r[j].op = b[j].op /\ Turn(r[j]) = Turn(b[j])
               /\ IsLabel(b[j]) => r[j] = Label(CopiedLabel(b[j].label, lv))
               /\ IsJump(b[j]) => r[j].dst = CopiedLabel(b[j].dst, lv)
    <2>1. r[j] = Renamed(Copy(b[j]), known, lv)
      BY <1>4
    <2>2. b[j] \in Instrs /\ (IsLabel(b[j]) => b[j].label \in known)
      BY <1>1
    <2> DEFINE i == b[j]
    <2>3. i \in Instrs /\ (IsLabel(i) => i.label \in known) /\ r[j] = Renamed(Copy(i), known, lv)
      BY <2>1, <2>2
    <2>4. IsJump(i) => i.dst \in known
      BY <1>3
    <2> HIDE DEF i
    <2>5. /\ r[j] \in Instrs /\ r[j].op = i.op /\ Turn(r[j]) = Turn(i)
          /\ IsLabel(i) => r[j] = Label(CopiedLabel(i.label, lv))
          /\ IsJump(i) /\ i.dst \in known => r[j].dst = CopiedLabel(i.dst, lv)
      <3> DEFINE x == Renamed(Copy(i), known, lv)
      <3>1. /\ x \in Instrs /\ x.op = i.op /\ Turn(x) = Turn(i)
            /\ IsLabel(i) => x = Label(CopiedLabel(i.label, lv))
            /\ IsJump(i) /\ i.dst \in known => x.dst = CopiedLabel(i.dst, lv)
        <4>1. i \in Instrs /\ known \in SUBSET Labels /\ (IsLabel(i) => i.label \in known)
          BY <1>2, <2>3
        <4> QED
          BY <4>1, RenamedFacts
      <3> HIDE DEF x
      <3>2. r[j] = x
        BY <2>3 DEF x
      <3> QED
        BY <3>1, <3>2
    <2> QED
      BY <2>4, <2>5 DEF i
  <1>6. Len(b) \in Nat
    OBVIOUS
  <1>7. r \in Seq(Instrs) /\ Len(r) = Len(b)
    <2>1. \A j \in 1..Len(b) : r[j] \in Instrs
      BY <1>5
    <2> QED
      BY <1>4, <1>6, <2>1
  <1> QED
    BY <1>5, <1>7 DEF r

\* The list with r put in behind place c, and where its instructions are then.
Grown(p, c, r) == SubSeq(p, 1, c) \o r \o SubSeq(p, c + 1, Len(p))

Moved(m, c, L) == IF m <= c THEN m ELSE m + L

LEMMA GrownFacts ==
    ASSUME NEW p \in Seq(Instrs), NEW r \in Seq(Instrs), NEW c \in 1..Len(p)
    PROVE  LET q == Grown(p, c, r)
           IN  /\ q \in Seq(Instrs) /\ Len(q) = Len(p) + Len(r)
               /\ \A m \in 1..Len(p) : q[Moved(m, c, Len(r))] = p[m]
               /\ \A j \in 1..Len(r) : q[c + j] = r[j]
  <1> DEFINE K == Len(p)
             B == Len(r)
             a == SubSeq(p, 1, c)
             d == a \o r
             z == SubSeq(p, c + 1, K)
             q == Grown(p, c, r)
  <1>1. K \in Nat /\ B \in Nat /\ c \in 1..K
    OBVIOUS
  <1>2. a \in Seq(Instrs) /\ Len(a) = c /\ \A m \in 1..c : a[m] = p[m]
    OBVIOUS
  <1>3. z \in Seq(Instrs) /\ Len(z) = K - c /\ \A m \in 1..(K - c) : z[m] = p[((c + 1) + m) - 1]
    OBVIOUS
  <1>4. q = d \o z
    BY DEF Grown
  <1> HIDE DEF a, z, q
  <1>5. /\ d \in Seq(Instrs) /\ Len(d) = c + B
        /\ \A m \in 1..c : d[m] = a[m]
        /\ \A m \in 1..B : d[c + m] = r[m]
    <2>1. /\ a \o r \in Seq(Instrs) /\ Len(a \o r) = Len(a) + Len(r)
          /\ \A m \in 1..Len(a) : (a \o r)[m] = a[m]
          /\ \A m \in 1..Len(r) : (a \o r)[Len(a) + m] = r[m]
      <3>1. a \in Seq(Instrs)
        BY <1>2
      <3> QED
        BY <3>1, Joined
    <2> QED
      BY <1>2, <2>1
  <1> HIDE DEF d
  <1>6. /\ q \in Seq(Instrs) /\ Len(q) = (c + B) + (K - c)
        /\ \A m \in 1..(c + B) : q[m] = d[m]
        /\ \A m \in 1..(K - c) : q[(c + B) + m] = z[m]
    <2>1. /\ d \o z \in Seq(Instrs) /\ Len(d \o z) = Len(d) + Len(z)
          /\ \A m \in 1..Len(d) : (d \o z)[m] = d[m]
          /\ \A m \in 1..Len(z) : (d \o z)[Len(d) + m] = z[m]
      <3>1. d \in Seq(Instrs) /\ z \in Seq(Instrs)
        BY <1>3, <1>5
      <3> QED
        BY <3>1, Joined
    <2> QED
      BY <1>3, <1>4, <1>5, <2>1
  <1> HIDE DEF K, B
  <1>7. ASSUME NEW j \in 1..B PROVE q[c + j] = r[j]
    <2>1. c + j \in 1..(c + B)
      BY <1>1
    <2> QED
      BY <1>5, <1>6, <2>1
  <1>8. ASSUME NEW m \in 1..K PROVE q[Moved(m, c, B)] = p[m]
    <2>1. CASE m <= c
      <3>1. m \in 1..c /\ m \in 1..(c + B)
        BY <1>1, <2>1
      <3>2. q[m] = p[m]
        BY <1>2, <1>5, <1>6, <3>1
      <3> QED
        BY <2>1, <3>2 DEF Moved
    <2>2. CASE m > c
      <3> DEFINE x == m - c
      <3>1. x \in 1..(K - c) /\ m + B = (c + B) + x /\ ((c + 1) + x) - 1 = m
        BY <1>1, <2>2
      <3> HIDE DEF x
      <3>2. q[m + B] = p[m]
        <4>1. q[(c + B) + x] = z[x] /\ z[x] = p[((c + 1) + x) - 1]
          BY <1>3, <1>6, <3>1
        <4> QED
          BY <3>1, <4>1
      <3>3. Moved(m, c, B) = m + B
        BY <1>1, <2>2 DEF Moved
      <3> QED
        BY <3>2, <3>3
    <2> QED
      BY <1>1, <2>1, <2>2
  <1>9. Len(q) = K + B
    BY <1>1, <1>6
  <1> QED
    BY <1>6, <1>7, <1>8, <1>9 DEF q, K, B

\* r is like the body b of a loop, and c a place where copies of bodies go.
Insertion(p, c, b, r) ==
    /\ c \in 1..(Len(p) - 2) /\ p[c + 1].op = "popscope" /\ IsLabel(p[c + 2])
    /\ SameScope(b, 0, Len(b)) /\ Len(r) = Len(b)
    /\ \A j \in 1..Len(b) : r[j].op = b[j].op /\ Turn(r[j]) = Turn(b[j])

LEMMA GrownDepth ==
    ASSUME NEW p \in Seq(Instrs), NEW b \in Seq(Instrs), NEW r \in Seq(Instrs), NEW c,
           Insertion(p, c, b, r)
    PROVE  LET E == Depth(Grown(p, c, r))
           IN  /\ \A m \in 0..Len(p) : E[Moved(m, c, Len(b))] = Depth(p)[m]
               /\ \A j \in 0..Len(b) : E[c + j] = Depth(p)[c] + Depth(b)[j] /\ Depth(b)[j] >= 0
               /\ SameTurns(b, Grown(p, c, r), 0, c, Len(b))
  <1> DEFINE q == Grown(p, c, r)
             K == Len(p)
             B == Len(b)
             D == Depth(p)
             F == Depth(b)
             E == Depth(q)
  <1>1. /\ c \in 1..(K - 2) /\ K \in Nat /\ B \in Nat /\ Len(r) = B /\ c \in 1..K
        /\ \A j \in 1..B : Turn(r[j]) = Turn(b[j])
    BY DEF Insertion
  <1>2. /\ q \in Seq(Instrs) /\ Len(q) = K + B
        /\ \A m \in 1..K : q[Moved(m, c, B)] = p[m]
        /\ \A j \in 1..B : q[c + j] = r[j]
    <2>1. /\ q \in Seq(Instrs) /\ Len(q) = Len(p) + Len(r)
          /\ \A m \in 1..Len(p) : q[Moved(m, c, Len(r))] = p[m]
          /\ \A j \in 1..Len(r) : q[c + j] = r[j]
      BY <1>1, GrownFacts
    <2> HIDE DEF q
    <2> QED
      BY <1>1, <2>1
  <1>3. D \in [0..K -> Int] /\ D[0] = 0
    BY DepthFacts
  <1>4. F \in [0..B -> Int] /\ F[0] = 0
    BY DepthFacts
  <1>5. E \in [0..(K + B) -> Int] /\ E[0] = 0
    BY <1>2, DepthFacts
  <1>6. F[B] = F[0] /\ \A j \in 0..B : F[0] <= F[j]
    BY <1>1 DEF Insertion, SameScope
  <1> HIDE DEF q
  <1>7. SameTurns(p, q, 0, 0, c)
    <2>1. ASSUME NEW j \in 1..c PROVE Turn(q[0 + j]) = Turn(p[0 + j])
      <3>1. 0 + j = j /\ j \in 1..K /\ Moved(j, c, B) = j
        BY <1>1 DEF Moved
      <3> QED
        BY <1>2, <3>1
    <2> QED
      BY <1>1, <1>2, <2>1 DEF SameTurns
  <1>8. SameTurns(b, q, 0, c, B)
    <2>1. ASSUME NEW j \in 1..B PROVE Turn(q[c + j]) = Turn(b[0 + j])
      <3>1. 0 + j = j
        OBVIOUS
      <3> QED
        BY <1>1, <1>2, <3>1
    <2> QED
      BY <1>1, <1>2, <2>1 DEF SameTurns
  <1>9. SameTurns(p, q, c, c + B, K - c)
    <2>1. ASSUME NEW j \in 1..(K - c) PROVE Turn(q[(c + B) + j]) = Turn(p[c + j])
      <3>1. (c + j) + B = (c + B) + j /\ c + j \in 1..K /\ Moved(c + j, c, B) = (c + j) + B
        BY <1>1 DEF Moved
      <3>2. q[Moved(c + j, c, B)] = p[c + j]
        BY <1>2, <3>1
      <3> QED
        BY <3>1, <3>2
    <2> QED
      BY <1>1, <1>2, <2>1 DEF SameTurns
  <1>10. Parallel(D, E, 0, 0, c) /\ Parallel(F, E, 0, c, B) /\ Parallel(D, E, c, c + B, K - c)
    BY <1>2, <1>7, <1>8, <1>9, SegmentDepth
  <1> HIDE DEF D, E, F, K, B
  <1>11. ASSUME NEW m \in 0..c PROVE E[m] = D[m]
    <2>1. 0 + m = m /\ 0 + 0 = 0 /\ m \in 0..K /\ m \in 0..(K + B)
      BY <1>1
    <2>2. E[0 + m] - E[0] = D[0 + m] - D[0]
      BY <1>10 DEF Parallel
    <2>3. E[m] - 0 = D[m] - 0 /\ E[m] \in Int /\ D[m] \in Int
      BY <1>3, <1>5, <2>1, <2>2
    <2> QED
      BY <2>3
  <1>12. ASSUME NEW j \in 0..B PROVE E[c + j] = D[c] + F[j] /\ F[j] >= 0
    <2>1. 0 + j = j /\ c \in 0..c /\ c \in 0..K /\ c + j \in 0..(K + B)
      BY <1>1
    <2>2. E[c + j] - E[c] = F[0 + j] - F[0]
      BY <1>10 DEF Parallel
    <2>3. E[c] = D[c]
      BY <1>11, <2>1
    <2>4. E[c + j] - D[c] = F[j] - 0 /\ E[c + j] \in Int /\ D[c] \in Int /\ F[j] \in Int
      BY <1>3, <1>4, <1>5, <2>1, <2>2, <2>3
    <2>5. E[c + j] = D[c] + F[j]
      BY <2>4
    <2> QED
      BY <1>4, <1>6, <2>4, <2>5
  <1>13. ASSUME NEW m \in 0..K PROVE E[Moved(m, c, B)] = D[m]
    <2>1. CASE m <= c
      <3>1. m \in 0..c /\ Moved(m, c, B) = m
        BY <1>1, <2>1 DEF Moved
      <3> QED
        BY <1>11, <3>1
    <2>2. CASE m > c
      <3> DEFINE j == m - c
      <3>1. j \in 0..(K - c) /\ m = c + j /\ Moved(m, c, B) = (c + B) + j
        BY <1>1, <2>2 DEF Moved
      <3> HIDE DEF j
      <3>2. E[(c + B) + j] - E[c + B] = D[c + j] - D[c]
        BY <1>10, <3>1 DEF Parallel
      <3>3. E[c + B] = D[c] + F[B] /\ F[B] = 0
        <4>1. B \in 0..B
          BY <1>1
        <4> QED
          BY <1>4, <1>6, <1>12, <4>1
      <3>4. D[c] \in Int /\ D[c + j] \in Int /\ E[(c + B) + j] \in Int
        <4>1. c \in 0..K /\ c + j \in 0..K /\ (c + B) + j \in 0..(K + B)
          BY SMTT(40), <1>1, <3>1
        <4> QED
          BY <1>3, <1>5, <4>1
      <3>5. E[(c + B) + j] = D[c + j]
        <4>1. E[(c + B) + j] - D[c] = D[c + j] - D[c]
          BY <3>2, <3>3, <3>4
        <4> QED
          BY <3>4, <4>1
      <3> QED
        BY <3>1, <3>5
    <2> QED
      BY <1>1, <2>1, <2>2
  <1> QED
    BY <1>8, <1>12, <1>13 DEF q, D, E, F, K, B

\* Scopes that were the same still are: between any two places there is
\* nothing new but a copy that never closes more than it has opened.
LEMMA GrownScope ==
    ASSUME NEW p \in Seq(Instrs), NEW b \in Seq(Instrs), NEW r \in Seq(Instrs), NEW c,
           Insertion(p, c, b, r), NEW i \in 0..Len(p), NEW j \in 0..Len(p), SameScope(p, i, j)
    PROVE  SameScope(Grown(p, c, r), Moved(i, c, Len(b)), Moved(j, c, Len(b)))
  <1> DEFINE K == Len(p)
             B == Len(b)
             D == Depth(p)
             F == Depth(b)
             E == Depth(Grown(p, c, r))
             f(m) == Moved(m, c, B)
  <1>1. /\ \A m \in 0..K : E[f(m)] = D[m]
        /\ \A x \in 0..B : E[c + x] = D[c] + F[x] /\ F[x] >= 0
    BY GrownDepth
  <1>2. c \in 1..(K - 2) /\ K \in Nat /\ B \in Nat /\ i \in 0..K /\ j \in 0..K
    BY DEF Insertion
  <1>3. D[i] = D[j] /\ \A k \in (i..j) \cup (j..i) : D[i] <= D[k]
    BY DEF SameScope
  <1>4. D \in [0..K -> Int] /\ F \in [0..B -> Int]
    BY DepthFacts
  <1> HIDE DEF D, E, F, K, B
  <1>5. ASSUME NEW k \in (f(i)..f(j)) \cup (f(j)..f(i)) PROVE D[i] <= E[k]
    <2>0. f(i) \in Int /\ f(j) \in Int /\ k \in Int
      BY <1>2 DEF Moved
    <2>1. CASE k <= c
      <3>1. k \in (i..j) \cup (j..i) /\ f(k) = k /\ k \in 0..K
        BY <1>2, <2>0, <2>1 DEF Moved
      <3> QED
        BY <1>1, <1>3, <3>1
    <2>2. CASE k > c + B
      <3> DEFINE m == k - B
      <3>1. m \in (i..j) \cup (j..i) /\ f(m) = k /\ m \in 0..K
        BY <1>2, <2>0, <2>2 DEF Moved
      <3> HIDE DEF m, f
      <3> QED
        BY <1>1, <1>3, <3>1
    <2>3. CASE k > c /\ k <= c + B
      <3> DEFINE x == k - c
      <3>1. x \in 0..B /\ k = c + x /\ c \in (i..j) \cup (j..i) /\ c \in 0..K /\ i \in 0..K
        BY <1>2, <2>0, <2>3 DEF Moved
      <3> HIDE DEF x
      <3>2. E[k] = D[c] + F[x] /\ F[x] >= 0 /\ D[i] <= D[c] /\ D[c] \in Int /\ F[x] \in Int /\ D[i] \in Int
        BY <1>1, <1>3, <1>4, <3>1
      <3> QED
        BY <3>2
    <2> QED
      BY <1>2, <2>0, <2>1, <2>2, <2>3
  <1>6. E[f(i)] = D[i] /\ E[f(j)] = D[i]
    BY <1>1, <1>2, <1>3
  <1> HIDE DEF f
  <1>7. \A k \in (f(i)..f(j)) \cup (f(j)..f(i)) : E[f(i)] <= E[k]
    BY <1>5, <1>6
  <1> QED
    BY <1>6, <1>7 DEF SameScope, E, f, B

\* Where the instructions of the list that has grown come from.
LEMMA Origins ==
    ASSUME NEW p \in Seq(Instrs), NEW b \in Seq(Instrs), NEW r \in Seq(Instrs), NEW c,
           Insertion(p, c, b, r)
    PROVE  LET q == Grown(p, c, r)
           IN  /\ q \in Seq(Instrs) /\ Len(q) = Len(p) + Len(b)
               /\ \A m \in 1..Len(p) : /\ q[Moved(m, c, Len(b))] = p[m]
                                       /\ Moved(m, c, Len(b)) \in 1..Len(q)
               /\ \A j \in 1..Len(b) : q[c + j] = r[j] /\ c + j \in 1..Len(q)
               /\ \A x \in 1..Len(q) : \/ \E m \in 1..Len(p) : x = Moved(m, c, Len(b))
                                       \/ \E j \in 1..Len(b) : x = c + j
  <1> DEFINE q == Grown(p, c, r)
             K == Len(p)
             B == Len(b)
  <1>1. c \in 1..(K - 2) /\ K \in Nat /\ B \in Nat /\ Len(r) = B /\ c \in 1..K
    BY DEF Insertion
  <1>2. /\ q \in Seq(Instrs) /\ Len(q) = Len(p) + Len(r)
        /\ \A m \in 1..Len(p) : q[Moved(m, c, Len(r))] = p[m]
        /\ \A j \in 1..Len(r) : q[c + j] = r[j]
    BY <1>1, GrownFacts
  <1> HIDE DEF q
  <1>3. /\ q \in Seq(Instrs) /\ Len(q) = K + B
        /\ \A m \in 1..K : q[Moved(m, c, B)] = p[m]
        /\ \A j \in 1..B : q[c + j] = r[j]
    BY <1>1, <1>2
  <1> HIDE DEF K, B
  <1>4. \A m \in 1..K : Moved(m, c, B) \in 1..(K + B)
    BY <1>1 DEF Moved
  <1>5. \A j \in 1..B : c + j \in 1..(K + B)
    BY <1>1
  <1>6. ASSUME NEW x \in 1..(K + B)
        PROVE  (\E m \in 1..K : x = Moved(m, c, B)) \/ (\E j \in 1..B : x = c + j)
    <2>1. CASE x <= c
      <3>1. x \in 1..K /\ x = Moved(x, c, B)
        BY <1>1, <2>1 DEF Moved
      <3> QED
        BY <3>1
    <2>2. CASE x > c + B
      <3> DEFINE m == x - B
      <3>1. m \in 1..K /\ x = Moved(m, c, B)
        BY <1>1, <2>2 DEF Moved
      <3> HIDE DEF m
      <3> QED
        BY <3>1
    <2>3. CASE x > c /\ x <= c + B
      <3> DEFINE j == x - c
      <3>1. j \in 1..B /\ x = c + j
        BY <1>1, <2>3
      <3> HIDE DEF j
      <3> QED
        BY <3>1
    <2> QED
      BY <1>1, <2>1, <2>2, <2>3
  <1> QED
    BY <1>3, <1>4, <1>5, <1>6 DEF q, K, B

LEMMA OriginOf ==
    ASSUME NEW p \in Seq(Instrs), NEW b \in Seq(Instrs), NEW r \in Seq(Instrs), NEW c,
           Insertion(p, c, b, r), NEW x \in 1..Len(Grown(p, c, r))
    PROVE  (\E m \in 1..Len(p) : x = Moved(m, c, Len(b))) \/ (\E j \in 1..Len(b) : x = c + j)
  BY Origins

LEMMA CopyScope ==
    ASSUME NEW p \in Seq(Instrs), NEW b \in Seq(Instrs), NEW r \in Seq(Instrs), NEW c,
           Insertion(p, c, b, r), NEW i \in 0..Len(b), NEW j \in 0..Len(b), SameScope(b, i, j)
    PROVE  SameScope(Grown(p, c, r), c + i, c + j)
  <1> DEFINE q == Grown(p, c, r)
  <1>1. q \in Seq(Instrs)
    BY Origins
  <1>2. SameTurns(b, q, 0, c, Len(b))
    BY GrownDepth
  <1>3. SameScope(b, 0 + i, 0 + j)
    <2>1. 0 + i = i /\ 0 + j = j
      OBVIOUS
    <2> QED
      BY <2>1
  <1> HIDE DEF q
  <1>4. SameScope(q, c + i, c + j)
    BY <1>1, <1>2, <1>3, SegmentScope
  <1> QED
    BY <1>4 DEF q

\* r is the copy of b for lv.
Renaming(b, r, lv) ==
    \A j \in 1..Len(b) :
        /\ r[j].op = b[j].op
        /\ IsLabel(b[j]) => r[j] = Label(CopiedLabel(b[j].label, lv))
        /\ IsJump(b[j]) => r[j].dst = CopiedLabel(b[j].dst, lv)

LEMMA GrownResolved ==
    ASSUME NEW p \in Seq(Instrs), NEW b \in Seq(Instrs), NEW r \in Seq(Instrs), NEW c, NEW lv,
           Insertion(p, c, b, r), Renaming(b, r, lv), Resolved(p), Resolved(b)
    PROVE  Resolved(Grown(p, c, r))
  <1> DEFINE q == Grown(p, c, r)
             f(m) == Moved(m, c, Len(b))
  <1>1. /\ q \in Seq(Instrs) /\ Len(q) = Len(p) + Len(b)
        /\ \A m \in 1..Len(p) : q[f(m)] = p[m] /\ f(m) \in 1..Len(q)
        /\ \A j \in 1..Len(b) : q[c + j] = r[j] /\ c + j \in 1..Len(q)
        /\ \A x \in 1..Len(q) : (\E m \in 1..Len(p) : x = f(m)) \/ (\E j \in 1..Len(b) : x = c + j)
    <2>1. q \in Seq(Instrs) /\ Len(q) = Len(p) + Len(b)
      BY Origins
    <2>2. \A m \in 1..Len(p) : q[f(m)] = p[m] /\ f(m) \in 1..Len(q)
      BY Origins
    <2>3. \A j \in 1..Len(b) : q[c + j] = r[j] /\ c + j \in 1..Len(q)
      BY Origins
    <2>4. \A x \in 1..Len(q) : (\E m \in 1..Len(p) : x = f(m)) \/ (\E j \in 1..Len(b) : x = c + j)
      BY Origins
    <2> QED
      BY <2>1, <2>2, <2>3, <2>4
  <1> SUFFICES ASSUME NEW x \in 1..Len(q), IsJump(q[x])
               PROVE  \E k \in 1..Len(q) : q[k] = Label(q[x].dst) /\ SameScope(q, x, k)
    BY DEF Resolved
  <1> HIDE DEF q, f
  <1>2. ASSUME NEW m \in 1..Len(p), x = f(m)
        PROVE  \E k \in 1..Len(q) : q[k] = Label(q[x].dst) /\ SameScope(q, x, k)
    <2>1. q[x] = p[m]
      BY <1>1, <1>2
    <2>2. PICK l \in 1..Len(p) : p[l] = Label(p[m].dst) /\ SameScope(p, m, l)
      BY <2>1 DEF Resolved
    <2>3. SameScope(q, f(m), f(l))
      <3>1. m \in 0..Len(p) /\ l \in 0..Len(p)
        OBVIOUS
      <3> QED
        BY <2>2, <3>1, GrownScope DEF q, f
    <2>4. f(l) \in 1..Len(q) /\ q[f(l)] = Label(q[x].dst)
      BY <1>1, <2>1, <2>2
    <2> QED
      BY <1>2, <2>3, <2>4
  <1>3. ASSUME NEW j \in 1..Len(b), x = c + j
        PROVE  \E k \in 1..Len(q) : q[k] = Label(q[x].dst) /\ SameScope(q, x, k)
    <2>1. q[x] = r[j] /\ r[j].op = b[j].op
      BY <1>1, <1>3 DEF Renaming
    <2>2. IsJump(b[j])
      BY <2>1 DEF IsJump
    <2>3. PICK l \in 1..Len(b) : b[l] = Label(b[j].dst) /\ SameScope(b, j, l)
      BY <2>2 DEF Resolved
    <2>4. IsLabel(b[l]) /\ b[l].label = b[j].dst
      BY <2>3 DEF Label, IsLabel
    <2>5. r[l] = Label(CopiedLabel(b[j].dst, lv)) /\ r[j].dst = CopiedLabel(b[j].dst, lv)
      BY <2>2, <2>4 DEF Renaming
    <2>6. SameScope(q, c + j, c + l)
      <3>1. j \in 0..Len(b) /\ l \in 0..Len(b)
        OBVIOUS
      <3> QED
        BY <2>3, <3>1, CopyScope DEF q
    <2>7. c + l \in 1..Len(q) /\ q[c + l] = Label(q[x].dst)
      BY <1>1, <2>1, <2>5
    <2> QED
      BY <1>3, <2>6, <2>7
  <1> QED
    BY <1>1, <1>2, <1>3

LEMMA GrownStructured ==
    ASSUME NEW p \in Seq(Instrs), NEW b \in Seq(Instrs), NEW r \in Seq(Instrs), NEW c, NEW lv,
           Insertion(p, c, b, r), Renaming(b, r, lv), Structured(p), Structured(b)
    PROVE  Structured(Grown(p, c, r))
  <1> DEFINE q == Grown(p, c, r)
             f(m) == Moved(m, c, Len(b))
  <1>1. /\ q \in Seq(Instrs) /\ Len(q) = Len(p) + Len(b)
        /\ \A m \in 1..Len(p) : q[f(m)] = p[m] /\ f(m) \in 1..Len(q)
        /\ \A j \in 1..Len(b) : q[c + j] = r[j] /\ c + j \in 1..Len(q)
        /\ \A x \in 1..Len(q) : (\E m \in 1..Len(p) : x = f(m)) \/ (\E j \in 1..Len(b) : x = c + j)
    <2>1. q \in Seq(Instrs) /\ Len(q) = Len(p) + Len(b)
      BY Origins
    <2>2. \A m \in 1..Len(p) : q[f(m)] = p[m] /\ f(m) \in 1..Len(q)
      BY Origins
    <2>3. \A j \in 1..Len(b) : q[c + j] = r[j] /\ c + j \in 1..Len(q)
      BY Origins
    <2>4. \A x \in 1..Len(q) : (\E m \in 1..Len(p) : x = f(m)) \/ (\E j \in 1..Len(b) : x = c + j)
      BY Origins
    <2> QED
      BY <2>1, <2>2, <2>3, <2>4
  <1>2. /\ c \in 1..(Len(p) - 2) /\ Len(p) \in Nat /\ Len(b) \in Nat
        /\ p[c + 1].op = "popscope" /\ p[c + 2].op = "label"
    BY DEF Insertion, IsLabel
  <1> SUFFICES ASSUME NEW x \in 1..Len(q), q[x].op = "jmpcond"
               PROVE  \E k : LoopShape(q, x, k)
    BY StructuredLoops
  <1> HIDE DEF q, f
  <1>3. ASSUME NEW m \in 1..Len(p), x = f(m) PROVE \E k : LoopShape(q, x, k)
    <2>1. q[x] = p[m]
      BY <1>1, <1>3
    <2>2. PICK k : LoopShape(p, m, k)
      BY <2>1, StructuredLoops
    <2>3. /\ k \in (m + 4)..Len(p) /\ p[k] = Label(p[m].dst) /\ p[k - 1].op = "jmp"
          /\ p[k - 2].op = "popscope" /\ p[m + 1].op = "pushscope" /\ SameScope(p, m + 1, k - 3)
      BY <2>2 DEF LoopShape
    <2>4. m # c /\ k # c + 1
      <3>1. p[k].op = "label"
        BY <2>3 DEF Label
      <3>2. p[m + 1].op # "popscope" /\ p[k].op # "popscope"
        BY <2>3, <3>1
      <3> QED
        BY <1>2, <3>2
    <2>5. k # c + 2 /\ k # c + 3
      <3>1. (c + 2) - 1 = c + 1 /\ (c + 3) - 1 = c + 2
        BY <1>2
      <3>2. p[k - 1].op # "popscope" /\ p[k - 1].op # "label"
        BY <2>3
      <3> QED
        BY <1>2, <3>1, <3>2
    <2>6. /\ f(m + 1) = f(m) + 1 /\ f(k - 3) = f(k) - 3 /\ f(k - 2) = f(k) - 2 /\ f(k - 1) = f(k) - 1
          /\ f(k) >= f(m) + 4
      BY SMTT(40), <1>2, <2>3, <2>4, <2>5 DEF f, Moved
    <2>7. {m, m + 1, k - 3, k - 2, k - 1, k} \subseteq 1..Len(p)
      BY SMTT(40), <1>2, <2>3
    <2>8. /\ q[f(m)] = p[m] /\ q[f(m) + 1] = p[m + 1] /\ q[f(k) - 2] = p[k - 2]
          /\ q[f(k) - 1] = p[k - 1] /\ q[f(k)] = p[k]
      <3>1. /\ q[f(m)] = p[m] /\ q[f(m + 1)] = p[m + 1] /\ q[f(k - 2)] = p[k - 2]
            /\ q[f(k - 1)] = p[k - 1] /\ q[f(k)] = p[k]
        BY <1>1, <2>7
      <3> QED
        BY <2>6, <3>1
    <2>9. SameScope(q, f(m) + 1, f(k) - 3)
      <3>1. m + 1 \in 0..Len(p) /\ k - 3 \in 0..Len(p)
        BY SMTT(40), <1>2, <2>3
      <3>2. SameScope(q, f(m + 1), f(k - 3))
        BY <2>3, <3>1, GrownScope DEF q, f
      <3> QED
        BY <2>6, <3>2
    <2>10. f(k) \in (f(m) + 4)..Len(q)
      BY SMTT(40), <1>1, <2>6, <2>7
    <2>11. LoopShape(q, f(m), f(k))
      BY <1>3, <2>1, <2>3, <2>8, <2>9, <2>10 DEF LoopShape
    <2> QED
      BY <1>3, <2>11
  <1>4. ASSUME NEW j \in 1..Len(b), x = c + j PROVE \E k : LoopShape(q, x, k)
    <2>1. q[x] = r[j] /\ r[j].op = b[j].op
      BY <1>1, <1>4 DEF Renaming
    <2>2. PICK k : LoopShape(b, j, k)
      BY <2>1, StructuredLoops
    <2>3. /\ k \in (j + 4)..Len(b) /\ b[k] = Label(b[j].dst) /\ b[k - 1].op = "jmp"
          /\ b[k - 2].op = "popscope" /\ b[j + 1].op = "pushscope" /\ SameScope(b, j + 1, k - 3)
      BY <2>2 DEF LoopShape
    <2>4. {j, j + 1, k - 3, k - 2, k - 1, k} \subseteq 1..Len(b)
      <3>1. j >= 1 /\ k >= j + 4 /\ k <= Len(b) /\ j \in Int /\ k \in Int
        BY <1>2, <2>3
      <3>2. /\ j \in 1..Len(b) /\ j + 1 \in 1..Len(b) /\ k - 3 \in 1..Len(b)
            /\ k - 2 \in 1..Len(b) /\ k - 1 \in 1..Len(b) /\ k \in 1..Len(b)
        BY <1>2, <3>1
      <3> QED
        BY <3>2
    <2>5. r[k - 1].op = "jmp" /\ r[k - 2].op = "popscope" /\ r[j + 1].op = "pushscope"
      BY <2>3, <2>4 DEF Renaming
    <2>6. r[k] = Label(r[j].dst)
      <3>1. IsLabel(b[k]) /\ b[k].label = b[j].dst /\ IsJump(b[j])
        BY SMTT(40), <2>1, <2>3 DEF Label, IsLabel, IsJump
      <3>2. r[k] = Label(CopiedLabel(b[j].dst, lv)) /\ r[j].dst = CopiedLabel(b[j].dst, lv)
        BY <2>4, <3>1 DEF Renaming
      <3> QED
        BY <3>2
    <2>7. /\ (c + j) + 1 = c + (j + 1) /\ (c + k) - 1 = c + (k - 1)
          /\ (c + k) - 2 = c + (k - 2) /\ (c + k) - 3 = c + (k - 3)
      BY <1>2, <2>3
    <2>8. /\ q[(c + j) + 1] = r[j + 1] /\ q[(c + k) - 2] = r[k - 2]
          /\ q[(c + k) - 1] = r[k - 1] /\ q[c + k] = r[k]
      <3>1. /\ q[c + (j + 1)] = r[j + 1] /\ q[c + (k - 2)] = r[k - 2]
            /\ q[c + (k - 1)] = r[k - 1] /\ q[c + k] = r[k]
        BY <1>1, <2>4
      <3> QED
        BY <2>7, <3>1
    <2>9. SameScope(q, (c + j) + 1, (c + k) - 3)
      <3>1. j + 1 \in 0..Len(b) /\ k - 3 \in 0..Len(b)
        BY SMTT(40), <1>2, <2>3
      <3>2. SameScope(q, c + (j + 1), c + (k - 3))
        BY <2>3, <3>1, CopyScope DEF q
      <3> QED
        BY <2>7, <3>2
    <2>10. c + k \in ((c + j) + 4)..Len(q)
      BY <1>1, <1>2, <2>3, <2>4
    <2>11. LoopShape(q, c + j, c + k)
      BY <1>4, <2>1, <2>5, <2>6, <2>8, <2>9, <2>10 DEF LoopShape
    <2> QED
      BY <1>4, <2>11
  <1> QED
    BY <1>1, <1>3, <1>4

\* Nothing in the list bears the name of a copy for lv.
Fresh(p, b, lv) ==
    \A n \in 1..Len(p), k \in 1..Len(b) :
        IsLabel(p[n]) /\ IsLabel(b[k]) =>
            LET m == p[n].label
                l == b[k].label
            IN  ~CopyOf(l, m) /\ (CopyOf(m, l) => Path(m)[Len(Path(l)) + 1] # lv)

LEMMA GrownApart ==
    ASSUME NEW p \in Seq(Instrs), NEW b \in Seq(Instrs), NEW r \in Seq(Instrs), NEW c, NEW lv \in Int,
           Insertion(p, c, b, r), Renaming(b, r, lv), Apart(p), Apart(b), Fresh(p, b, lv)
    PROVE  Apart(Grown(p, c, r))
  <1> DEFINE q == Grown(p, c, r)
             f(m) == Moved(m, c, Len(b))
  <1>1. /\ \A m \in 1..Len(p) : q[f(m)] = p[m]
        /\ \A j \in 1..Len(b) : q[c + j] = r[j]
        /\ \A x \in 1..Len(q) : (\E m \in 1..Len(p) : x = f(m)) \/ (\E j \in 1..Len(b) : x = c + j)
    <2>2. \A m \in 1..Len(p) : q[f(m)] = p[m]
      BY Origins
    <2>3. \A j \in 1..Len(b) : q[c + j] = r[j]
      BY Origins
    <2>4. \A x \in 1..Len(q) : (\E m \in 1..Len(p) : x = f(m)) \/ (\E j \in 1..Len(b) : x = c + j)
      BY Origins
    <2> QED
      BY <2>2, <2>3, <2>4
  <1> SUFFICES ASSUME NEW x \in 1..Len(q), NEW y \in 1..Len(q), IsLabel(q[x]), IsLabel(q[y]),
                      CopyOf(q[y].label, q[x].label)
               PROVE  x = y
    BY DEF Apart
  <1> HIDE DEF q, f
  \* A label of the copy comes from a label of the body.
  <1>2. ASSUME NEW j \in 1..Len(b), IsLabel(q[c + j])
        PROVE  /\ IsLabel(b[j]) /\ b[j].label \in Labels
               /\ q[c + j].label = CopiedLabel(b[j].label, lv)
    <2>1. q[c + j] = r[j] /\ r[j].op = b[j].op
      BY <1>1 DEF Renaming
    <2>2. IsLabel(b[j])
      BY <1>2, <2>1 DEF IsLabel
    <2>3. b[j].label \in Labels
      BY <2>2, InstrFacts
    <2>4. r[j] = Label(CopiedLabel(b[j].label, lv))
      BY <2>2 DEF Renaming
    <2>5. q[c + j].label = CopiedLabel(b[j].label, lv)
      BY <2>1, <2>4 DEF Label
    <2> QED
      BY <2>2, <2>3, <2>5
  <1>3. ASSUME NEW m \in 1..Len(p), IsLabel(q[f(m)])
        PROVE  IsLabel(p[m]) /\ p[m].label \in Labels /\ q[f(m)].label = p[m].label
    <2>1. q[f(m)] = p[m]
      BY <1>1
    <2>2. IsLabel(p[m])
      BY <1>3, <2>1
    <2>3. p[m].label \in Labels
      BY <2>2, InstrFacts
    <2> QED
      BY <2>1, <2>2, <2>3
  <1>4. ASSUME NEW m \in 1..Len(p), NEW j \in 1..Len(b), IsLabel(q[f(m)]), IsLabel(q[c + j])
        PROVE  ~CopyOf(q[c + j].label, q[f(m)].label) /\ ~CopyOf(q[f(m)].label, q[c + j].label)
    <2> DEFINE u == p[m].label
               l == b[j].label
    <2>1. u \in Labels /\ l \in Labels /\ q[f(m)].label = u /\ q[c + j].label = CopiedLabel(l, lv)
      BY <1>2, <1>3, <1>4
    <2>2. ~CopyOf(l, u) /\ (CopyOf(u, l) => Path(u)[Len(Path(l)) + 1] # lv)
      BY <1>2, <1>3, <1>4 DEF Fresh
    <2> HIDE DEF u, l
    <2>3. ~CopyOf(CopiedLabel(l, lv), u) /\ ~CopyOf(u, CopiedLabel(l, lv))
      BY <2>1, <2>2, CopiedApart
    <2> QED
      BY <2>1, <2>3
  <1>5. CASE \E m, n \in 1..Len(p) : x = f(m) /\ y = f(n)
    <2>1. PICK m, n \in 1..Len(p) : x = f(m) /\ y = f(n)
      BY <1>5
    <2>2. IsLabel(q[f(m)]) /\ IsLabel(q[f(n)]) /\ CopyOf(q[f(n)].label, q[f(m)].label)
      BY <2>1
    <2>3. IsLabel(p[m]) /\ IsLabel(p[n]) /\ CopyOf(p[n].label, p[m].label)
      BY <1>3, <2>2
    <2>4. m = n
      BY <2>3 DEF Apart
    <2> QED
      BY <2>1, <2>4
  <1>6. CASE \E j, k \in 1..Len(b) : x = c + j /\ y = c + k
    <2>1. PICK j, k \in 1..Len(b) : x = c + j /\ y = c + k
      BY <1>6
    <2>2. IsLabel(q[c + j]) /\ IsLabel(q[c + k]) /\ CopyOf(q[c + k].label, q[c + j].label)
      BY <2>1
    <2>3. /\ IsLabel(b[j]) /\ IsLabel(b[k]) /\ b[j].label \in Labels /\ b[k].label \in Labels
          /\ CopyOf(CopiedLabel(b[k].label, lv), CopiedLabel(b[j].label, lv))
      BY <1>2, <2>2
    <2>4. CopyOf(b[k].label, b[j].label)
      BY <2>3, CopiedAlike
    <2>5. j = k
      BY <2>3, <2>4 DEF Apart
    <2> QED
      BY <2>1, <2>5
  <1>7. CASE \E m \in 1..Len(p), j \in 1..Len(b) : (x = f(m) /\ y = c + j) \/ (x = c + j /\ y = f(m))
    <2>1. PICK m \in 1..Len(p), j \in 1..Len(b) : (x = f(m) /\ y = c + j) \/ (x = c + j /\ y = f(m))
      BY <1>7
    <2>2. IsLabel(q[f(m)]) /\ IsLabel(q[c + j])
      BY <2>1
    <2>3. ~CopyOf(q[c + j].label, q[f(m)].label) /\ ~CopyOf(q[f(m)].label, q[c + j].label)
      BY <1>4, <2>2
    <2> QED
      BY <2>1, <2>3
  <1> QED
    BY <1>1, <1>5, <1>6, <1>7

LEMMA BodyIsFresh ==
    ASSUME Sound(code), LoopInv
    PROVE  Fresh(code, loop.body, loop.i)
  <1> DEFINE b == loop.body
  <1>1. code \in Seq(Instrs) /\ b \in Seq(Instrs) /\ loop.i \in Int /\ loop.by \in Int \ {0} /\ BodyApart
    BY DEF LoopInv, Sound
  <1> HIDE DEF b
  <1>2. SUFFICES ASSUME NEW n \in 1..Len(code), NEW k \in 1..Len(b), IsLabel(code[n]), IsLabel(b[k])
                 PROVE  /\ ~CopyOf(b[k].label, code[n].label)
                        /\ CopyOf(code[n].label, b[k].label) =>
                               Path(code[n].label)[Len(Path(b[k].label)) + 1] # loop.i
    BY DEF Fresh, b
  <1> DEFINE m == code[n].label
             l == b[k].label
             v == Path(m)[Len(Path(l)) + 1]
  <1>3. m \in Labels /\ l \in Labels
    BY <1>1, <1>2, InstrFacts
  <1>4. /\ ~CopyOf(l, m)
        /\ CopyOf(m, l) => /\ loop.by > 0 => v < loop.i
                           /\ loop.by < 0 => v > loop.i
    BY <1>1, <1>2 DEF BodyApart, b
  <1> HIDE DEF m, l
  <1>5. CopyOf(m, l) => v \in Int
    BY <1>3, <1>4, CopyOfFacts
  <1> HIDE DEF v
  <1>6. CopyOf(m, l) => v # loop.i
    BY <1>1, <1>4, <1>5
  <1> QED
    BY <1>4, <1>6 DEF m, l, v

\* The labels of the body are on either side of all that was made of them.
LEMMA BodyApartNext ==
    ASSUME Sound(code), LoopInv, NEW i, i = loop.i + loop.by,
           NEW l \in Labels, NEW m \in Labels, ~CopyOf(l, m),
           CopyOf(m, l) => /\ loop.by > 0 => Path(m)[Len(Path(l)) + 1] < loop.i
                           /\ loop.by < 0 => Path(m)[Len(Path(l)) + 1] > loop.i
    PROVE  CopyOf(m, l) => /\ loop.by > 0 => Path(m)[Len(Path(l)) + 1] < i
                           /\ loop.by < 0 => Path(m)[Len(Path(l)) + 1] > i
  <1> DEFINE v == Path(m)[Len(Path(l)) + 1]
             x == loop.i
             y == loop.by
  <1>1. x \in Int /\ y \in Int
    BY DEF LoopInv
  <1>2. CopyOf(m, l) => v \in Int
    BY CopyOfFacts
  <1>3. CopyOf(m, l) => (y > 0 => v < x) /\ (y < 0 => v > x)
    OBVIOUS
  <1> HIDE DEF v, x, y
  <1>4. ASSUME CopyOf(m, l) PROVE (y > 0 => v < x + y) /\ (y < 0 => v > x + y)
    BY <1>1, <1>2, <1>3, <1>4
  <1> QED
    BY <1>4 DEF v, x, y

LEMMA CopyBodyApart ==
    ASSUME Sound(code), LoopInv, NEW c, NEW r \in Seq(Instrs), NEW i, i = loop.i + loop.by,
           Insertion(code, c, loop.body, r), Renaming(loop.body, r, loop.i),
           NEW x \in 1..Len(Grown(code, c, r)), NEW k \in 1..Len(loop.body),
           IsLabel(Grown(code, c, r)[x]), IsLabel(loop.body[k])
    PROVE  LET m == Grown(code, c, r)[x].label
               l == loop.body[k].label
           IN  /\ ~CopyOf(l, m)
               /\ CopyOf(m, l) => /\ loop.by > 0 => Path(m)[Len(Path(l)) + 1] < i
                                  /\ loop.by < 0 => Path(m)[Len(Path(l)) + 1] > i
  <1> DEFINE b == loop.body
             q == Grown(code, c, r)
             f(n) == Moved(n, c, Len(b))
             m == q[x].label
             l == b[k].label
  <1>1. /\ code \in Seq(Instrs) /\ b \in Seq(Instrs) /\ loop.i \in Int /\ loop.by \in Int \ {0}
        /\ Apart(b) /\ BodyApart
    BY DEF LoopInv, Sound
  <1>2. /\ \A n \in 1..Len(code) : q[f(n)] = code[n]
        /\ \A j \in 1..Len(b) : q[c + j] = r[j]
        /\ (\E n \in 1..Len(code) : x = f(n)) \/ (\E j \in 1..Len(b) : x = c + j)
    <2>1. Insertion(code, c, b, r)
      OBVIOUS
    <2> HIDE DEF b
    <2>2. \A n \in 1..Len(code) : q[f(n)] = code[n]
      BY <1>1, <2>1, Origins
    <2>3. \A j \in 1..Len(b) : q[c + j] = r[j]
      BY <1>1, <2>1, Origins
    <2>4. \A y \in 1..Len(q) : (\E n \in 1..Len(code) : y = f(n)) \/ (\E j \in 1..Len(b) : y = c + j)
      <3> DEFINE p == code
      <3>1. p \in Seq(Instrs) /\ b \in Seq(Instrs) /\ r \in Seq(Instrs) /\ Insertion(p, c, b, r)
        BY <1>1, <2>1
      <3> HIDE DEF p
      <3>2. ASSUME NEW y \in 1..Len(Grown(p, c, r))
            PROVE  (\E n \in 1..Len(p) : y = Moved(n, c, Len(b))) \/ (\E j \in 1..Len(b) : y = c + j)
        <4> DEFINE d == c
        <4>1. Insertion(p, d, b, r) /\ y \in 1..Len(Grown(p, d, r))
          BY <3>1
        <4> HIDE DEF d
        <4>2. (\E n \in 1..Len(p) : y = Moved(n, d, Len(b))) \/ (\E j \in 1..Len(b) : y = d + j)
          BY <3>1, <4>1, OriginOf
        <4> QED
          BY <4>2 DEF d
      <3> QED
        BY <3>2 DEF p
    <2>5. x \in 1..Len(q)
      OBVIOUS
    <2> HIDE DEF q, f
    <2> QED
      BY <2>2, <2>3, <2>4, <2>5
  <1>3. IsLabel(q[x]) /\ k \in 1..Len(b) /\ IsLabel(b[k]) /\ Renaming(b, r, loop.i)
    OBVIOUS
  <1> HIDE DEF b, q, f
  <1>4. l \in Labels
    BY <1>1, <1>3, InstrFacts
  <1>5. ASSUME NEW n \in 1..Len(code), x = f(n)
        PROVE  /\ ~CopyOf(l, m)
               /\ CopyOf(m, l) => /\ loop.by > 0 => Path(m)[Len(Path(l)) + 1] < i
                                  /\ loop.by < 0 => Path(m)[Len(Path(l)) + 1] > i
    <2>1. IsLabel(code[n]) /\ m = code[n].label
      BY <1>2, <1>3, <1>5
    <2>2. m \in Labels
      BY <1>1, <2>1, InstrFacts
    <2>3. /\ ~CopyOf(l, m)
          /\ CopyOf(m, l) => /\ loop.by > 0 => Path(m)[Len(Path(l)) + 1] < loop.i
                             /\ loop.by < 0 => Path(m)[Len(Path(l)) + 1] > loop.i
      BY <1>1, <1>3, <2>1 DEF BodyApart, b
    <2> HIDE DEF l, m
    <2> QED
      BY <1>4, <2>2, <2>3, BodyApartNext
  <1>6. ASSUME NEW j \in 1..Len(b), x = c + j
        PROVE  /\ ~CopyOf(l, m)
               /\ CopyOf(m, l) => /\ loop.by > 0 => Path(m)[Len(Path(l)) + 1] < i
                                  /\ loop.by < 0 => Path(m)[Len(Path(l)) + 1] > i
    <2> DEFINE h == b[j].label
    <2>1. q[x] = r[j] /\ r[j].op = b[j].op
      BY <1>2, <1>3, <1>6 DEF Renaming
    <2>2. IsLabel(b[j])
      BY <1>3, <2>1 DEF IsLabel
    <2>3. h \in Labels
      BY <1>1, <2>2, InstrFacts
    <2>4. m = CopiedLabel(h, loop.i)
      <3>1. r[j] = Label(CopiedLabel(b[j].label, loop.i))
        BY <1>3, <2>2 DEF Renaming
      <3>2. q[x].label = CopiedLabel(b[j].label, loop.i)
        BY <2>1, <3>1 DEF Label
      <3> QED
        BY <3>2
    <2>5. CopyOf(l, h) => j = k
      BY <1>1, <1>3, <2>2 DEF Apart
    <2>6. CopyOf(h, l) => j = k
      BY <1>1, <1>3, <2>2 DEF Apart
    <2>7. j = k => l = h
      OBVIOUS
    <2>8. Len(Path(l)) \in Nat /\ Len(Path(h)) \in Nat
      BY <1>4, <2>3, LabelFacts
    <2> HIDE DEF h, l, m
    <2>9. /\ CopyOf(m, l) => CopyOf(h, l) \/ (CopyOf(l, h) /\ Len(Path(l)) = Len(Path(h)) + 1)
          /\ CopyOf(l, m) => CopyOf(l, h) /\ Len(Path(l)) > Len(Path(h))
      BY <1>1, <1>4, <2>3, <2>4, CopiedFrom
    <2>10. ~CopyOf(l, m)
      BY <2>5, <2>7, <2>8, <2>9
    <2>11. CopyOf(m, l) => l = h
      BY <2>5, <2>6, <2>7, <2>8, <2>9
    <2>12. CopyOf(m, l) => Path(m)[Len(Path(l)) + 1] = loop.i
      BY ZenonT(60), <1>1, <1>4, <2>3, <2>4, <2>11, CopiedFacts
    <2> QED
      BY SMTT(40), <1>1, <2>10, <2>12
  <1> QED
    BY <1>2, <1>5, <1>6 DEF b, q

LEMMA NextTurn ==
    ASSUME NEW l, DOMAIN l = LoopFields, NEW i, NEW last
    PROVE  LET m == [l EXCEPT !.i = i, !.last = last]
           IN  /\ DOMAIN m = LoopFields /\ m.open = l.open /\ m.by = l.by /\ m.body = l.body
               /\ m.i = i /\ m.last = last
  BY DEF LoopFields

LEMMA CopyBodyKeeps == UnrollInv /\ CopyBody => UnrollInv'
  <1> SUFFICES ASSUME UnrollInv, CopyBody PROVE UnrollInv'
    OBVIOUS
  <1> DEFINE b == loop.body
             c == loop.last
             r == BodyCopy(b, loop.i)
             q == Grown(code, c, r)
             i == loop.i + loop.by
  <1>1. Sound(code) /\ node \in 1..(Len(code) + 1) /\ stage \in {"walk", "allocate", "run", "done"} /\ LoopInv
    BY DEF UnrollInv, CopyBody, NoLoop
  <1>2. /\ code \in Seq(Instrs) /\ Resolved(code) /\ Structured(code) /\ Apart(code)
        /\ b \in Seq(Instrs) /\ Resolved(b) /\ Structured(b) /\ Apart(b) /\ SameScope(b, 0, Len(b))
        /\ loop.i \in Int /\ loop.by \in Int \ {0}
    BY <1>1 DEF LoopInv, Sound
  <1>3. /\ c \in node..(Len(code) - 2) /\ code[node].op = "pushscope"
        /\ code[c + 1].op = "popscope" /\ IsLabel(code[c + 2])
        /\ loop.open = TRUE /\ DOMAIN loop = LoopFields
    BY <1>1 DEF LoopInv
  <1>4. /\ code' = q /\ node' = node /\ stage' = stage
        /\ loop' = [loop EXCEPT !.i = @ + loop.by, !.last = @ + Len(loop.body)]
    BY DEF CopyBody, Grown
  <1> HIDE DEF b
  <1>5. /\ r \in Seq(Instrs) /\ Len(r) = Len(b) /\ Renaming(b, r, loop.i)
        /\ \A j \in 1..Len(b) : r[j].op = b[j].op /\ Turn(r[j]) = Turn(b[j])
    BY <1>2, BodyCopyFacts DEF Renaming
  <1> HIDE DEF r, c
  <1>6. Insertion(code, c, b, r)
    <2>1. c \in 1..(Len(code) - 2)
      BY <1>1, <1>3
    <2> QED
      BY <1>2, <1>3, <1>5, <2>1 DEF Insertion
  <1>7. Fresh(code, b, loop.i)
    BY <1>1, BodyIsFresh DEF b
  <1>8. /\ q \in Seq(Instrs) /\ Len(q) = Len(code) + Len(b)
        /\ \A m \in 1..Len(code) : q[Moved(m, c, Len(b))] = code[m]
    <2>1. q \in Seq(Instrs) /\ Len(q) = Len(code) + Len(b)
      BY <1>2, <1>5, <1>6, Origins
    <2>2. \A m \in 1..Len(code) : q[Moved(m, c, Len(b))] = code[m]
      BY <1>2, <1>5, <1>6, Origins
    <2> QED
      BY <2>1, <2>2
  <1>9. Sound(q)
    <2>1. Resolved(q)
      BY <1>2, <1>5, <1>6, GrownResolved
    <2>2. Structured(q)
      BY <1>2, <1>5, <1>6, GrownStructured
    <2>3. Apart(q)
      BY <1>2, <1>5, <1>6, <1>7, GrownApart
    <2> QED
      BY <1>8, <2>1, <2>2, <2>3 DEF Sound
  <1>10. \A x \in 1..Len(q), k \in 1..Len(b) : IsLabel(q[x]) /\ IsLabel(b[k]) =>
            LET m == q[x].label
                l == b[k].label
            IN  /\ ~CopyOf(l, m)
                /\ CopyOf(m, l) => /\ loop.by > 0 => Path(m)[Len(Path(l)) + 1] < i
                                   /\ loop.by < 0 => Path(m)[Len(Path(l)) + 1] > i
    BY <1>1, <1>5, <1>6, CopyBodyApart DEF b
  <1> HIDE DEF q, i
  <1>11. loop' = [loop EXCEPT !.i = i, !.last = c + Len(b)]
    BY <1>4 DEF b, c, i
  <1>12. /\ DOMAIN (loop') = LoopFields /\ loop'.open = TRUE
         /\ loop'.last = c + Len(b) /\ loop'.body = b /\ loop'.i = i /\ loop'.by = loop.by
    BY <1>3, <1>11, NextTurn DEF b
  <1>13. BodyApart'
    BY <1>4, <1>10, <1>12 DEF BodyApart
  <1>14. /\ Len(code) \in Nat /\ Len(b) \in Nat /\ i \in Int /\ c \in node..(Len(code) - 2) /\ node \in 1..(Len(code) + 1)
    BY SMTT(40), <1>1, <1>2, <1>3 DEF i
  <1>15. q[node] = code[node] /\ q[(c + Len(b)) + 1] = code[c + 1] /\ q[(c + Len(b)) + 2] = code[c + 2]
    <2>1. /\ Moved(node, c, Len(b)) = node /\ Moved(c + 1, c, Len(b)) = (c + Len(b)) + 1
          /\ Moved(c + 2, c, Len(b)) = (c + Len(b)) + 2
      BY <1>14 DEF Moved
    <2>2. node \in 1..Len(code) /\ c + 1 \in 1..Len(code) /\ c + 2 \in 1..Len(code)
      BY <1>14
    <2>3. /\ q[Moved(node, c, Len(b))] = code[node] /\ q[Moved(c + 1, c, Len(b))] = code[c + 1]
          /\ q[Moved(c + 2, c, Len(b))] = code[c + 2]
      BY <1>8, <2>2
    <2> QED
      BY <2>1, <2>3
  <1>16. LoopInv'
    <2>1. c + Len(b) \in node..(Len(q) - 2)
      BY <1>8, <1>14
    <2>2. Sound(b) /\ SameScope(b, 0, Len(b))
      BY <1>2 DEF Sound
    <2>3. Sound(loop.body)' /\ SameScope(loop.body, 0, Len(loop.body))'
      BY <1>12, <2>2 DEF Sound, SameScope
    <2>4. (loop.open = TRUE /\ DOMAIN loop = LoopFields)'
      BY <1>12 DEF LoopFields
    <2>5. (loop.last \in node..(Len(code) - 2) /\ code[node].op = "pushscope")'
      BY <1>3, <1>4, <1>12, <1>15, <2>1
    <2>6. (code[loop.last + 1].op = "popscope" /\ IsLabel(code[loop.last + 2]))'
      <3>1. q[(c + Len(b)) + 1].op = "popscope" /\ IsLabel(q[(c + Len(b)) + 2])
        BY <1>3, <1>15
      <3> QED
        BY <1>4, <1>12, <3>1 DEF IsLabel
    <2>7. (loop.i \in Int /\ loop.by \in Int \ {0})'
      BY <1>2, <1>12, <1>14
    <2> QED
      BY <1>13, <2>3, <2>4, <2>5, <2>6, <2>7 DEF LoopInv
  <1>17. node' \in 1..(Len(code') + 1)
    BY <1>4, <1>8, <1>14
  <1> QED
    BY <1>1, <1>4, <1>9, <1>16, <1>17 DEF UnrollInv, Sound

-----------------------------------------------------------------------------
(* The walk as a whole.                                                    *)

LEMMA SourcesSound ==
    ASSUME NEW p \in Sources
    PROVE  Sound(p)
  <1>1. p \in Seq(SourceInstrs) /\ Resolved(p) /\ Structured(p)
    BY SourcesAssumption
  <1>2. p \in Seq(Instrs)
    BY <1>1 DEF Instrs
  <1>3. Apart(p)
    <2> SUFFICES ASSUME NEW m \in 1..Len(p), NEW n \in 1..Len(p), IsLabel(p[m]), IsLabel(p[n]),
                        CopyOf(p[n].label, p[m].label)
                 PROVE  m = n
      BY DEF Apart
    <2>1. p[m] \in SourceInstrs /\ p[n] \in SourceInstrs
      BY <1>1
    <2>2. /\ p[m] = Label(p[m].label) /\ p[m].label.kind # "copy"
          /\ p[n] = Label(p[n].label) /\ p[n].label.kind # "copy"
      BY <2>1, InstrsAssumption
    <2>3. Origin(p[m].label) = p[m].label /\ Origin(p[n].label) = p[n].label
      BY <2>2 DEF Origin
    <2>4. p[n].label = p[m].label
      BY <2>3 DEF CopyOf
    <2>5. p[m] = p[n]
      BY <2>2, <2>4
    <2> QED
      BY <2>5, SourcesAssumption
  <1> QED
    BY <1>1, <1>2, <1>3 DEF Sound

LEMMA UnrollInitially == UnrollInit => UnrollInv
  <1> SUFFICES ASSUME UnrollInit PROVE UnrollInv
    OBVIOUS
  <1>1. code \in Sources /\ node = 1 /\ loop = NoLoop /\ stage = "walk"
    BY DEF UnrollInit
  <1>2. Sound(code)
    BY <1>1, SourcesSound
  <1>3. Len(code) \in Nat
    BY <1>2 DEF Sound
  <1> QED
    BY <1>1, <1>2, <1>3 DEF UnrollInv

LEMMA UnrollSteps == UnrollInv /\ [UnrollNext]_unrolling => UnrollInv'
  <1> SUFFICES ASSUME UnrollInv, [UnrollNext]_unrolling PROVE UnrollInv'
    OBVIOUS
  <1>0. Sound(code) /\ Len(code) \in Nat
    BY DEF UnrollInv, Sound
  <1>1. CASE BeginUnroll
    BY <1>1, BeginUnrollKeeps
  <1>2. CASE CopyBody
    BY <1>2, CopyBodyKeeps
  <1>3. CASE EndUnroll
    BY <1>3 DEF EndUnroll, UnrollInv, Sound
  <1>4. CASE PassOn
    <2>1. ~loop.open /\ node' = node + 1 /\ node \in 1..Len(code) /\ UNCHANGED <<code, loop, stage>>
      BY <1>0, <1>4 DEF PassOn, UnrollInv
    <2>2. loop = NoLoop
      BY <2>1 DEF UnrollInv, LoopInv
    <2> QED
      BY <1>0, <2>1, <2>2 DEF UnrollInv, Sound
  <1>5. CASE HandOn
    <2>1. ~loop.open /\ stage' = "allocate" /\ UNCHANGED <<code, loop, node>>
      BY <1>5 DEF HandOn
    <2>2. loop = NoLoop
      BY <2>1 DEF UnrollInv, LoopInv
    <2> QED
      BY <2>1, <2>2 DEF UnrollInv, Sound
  <1>6. CASE MoveOn
    <2>1. stage' \in {"allocate", "run", "done"} /\ UNCHANGED <<code, loop, node>>
      BY <1>6 DEF MoveOn
    <2> QED
      BY <1>0, <2>1 DEF UnrollInv, LoopInv, BodyApart, Sound
  <1>7. CASE UNCHANGED unrolling
    BY <1>7 DEF unrolling, UnrollInv, LoopInv, BodyApart, Sound
  <1> QED
    BY <1>1, <1>2, <1>3, <1>4, <1>5, <1>6, <1>7 DEF UnrollNext, Unroll

\* However the loops of a list are nested, unrolled, copied and unrolled again,
\* the list stays one that could have come from the translator.
THEOREM UnrollInvariant == UnrollSpec => []UnrollInv
  <1>1. UnrollInit => UnrollInv
    BY UnrollInitially
  <1>2. UnrollInv /\ [UnrollNext]_unrolling => UnrollInv'
    BY UnrollSteps
  <1> QED
    BY <1>1, <1>2, PTL DEF UnrollSpec

LEMMA InvTypes == UnrollInv => TypeOK
  <1> SUFFICES ASSUME UnrollInv PROVE TypeOK
    OBVIOUS
  <1>1. code \in Seq(Instrs) /\ stage \in {"walk", "allocate", "run", "done"} /\ node \in 1..(Len(code) + 1)
    BY DEF UnrollInv, Sound
  <1>2. \A n \in 1..Len(code) : code[n].op \in Kinds
    BY <1>1, InstrFacts
  <1>3. ASSUME loop.open
        PROVE  /\ loop.last \in node..Len(code)
               /\ code[node].op = "pushscope" /\ code[loop.last + 1].op = "popscope"
    <2>1. LoopInv
      BY <1>3 DEF UnrollInv, NoLoop
    <2> QED
      BY <1>1, <2>1 DEF LoopInv
  <1> QED
    BY <1>1, <1>2, <1>3 DEF TypeOK

\* The walk stays in the list and the copies go between the PushScope and the
\* PopScope of their loop.
THEOREM UnrollTypes == UnrollSpec => []TypeOK
  <1>1. UnrollInv => TypeOK
    BY InvTypes
  <1> QED
    BY <1>1, UnrollInvariant, PTL

LEMMA InvUnique == UnrollInv => LabelsUnique
  <1> SUFFICES ASSUME UnrollInv, NEW m \in 1..Len(code), NEW n \in 1..Len(code),
                      IsLabel(code[m]), IsLabel(code[n]), code[m].label = code[n].label
               PROVE  m = n
    BY DEF LabelsUnique
  <1>1. code \in Seq(Instrs) /\ Apart(code)
    BY DEF UnrollInv, Sound
  <1>2. code[m].label \in Labels
    BY <1>1, InstrFacts
  <1>3. CopyOf(code[n].label, code[m].label)
    BY <1>2, CopyOfFacts
  <1> QED
    BY <1>1, <1>3 DEF Apart

\* No label of the list is there twice, at any moment of the walk.
THEOREM LabelsStayUnique == UnrollSpec => []LabelsUnique
  <1>1. UnrollInv => LabelsUnique
    BY InvUnique
  <1> QED
    BY <1>1, UnrollInvariant, PTL

\* When the walk is over, every jump has its label in the same copy of the
\* body as itself.
THEOREM JumpsStayTogether == UnrollSpec => []JumpsStayInCopy
  <1>1. UnrollInv => JumpsStayInCopy
    BY DEF UnrollInv, Sound, JumpsStayInCopy
  <1> QED
    BY <1>1, UnrollInvariant, PTL
=============================================================================
