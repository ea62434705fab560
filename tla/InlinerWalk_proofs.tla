------------------------- MODULE InlinerWalk_proofs -------------------------
(***************************************************************************)
(* Theorems about the inliner, for every program the translator can make   *)
(* and every order of the functions: the walks stay within their lists and *)
(* advance (from WalkInvariant), no label occurs twice and every jump has  *)
(* its label in its own list (LabelInvariant), and the frames have room    *)
(* for the variables of the functions inlined (FrameInvariant).            *)
(***************************************************************************)
EXTENDS InlinerWalk, Recursion_proofs

-----------------------------------------------------------------------------
(* Lists.                                                                  *)

IsList(s) == \E U : s \in Seq(U)

LEMMA ListFacts ==
    ASSUME NEW s, IsList(s)
    PROVE  /\ Len(s) \in Nat /\ DOMAIN s = 1..Len(s)
           /\ s = [n \in 1..Len(s) |-> s[n]]
  <1>1. PICK U : s \in Seq(U)
    BY DEF IsList
  <1> QED
    BY <1>1

\* Two lists are in one set of sequences.
LEMMA Joint ==
    ASSUME NEW s, NEW t, IsList(s), IsList(t)
    PROVE  \E U : s \in Seq(U) /\ t \in Seq(U)
  <1>1. PICK V : s \in Seq(V)
    BY DEF IsList
  <1>2. PICK W : t \in Seq(W)
    BY DEF IsList
  <1>3. s \in Seq(V \cup W) /\ t \in Seq(V \cup W)
    BY <1>1, <1>2
  <1> QED
    BY <1>3

LEMMA Joined ==
    ASSUME NEW s, NEW t, IsList(s), IsList(t)
    PROVE  /\ IsList(s \o t) /\ Len(s \o t) = Len(s) + Len(t)
           /\ \A i \in 1..Len(s) : (s \o t)[i] = s[i]
           /\ \A i \in 1..Len(t) : (s \o t)[Len(s) + i] = t[i]
  <1>1. PICK U : s \in Seq(U) /\ t \in Seq(U)
    BY Joint
  <1>2. s \o t \in Seq(U)
    BY <1>1
  <1> QED
    BY <1>1, <1>2 DEF IsList

LEMMA Cut ==
    ASSUME NEW s, IsList(s), NEW m \in Nat, NEW n \in Nat, 1 <= m, m <= n + 1, n <= Len(s)
    PROVE  /\ IsList(SubSeq(s, m, n)) /\ Len(SubSeq(s, m, n)) = (n - m) + 1
           /\ \A i \in 1..((n - m) + 1) : SubSeq(s, m, n)[i] = s[(m + i) - 1]
  <1>1. PICK U : s \in Seq(U)
    BY DEF IsList
  <1>2. SubSeq(s, m, n) \in Seq(U)
    BY <1>1
  <1> QED
    BY <1>1, <1>2 DEF IsList

LEMMA Made ==
    ASSUME NEW n \in Nat, NEW s, DOMAIN s = 1..n, s = [i \in 1..n |-> s[i]]
    PROVE  IsList(s) /\ Len(s) = n
  <1> DEFINE U == {s[i] : i \in 1..n}
  <1>1. \A i \in 1..n : s[i] \in U
    OBVIOUS
  <1>2. s \in [1..n -> U]
    BY <1>1
  <1>3. s \in Seq(U) /\ Len(s) = n
    <2> HIDE DEF U
    <2> QED
      BY <1>2
  <1> QED
    BY <1>3 DEF IsList

\* The list with another instruction in the k-th place, if it has one.
Put(s, k, x) == [s EXCEPT ![k] = x]

LEMMA Replaced ==
    ASSUME NEW s, IsList(s), NEW k, NEW x
    PROVE  /\ IsList(Put(s, k, x)) /\ Len(Put(s, k, x)) = Len(s)
           /\ \A i \in 1..Len(s) : Put(s, k, x)[i] = IF i = k THEN x ELSE s[i]
  <1> DEFINE t == Put(s, k, x)
  <1>1. Len(s) \in Nat /\ DOMAIN s = 1..Len(s)
    BY ListFacts
  <1>2. /\ DOMAIN t = 1..Len(s) /\ t = [i \in 1..Len(s) |-> t[i]]
        /\ \A i \in 1..Len(s) : t[i] = IF i = k THEN x ELSE s[i]
    BY <1>1 DEF Put
  <1> HIDE DEF t
  <1>3. IsList(t) /\ Len(t) = Len(s)
    BY <1>1, <1>2, Made
  <1> QED
    BY <1>2, <1>3 DEF t

LEMMA ListOf ==
    ASSUME NEW s, IsList(s), NEW U, \A n \in 1..Len(s) : s[n] \in U
    PROVE  s \in Seq(U)
  <1>1. Len(s) \in Nat /\ s = [n \in 1..Len(s) |-> s[n]]
    BY ListFacts
  <1>2. s \in [1..Len(s) -> U]
    BY <1>1
  <1> QED
    BY <1>1, <1>2

\* What has been put into a list in place of its n-th element.
Splice(s, n, new) == SubSeq(s, 1, n - 1) \o new \o SubSeq(s, n + 1, Len(s))

LEMMA Spliced ==
    ASSUME NEW s, NEW new, IsList(s), IsList(new), NEW n \in 1..Len(s)
    PROVE  LET t == Splice(s, n, new)
           IN  /\ IsList(t) /\ Len(t) = (Len(s) + Len(new)) - 1
               /\ \A i \in 1..(n - 1) : t[i] = s[i]
               /\ \A i \in 1..Len(new) : t[(n - 1) + i] = new[i]
               /\ \A i \in (n + 1)..Len(s) : t[(i + Len(new)) - 1] = s[i]
               /\ \A i \in 1..Len(t) : \/ i \in 1..(n - 1)
                                       \/ \E k \in 1..Len(new) : i = (n - 1) + k
                                       \/ \E k \in (n + 1)..Len(s) : i = (k + Len(new)) - 1
  <1> DEFINE a == SubSeq(s, 1, n - 1)
             b == SubSeq(s, n + 1, Len(s))
             t == Splice(s, n, new)
  <1>1. Len(s) \in Nat /\ Len(new) \in Nat /\ n \in Nat /\ n - 1 \in Nat /\ 1 <= n /\ n <= Len(s)
    BY ListFacts
  <1>2. IsList(a) /\ Len(a) = n - 1 /\ \A i \in 1..(n - 1) : a[i] = s[i]
    <2>1. IsList(a) /\ Len(a) = ((n - 1) - 1) + 1 /\ \A i \in 1..(((n - 1) - 1) + 1) : a[i] = s[(1 + i) - 1]
      BY <1>1, Cut
    <2> HIDE DEF a
    <2>2. \A i \in 1..(n - 1) : a[i] = s[(1 + i) - 1] /\ (1 + i) - 1 = i
      BY <2>1, <1>1
    <2> QED
      BY <2>1, <2>2, <1>1
  <1>3. /\ IsList(b) /\ Len(b) = Len(s) - n
        /\ \A i \in (n + 1)..Len(s) : b[i - n] = s[i]
    <2>1. /\ IsList(b) /\ Len(b) = (Len(s) - (n + 1)) + 1
          /\ \A i \in 1..((Len(s) - (n + 1)) + 1) : b[i] = s[((n + 1) + i) - 1]
      BY <1>1, Cut
    <2> HIDE DEF b
    <2>2. ASSUME NEW i \in (n + 1)..Len(s) PROVE b[i - n] = s[i]
      <3>1. i - n \in 1..((Len(s) - (n + 1)) + 1) /\ ((n + 1) + (i - n)) - 1 = i
        BY <1>1
      <3>2. b[i - n] = s[((n + 1) + (i - n)) - 1]
        BY <2>1, <3>1
      <3> QED
        BY <3>1, <3>2
    <2>3. (Len(s) - (n + 1)) + 1 = Len(s) - n
      BY <1>1
    <2> QED
      BY <2>1, <2>2, <2>3
  <1>4. t = a \o new \o b
    BY DEF Splice
  <1> HIDE DEF a, b, t
  <1>5. /\ IsList(a \o new) /\ Len(a \o new) = (n - 1) + Len(new)
        /\ \A i \in 1..(n - 1) : (a \o new)[i] = s[i]
        /\ \A i \in 1..Len(new) : (a \o new)[(n - 1) + i] = new[i]
    BY <1>2, Joined
  <1>6. /\ IsList(t) /\ Len(t) = ((n - 1) + Len(new)) + (Len(s) - n)
        /\ \A i \in 1..((n - 1) + Len(new)) : t[i] = (a \o new)[i]
        /\ \A i \in 1..(Len(s) - n) : t[((n - 1) + Len(new)) + i] = b[i]
    <2> DEFINE c == a \o new
    <2>1. IsList(c) /\ IsList(b) /\ t = c \o b /\ Len(c) = (n - 1) + Len(new) /\ Len(b) = Len(s) - n
      BY <1>3, <1>4, <1>5
    <2> HIDE DEF c
    <2> DEFINE d == c \o b
    <2>0. /\ IsList(d) /\ Len(d) = Len(c) + Len(b)
          /\ \A i \in 1..Len(c) : d[i] = c[i]
          /\ \A i \in 1..Len(b) : d[Len(c) + i] = b[i]
      <3>1. IsList(c) /\ IsList(b)
        BY <2>1
      <3> QED
        BY ONLY <3>1, Joined
    <2>2. /\ IsList(t) /\ Len(t) = Len(c) + Len(b)
          /\ \A i \in 1..Len(c) : t[i] = c[i]
          /\ \A i \in 1..Len(b) : t[Len(c) + i] = b[i]
      <3>1. t = d
        BY <2>1
      <3> HIDE DEF d
      <3> QED
        BY <2>0, <3>1
    <2>3. /\ IsList(t) /\ Len(t) = ((n - 1) + Len(new)) + (Len(s) - n)
          /\ \A i \in 1..((n - 1) + Len(new)) : t[i] = c[i]
          /\ \A i \in 1..(Len(s) - n) : t[((n - 1) + Len(new)) + i] = b[i]
      BY <2>1, <2>2
    <2> QED
      BY <2>3 DEF c
  <1>7. Len(t) = (Len(s) + Len(new)) - 1
    BY <1>1, <1>6
  <1>8. ASSUME NEW i \in 1..(n - 1) PROVE t[i] = s[i]
    <2>1. i \in 1..((n - 1) + Len(new))
      BY <1>1
    <2> QED
      BY <2>1, <1>5, <1>6
  <1>9. ASSUME NEW i \in 1..Len(new) PROVE t[(n - 1) + i] = new[i]
    <2>1. (n - 1) + i \in 1..((n - 1) + Len(new))
      BY <1>1
    <2> QED
      BY <2>1, <1>5, <1>6
  <1>10. ASSUME NEW i \in (n + 1)..Len(s) PROVE t[(i + Len(new)) - 1] = s[i]
    <2>1. i - n \in 1..(Len(s) - n) /\ ((n - 1) + Len(new)) + (i - n) = (i + Len(new)) - 1
      BY <1>1
    <2>2. t[((n - 1) + Len(new)) + (i - n)] = b[i - n]
      BY <2>1, <1>6
    <2> QED
      BY <2>1, <2>2, <1>3
  <1>11. ASSUME NEW i \in 1..Len(t)
         PROVE  \/ i \in 1..(n - 1)
                \/ \E k \in 1..Len(new) : i = (n - 1) + k
                \/ \E k \in (n + 1)..Len(s) : i = (k + Len(new)) - 1
    <2>1. CASE i <= n - 1
      BY <2>1, <1>1
    <2>2. CASE n - 1 < i /\ i <= (n - 1) + Len(new)
      <3>1. i - (n - 1) \in 1..Len(new) /\ i = (n - 1) + (i - (n - 1))
        BY <2>2, <1>1
      <3> QED
        BY <3>1
    <2>3. CASE (n - 1) + Len(new) < i
      <3>1. (i + 1) - Len(new) \in (n + 1)..Len(s) /\ i = (((i + 1) - Len(new)) + Len(new)) - 1
        BY <2>3, <1>1, <1>7
      <3> QED
        BY <3>1
    <2> QED
      BY <2>1, <2>2, <2>3, <1>1
  <1> QED
    BY <1>6, <1>7, <1>8, <1>9, <1>10, <1>11 DEF t

\* All lists of a list of lists are in one set of sequences.
LEMMA AllJoint ==
    ASSUME NEW parts, IsList(parts), \A k \in 1..Len(parts) : IsList(parts[k])
    PROVE  \E U : \A k \in 1..Len(parts) : parts[k] \in Seq(U)
  <1> DEFINE U == UNION {{parts[k][i] : i \in 1..Len(parts[k])} : k \in 1..Len(parts)}
  <1>1. ASSUME NEW k \in 1..Len(parts) PROVE parts[k] \in Seq(U)
    <2> DEFINE p == parts[k]
    <2>1. Len(p) \in Nat /\ p = [n \in 1..Len(p) |-> p[n]]
      BY ListFacts
    <2>2. \A n \in 1..Len(p) : p[n] \in U
      OBVIOUS
    <2> HIDE DEF p, U
    <2>3. p \in [1..Len(p) -> U]
      BY <2>1, <2>2
    <2>4. p \in Seq(U)
      BY <2>1, <2>3
    <2> QED
      BY <2>4 DEF p
  <1> QED
    BY <1>1

\* F[k] is what the first k lists make.
Flattening(F, parts) ==
    /\ \A k \in 1..Len(parts) : IsList(F[k])
    /\ F[1] = parts[1]
    /\ \A k \in 2..Len(parts) : F[k] = F[k - 1] \o parts[k]
    /\ FlattenSeq(parts) = F[Len(parts)]

LEMMA Flattened ==
    ASSUME NEW parts, IsList(parts), Len(parts) > 0, \A k \in 1..Len(parts) : IsList(parts[k])
    PROVE  \E F : Flattening(F, parts)
  <1> DEFINE N == Len(parts)
  <1>1. PICK U : \A k \in 1..N : parts[k] \in Seq(U)
    BY AllJoint
  <1>0. N \in Nat /\ N # 0
    BY ListFacts
  <1> HIDE DEF N
  <1> DEFINE V == Seq(U)
             step == [p \in (1..N) \X V |-> IF p[1] = 1 THEN parts[1] ELSE p[2] \o parts[p[1]]]
  <1>2. <<>> \in V
    OBVIOUS
  <1>3. step \in [(1..N) \X V -> V]
    <2> SUFFICES ASSUME NEW k \in 1..N, NEW s \in V
                 PROVE  (IF k = 1 THEN parts[1] ELSE s \o parts[k]) \in V
      OBVIOUS
    <2>1. parts[k] \in V /\ 1 \in 1..N
      BY <1>0, <1>1
    <2> QED
      BY <2>1, <1>1
  <1>4. PICK F : Follows(F, V, <<>>, N, step)
    <2> HIDE DEF V, step
    <2> QED
      BY <1>0, <1>2, <1>3, Iterated
  <1>5. F \in [0..N -> V] /\ \A k \in 1..N : F[k] = step[<<k, F[k - 1]>>]
    BY <1>4 DEF Follows
  <1>6. ASSUME NEW k \in 1..N
        PROVE  F[k] \in V /\ F[k] = IF k = 1 THEN parts[1] ELSE F[k - 1] \o parts[k]
    <2>1. k - 1 \in 0..N /\ k \in 0..N
      BY <1>0
    <2>2. F[k - 1] \in V /\ F[k] \in V
      BY <1>5, <2>1
    <2>3. step[<<k, F[k - 1]>>] = IF k = 1 THEN parts[1] ELSE F[k - 1] \o parts[k]
      BY <2>2
    <2> QED
      BY <1>5, <2>2, <2>3
  <1> DEFINE G == [k \in 1..N |-> F[k]]
  <1> HIDE DEF V, step
  <1>7. ASSUME NEW k \in 1..N PROVE k # 1 => k - 1 \in 1..N
    BY <1>0
  <1>8. G = [k \in 1..N |-> IF k = 1 THEN parts[k] ELSE G[k - 1] \o parts[k]]
    BY <1>6, <1>7
  <1> HIDE DEF G
  <1> DEFINE H == CHOOSE g : g = [k \in 1..N |-> IF k = 1 THEN parts[k] ELSE g[k - 1] \o parts[k]]
  <1>9. FlattenSeq(parts) = H[N]
    BY SMTT(40), <1>0 DEF FlattenSeq, N
  <1>10. H = [k \in 1..N |-> IF k = 1 THEN parts[k] ELSE H[k - 1] \o parts[k]]
    BY Zenon, <1>8
  <1> HIDE DEF H
  <1>11. \A k \in 1..N : H[k] = IF k = 1 THEN parts[k] ELSE H[k - 1] \o parts[k]
    BY <1>10
  <1>12. \A k \in 1..N : H[k] \in V
    <2> DEFINE P == {k \in 1..N : H[k] \in V}
    <2>1. ASSUME NEW k \in 1..N, \A m \in 1..(k - 1) : m \in P PROVE k \in P
      <3>1. parts[k] \in Seq(U)
        BY <1>1
      <3>2. CASE k = 1
        BY <3>1, <3>2, <1>11 DEF V
      <3>3. CASE k # 1
        <4>1. k - 1 \in 1..(k - 1)
          BY <3>3, <1>0
        <4>2. H[k - 1] \in Seq(U)
          BY <4>1, <2>1 DEF V
        <4>3. H[k - 1] \o parts[k] \in Seq(U)
          BY <3>1, <4>2
        <4> QED
          BY <3>3, <4>3, <1>11 DEF V
      <3> QED
        BY <3>2, <3>3
    <2>2. 1 \in Nat
      OBVIOUS
    <2>3. \A k \in 1..N : k \in P
      <3> HIDE DEF P
      <3> QED
        BY <2>1, <2>2, <1>0, AllBelow
    <2> QED
      BY <2>3
  <1>13. \A k \in 1..N : IsList(H[k])
    BY <1>12 DEF V, IsList
  <1>14. Flattening(H, parts)
    <2>1. 1 \in 1..N /\ \A k \in 2..N : k \in 1..N /\ k # 1
      BY <1>0
    <2>2. H[1] = parts[1] /\ \A k \in 2..N : H[k] = H[k - 1] \o parts[k]
      BY <1>11, <2>1
    <2> QED
      BY <2>2, <1>9, <1>13 DEF Flattening, N
  <1> QED
    BY <1>14

-----------------------------------------------------------------------------
(* Instructions and the lists that the translator makes.                   *)

\* An instruction is nothing but what its operator makes of its parts.
Plain(i) ==
    /\ i.op = "label"     => i = Label(i.label)
    /\ i.op = "jmp"       => i = Jmp(i.dst)
    /\ i.op = "jmpcond"   => i = JmpCondInstr(i.dst, i.cond)
    /\ i.op = "pushscope" => i = PushScope(i.size) /\ i.size \in Nat
    /\ i.op = "popscope"  => i = PopScope(i.size) /\ i.size \in Nat
    /\ i.op = "declare"   => i = Declare(i.var)
    /\ i.op = "move"      => i = MoveInstr(i.dst, i.src)
    /\ i.op = "print"     => i = PrintInstr(i.expr)
    /\ i.op = "read"      => i = [op |-> "read", dst |-> i.dst]

\* Those that the labels and the scopes of a list depend on.
Marks == {"label", "jmp", "jmpcond", "pushscope", "popscope", "declare"}

IsCode(c) == IsList(c) /\ \A n \in 1..Len(c) : Plain(c[n])

LEMMA SourceCode ==
    ASSUME NEW code \in SourceCodes
    PROVE  /\ IsCode(code) /\ Scoped(code) /\ Resolved(code)
           /\ \A n \in 1..Len(code) : code[n] \in SourceInstrs
  <1>1. code \in Seq(SourceInstrs) /\ Scoped(code) /\ Resolved(code)
    BY SourcesAssumption
  <1>2. IsList(code)
    BY <1>1 DEF IsList
  <1>3. \A n \in 1..Len(code) : code[n] \in SourceInstrs
    BY <1>1
  <1>4. \A i \in SourceInstrs : Plain(i)
    BY InstrsAssumption DEF Plain
  <1> QED
    BY <1>1, <1>2, <1>3, <1>4 DEF IsCode

LEMMA SourceLists ==
    ASSUME source \in Sources
    PROVE  /\ \A f \in DOMAIN source : source[f] \in SourceCodes
           /\ \A f \in Functions : f \in DOMAIN source /\ source[f] \in SourceCodes
                                     /\ IsFunction(source[f])
           /\ "main" \in DOMAIN source /\ NoPath \notin DOMAIN source
  <1>1. \A f \in DOMAIN source : source[f] \in SourceCodes
    BY DEF SourceCodes
  <1> QED
    BY <1>1, SourcesAssumption DEF Functions

-----------------------------------------------------------------------------
(* The code that replaces a call.                                          *)

LEMMA OneLong ==
    ASSUME NEW x
    PROVE  IsList(<<x>>) /\ Len(<<x>>) = 1 /\ <<x>>[1] = x
  <1>1. <<x>> \in Seq({x})
    OBVIOUS
  <1> QED
    BY <1>1 DEF IsList

LEMMA TwoLong ==
    ASSUME NEW x, NEW y
    PROVE  IsList(<<x, y>>) /\ Len(<<x, y>>) = 2 /\ <<x, y>>[1] = x /\ <<x, y>>[2] = y
  <1>1. <<x, y>> \in Seq({x, y})
    OBVIOUS
  <1> QED
    BY <1>1 DEF IsList

\* Each instruction becomes one, and a return becomes two.
LEMMA ReplacementFacts ==
    ASSUME source \in Sources, NEW f \in Functions, NEW n \in 1..Len(source[f])
    PROVE  LET r == Replacement(f, n)
               i == source[f][n]
           IN  /\ IsList(r) /\ Plain(r[1])
               /\ \/ Len(r) = 1
                  \/ Len(r) = 2 /\ r[2] = Jmp(EndLabel(f)) /\ i.op \notin Marks
               /\ i.op \in {"label", "jmp", "jmpcond", "declare"} => r[1] = i
               /\ i.op = "pushscope" => r[1] = PushScope(0)
               /\ i.op = "popscope"  => r[1] = PopScope(0)
               /\ i.op \notin Marks  => r[1].op \notin Marks
  <1> DEFINE i == source[f][n]
             r == Replacement(f, n)
             a == MoveInstr(VarExpr(RetVal(f)), i.expr)
             b == MoveInstr(i.dst, VarExpr(ArgName(f, (n - 4) \div 2)))
  <1>1. Plain(i)
    BY SourceLists, SourceCode DEF IsCode
  <1>2. r = CASE i.op = "return" -> <<a, Jmp(EndLabel(f))>>
              [] IsParam(i) /\ n < FirstNode(source[f]) -> <<b>>
              [] OTHER -> <<Copy(i)>>
    BY DEF Replacement
  <1>3. /\ a.op = "move" /\ Plain(a) /\ b.op = "move" /\ Plain(b)
    BY DEF MoveInstr, Plain
  <1>4. "move" \notin Marks /\ "return" \notin Marks
    BY DEF Marks
  <1>5. /\ i.op \in {"label", "jmp", "jmpcond", "declare"} => Copy(i) = i
        /\ i.op = "pushscope" => Copy(i) = PushScope(0)
        /\ i.op = "popscope" => Copy(i) = PopScope(0)
        /\ i.op \notin Marks => Copy(i) = i
        /\ Plain(Copy(i))
    BY <1>1 DEF Copy, Plain, Marks, PushScope, PopScope
  <1> HIDE DEF i, r, a, b
  <1>6. CASE i.op = "return"
    <2>1. r = <<a, Jmp(EndLabel(f))>>
      BY <1>2, <1>6 DEF IsParam
    <2>2. IsList(r) /\ Len(r) = 2 /\ r[1] = a /\ r[2] = Jmp(EndLabel(f))
      BY <2>1, TwoLong
    <2> QED
      BY <2>2, <1>3, <1>4, <1>6 DEF i, r, Marks
  <1>7. CASE i.op # "return" /\ IsParam(i) /\ n < FirstNode(source[f])
    <2>1. r = <<b>> /\ i.op = "move"
      BY <1>2, <1>7 DEF IsParam
    <2>2. IsList(r) /\ Len(r) = 1 /\ r[1] = b
      BY <2>1, OneLong
    <2> QED
      BY <2>1, <2>2, <1>3, <1>4 DEF i, r, Marks
  <1>8. CASE i.op # "return" /\ ~ (IsParam(i) /\ n < FirstNode(source[f]))
    <2>1. r = <<Copy(i)>>
      BY <1>2, <1>8
    <2>2. IsList(r) /\ Len(r) = 1 /\ r[1] = Copy(i)
      BY <2>1, OneLong
    <2> QED
      BY <2>2, <1>5 DEF i, r, Marks
  <1> QED
    BY <1>6, <1>7, <1>8

\* SMT does not see this of a length.
LEMMA OneOrTwo ==
    ASSUME NEW n, n = 1 \/ n = 2
    PROVE  n \in Nat /\ 1 \in 1..n /\ n <= 2
  OBVIOUS

LEMMA TwoMore ==
    ASSUME NEW j \in Nat, NEW k \in Nat, NEW n \in Nat, n <= 2, j > k + 1, j <= k + n
    PROVE  j = k + 2 /\ n = 2
  OBVIOUS

\* Where in R the code for one more instruction of the function starts.
Starts(pos, j) == j = 1 \/ pos[j - 1] # pos[j]

\* R is what the instructions of f up to the one at last become; R[j] comes
\* from the one at pos[j].
Traced(R, pos, f, last) ==
    /\ IsList(R) /\ Len(R) > 0
    /\ pos \in [1..Len(R) -> 2..last] /\ pos[1] = 2 /\ pos[Len(R)] = last
    /\ \A j \in 2..Len(R) : pos[j] \in {pos[j - 1], pos[j - 1] + 1}
    /\ \A j \in 1..Len(R) :
          R[j] = IF Starts(pos, j) THEN Replacement(f, pos[j])[1] ELSE Jmp(EndLabel(f))

LEMMA TracedOn ==
    ASSUME source \in Sources, NEW f \in Functions, NEW last \in Nat, 2 <= last,
           last + 1 \in 1..Len(source[f]), NEW R, NEW pos, Traced(R, pos, f, last)
    PROVE  \E new : Traced(R \o Replacement(f, last + 1), new, f, last + 1)
  <1> DEFINE r == Replacement(f, last + 1)
             L == Len(R)
             T == R \o r
             new == [j \in 1..Len(T) |-> IF j <= L THEN pos[j] ELSE last + 1]
  <1>0. IsList(r) /\ (Len(r) = 1 \/ Len(r) = 2)
    BY ReplacementFacts
  <1>1. IsList(r) /\ Len(r) \in 1..2 /\ (Len(r) = 2 => r[2] = Jmp(EndLabel(f)))
    <2>1. Len(r) = 2 => r[2] = Jmp(EndLabel(f))
      BY ReplacementFacts
    <2>2. Len(r) \in 1..2
      BY <1>0
    <2> QED
      BY <1>0, <2>1, <2>2
  <1>2. /\ IsList(R) /\ L \in Nat /\ L > 0 /\ pos \in [1..L -> 2..last] /\ pos[1] = 2 /\ pos[L] = last
        /\ \A j \in 2..L : pos[j] \in {pos[j - 1], pos[j - 1] + 1}
        /\ \A j \in 1..L :
              R[j] = IF Starts(pos, j) THEN Replacement(f, pos[j])[1] ELSE Jmp(EndLabel(f))
    BY ListFacts DEF Traced
  <1>3. /\ IsList(T) /\ Len(T) = L + Len(r)
        /\ \A j \in 1..L : T[j] = R[j]
        /\ \A j \in 1..Len(r) : T[L + j] = r[j]
    BY <1>1, <1>2, Joined
  <1> HIDE DEF T, L, r
  <1>a. Len(r) \in Nat /\ 1 \in 1..Len(r) /\ Len(r) <= 2
    BY <1>0, OneOrTwo
  <1>4. /\ new \in [1..Len(T) -> 2..(last + 1)]
        /\ \A j \in 1..L : new[j] = pos[j]
        /\ \A j \in (L + 1)..Len(T) : new[j] = last + 1
        /\ Len(T) > L /\ Len(T) \in Nat
    BY <1>1, <1>2, <1>3
  <1> HIDE DEF new
  <1>5. new[1] = 2 /\ new[Len(T)] = last + 1
    <2>1. 1 \in 1..L /\ Len(T) \in (L + 1)..Len(T)
      BY <1>2, <1>4
    <2> QED
      BY <2>1, <1>2, <1>4
  <1>6. \A j \in 2..Len(T) : new[j] \in {new[j - 1], new[j - 1] + 1}
    <2> SUFFICES ASSUME NEW j \in 2..Len(T) PROVE new[j] \in {new[j - 1], new[j - 1] + 1}
      OBVIOUS
    <2>1. CASE j <= L
      <3>1. j \in 2..L /\ j \in 1..L /\ j - 1 \in 1..L
        BY <2>1, <1>2, <1>4
      <3> QED
        BY <3>1, <1>2, <1>4
    <2>2. CASE j = L + 1
      <3>1. L \in 1..L /\ j - 1 = L /\ j \in (L + 1)..Len(T)
        BY <2>2, <1>2, <1>4
      <3> QED
        BY <3>1, <1>2, <1>4
    <2>3. CASE j > L + 1
      <3>1. j \in (L + 1)..Len(T) /\ j - 1 \in (L + 1)..Len(T)
        BY <2>3, <1>2, <1>4
      <3> QED
        BY <3>1, <1>4
    <2> QED
      BY <2>1, <2>2, <2>3, <1>2, <1>4
  <1>7. ASSUME NEW j \in 1..Len(T)
        PROVE  T[j] = IF Starts(new, j) THEN Replacement(f, new[j])[1] ELSE Jmp(EndLabel(f))
    <2>1. CASE j <= L
      <3>1. j \in 1..L /\ (j # 1 => j - 1 \in 1..L)
        BY <2>1, <1>2, <1>4
      <3>2. Starts(new, j) <=> Starts(pos, j)
        BY <3>1, <1>4 DEF Starts
      <3> QED
        BY <3>1, <3>2, <1>2, <1>3, <1>4
    <2>2. CASE j = L + 1
      <3>1. L \in 1..L /\ j - 1 = L /\ j \in (L + 1)..Len(T) /\ last # last + 1
        BY <2>2, <1>2, <1>4
      <3>2. Starts(new, j) /\ new[j] = last + 1
        BY <3>1, <1>2, <1>4 DEF Starts
      <3>3. 1 \in 1..Len(r)
        BY <1>a
      <3>4. T[j] = r[1]
        BY <2>2, <3>3, <1>3
      <3> QED
        BY <3>2, <3>4 DEF r
    <2>3. CASE j > L + 1
      <3>1. j = L + 2 /\ Len(r) = 2 /\ j # 1 /\ j \in (L + 1)..Len(T) /\ j - 1 \in (L + 1)..Len(T)
        <4>1. L \in Nat /\ L > 0 /\ Len(r) \in Nat /\ Len(r) <= 2 /\ Len(T) = L + Len(r) /\ j \in Nat /\ j <= Len(T)
          BY <1>a, <1>2, <1>3
        <4>2. j = L + 2 /\ Len(r) = 2
          <5>1. j <= L + Len(r)
            BY <4>1
          <5> QED
            BY <2>3, <4>1, <5>1, TwoMore
        <4> QED
          BY <4>1, <4>2
      <3>2. ~ Starts(new, j)
        BY <3>1, <1>4 DEF Starts
      <3>3. T[j] = r[2]
        <4>1. 2 \in 1..Len(r)
          BY <3>1
        <4> QED
          BY <3>1, <4>1, <1>3
      <3> QED
        BY <3>1, <3>2, <3>3, <1>1
    <2> QED
      BY <2>1, <2>2, <2>3, <1>2, <1>4
  <1>8. Traced(T, new, f, last + 1)
    BY <1>2, <1>3, <1>4, <1>5, <1>6, <1>7 DEF Traced
  <1> QED
    BY <1>8 DEF T, r

\* The same of all of the code that replaces a call: the end label, which no
\* instruction has become, comes before the PopScope.
Replacing(R, pos, f) ==
    LET len == Len(source[f])
    IN  /\ IsList(R) /\ Len(R) >= 3
        /\ pos \in [1..Len(R) -> 2..len] /\ pos[1] = 2 /\ pos[Len(R)] = len
        /\ \A j \in 2..Len(R) : pos[j] \in {pos[j - 1], pos[j - 1] + 1}
        /\ \A j \in 1..Len(R) : j # Len(R) - 1 =>
              R[j] = IF Starts(pos, j) THEN Replacement(f, pos[j])[1] ELSE Jmp(EndLabel(f))
        /\ R[Len(R) - 1] = Label(EndLabel(f)) /\ ~ Starts(pos, Len(R) - 1)

LEMMA ReplacementTraced ==
    ASSUME source \in Sources, NEW f \in Functions
    PROVE  \E pos : Replacing(ReplacementCode(f), pos, f)
  <1> DEFINE len == Len(source[f])
             parts == [n \in 1..(len - 1) |-> Replacement(f, n + 1)]
             front == SubSeq(parts, 1, len - 2)
  <1>1. len \in Nat /\ len >= 3 /\ source[f][len].op = "popscope"
    <2>1. IsFunction(source[f]) /\ source[f] \in SourceCodes
      BY SourceLists
    <2>2. IsList(source[f])
      BY <2>1, SourceCode DEF IsCode
    <2> QED
      BY <2>1, <2>2, ListFacts DEF IsFunction
  <1> HIDE DEF len
  <1>2. \A n \in 1..(len - 1) : n + 1 \in 1..len /\ IsList(parts[n]) /\ parts[n] = Replacement(f, n + 1)
    <2>1. ASSUME NEW n \in 1..(len - 1) PROVE n + 1 \in 1..len /\ IsList(Replacement(f, n + 1))
      <3>1. n + 1 \in 1..len
        BY <1>1
      <3> QED
        BY <3>1, ReplacementFacts DEF len
    <2> QED
      BY <2>1
  <1>3. IsList(parts) /\ Len(parts) = len - 1
    BY <1>1, Made
  <1>4. /\ IsList(front) /\ Len(front) = len - 2 /\ Len(front) > 0
        /\ \A n \in 1..(len - 2) : front[n] = Replacement(f, n + 1) /\ IsList(front[n])
    <2>1. 1 \in Nat /\ len - 2 \in Nat /\ 1 <= 1 /\ 1 <= (len - 2) + 1 /\ len - 2 <= len - 1
      BY <1>1
    <2> HIDE DEF parts
    <2>2. /\ IsList(front) /\ Len(front) = ((len - 2) - 1) + 1
          /\ \A i \in 1..(((len - 2) - 1) + 1) : front[i] = parts[(1 + i) - 1]
      BY <1>3, <2>1, Cut
    <2> HIDE DEF front
    <2>3. \A i \in 1..(len - 2) : (1 + i) - 1 = i /\ i \in 1..(((len - 2) - 1) + 1) /\ i \in 1..(len - 1)
      BY <1>1
    <2> QED
      BY <1>1, <1>2, <2>2, <2>3
  <1> HIDE DEF front
  <1>5. PICK F : Flattening(F, front)
    BY <1>4, Flattened
  <1>6. \A k \in 1..(len - 2) : \E pos : Traced(F[k], pos, f, k + 1)
    <2> DEFINE P == {k \in 1..(len - 2) : \E pos : Traced(F[k], pos, f, k + 1)}
    <2>1. ASSUME NEW k \in 1..(len - 2), \A m \in 1..(k - 1) : m \in P PROVE k \in P
      <3>1. CASE k = 1
        <4> DEFINE r == Replacement(f, 2)
                   pos == [j \in 1..Len(r) |-> 2]
        <4>1. F[1] = r
          <5>1. 1 \in 1..(len - 2) /\ 1 + 1 = 2
            BY <1>1
          <5>2. F[1] = front[1]
            BY <1>5 DEF Flattening
          <5> QED
            BY <5>1, <5>2, <1>4
        <4>2. IsList(r) /\ (Len(r) = 1 \/ Len(r) = 2) /\ (Len(r) = 2 => r[2] = Jmp(EndLabel(f)))
          <5>1. 2 \in 1..Len(source[f])
            BY <1>1 DEF len
          <5> QED
            BY <5>1, ReplacementFacts
        <4> HIDE DEF r
        <4>a. Len(r) \in Nat /\ 1 \in 1..Len(r) /\ Len(r) <= 2
          BY <4>2, OneOrTwo
        <4>3. /\ pos \in [1..Len(r) -> 2..2] /\ pos[1] = 2 /\ pos[Len(r)] = 2
              /\ \A j \in 1..Len(r) : pos[j] = 2 /\ (Starts(pos, j) <=> j = 1)
          BY <4>a DEF Starts
        <4> HIDE DEF pos
        <4>4. \A j \in 2..Len(r) : pos[j] \in {pos[j - 1], pos[j - 1] + 1}
          BY <4>2, <4>3
        <4>5. \A j \in 1..Len(r) : j = 1 \/ j = 2
          BY <4>a
        <4>6. Traced(r, pos, f, 2)
          BY SMTT(40), <4>2, <4>3, <4>4, <4>5 DEF Traced, r
        <4> QED
          BY <3>1, <4>1, <4>6
      <3>2. CASE k # 1
        <4>1. /\ k - 1 \in 1..(k - 1) /\ k \in 2..(len - 2) /\ (k - 1) + 1 = k /\ k \in Nat /\ 2 <= k
              /\ k + 1 \in 1..Len(source[f])
          BY <3>2, <1>1 DEF len
        <4>2. PICK pos : Traced(F[k - 1], pos, f, k)
          BY <2>1, <4>1
        <4>3. F[k] = F[k - 1] \o Replacement(f, k + 1)
          BY <4>1, <1>4, <1>5 DEF Flattening
        <4> QED
          BY <4>1, <4>2, <4>3, TracedOn
      <3> QED
        BY <3>1, <3>2
    <2>2. 1 \in Nat /\ len - 2 \in Nat
      BY <1>1
    <2>3. \A k \in 1..(len - 2) : k \in P
      <3> HIDE DEF P
      <3> QED
        BY ZenonT(60), <2>1, <2>2, AllBelow
    <2> QED
      BY <2>3
  <1> DEFINE A == F[len - 2]
             e == <<Label(EndLabel(f))>>
             r == Replacement(f, len)
             R == ReplacementCode(f)
  <1>7. PICK pos : Traced(A, pos, f, len - 1)
    <2>1. len - 2 \in 1..(len - 2) /\ (len - 2) + 1 = len - 1
      BY <1>1
    <2> QED
      BY <2>1, <1>6
  <1>8. R = (A \o e) \o r
    <2>1. FlattenSeq(front) = A
      BY <1>4, <1>5 DEF Flattening
    <2>2. len - 1 \in 1..(len - 1) /\ (len - 1) + 1 = len
      BY <1>1
    <2>3. parts[len - 1] = r
      BY <2>2
    <2> QED
      BY <2>1, <2>3 DEF ReplacementCode, len, front
  <1>9. IsList(r) /\ Len(r) = 1 /\ r[1] = Replacement(f, len)[1]
    <2>1. len \in 1..Len(source[f])
      BY <1>1 DEF len
    <2> QED
      BY <2>1, <1>1, ReplacementFacts DEF len, Marks
  <1> HIDE DEF A, r, R, e
  <1>10. IsList(e) /\ Len(e) = 1 /\ e[1] = Label(EndLabel(f))
    BY OneLong DEF e
  <1>11. /\ IsList(A) /\ Len(A) \in Nat /\ Len(A) > 0
         /\ pos \in [1..Len(A) -> 2..(len - 1)] /\ pos[1] = 2 /\ pos[Len(A)] = len - 1
         /\ \A j \in 2..Len(A) : pos[j] \in {pos[j - 1], pos[j - 1] + 1}
         /\ \A j \in 1..Len(A) :
               A[j] = IF Starts(pos, j) THEN Replacement(f, pos[j])[1] ELSE Jmp(EndLabel(f))
    BY <1>7, ListFacts DEF Traced
  <1> DEFINE L == Len(A)
             new == [j \in 1..(L + 2) |-> IF j <= L THEN pos[j] ELSE IF j = L + 1 THEN len - 1 ELSE len]
  <1>12. /\ IsList(R) /\ Len(R) = L + 2 /\ \A j \in 1..L : R[j] = A[j]
         /\ R[L + 1] = Label(EndLabel(f)) /\ R[L + 2] = Replacement(f, len)[1]
    <2> DEFINE B == A \o e
    <2>0. IsList(A) /\ IsList(e)
      BY <1>10, <1>11
    <2>1. /\ IsList(B) /\ Len(B) = Len(A) + 1 /\ \A j \in 1..Len(A) : B[j] = A[j]
          /\ \A j \in 1..1 : B[Len(A) + j] = e[j]
      <3>1. /\ IsList(B) /\ Len(B) = Len(A) + Len(e) /\ \A j \in 1..Len(A) : B[j] = A[j]
            /\ \A j \in 1..Len(e) : B[Len(A) + j] = e[j]
        BY ONLY <2>0, Joined
      <3> QED
        BY <3>1, <1>10
    <2> HIDE DEF B
    <2>2. /\ IsList(B \o r) /\ Len(B \o r) = Len(B) + 1 /\ \A j \in 1..Len(B) : (B \o r)[j] = B[j]
          /\ \A j \in 1..1 : (B \o r)[Len(B) + j] = r[j]
      <3>1. IsList(B) /\ IsList(r)
        BY <2>1, <1>9
      <3>2. /\ IsList(B \o r) /\ Len(B \o r) = Len(B) + Len(r) /\ \A j \in 1..Len(B) : (B \o r)[j] = B[j]
            /\ \A j \in 1..Len(r) : (B \o r)[Len(B) + j] = r[j]
        BY ONLY <3>1, Joined
      <3> QED
        BY <3>2, <1>9
    <2>3. R = B \o r
      BY <1>8 DEF B
    <2>4. /\ IsList(R) /\ Len(R) = Len(B) + 1 /\ \A j \in 1..Len(B) : R[j] = B[j]
          /\ R[Len(B) + 1] = r[1]
      BY <2>2, <2>3
    <2> HIDE DEF L
    <2>5. L \in Nat /\ Len(B) = L + 1
      BY <2>1, <1>11 DEF L
    <2>6. \A j \in 1..L : j \in 1..Len(B)
      BY <2>5
    <2>7. L + 1 \in 1..Len(B) /\ (L + 1) + 1 = L + 2 /\ B[L + 1] = e[1]
      BY <2>1, <2>5 DEF L
    <2> QED
      BY <2>1, <2>4, <2>5, <2>6, <2>7, <1>9, <1>10 DEF L
  <1>13. L \in Nat /\ L > 0
    BY <1>11
  <1>14. \A j \in 1..L : A[j] = IF Starts(pos, j) THEN Replacement(f, pos[j])[1] ELSE Jmp(EndLabel(f))
    BY <1>11
  <1>15. pos \in [1..L -> 2..(len - 1)] /\ pos[1] = 2 /\ pos[L] = len - 1
    BY <1>11
  <1>16. \A j \in 2..L : pos[j] \in {pos[j - 1], pos[j - 1] + 1}
    BY <1>11
  <1> HIDE DEF L
  <1>17. /\ new \in [1..(L + 2) -> 2..len] /\ \A j \in 1..L : new[j] = pos[j]
         /\ new[L + 1] = len - 1 /\ new[L + 2] = len
    BY <1>1, <1>13, <1>15
  <1> HIDE DEF new
  <1>18. \A j \in 2..(L + 2) : new[j] \in {new[j - 1], new[j - 1] + 1}
    <2> SUFFICES ASSUME NEW j \in 2..(L + 2) PROVE new[j] \in {new[j - 1], new[j - 1] + 1}
      OBVIOUS
    <2>1. CASE j <= L
      <3>1. j \in 2..L /\ j \in 1..L /\ j - 1 \in 1..L
        BY <2>1, <1>13
      <3> QED
        BY <3>1, <1>16, <1>17
    <2>2. CASE j = L + 1
      <3>1. L \in 1..L /\ j - 1 = L
        BY <2>2, <1>13
      <3> QED
        BY <2>2, <3>1, <1>15, <1>17
    <2>3. CASE j = L + 2
      <3>1. j - 1 = L + 1 /\ len = (len - 1) + 1
        BY <2>3, <1>1, <1>13
      <3> QED
        BY <2>3, <3>1, <1>17
    <2> QED
      BY <2>1, <2>2, <2>3, <1>13
  <1>19. \A j \in 1..L : Starts(new, j) <=> Starts(pos, j)
    <2> SUFFICES ASSUME NEW j \in 1..L PROVE Starts(new, j) <=> Starts(pos, j)
      OBVIOUS
    <2>1. j # 1 => j - 1 \in 1..L
      BY <1>13
    <2> QED
      BY <2>1, <1>17 DEF Starts
  <1>20. ~ Starts(new, L + 1) /\ Starts(new, L + 2)
    <2>1. (L + 1) - 1 = L /\ (L + 2) - 1 = L + 1 /\ L \in 1..L /\ len # len - 1 /\ L + 1 # 1
      BY <1>1, <1>13
    <2>2. new[L] = len - 1
      BY <2>1, <1>15, <1>17
    <2> QED
      BY <2>1, <2>2, <1>17 DEF Starts
  <1>21. \A j \in 1..(L + 2) : j \in 1..L \/ j = L + 1 \/ j = L + 2
    BY <1>13
  <1>22. (L + 2) - 1 = L + 1 /\ L + 2 >= 3 /\ 1 \in 1..L
    BY <1>13
  <1>23. ASSUME NEW j \in 1..(L + 2), j # L + 1
         PROVE  R[j] = IF Starts(new, j) THEN Replacement(f, new[j])[1] ELSE Jmp(EndLabel(f))
    <2>1. CASE j \in 1..L
      BY <2>1, <1>12, <1>14, <1>17, <1>19
    <2>2. CASE j = L + 2
      BY <2>2, <1>12, <1>17, <1>20
    <2> QED
      BY <2>1, <2>2, <1>21, <1>23
  <1>24. Replacing(R, new, f)
    BY <1>12, <1>15, <1>17, <1>18, <1>20, <1>22, <1>23 DEF Replacing, len
  <1> QED
    BY <1>24 DEF R

\* Every instruction of f but its label starts one place of the code, in order.
LEMMA ReplacingPlaces ==
    ASSUME NEW f, NEW R, NEW pos, Replacing(R, pos, f), Len(source[f]) \in Nat
    PROVE  /\ \A j, k \in 1..Len(R) : j <= k => pos[j] <= pos[k]
           /\ \A j, k \in 1..Len(R) : Starts(pos, j) /\ Starts(pos, k) /\ pos[j] = pos[k] => j = k
           /\ \A n \in 2..Len(source[f]) : \E j \in 1..Len(R) : Starts(pos, j) /\ pos[j] = n
  <1> DEFINE len == Len(source[f])
             L == Len(R)
  <1>1. /\ L \in Nat /\ L >= 3 /\ pos \in [1..L -> 2..len] /\ pos[1] = 2 /\ pos[L] = len
        /\ \A j \in 2..L : pos[j] \in {pos[j - 1], pos[j - 1] + 1}
    BY ListFacts DEF Replacing
  <1>2. len \in Nat
    OBVIOUS
  <1> HIDE DEF L, len
  <1>3. ASSUME NEW j \in 1..L, NEW k \in 1..L, j <= k PROVE pos[j] <= pos[k]
    <2> DEFINE P == {n \in j..L : pos[j] <= pos[n]}
    <2>1. ASSUME NEW n \in j..L, \A m \in j..(n - 1) : m \in P PROVE n \in P
      <3>0. pos[j] \in Nat /\ n \in 1..L
        BY <1>1, <1>2
      <3>1. CASE n = j
        BY <3>0, <3>1
      <3>2. CASE n # j
        <4>1. n - 1 \in j..(n - 1) /\ n \in 2..L /\ n - 1 \in 1..L
          BY <3>2, <1>1
        <4>2. pos[j] <= pos[n - 1] /\ pos[n] \in {pos[n - 1], pos[n - 1] + 1}
          BY <4>1, <2>1, <1>1
        <4>3. pos[n - 1] \in Nat
          BY <4>1, <1>1, <1>2
        <4>4. pos[j] <= pos[n]
          BY <3>0, <4>2, <4>3
        <4> QED
          BY <4>4
      <3> QED
        BY <3>1, <3>2
    <2>2. j \in Nat /\ L \in Nat /\ k \in j..L
      BY <1>1, <1>3
    <2>3. \A n \in j..L : n \in P
      <3> HIDE DEF P
      <3> QED
        BY <2>1, <2>2, AllBelow
    <2> QED
      BY <2>2, <2>3
  <1>4. ASSUME NEW j \in 1..L, NEW k \in 1..L, Starts(pos, k), pos[j] = pos[k], j < k PROVE FALSE
    <2>1. k - 1 \in 1..L /\ j <= k - 1 /\ k - 1 <= k /\ k # 1
      BY <1>1, <1>4
    <2>2. pos[j] <= pos[k - 1] /\ pos[k - 1] <= pos[k]
      BY <2>1, <1>3
    <2>3. pos[j] \in Nat /\ pos[k] \in Nat /\ pos[k - 1] \in Nat
      BY <2>1, <1>1, <1>2
    <2>4. pos[k - 1] # pos[k]
      BY <2>1, <1>4 DEF Starts
    <2> QED
      BY <2>2, <2>3, <2>4, <1>4
  <1>5. ASSUME NEW j \in 1..L, NEW k \in 1..L, Starts(pos, j), Starts(pos, k), pos[j] = pos[k]
        PROVE  j = k
    <2>1. j < k \/ k < j \/ j = k
      BY <1>1
    <2> QED
      BY <2>1, <1>4, <1>5
  <1>6. ASSUME NEW n \in 2..len PROVE \E j \in 1..L : Starts(pos, j) /\ pos[j] = n
    <2> DEFINE S == {j \in 1..L : pos[j] >= n}
    <2>1. L \in S /\ S \subseteq Nat
      BY <1>1, <1>2
    <2>2. PICK j \in S : \A k \in S : j <= k
      <3> HIDE DEF S
      <3> QED
        BY <2>1, LeastOf
    <2>3. j \in 1..L /\ pos[j] >= n /\ pos[j] \in Nat
      BY <1>1, <1>2
    <2>4. CASE j = 1
      <3>1. pos[j] = n
        BY <2>3, <2>4, <1>1, <1>2
      <3> QED
        BY <2>3, <2>4, <3>1 DEF Starts
    <2>5. CASE j # 1
      <3>1. j - 1 \in 1..L /\ j \in 2..L
        BY <2>3, <2>5, <1>1
      <3>2. pos[j - 1] \in Nat
        BY <3>1, <1>1, <1>2
      <3>3. pos[j - 1] < n
        <4>1. ~ (j <= j - 1)
          BY <2>3
        <4>2. j - 1 \notin S
          BY <2>2, <4>1
        <4> QED
          BY <3>1, <3>2, <4>2, <1>2
      <3>4. pos[j] \in {pos[j - 1], pos[j - 1] + 1}
        BY <3>1, <1>1
      <3>5. pos[j] = n /\ pos[j - 1] # pos[j]
        BY <2>3, <3>2, <3>3, <3>4, <1>2
      <3> QED
        BY <2>3, <3>5 DEF Starts
    <2> QED
      BY <2>4, <2>5
  <1> QED
    BY <1>3, <1>5, <1>6 DEF L, len

\* The source instruction from which R[j] comes is one of the function's.
LEMMA ReplacingParts ==
    ASSUME source \in Sources, NEW f \in Functions, NEW R, NEW pos, Replacing(R, pos, f),
           NEW j \in 1..Len(R)
    PROVE  LET i == source[f][pos[j]]
           IN  /\ pos[j] \in 2..Len(source[f]) /\ Plain(R[j]) /\ Plain(i)
               /\ Starts(pos, j) =>
                     /\ j # Len(R) - 1
                     /\ i.op \in {"label", "jmp", "jmpcond", "declare"} => R[j] = i
                     /\ i.op = "pushscope" => R[j] = PushScope(0)
                     /\ i.op = "popscope"  => R[j] = PopScope(0)
                     /\ i.op \notin Marks  => R[j].op \notin Marks
               /\ ~ Starts(pos, j) =>
                     R[j] = IF j = Len(R) - 1 THEN Label(EndLabel(f)) ELSE Jmp(EndLabel(f))
  <1> DEFINE n == pos[j]
             i == source[f][n]
  <1>0. source[f] \in SourceCodes
    BY SourceLists
  <1>1. n \in 2..Len(source[f]) /\ n \in 1..Len(source[f]) /\ Plain(i)
    <2>1. IsCode(source[f]) /\ Len(source[f]) \in Nat
      BY <1>0, SourceCode, ListFacts DEF IsCode
    <2>2. n \in 2..Len(source[f])
      BY DEF Replacing
    <2>3. n \in 1..Len(source[f])
      BY <2>1, <2>2
    <2> QED
      BY <2>1, <2>2, <2>3 DEF IsCode
  <1>2. Plain(Jmp(EndLabel(f))) /\ Plain(Label(EndLabel(f)))
    BY DEF Plain, Jmp, Label
  <1>3. CASE Starts(pos, j)
    <2>1. j # Len(R) - 1 /\ R[j] = Replacement(f, n)[1]
      BY <1>3 DEF Replacing
    <2> QED
      BY <2>1, <1>1, <1>3, ReplacementFacts
  <1>4. CASE ~ Starts(pos, j)
    <2>1. R[j] = IF j = Len(R) - 1 THEN Label(EndLabel(f)) ELSE Jmp(EndLabel(f))
      BY <1>4 DEF Replacing
    <2> QED
      BY <2>1, <1>1, <1>2, <1>4
  <1> QED
    BY <1>3, <1>4

\* No label twice, and every jump has its label, if the function's jumps have.
LEMMA ReplacementLabels ==
    ASSUME source \in Sources, NEW f \in Functions
    PROVE  LET R == ReplacementCode(f)
           IN  /\ IsCode(R) /\ Len(R) \in Nat /\ Len(R) >= 3
               /\ \A j, k \in 1..Len(R) :
                     IsLabel(R[j]) /\ IsLabel(R[k]) /\ R[j].label = R[k].label => j = k
               /\ \A j \in 1..Len(R) : IsJump(R[j]) => \E k \in 1..Len(R) : R[k] = Label(R[j].dst)
  <1> DEFINE R == ReplacementCode(f)
             code == source[f]
  <1>1. PICK pos : Replacing(R, pos, f)
    BY ReplacementTraced
  <1>2. code \in SourceCodes /\ IsFunction(code) /\ f \in DOMAIN source
    BY SourceLists
  <1>3. /\ Len(code) \in Nat /\ Resolved(code) /\ IsCode(code)
        /\ \A n \in 1..Len(code) : code[n] \in SourceInstrs
    BY <1>2, SourceCode, ListFacts DEF IsCode
  <1> HIDE DEF R
  <1>4. IsList(R) /\ Len(R) \in Nat /\ Len(R) >= 3
    BY <1>1, ListFacts DEF Replacing
  <1>5. IsCode(R)
    BY <1>1, <1>4, ReplacingParts DEF IsCode
  <1>6. ASSUME NEW j \in 1..Len(R), IsLabel(R[j])
        PROVE  IF j = Len(R) - 1 THEN R[j].label.kind = "end" /\ ~ Starts(pos, j)
               ELSE /\ Starts(pos, j) /\ R[j] = code[pos[j]] /\ R[j] = Label(R[j].label)
                    /\ R[j].label.kind # "end" /\ pos[j] \in 1..Len(code)
    <2>1. CASE j = Len(R) - 1
      <3>1. R[j] = Label(EndLabel(f)) /\ ~ Starts(pos, j)
        BY <1>1, <2>1 DEF Replacing
      <3> QED
        BY <2>1, <3>1 DEF Label, EndLabel
    <2>2. CASE j # Len(R) - 1
      <3>1. Starts(pos, j)
        <4>1. Jmp(EndLabel(f)).op # "label"
          BY DEF Jmp
        <4> QED
          BY <1>1, <2>2, <4>1, <1>6, ReplacingParts DEF IsLabel
      <3>2. /\ pos[j] \in 1..Len(code)
            /\ code[pos[j]].op = "label" /\ R[j] = code[pos[j]]
        <4>1. pos[j] \in 2..Len(code)
          BY <1>1, ReplacingParts
        <4>2. /\ code[pos[j]].op \in Marks => code[pos[j]].op \in {"label", "jmp", "jmpcond", "declare"}
                                              \/ code[pos[j]].op = "pushscope"
                                              \/ code[pos[j]].op = "popscope"
          BY DEF Marks
        <4>3. "label" \in Marks
          BY DEF Marks
        <4>4. R[j].op = "label"
          BY <1>6 DEF IsLabel
        <4>5. PushScope(0).op # "label" /\ PopScope(0).op # "label"
          BY DEF PushScope, PopScope
        <4>6. R[j] = code[pos[j]]
          BY <1>1, <3>1, <4>2, <4>3, <4>4, <4>5, ReplacingParts
        <4> QED
          BY <1>3, <4>1, <4>4, <4>6
      <3>3. code[pos[j]] \in SourceInstrs
        BY <1>3, <3>2
      <3>4. code[pos[j]] = Label(code[pos[j]].label) /\ code[pos[j]].label.kind \notin {"end", "ins"}
        BY <3>2, <3>3, InstrsAssumption
      <3> QED
        BY <2>2, <3>1, <3>2, <3>4
    <2> QED
      BY <2>1, <2>2
  <1>7. ASSUME NEW j \in 1..Len(R), NEW k \in 1..Len(R),
               IsLabel(R[j]), IsLabel(R[k]), R[j].label = R[k].label
        PROVE  j = k
    <2>1. CASE j = Len(R) - 1 \/ k = Len(R) - 1
      BY <2>1, <1>6, <1>7
    <2>2. CASE j # Len(R) - 1 /\ k # Len(R) - 1
      <3>1. /\ Starts(pos, j) /\ R[j] = code[pos[j]] /\ pos[j] \in 1..Len(code)
            /\ Starts(pos, k) /\ R[k] = code[pos[k]] /\ pos[k] \in 1..Len(code)
            /\ R[j] = R[k]
        BY <2>2, <1>6, <1>7
      <3>2. pos[j] = pos[k]
        <4>1. \A m, n \in 1..Len(code) : IsLabel(code[m]) /\ code[m] = code[n] => m = n
          <5>1. \A g \in DOMAIN source : \A m, n \in 1..Len(source[g]) :
                    IsLabel(source[g][m]) /\ source[g][m] = source[g][n] => m = n
            BY SourcesAssumption
          <5> QED
            BY <5>1, <1>2
        <4>2. IsLabel(code[pos[j]]) /\ code[pos[j]] = code[pos[k]]
          BY <3>1, <1>7
        <4> HIDE DEF code
        <4> QED
          BY <3>1, <4>1, <4>2
      <3> QED
        BY <3>1, <3>2, <1>1, <1>3, ReplacingPlaces
    <2> QED
      BY <2>1, <2>2
  <1>8. ASSUME NEW j \in 1..Len(R), IsJump(R[j])
        PROVE  \E k \in 1..Len(R) : R[k] = Label(R[j].dst)
    <2>1. CASE ~ Starts(pos, j)
      <3>1. Label(EndLabel(f)).op = "label" /\ Jmp(EndLabel(f)).dst = EndLabel(f)
        BY DEF Label, Jmp
      <3>2. R[j] = Jmp(EndLabel(f))
        BY <1>1, <2>1, <3>1, <1>8, ReplacingParts DEF IsJump
      <3>3. Len(R) - 1 \in 1..Len(R) /\ R[Len(R) - 1] = Label(EndLabel(f))
        BY <1>1, <1>4 DEF Replacing
      <3> QED
        BY <3>1, <3>2, <3>3
    <2>2. CASE Starts(pos, j)
      <3>1. pos[j] \in 2..Len(code)
        BY <1>1, ReplacingParts
      <3>2. code[pos[j]].op \in {"jmp", "jmpcond"} /\ R[j] = code[pos[j]]
        <4>2. /\ code[pos[j]].op \in Marks => code[pos[j]].op \in {"label", "jmp", "jmpcond", "declare"}
                                              \/ code[pos[j]].op = "pushscope"
                                              \/ code[pos[j]].op = "popscope"
          BY DEF Marks
        <4>3. "jmp" \in Marks /\ "jmpcond" \in Marks
          BY DEF Marks
        <4>4. R[j].op \in {"jmp", "jmpcond"}
          BY <1>8 DEF IsJump
        <4>5. PushScope(0).op = "pushscope" /\ PopScope(0).op = "popscope"
          BY DEF PushScope, PopScope
        <4> QED
          BY <1>1, <2>2, <4>2, <4>3, <4>4, <4>5, ReplacingParts
      <3>3. pos[j] \in 1..Len(code) /\ IsJump(code[pos[j]])
        BY <3>1, <3>2, <1>3 DEF IsJump
      <3>4. PICK n \in 1..Len(code) : code[n] = Label(code[pos[j]].dst)
        BY <3>3, <1>3 DEF Resolved
      <3>5. n # 1
        BY <3>3, <3>4, <1>2 DEF IsFunction
      <3>6. n \in 2..Len(code)
        BY <3>4, <3>5, <1>3
      <3>7. PICK k \in 1..Len(R) : Starts(pos, k) /\ pos[k] = n
        BY <3>6, <1>1, <1>3, ReplacingPlaces
      <3>8. code[n].op = "label"
        BY <3>4 DEF Label
      <3>9. R[k] = code[n]
        BY <3>7, <3>8, <1>1, ReplacingParts
      <3> QED
        BY <3>2, <3>4, <3>9
    <2> QED
      BY <2>1, <2>2
  <1> QED
    BY <1>4, <1>5, <1>7, <1>8 DEF R

-----------------------------------------------------------------------------
(* What is put in for a call.                                              *)

LEMMA FixedFacts ==
    ASSUME NEW f, NEW c, NEW i, Plain(i)
    PROVE  LET x == FixLabels(f, c, i)
           IN  /\ Plain(x) /\ x.op = i.op
               /\ i.op = "label" => x = Label(InlinedLabel(f, c, i.label))
               /\ i.op \in {"jmp", "jmpcond"} => x.dst = InlinedLabel(f, c, i.dst)
               /\ i.op \in {"pushscope", "popscope"} => x = i
  <1> DEFINE x == FixLabels(f, c, i)
             fix(e) == FixLabelsExpr(f, c, e)
  <1> USE DEF FixLabel
  <1>1. CASE i.op = "label"
    <2>1. x = [i EXCEPT !.label = InlinedLabel(f, c, @)] /\ i = Label(i.label)
      BY <1>1 DEF FixLabels, Plain
    <2>2. x = Label(InlinedLabel(f, c, i.label))
      BY <2>1 DEF Label
    <2> QED
      BY <1>1, <2>2 DEF Plain, Label
  <1>2. CASE i.op = "jmp"
    <2>1. x = [i EXCEPT !.dst = InlinedLabel(f, c, @)] /\ i = Jmp(i.dst)
      BY <1>2 DEF FixLabels, Plain
    <2>2. x = Jmp(InlinedLabel(f, c, i.dst))
      BY <2>1 DEF Jmp
    <2> QED
      BY <1>2, <2>2 DEF Plain, Jmp
  <1>3. CASE i.op = "jmpcond"
    <2>0. PICK a, b : i = JmpCondInstr(a, b)
      BY <1>3 DEF Plain
    <2>1. i.dst = a /\ i.cond = b
      BY <2>0 DEF JmpCondInstr
    <2>2. x = [i EXCEPT !.dst = InlinedLabel(f, c, @), !.cond = fix(@)]
      BY <1>3 DEF FixLabels
    <2> DEFINE l == InlinedLabel(f, c, a)
               y == fix(b)
    <2>3. x = [i EXCEPT !.dst = l, !.cond = y]
      BY <2>0, <2>1, <2>2
    <2> HIDE DEF l, y
    <2>4. x = JmpCondInstr(l, y)
      <3>1. [i EXCEPT !.dst = l] = JmpCondInstr(l, b)
        BY <2>0 DEF JmpCondInstr
      <3>2. [JmpCondInstr(l, b) EXCEPT !.cond = y] = JmpCondInstr(l, y)
        BY DEF JmpCondInstr
      <3>3. [i EXCEPT !.dst = l, !.cond = y] = [[i EXCEPT !.dst = l] EXCEPT !.cond = y]
        OBVIOUS
      <3> HIDE DEF x
      <3> QED
        BY <2>3, <3>1, <3>2, <3>3
    <2> QED
      BY <1>3, <2>1, <2>4 DEF Plain, JmpCondInstr, l
  <1>4. CASE i.op = "move"
    <2>0. PICK a, b : i = MoveInstr(a, b)
      BY <1>4 DEF Plain
    <2>1. i.dst = a /\ i.src = b
      BY <2>0 DEF MoveInstr
    <2>2. x = [i EXCEPT !.src = fix(@), !.dst = fix(@)]
      BY <1>4 DEF FixLabels
    <2> DEFINE d == fix(a)
               y == fix(b)
    <2>3. x = [i EXCEPT !.src = y, !.dst = d]
      BY <2>0, <2>1, <2>2
    <2> HIDE DEF d, y
    <2>4. x = MoveInstr(d, y)
      <3>1. [i EXCEPT !.src = y] = MoveInstr(a, y)
        BY <2>0 DEF MoveInstr
      <3>2. [MoveInstr(a, y) EXCEPT !.dst = d] = MoveInstr(d, y)
        BY DEF MoveInstr
      <3>3. [i EXCEPT !.src = y, !.dst = d] = [[i EXCEPT !.src = y] EXCEPT !.dst = d]
        OBVIOUS
      <3> HIDE DEF x
      <3> QED
        BY <2>3, <3>1, <3>2, <3>3
    <2> QED
      BY <1>4, <2>4 DEF Plain, MoveInstr
  <1>5. CASE i.op = "print"
    <2>1. x = [i EXCEPT !.expr = fix(@)] /\ i = PrintInstr(i.expr)
      BY <1>5 DEF FixLabels, Plain
    <2> HIDE DEF fix
    <2>2. x = PrintInstr(fix(i.expr))
      BY <2>1 DEF PrintInstr
    <2> QED
      BY <1>5, <2>2 DEF Plain, PrintInstr
  <1>6. CASE i.op = "read"
    <2>1. x = [i EXCEPT !.dst = fix(@)] /\ i = [op |-> "read", dst |-> i.dst]
      BY <1>6 DEF FixLabels, Plain
    <2> HIDE DEF fix
    <2>2. x = [op |-> "read", dst |-> fix(i.dst)]
      BY <2>1
    <2> QED
      BY <1>6, <2>2 DEF Plain
  <1>7. CASE i.op = "declare"
    <2>1. x = [i EXCEPT !.var = InlinedName(f, c, @)] /\ i = Declare(i.var)
      BY <1>7 DEF FixLabels, Plain
    <2>2. x = Declare(InlinedName(f, c, i.var))
      BY <2>1 DEF Declare
    <2> QED
      BY <1>7, <2>2 DEF Plain, Declare
  <1>8. CASE i.op \notin {"label", "jmp", "jmpcond", "move", "print", "read", "declare"}
    <2>1. x = i
      BY <1>8 DEF FixLabels
    <2> QED
      BY <2>1, <1>8
  <1> QED
    BY <1>1, <1>2, <1>3, <1>4, <1>5, <1>6, <1>7, <1>8

LEMMA InlinedFacts ==
    ASSUME NEW f, NEW dst, IsCode(replacementCode[f])
    PROVE  LET R == replacementCode[f]
               N == InlinedCode(f, dst)
           IN  /\ IsCode(N) /\ Len(N) = Len(R)
               /\ \A n \in 1..Len(R) :
                     /\ N[n].op = R[n].op
                     /\ R[n].op = "label" => N[n] = Label(InlinedLabel(f, inlineCount, R[n].label))
                     /\ R[n].op \in {"jmp", "jmpcond"} =>
                           N[n].dst = InlinedLabel(f, inlineCount, R[n].dst)
                     /\ R[n].op \in {"pushscope", "popscope"} => N[n] = R[n]
  <1> DEFINE R == replacementCode[f]
             N == InlinedCode(f, dst)
             fixed(n) == FixLabels(f, inlineCount, R[n])
  <1>1. IsList(R) /\ Len(R) \in Nat /\ \A n \in 1..Len(R) : Plain(R[n])
    BY ListFacts DEF IsCode
  <1>2. N = [n \in 1..Len(R) |-> IF fixed(n).op = "move" /\ fixed(n).dst = VarExpr(RetVal(f))
                                 THEN [fixed(n) EXCEPT !.dst = dst] ELSE fixed(n)]
    BY DEF InlinedCode
  <1> HIDE DEF N, R
  <1>3. ASSUME NEW n \in 1..Len(R)
        PROVE  /\ Plain(N[n]) /\ N[n].op = R[n].op
               /\ R[n].op = "label" => N[n] = Label(InlinedLabel(f, inlineCount, R[n].label))
               /\ R[n].op \in {"jmp", "jmpcond"} =>
                     N[n].dst = InlinedLabel(f, inlineCount, R[n].dst)
               /\ R[n].op \in {"pushscope", "popscope"} => N[n] = R[n]
    <2> DEFINE x == fixed(n)
    <2>1. /\ Plain(x) /\ x.op = R[n].op
          /\ R[n].op = "label" => x = Label(InlinedLabel(f, inlineCount, R[n].label))
          /\ R[n].op \in {"jmp", "jmpcond"} => x.dst = InlinedLabel(f, inlineCount, R[n].dst)
          /\ R[n].op \in {"pushscope", "popscope"} => x = R[n]
      BY <1>1, FixedFacts
    <2>2. N[n] = IF x.op = "move" /\ x.dst = VarExpr(RetVal(f)) THEN [x EXCEPT !.dst = dst] ELSE x
      BY <1>2
    <2> HIDE DEF x
    <2>3. CASE x.op = "move" /\ x.dst = VarExpr(RetVal(f))
      <3>1. x = MoveInstr(x.dst, x.src)
        BY <2>1, <2>3 DEF Plain
      <3>2. N[n] = MoveInstr(dst, x.src)
        BY <2>2, <2>3, <3>1 DEF MoveInstr
      <3>3. N[n].op = "move" /\ Plain(N[n])
        BY <3>2 DEF MoveInstr, Plain
      <3> QED
        BY <2>1, <2>3, <3>3
    <2>4. CASE ~ (x.op = "move" /\ x.dst = VarExpr(RetVal(f)))
      <3>1. N[n] = x
        BY <2>2, <2>4
      <3> QED
        BY <2>1, <3>1
    <2> QED
      BY <2>3, <2>4
  <1>4. IsList(N) /\ Len(N) = Len(R)
    <2>1. DOMAIN N = 1..Len(R) /\ N = [n \in 1..Len(R) |-> N[n]]
      BY <1>2
    <2> QED
      BY <2>1, <1>1, Made
  <1> QED
    BY <1>3, <1>4 DEF IsCode, N, R

\* A Declare and a Move for each argument.
LEMMA ArgumentFacts ==
    ASSUME NEW call, NEW args, args = call.args, IsList(args)
    PROVE  LET A == ArgumentCode(call)
           IN  /\ IsCode(A) /\ Len(A) = 2 * Len(args) /\ Len(args) \in Nat
               /\ \A n \in 1..Len(args) : A[2 * n - 1].op = "declare" /\ A[2 * n].op = "move"
  <1> DEFINE K == Len(args)
             part(n) == <<Declare(ArgName(call.func, n - 1)),
                          MoveInstr(VarExpr(ArgName(call.func, n - 1)), args[n])>>
             parts == [n \in 1..K |-> part(n)]
             A == ArgumentCode(call)
  <1>0. K \in Nat
    BY ListFacts
  <1>1. \A n \in 1..K : parts[n] = part(n)
    OBVIOUS
  <1>2. IsList(parts) /\ Len(parts) = K
    BY <1>0, Made
  <1>3. A = FlattenSeq(parts)
    BY DEF ArgumentCode
  <1> HIDE DEF parts, A, K
  <1>4. ASSUME NEW n \in 1..K
        PROVE  /\ IsList(parts[n]) /\ Len(parts[n]) = 2
               /\ Plain(parts[n][1]) /\ parts[n][1].op = "declare"
               /\ Plain(parts[n][2]) /\ parts[n][2].op = "move"
    <2> DEFINE x == Declare(ArgName(call.func, n - 1))
               y == MoveInstr(VarExpr(ArgName(call.func, n - 1)), args[n])
    <2>1. x.op = "declare" /\ Plain(x) /\ y.op = "move" /\ Plain(y)
      BY DEF Plain, Declare, MoveInstr
    <2>2. parts[n] = <<x, y>>
      BY <1>1
    <2> HIDE DEF x, y
    <2> QED
      BY <2>1, <2>2, TwoLong
  <1>5. CASE K = 0
    <2>1. A = parts
      BY <1>2, <1>3, <1>5 DEF FlattenSeq
    <2>2. Len(A) = 0 /\ IsList(A)
      BY <2>1, <1>2, <1>5
    <2> QED
      BY <2>2, <1>5 DEF IsCode, A, K
  <1>6. CASE K # 0
    <2>1. Len(parts) > 0
      BY <1>0, <1>2, <1>6
    <2>2. PICK F : Flattening(F, parts)
      BY <1>2, <1>4, <2>1, Flattened
    <2> DEFINE Good(k, s) == /\ IsCode(s) /\ Len(s) = 2 * k
                             /\ \A n \in 1..k : s[2 * n - 1].op = "declare" /\ s[2 * n].op = "move"
               P == {k \in 1..K : Good(k, F[k])}
    <2>3. ASSUME NEW k \in 1..K, \A m \in 1..(k - 1) : m \in P PROVE k \in P
      <3>1. CASE k = 1
        <4> DEFINE s == parts[1]
        <4>1. F[1] = s /\ 1 \in 1..K
          BY <2>2, <1>0, <1>6 DEF Flattening
        <4>2. IsList(s) /\ Len(s) = 2 /\ Plain(s[1]) /\ Plain(s[2]) /\ s[1].op = "declare" /\ s[2].op = "move"
          BY <4>1, <1>4
        <4> HIDE DEF s
        <4>3. \A n \in 1..Len(s) : n = 1 \/ n = 2
          BY <4>2
        <4>4. IsCode(s)
          BY <4>2, <4>3 DEF IsCode
        <4>5. Good(1, s)
          <5>1. \A n \in 1..1 : 2 * n - 1 = 1 /\ 2 * n = 2
            OBVIOUS
          <5> QED
            BY <4>2, <4>4, <5>1
        <4> QED
          BY <3>1, <4>1, <4>5
      <3>2. CASE k # 1
        <4> DEFINE s == F[k - 1]
                   p == parts[k]
        <4>1. k - 1 \in 1..(k - 1) /\ k \in 2..K
          BY <3>2, <1>0
        <4>2. /\ IsCode(s) /\ Len(s) = 2 * (k - 1)
              /\ \A n \in 1..(k - 1) : s[2 * n - 1].op = "declare" /\ s[2 * n].op = "move"
          BY <4>1, <2>3
        <4>3. F[k] = s \o p
          BY <4>1, <2>2, <1>2 DEF Flattening
        <4>4. IsList(p) /\ Len(p) = 2 /\ Plain(p[1]) /\ Plain(p[2]) /\ p[1].op = "declare" /\ p[2].op = "move"
          BY <1>4
        <4> DEFINE t == s \o p
        <4> HIDE DEF s, p
        <4>5. /\ IsList(t) /\ Len(t) = Len(s) + Len(p)
              /\ \A i \in 1..Len(s) : t[i] = s[i]
              /\ \A i \in 1..Len(p) : t[Len(s) + i] = p[i]
          <5>1. IsList(s) /\ IsList(p)
            BY <4>2, <4>4 DEF IsCode
          <5> QED
            BY ONLY <5>1, Joined
        <4> HIDE DEF t
        <4>6. Len(t) = 2 * k /\ Len(s) = 2 * k - 2 /\ Len(s) \in Nat /\ k \in Nat
          BY <4>1, <4>2, <4>4, <4>5
        <4>7. t[2 * k - 1] = p[1] /\ t[2 * k] = p[2]
          <5>1. 1 \in 1..Len(p) /\ 2 \in 1..Len(p)
            BY <4>4
          <5>2. t[Len(s) + 1] = p[1] /\ t[Len(s) + 2] = p[2]
            BY <4>5, <5>1
          <5>3. Len(s) + 1 = 2 * k - 1 /\ Len(s) + 2 = 2 * k
            BY <4>6
          <5> QED
            BY <5>2, <5>3
        <4>8. ASSUME NEW i \in 1..Len(t) PROVE Plain(t[i])
          <5>1. CASE i <= Len(s)
            <6>1. i \in 1..Len(s)
              BY <4>6, <5>1
            <6> QED
              BY <6>1, <4>2, <4>5 DEF IsCode
          <5>2. CASE i > Len(s)
            <6>1. i = 2 * k - 1 \/ i = 2 * k
              BY <4>6, <5>2
            <6> QED
              BY <6>1, <4>4, <4>7
          <5> QED
            BY <5>1, <5>2, <4>6
        <4>9. ASSUME NEW n \in 1..k PROVE t[2 * n - 1].op = "declare" /\ t[2 * n].op = "move"
          <5>1. CASE n = k
            BY <5>1, <4>4, <4>7
          <5>2. CASE n # k
            <6>1. n \in 1..(k - 1) /\ 2 * n - 1 \in 1..Len(s) /\ 2 * n \in 1..Len(s)
              BY <5>2, <4>6
            <6> QED
              BY <6>1, <4>2, <4>5
          <5> QED
            BY <5>1, <5>2
        <4>10. Good(k, t)
          BY <4>5, <4>6, <4>8, <4>9 DEF IsCode
        <4> QED
          BY <4>3, <4>10 DEF t
      <3> QED
        BY <3>1, <3>2
    <2>4. K \in 1..K /\ 1 \in Nat
      BY <1>0, <1>6
    <2>5. K \in P
      <3>1. \A k \in 1..K : k \in P
        <4> HIDE DEF P
        <4> QED
          BY <2>3, <2>4, <1>0, AllBelow
      <3> QED
        BY <3>1, <2>4
    <2>6. A = F[K]
      BY <2>2, <1>2, <1>3 DEF Flattening
    <2>7. Good(K, A)
      BY <2>5, <2>6
    <2> QED
      BY <2>7, <1>0 DEF A, K
  <1> QED
    BY <1>5, <1>6

-----------------------------------------------------------------------------
(* The layout of a list.                                                   *)

LEMMA PushStep ==
    ASSUME NEW s \in Seq(VarScopes)
    PROVE  LET t == PushVarScope(s)
           IN  /\ t \in Seq(VarScopes) /\ Len(t) = Len(s) + 1 /\ NextSlot(s) \in Nat
               /\ \A k \in 1..Len(s) : t[k] = s[k]
               /\ t[Len(s) + 1].next = NextSlot(s)
  <1>1. NextSlot(s) \in Nat
    <2>1. CASE s = <<>>
      BY <2>1 DEF NextSlot
    <2>2. CASE s # <<>>
      <3>1. s[Len(s)] \in VarScopes
        BY <2>2
      <3>2. s[Len(s)].next \in Nat
        BY <3>1 DEF VarScopes
      <3> QED
        BY <2>2, <3>2 DEF NextSlot
    <2> QED
      BY <2>1, <2>2
  <1> DEFINE new == [vars |-> [n \in Names |-> NoVariable], next |-> NextSlot(s)]
  <1>2. new \in VarScopes /\ new.next = NextSlot(s)
    BY <1>1 DEF VarScopes, Variables, NoVariable, NoType
  <1>3. PushVarScope(s) = Append(s, new)
    BY DEF PushVarScope
  <1> HIDE DEF new
  <1> QED
    BY <1>1, <1>2, <1>3

LEMMA PopStep ==
    ASSUME NEW s \in Seq(VarScopes)
    PROVE  LET t == PopVarScope(s)
           IN  /\ t \in Seq(VarScopes)
               /\ Len(s) > 0 => Len(t) = Len(s) - 1 /\ \A k \in 1..Len(t) : t[k] = s[k]
  <1> DEFINE t == SubSeq(s, 1, Len(s) - 1)
  <1>1. t = PopVarScope(s)
    BY DEF PopVarScope
  <1>2. t \in Seq(VarScopes)
    OBVIOUS
  <1>3. CASE Len(s) > 0
    <2>0. Len(s) \in Nat
      OBVIOUS
    <2>1. Len(s) - 1 \in Nat /\ Len(t) = Len(s) - 1
      <3>1. IsList(s) /\ 1 \in Nat /\ Len(s) - 1 \in Nat /\ 1 <= (Len(s) - 1) + 1 /\ Len(s) - 1 <= Len(s)
        BY <2>0, <1>3 DEF IsList
      <3> DEFINE n == Len(s) - 1
      <3>2. IsList(s) /\ n \in Nat /\ 1 <= n + 1 /\ n <= Len(s) /\ t = SubSeq(s, 1, n)
        BY <3>1
      <3> HIDE DEF n
      <3>3. Len(SubSeq(s, 1, n)) = (n - 1) + 1
        <4> HIDE DEF t
        <4>1. 1 \in Nat /\ 1 <= 1
          OBVIOUS
        <4> QED
          BY <3>2, <4>1, Cut
      <3>4. Len(t) = n
        BY <3>2, <3>3
      <3> QED
        BY <3>1, <3>4 DEF n
    <2>2. \A k \in 1..(Len(s) - 1) : t[k] = s[k]
      BY <1>3
    <2> QED
      BY <1>1, <1>2, <2>1, <2>2
  <1> QED
    BY <1>1, <1>2, <1>3

LEMMA DeclareStep ==
    ASSUME NEW s \in Seq(VarScopes), NEW name
    PROVE  LET t == CreateVariable(s, name, 1)
           IN  /\ t \in Seq(VarScopes) /\ Len(t) = Len(s)
               /\ \A k \in 1..Len(s) : t[k].next = IF k = Len(s) THEN s[k].next + 1 ELSE s[k].next
  <1> DEFINE t == CreateVariable(s, name, 1)
             v == Variable(NextSlot(s), 1)
             new(sc) == [vars |-> [sc.vars EXCEPT ![name] = v], next |-> sc.next + 1]
  <1>1. v \in Variables
    <2>1. NextSlot(s) \in Nat
      BY PushStep
    <2> QED
      BY <2>1 DEF Variable, Variables
  <1>2. t = [s EXCEPT ![Len(s)] = new(s[Len(s)])]
    BY DEF CreateVariable
  <1> HIDE DEF v, t
  <1>3. ASSUME NEW sc \in VarScopes PROVE new(sc) \in VarScopes /\ new(sc).next = sc.next + 1
    <2>1. sc.vars \in [Names -> Variables] /\ sc.next \in Nat
      BY DEF VarScopes
    <2>2. [sc.vars EXCEPT ![name] = v] \in [Names -> Variables]
      BY <1>1, <2>1
    <2> QED
      BY <2>1, <2>2 DEF VarScopes
  <1> DEFINE y == new(s[Len(s)])
  <1>4. IsList(s) /\ t = Put(s, Len(s), y)
    BY <1>2 DEF IsList, Put
  <1> HIDE DEF y
  <1>5. /\ IsList(t) /\ Len(t) = Len(s)
        /\ \A k \in 1..Len(s) : t[k] = IF k = Len(s) THEN y ELSE s[k]
    BY <1>4, Replaced
  <1>6. \A k \in 1..Len(s) : k = Len(s) => y \in VarScopes /\ y.next = s[k].next + 1
    <2> HIDE DEF new
    <2> SUFFICES ASSUME NEW k \in 1..Len(s), k = Len(s)
                 PROVE  y \in VarScopes /\ y.next = s[k].next + 1
      OBVIOUS
    <2>1. s[k] \in VarScopes
      OBVIOUS
    <2>2. y = new(s[k])
      BY DEF y
    <2> QED
      BY <2>1, <2>2, <1>3
  <1>7. \A k \in 1..Len(s) : s[k] \in VarScopes
    OBVIOUS
  <1>8. \A k \in 1..Len(s) : t[k] \in VarScopes
                             /\ t[k].next = IF k = Len(s) THEN s[k].next + 1 ELSE s[k].next
    BY <1>5, <1>6, <1>7
  <1>9. t \in Seq(VarScopes)
    BY <1>5, <1>8, ListOf
  <1> QED
    BY <1>5, <1>8, <1>9 DEF t

LEMMA InitialiseStep ==
    ASSUME NEW s \in Seq(VarScopes), NEW name
    PROVE  LET t == InitialiseVariable(s, name)
           IN  /\ t \in Seq(VarScopes) /\ Len(t) = Len(s)
               /\ \A k \in 1..Len(s) : t[k].next = s[k].next
  <1> DEFINE t == InitialiseVariable(s, name)
             g == Greatest(Declaring(s, name))
             set(sc) == [sc EXCEPT !.vars[name].initialised = TRUE]
  <1>1. CASE Declaring(s, name) = {}
    BY <1>1 DEF InitialiseVariable
  <1>2. CASE Declaring(s, name) # {}
    <2>1. t = [s EXCEPT ![g] = set(s[g])]
      BY <1>2 DEF InitialiseVariable
    <2>2. ASSUME NEW sc \in VarScopes PROVE set(sc) \in VarScopes /\ set(sc).next = sc.next
      <3> DEFINE new == [sc.vars[name] EXCEPT !.initialised = TRUE]
                 vars == [sc.vars EXCEPT ![name] = new]
      <3>1. sc = [vars |-> sc.vars, next |-> sc.next] /\ sc.vars \in [Names -> Variables] /\ sc.next \in Nat
        BY DEF VarScopes
      <3>2. name \in Names => new \in Variables
        BY <3>1 DEF Variables
      <3>3. vars \in [Names -> Variables]
        <4> HIDE DEF new
        <4> QED
          BY <3>1, <3>2
      <3>4. set(sc) = [sc EXCEPT !.vars = vars]
        OBVIOUS
      <3> HIDE DEF vars, set
      <3>5. set(sc) = [vars |-> vars, next |-> sc.next]
        BY <3>1, <3>4
      <3> QED
        BY <3>1, <3>3, <3>5 DEF VarScopes
    <2> DEFINE y == set(s[g])
    <2>3. IsList(s) /\ t = Put(s, g, y)
      BY <2>1 DEF IsList, Put
    <2> HIDE DEF y, t
    <2>4. /\ IsList(t) /\ Len(t) = Len(s)
          /\ \A k \in 1..Len(s) : t[k] = IF k = g THEN y ELSE s[k]
      BY <2>3, Replaced
    <2>5. \A k \in 1..Len(s) : k = g => y \in VarScopes /\ y.next = s[k].next
      <3> HIDE DEF set, g
      <3> SUFFICES ASSUME NEW k \in 1..Len(s), k = g
                   PROVE  y \in VarScopes /\ y.next = s[k].next
        OBVIOUS
      <3>1. s[k] \in VarScopes
        OBVIOUS
      <3>2. y = set(s[k])
        BY DEF y
      <3> QED
        BY <3>1, <3>2, <2>2
    <2>6. \A k \in 1..Len(s) : s[k] \in VarScopes
      OBVIOUS
    <2>7. \A k \in 1..Len(s) : t[k] \in VarScopes /\ t[k].next = s[k].next
      BY <2>4, <2>5, <2>6
    <2>8. t \in Seq(VarScopes)
      BY <2>4, <2>7, ListOf
    <2> QED
      BY <2>4, <2>7, <2>8 DEF t
  <1> QED
    BY <1>1, <1>2

\* What an instruction does to the scopes, as far as their slots go.
Stepped(s, t, i) ==
    /\ i.op = "pushscope" =>
          /\ Len(t) = Len(s) + 1 /\ t[Len(s) + 1].next = NextSlot(s)
          /\ \A k \in 1..Len(s) : t[k].next = s[k].next
    /\ i.op = "popscope" /\ Len(s) > 0 =>
          Len(t) = Len(s) - 1 /\ \A k \in 1..Len(t) : t[k].next = s[k].next
    /\ i.op = "declare" =>
          /\ Len(t) = Len(s)
          /\ \A k \in 1..Len(s) :
                t[k].next = IF k = Len(s) THEN s[k].next + 1 ELSE s[k].next
    /\ i.op \notin {"pushscope", "popscope", "declare"} =>
          Len(t) = Len(s) /\ \A k \in 1..Len(s) : t[k].next = s[k].next

LEMMA ScopeStep ==
    ASSUME NEW s \in Seq(VarScopes), NEW i
    PROVE  ScopesPast(s, i) \in Seq(VarScopes) /\ Stepped(s, ScopesPast(s, i), i)
  <1> DEFINE t == ScopesPast(s, i)
  <1>1. CASE i.op = "pushscope"
    <2>1. t = PushVarScope(s)
      BY <1>1 DEF ScopesPast, IsVarMove
    <2> QED
      BY <1>1, <2>1, PushStep DEF Stepped
  <1>2. CASE i.op = "popscope"
    <2>1. t = PopVarScope(s)
      BY <1>2 DEF ScopesPast, IsVarMove
    <2> HIDE DEF t
    <2>2. t \in Seq(VarScopes) /\ (Len(s) > 0 => Len(t) = Len(s) - 1 /\ \A k \in 1..Len(t) : t[k] = s[k])
      BY <2>1, PopStep
    <2>3. Len(s) > 0 => Len(t) = Len(s) - 1 /\ \A k \in 1..Len(t) : t[k].next = s[k].next
      BY <2>2
    <2> QED
      BY <1>2, <2>2, <2>3 DEF t, Stepped
  <1>3. CASE i.op = "declare"
    <2>1. t = CreateVariable(s, i.var, 1)
      BY <1>3 DEF ScopesPast, IsVarMove
    <2> QED
      BY <1>3, <2>1, DeclareStep DEF Stepped
  <1>4. CASE i.op \notin {"pushscope", "popscope", "declare"}
    <2>1. CASE IsVarMove(i)
      <3>1. t = InitialiseVariable(s, i.dst.name)
        BY <1>4, <2>1 DEF ScopesPast
      <3> QED
        BY <1>4, <3>1, InitialiseStep DEF Stepped
    <2>2. CASE ~ IsVarMove(i)
      <3>1. t = s
        BY <1>4, <2>2 DEF ScopesPast
      <3> QED
        BY <1>4, <3>1 DEF Stepped
    <2> QED
      BY <2>1, <2>2
  <1> QED
    BY <1>1, <1>2, <1>3, <1>4

LayoutSet == [scopes : Seq(VarScopes), dist : Int]

LEMMA DistanceStep ==
    ASSUME NEW d \in Int, NEW i, Plain(i)
    PROVE  /\ DistancePast(d, i) \in Int
           /\ i.op \notin {"pushscope", "popscope"} => DistancePast(d, i) = d
  <1>1. CASE i.op \in {"pushscope", "popscope"}
    <2>1. i.size \in Nat /\ RegWidth = 4
      BY <1>1 DEF Plain, RegWidth
    <2>2. i.size \div RegWidth \in Int
      BY <2>1
    <2> QED
      BY <1>1, <2>2 DEF DistancePast
  <1>2. CASE i.op \notin {"pushscope", "popscope"}
    BY <1>2 DEF DistancePast
  <1> QED
    BY <1>1, <1>2

LEMMA LayoutIn ==
    ASSUME NEW l \in LayoutSet, NEW i, Plain(i)
    PROVE  LayoutPast(l, i) \in LayoutSet
  <1>1. l.scopes \in Seq(VarScopes) /\ l.dist \in Int
    BY DEF LayoutSet
  <1>2. ScopesPast(l.scopes, i) \in Seq(VarScopes) /\ DistancePast(l.dist, i) \in Int
    BY <1>1, ScopeStep, DistanceStep
  <1> QED
    BY <1>2 DEF LayoutPast, LayoutSet

LEMMA LayoutsFollow ==
    ASSUME NEW c, IsCode(c)
    PROVE  /\ Len(c) \in Nat /\ Layouts(c)[0] = NewLayout
           /\ \A n \in 1..Len(c) : Layouts(c)[n] = LayoutPast(Layouts(c)[n - 1], c[n])
           /\ \A n \in 0..Len(c) : Layouts(c)[n] \in LayoutSet
  <1> DEFINE N == Len(c)
             V == LayoutSet
             step == [p \in (1..N) \X V |-> LayoutPast(p[2], c[p[1]])]
  <1>1. N \in Nat
    BY ListFacts DEF IsCode
  <1>2. NewLayout \in V
    <2>1. <<>> \in Seq(VarScopes)
      OBVIOUS
    <2>2. PushVarScope(<<>>) \in Seq(VarScopes)
      BY <2>1, PushStep
    <2> QED
      BY <2>2 DEF NewLayout, LayoutSet
  <1>3. step \in [(1..N) \X V -> V]
    <2>1. \A p \in (1..N) \X V : LayoutPast(p[2], c[p[1]]) \in V
      <3> SUFFICES ASSUME NEW p \in (1..N) \X V PROVE LayoutPast(p[2], c[p[1]]) \in V
        OBVIOUS
      <3>1. p[2] \in V /\ Plain(c[p[1]])
        BY DEF IsCode
      <3> QED
        BY <3>1, LayoutIn
    <2> HIDE DEF V
    <2> QED
      BY <2>1
  <1>4. \E F : Follows(F, V, NewLayout, N, step)
    <2> HIDE DEF N, V, step
    <2> QED
      BY <1>1, <1>2, <1>3, Iterated
  <1>5. PICK F : Follows(F, V, NewLayout, N, step)
    BY <1>4
  <1>6. F \in [0..N -> V] /\ F[0] = NewLayout /\ \A n \in 1..N : F[n] = step[<<n, F[n - 1]>>]
    BY <1>5 DEF Follows
  <1>7. ASSUME NEW n \in 1..N PROVE F[n] = LayoutPast(F[n - 1], c[n])
    <2>1. n - 1 \in 0..N
      BY <1>1
    <2>2. F[n - 1] \in V
      <3> HIDE DEF V, N
      <3> QED
        BY <1>6, <2>1
    <2>3. <<n, F[n - 1]>> \in (1..N) \X V
      BY <2>2
    <2> HIDE DEF V, N
    <2> QED
      BY <1>6, <2>3
  <1> HIDE DEF step, V, N
  <1>8. F = [n \in 0..N |-> IF n = 0 THEN NewLayout ELSE LET here == F[n - 1] IN LayoutPast(here, c[n])]
    <2>1. ASSUME NEW n \in 0..N
          PROVE  F[n] = IF n = 0 THEN NewLayout ELSE LayoutPast(F[n - 1], c[n])
      <3>1. n # 0 => n \in 1..N
        BY <1>1
      <3> QED
        BY <3>1, <1>6, <1>7
    <2> QED
      BY <2>1, <1>6
  <1>9. Layouts(c) = CHOOSE at :
            at = [n \in 0..N |-> IF n = 0 THEN NewLayout ELSE LET here == at[n - 1] IN LayoutPast(here, c[n])]
    BY DEF Layouts, N
  <1>10. Layouts(c) = [n \in 0..N |-> IF n = 0 THEN NewLayout
                                      ELSE LET here == Layouts(c)[n - 1] IN LayoutPast(here, c[n])]
    BY <1>8, <1>9
  <1>11. Layouts(c)[0] = NewLayout
    <2>1. 0 \in 0..N
      BY <1>1
    <2> QED
      BY <2>1, <1>10
  <1>12. ASSUME NEW n \in 1..N PROVE Layouts(c)[n] = LayoutPast(Layouts(c)[n - 1], c[n])
    <2>1. n \in 0..N /\ n # 0
      BY <1>1
    <2> QED
      BY <2>1, <1>10
  <1> DEFINE good == {n \in 0..N : Layouts(c)[n] \in V}
  <1>13. ASSUME NEW n \in 0..N, \A m \in 0..(n - 1) : m \in good PROVE n \in good
    <2>1. CASE n = 0
      BY <2>1, <1>2, <1>11
    <2>2. CASE n # 0
      <3>1. n \in 1..N /\ n - 1 \in 0..(n - 1)
        BY <1>1, <2>2
      <3>2. Layouts(c)[n - 1] \in V /\ Plain(c[n])
        BY <3>1, <1>13 DEF N, IsCode
      <3>3. LayoutPast(Layouts(c)[n - 1], c[n]) \in V
        BY <3>2, LayoutIn DEF V
      <3> QED
        BY <3>1, <3>3, <1>12
    <2> QED
      BY <2>1, <2>2
  <1>14. \A n \in 0..N : n \in good
    <2>1. 0 \in Nat
      OBVIOUS
    <2> HIDE DEF good
    <2> QED
      BY <1>1, <1>13, <2>1, AllBelow
  <1> QED
    BY <1>1, <1>11, <1>12, <1>14 DEF N, V

\* The slot that scope k hands out next, and the words of the frame.
Slot(c, n, k) == Layouts(c)[n].scopes[k].next
Dist(c, n)    == Layouts(c)[n].dist

Words(i) == i.size \div RegWidth

LEMMA LayoutTypes ==
    ASSUME NEW c, IsCode(c), NEW n \in 0..Len(c)
    PROVE  /\ DepthBehind(c, n) \in Nat /\ Dist(c, n) \in Int
           /\ \A k \in 1..DepthBehind(c, n) : Slot(c, n, k) \in Nat
           /\ DepthBehind(c, n) > 0 =>
                 NextSlot(Layouts(c)[n].scopes) = Slot(c, n, DepthBehind(c, n))
  <1> DEFINE s == Layouts(c)[n].scopes
  <1>1. Layouts(c)[n] \in LayoutSet
    BY LayoutsFollow
  <1>2. s \in Seq(VarScopes) /\ Layouts(c)[n].dist \in Int
    BY <1>1 DEF LayoutSet
  <1>3. \A k \in 1..Len(s) : s[k].next \in Nat
    <2> SUFFICES ASSUME NEW k \in 1..Len(s) PROVE s[k].next \in Nat
      OBVIOUS
    <2> HIDE DEF s
    <2>1. s[k] \in VarScopes
      BY <1>2
    <2> QED
      BY <2>1 DEF VarScopes
  <1>4. Len(s) > 0 => s # <<>>
    OBVIOUS
  <1>5. Len(s) > 0 => NextSlot(s) = s[Len(s)].next
    BY <1>4 DEF NextSlot
  <1>6. Len(s) \in Nat
    <2> HIDE DEF s
    <2> QED
      BY <1>2
  <1> QED
    BY <1>2, <1>3, <1>5, <1>6 DEF DepthBehind, Slot, Dist

LEMMA LayoutFirst ==
    ASSUME NEW c, IsCode(c)
    PROVE  DepthBehind(c, 0) = 1 /\ Slot(c, 0, 1) = 0 /\ Dist(c, 0) = 0
  <1>1. Layouts(c)[0] = NewLayout
    BY LayoutsFollow
  <1>2. <<>> \in Seq(VarScopes) /\ Len(<<>>) = 0
    OBVIOUS
  <1>3. LET t == PushVarScope(<<>>)
        IN  Len(t) = 0 + 1 /\ t[0 + 1].next = NextSlot(<<>>)
    BY <1>2, PushStep
  <1>4. NextSlot(<<>>) = 0 /\ 0 + 1 = 1
    BY DEF NextSlot
  <1>5. NewLayout.scopes = PushVarScope(<<>>) /\ NewLayout.dist = 0
    BY DEF NewLayout
  <1> QED
    BY <1>1, <1>3, <1>4, <1>5 DEF DepthBehind, Slot, Dist

LEMMA LayoutNext ==
    ASSUME NEW c, IsCode(c), NEW n \in 1..Len(c), DepthBehind(c, n - 1) > 0
    PROVE  LET d == DepthBehind(c, n - 1)
           IN  /\ c[n].op = "pushscope" =>
                     /\ DepthBehind(c, n) = d + 1 /\ Slot(c, n, d + 1) = Slot(c, n - 1, d)
                     /\ \A k \in 1..d : Slot(c, n, k) = Slot(c, n - 1, k)
                     /\ Dist(c, n) = Dist(c, n - 1) + Words(c[n])
               /\ c[n].op = "popscope" =>
                     /\ DepthBehind(c, n) = d - 1
                     /\ \A k \in 1..(d - 1) : Slot(c, n, k) = Slot(c, n - 1, k)
                     /\ Dist(c, n) = Dist(c, n - 1) - Words(c[n])
               /\ c[n].op = "declare" =>
                     /\ DepthBehind(c, n) = d
                     /\ \A k \in 1..d :
                           Slot(c, n, k) = IF k = d THEN Slot(c, n - 1, k) + 1 ELSE Slot(c, n - 1, k)
                     /\ Dist(c, n) = Dist(c, n - 1)
               /\ c[n].op \notin {"pushscope", "popscope", "declare"} =>
                     /\ DepthBehind(c, n) = d
                     /\ \A k \in 1..d : Slot(c, n, k) = Slot(c, n - 1, k)
                     /\ Dist(c, n) = Dist(c, n - 1)
  <1> DEFINE d == DepthBehind(c, n - 1)
             s == Layouts(c)[n - 1].scopes
             t == ScopesPast(s, c[n])
  <1>0. n - 1 \in 0..Len(c)
    BY LayoutsFollow
  <1>1. Layouts(c)[n] = LayoutPast(Layouts(c)[n - 1], c[n]) /\ Layouts(c)[n - 1] \in LayoutSet
    BY <1>0, LayoutsFollow
  <1>2. s \in Seq(VarScopes) /\ d = Len(s)
    BY <1>1 DEF LayoutSet, DepthBehind
  <1>3. Layouts(c)[n].scopes = t /\ Layouts(c)[n].dist = DistancePast(Dist(c, n - 1), c[n])
    BY <1>1 DEF LayoutPast, Dist
  <1>4. /\ d \in Nat /\ d > 0 /\ NextSlot(s) = Slot(c, n - 1, d)
    BY <1>0, LayoutTypes
  <1>5. /\ DepthBehind(c, n) = Len(t) /\ Dist(c, n) = DistancePast(Dist(c, n - 1), c[n])
        /\ \A k : Slot(c, n, k) = t[k].next /\ Slot(c, n - 1, k) = s[k].next
    BY <1>3 DEF DepthBehind, Dist, Slot
  <1> HIDE DEF s, d
  <1>6. Stepped(s, t, c[n])
    BY <1>2, ScopeStep
  <1> HIDE DEF t
  <1>7. CASE c[n].op = "pushscope"
    <2>1. Dist(c, n) = Dist(c, n - 1) + Words(c[n])
      BY <1>5, <1>7 DEF DistancePast, Words
    <2> QED
      BY ZenonT(60), <2>1, <1>2, <1>4, <1>5, <1>6, <1>7 DEF d, Stepped
  <1>8. CASE c[n].op = "popscope"
    <2>1. Dist(c, n) = Dist(c, n - 1) - Words(c[n])
      BY <1>5, <1>8 DEF DistancePast, Words
    <2> QED
      BY <2>1, <1>2, <1>4, <1>5, <1>6, <1>8 DEF d, Stepped
  <1>9. CASE c[n].op = "declare"
    <2>1. Dist(c, n) = Dist(c, n - 1)
      BY <1>5, <1>9 DEF DistancePast
    <2> QED
      BY <2>1, <1>2, <1>4, <1>5, <1>6, <1>9 DEF d, Stepped
  <1>10. CASE c[n].op \notin {"pushscope", "popscope", "declare"}
    <2>1. Dist(c, n) = Dist(c, n - 1)
      BY <1>5, <1>10 DEF DistancePast
    <2> QED
      BY <2>1, <1>2, <1>4, <1>5, <1>6, <1>10 DEF d, Stepped
  <1> QED
    BY <1>7, <1>8, <1>9, <1>10 DEF d

\* Lists that begin alike are laid out alike up to there.
LEMMA LayoutsAgree ==
    ASSUME NEW c, NEW t, IsCode(c), IsCode(t), NEW m \in Nat, m <= Len(c), m <= Len(t),
           \A i \in 1..m : c[i] = t[i]
    PROVE  \A n \in 0..m : Layouts(c)[n] = Layouts(t)[n]
  <1> DEFINE good == {n \in 0..m : Layouts(c)[n] = Layouts(t)[n]}
  <1>0. Len(c) \in Nat /\ Len(t) \in Nat
    BY LayoutsFollow
  <1>1. ASSUME NEW n \in 0..m, \A k \in 0..(n - 1) : k \in good PROVE n \in good
    <2>1. CASE n = 0
      BY <2>1, LayoutsFollow
    <2>2. CASE n # 0
      <3>1. n \in 1..Len(c) /\ n \in 1..Len(t) /\ n \in 1..m /\ n - 1 \in 0..(n - 1)
        BY <1>0, <2>2
      <3>2. Layouts(c)[n] = LayoutPast(Layouts(c)[n - 1], c[n])
        BY <3>1, LayoutsFollow
      <3>3. Layouts(t)[n] = LayoutPast(Layouts(t)[n - 1], t[n])
        BY <3>1, LayoutsFollow
      <3>4. Layouts(c)[n - 1] = Layouts(t)[n - 1] /\ c[n] = t[n]
        BY <3>1, <1>1
      <3> QED
        BY <3>2, <3>3, <3>4
    <2> QED
      BY <2>1, <2>2
  <1>2. \A n \in 0..m : n \in good
    <2>1. 0 \in Nat
      OBVIOUS
    <2> HIDE DEF good
    <2> QED
      BY <1>1, <2>1, AllBelow
  <1> QED
    BY <1>2

\* A list of the translator's is always inside of a scope.
LEMMA ScopedDepth ==
    ASSUME NEW c, IsCode(c), Scoped(c)
    PROVE  \A n \in 0..Len(c) : DepthBehind(c, n) > 0
  <1> DEFINE good == {n \in 0..Len(c) : DepthBehind(c, n) > 0}
  <1>0. Len(c) \in Nat
    BY LayoutsFollow
  <1>1. ASSUME NEW n \in 0..Len(c), \A k \in 0..(n - 1) : k \in good PROVE n \in good
    <2>1. CASE n = 0
      BY <2>1, LayoutFirst
    <2>2. CASE n # 0
      <3>1. n \in 1..Len(c) /\ n - 1 \in 0..(n - 1) /\ n - 1 \in 0..Len(c)
        BY <1>0, <2>2
      <3>2. DepthBehind(c, n - 1) > 0 /\ DepthBehind(c, n - 1) \in Nat
        BY <1>1, <3>1, LayoutTypes
      <3>3. CASE c[n].op # "popscope"
        <4>1. DepthBehind(c, n) \in {DepthBehind(c, n - 1), DepthBehind(c, n - 1) + 1}
          BY <3>1, <3>2, <3>3, LayoutNext
        <4> QED
          BY <4>1, <3>2
      <3>4. CASE c[n].op = "popscope"
        <4>1. PICK m \in 1..(n - 1) : c[m] = PushScope(c[n].size) /\ SameScope(c, m, n - 1)
          BY <3>1, <3>4 DEF Scoped
        <4>2. m \in 1..Len(c) /\ m - 1 \in 0..(n - 1) /\ m - 1 \in 0..Len(c)
          BY <3>1, <1>0
        <4>3. DepthBehind(c, m - 1) > 0 /\ DepthBehind(c, m - 1) \in Nat
          BY <4>2, <1>1, LayoutTypes
        <4>4. DepthBehind(c, m) = DepthBehind(c, m - 1) + 1
          <5>1. c[m].op = "pushscope"
            BY <4>1 DEF PushScope
          <5> QED
            BY <4>2, <4>3, <5>1, LayoutNext
        <4>5. DepthBehind(c, n - 1) = DepthBehind(c, m)
          BY <4>1 DEF SameScope
        <4>6. DepthBehind(c, n) = DepthBehind(c, n - 1) - 1
          BY <3>1, <3>2, <3>4, LayoutNext
        <4> QED
          BY <4>3, <4>4, <4>5, <4>6, <3>2
      <3> QED
        BY <3>3, <3>4
    <2> QED
      BY <2>1, <2>2
  <1>2. \A n \in 0..Len(c) : n \in good
    <2>1. 0 \in Nat
      OBVIOUS
    <2> HIDE DEF good
    <2> QED
      BY <1>0, <1>1, <2>1, AllBelow
  <1> QED
    BY <1>2

-----------------------------------------------------------------------------
(* Where a walk is: in its list, which may have grown, and in the source   *)
(* it has been made from.                                                  *)

\* The instruction of the source that the walk over t is at.
Ahead(s, t, n) == (Len(s) - Len(t)) + n

\* From n on, t is what s is; and stack says which PushScopes are open there.
Walked(s, t, n, stack) ==
    /\ n \in 1..(Len(t) + 1) /\ Ahead(s, t, n) \in 1..(Len(s) + 1)
    /\ \A k \in n..Len(t) : t[k] = s[Ahead(s, t, k)]
    /\ IsList(stack) /\ Len(stack) + 1 = DepthBehind(s, Ahead(s, t, n) - 1)
    /\ \A k \in 1..Len(stack) : stack[k] \in 1..(n - 1) /\ t[stack[k]].op = "pushscope"

LEMMA WalkedHere ==
    ASSUME NEW s, NEW t, IsCode(s), IsCode(t), Scoped(s), NEW n, NEW stack,
           Walked(s, t, n, stack), n <= Len(t)
    PROVE  LET a == Ahead(s, t, n)
           IN  /\ n \in 1..Len(t) /\ a \in 1..Len(s) /\ t[n] = s[a]
               /\ n + 1 \in 1..(Len(t) + 1) /\ (n + 1) - 1 = n
               /\ Ahead(s, t, n + 1) = a + 1 /\ a + 1 \in 1..(Len(s) + 1) /\ (a + 1) - 1 = a
               /\ DepthBehind(s, a - 1) = Len(stack) + 1
               /\ Len(stack) \in Nat
  <1> DEFINE a == Ahead(s, t, n)
  <1>1. Len(s) \in Nat /\ Len(t) \in Nat
    BY LayoutsFollow
  <1>2. n \in 1..Len(t) /\ a \in 1..Len(s) /\ Ahead(s, t, n + 1) = a + 1
    BY <1>1 DEF Walked, Ahead
  <1>3. t[n] = s[a]
    <2>1. n \in n..Len(t)
      BY <1>1, <1>2
    <2> QED
      BY <2>1 DEF Walked
  <1>4. Len(stack) \in Nat /\ DepthBehind(s, a - 1) = Len(stack) + 1
    BY ListFacts DEF Walked
  <1> HIDE DEF a
  <1>5. n + 1 \in 1..(Len(t) + 1) /\ (n + 1) - 1 = n /\ a + 1 \in 1..(Len(s) + 1) /\ (a + 1) - 1 = a
    BY <1>1, <1>2
  <1> QED
    BY <1>2, <1>3, <1>4, <1>5 DEF a

LEMMA Pushed ==
    ASSUME NEW stack, IsList(stack), NEW x
    PROVE  LET p == Append(stack, x)
           IN  /\ IsList(p) /\ Len(p) = Len(stack) + 1 /\ p[Len(stack) + 1] = x
               /\ \A k \in 1..Len(stack) : p[k] = stack[k]
  <1>1. PICK V : stack \in Seq(V)
    BY DEF IsList
  <1>2. stack \in Seq(V \cup {x}) /\ x \in V \cup {x}
    BY <1>1
  <1>3. Append(stack, x) \in Seq(V \cup {x})
    BY <1>2
  <1> QED
    BY <1>2, <1>3 DEF IsList

LEMMA Popped ==
    ASSUME NEW stack, IsList(stack), Len(stack) > 0
    PROVE  LET p == Front(stack)
           IN  /\ IsList(p) /\ Len(p) = Len(stack) - 1 /\ Last(stack) = stack[Len(stack)]
               /\ \A k \in 1..(Len(stack) - 1) : p[k] = stack[k]
  <1> DEFINE m == Len(stack) - 1
             p == SubSeq(stack, 1, m)
  <1>1. Front(stack) = p /\ Last(stack) = stack[Len(stack)]
    BY DEF Front, Last
  <1>2. m \in Nat /\ 1 \in Nat /\ 1 <= 1 /\ 1 <= m + 1 /\ m <= Len(stack)
    BY ListFacts
  <1> HIDE DEF m
  <1>3. /\ IsList(p) /\ Len(p) = (m - 1) + 1
        /\ \A k \in 1..((m - 1) + 1) : p[k] = stack[(1 + k) - 1]
    BY <1>2, Cut
  <1> HIDE DEF p
  <1>4. IsList(p) /\ Len(p) = m /\ \A k \in 1..m : p[k] = stack[k]
    <2>1. (m - 1) + 1 = m /\ \A k \in 1..m : (1 + k) - 1 = k
      BY <1>2
    <2> QED
      BY <1>3, <2>1
  <1> QED
    BY <1>1, <1>4 DEF m

LEMMA WalkedOn ==
    ASSUME NEW s, NEW t, IsCode(s), IsCode(t), Scoped(s), NEW n, NEW stack,
           Walked(s, t, n, stack), n <= Len(t), t[n].op \notin {"pushscope", "popscope"}
    PROVE  Walked(s, t, n + 1, stack)
  <1> DEFINE a == Ahead(s, t, n)
  <1>1. /\ n \in 1..Len(t) /\ a \in 1..Len(s) /\ t[n] = s[a]
        /\ n + 1 \in 1..(Len(t) + 1) /\ (n + 1) - 1 = n
        /\ Ahead(s, t, n + 1) = a + 1 /\ a + 1 \in 1..(Len(s) + 1) /\ (a + 1) - 1 = a
        /\ DepthBehind(s, a - 1) = Len(stack) + 1
        /\ Len(stack) \in Nat
    BY WalkedHere
  <1> HIDE DEF a
  <1>2. DepthBehind(s, a) = Len(stack) + 1
    <2>1. DepthBehind(s, a - 1) > 0
      BY <1>1
    <2>2. s[a].op = "declare" \/ s[a].op \notin {"pushscope", "popscope", "declare"}
      BY <1>1
    <2> QED
      BY <1>1, <2>1, <2>2, LayoutNext
  <1>3. \A k \in (n + 1)..Len(t) : t[k] = s[Ahead(s, t, k)]
    BY SMTT(40), <1>1 DEF Walked
  <1>4. \A k \in 1..Len(stack) : stack[k] \in 1..n /\ t[stack[k]].op = "pushscope"
    <2>1. \A k \in 1..(n - 1) : k \in 1..n
      BY <1>1
    <2> QED
      BY <2>1 DEF Walked
  <1> QED
    BY <1>1, <1>2, <1>3, <1>4 DEF Walked

LEMMA WalkedPush ==
    ASSUME NEW s, NEW t, IsCode(s), IsCode(t), Scoped(s), NEW n, NEW stack,
           Walked(s, t, n, stack), n <= Len(t), t[n].op = "pushscope"
    PROVE  Walked(s, t, n + 1, Append(stack, n))
  <1> DEFINE a == Ahead(s, t, n)
             p == Append(stack, n)
  <1>1. /\ n \in 1..Len(t) /\ a \in 1..Len(s) /\ t[n] = s[a]
        /\ n + 1 \in 1..(Len(t) + 1) /\ (n + 1) - 1 = n
        /\ Ahead(s, t, n + 1) = a + 1 /\ a + 1 \in 1..(Len(s) + 1) /\ (a + 1) - 1 = a
        /\ DepthBehind(s, a - 1) = Len(stack) + 1
        /\ Len(stack) \in Nat
    BY WalkedHere
  <1>2. /\ IsList(p) /\ Len(p) = Len(stack) + 1 /\ p[Len(stack) + 1] = n
        /\ \A k \in 1..Len(stack) : p[k] = stack[k]
    BY Pushed DEF Walked
  <1> HIDE DEF a, p
  <1>3. DepthBehind(s, a) = Len(p) + 1
    <2>1. DepthBehind(s, a - 1) > 0
      BY <1>1
    <2> QED
      BY SMTT(40), <1>1, <1>2, <2>1, LayoutNext
  <1>4. \A k \in (n + 1)..Len(t) : t[k] = s[Ahead(s, t, k)]
    BY <1>1 DEF Walked
  <1>5. ASSUME NEW k \in 1..Len(p) PROVE p[k] \in 1..n /\ t[p[k]].op = "pushscope"
    <2> DEFINE l == Len(stack)
    <2>0. l \in Nat /\ k \in 1..(l + 1)
      BY <1>1, <1>2
    <2> HIDE DEF l
    <2>1. CASE k = l + 1
      <3>1. p[k] = n /\ n \in 1..n /\ t[n].op = "pushscope"
        BY <2>1, <1>1, <1>2 DEF l
      <3> QED
        BY <3>1
    <2>2. CASE k # l + 1
      <3>1. k \in 1..Len(stack)
        <4>1. k \in 1..l
          BY ONLY <2>0, <2>2
        <4> QED
          BY <4>1 DEF l
      <3>2. p[k] \in 1..(n - 1) /\ t[p[k]].op = "pushscope"
        BY <3>1, <1>2 DEF Walked
      <3>3. \A j \in 1..(n - 1) : j \in 1..n
        BY <1>1
      <3> QED
        BY <3>2, <3>3
    <2> QED
      BY <2>1, <2>2
  <1>6. Walked(s, t, n + 1, p)
    BY <1>1, <1>2, <1>3, <1>4, <1>5 DEF Walked
  <1> QED
    BY <1>6 DEF p

LEMMA PutCode ==
    ASSUME NEW t, IsCode(t), NEW n \in 1..Len(t), NEW x, Plain(x)
    PROVE  /\ IsCode(Put(t, n, x)) /\ Len(Put(t, n, x)) = Len(t) /\ Put(t, n, x)[n] = x
           /\ \A k \in 1..Len(t) : k # n => Put(t, n, x)[k] = t[k]
  <1>1. /\ IsList(Put(t, n, x)) /\ Len(Put(t, n, x)) = Len(t)
        /\ \A k \in 1..Len(t) : Put(t, n, x)[k] = IF k = n THEN x ELSE t[k]
    BY Replaced DEF IsCode
  <1>2. \A k \in 1..Len(t) : Plain(Put(t, n, x)[k])
    BY <1>1 DEF IsCode
  <1> QED
    BY <1>1, <1>2 DEF IsCode

\* A PopScope finds a scope open, and closes it.
LEMMA WalkedPop ==
    ASSUME NEW s, NEW t, IsCode(s), IsCode(t), Scoped(s), NEW n, NEW stack,
           Walked(s, t, n, stack), n <= Len(t), t[n].op = "popscope"
    PROVE  /\ Len(stack) > 0 /\ Last(stack) = stack[Len(stack)]
           /\ \A size \in Nat :
                 /\ IsCode(Put(t, n, PopScope(size)))
                 /\ Len(Put(t, n, PopScope(size))) = Len(t)
                 /\ Walked(s, Put(t, n, PopScope(size)), n + 1, Front(stack))
  <1> DEFINE a == Ahead(s, t, n)
             p == Front(stack)
  <1>1. /\ n \in 1..Len(t) /\ a \in 1..Len(s) /\ t[n] = s[a]
        /\ n + 1 \in 1..(Len(t) + 1) /\ (n + 1) - 1 = n
        /\ Ahead(s, t, n + 1) = a + 1 /\ a + 1 \in 1..(Len(s) + 1) /\ (a + 1) - 1 = a
        /\ DepthBehind(s, a - 1) = Len(stack) + 1
        /\ Len(stack) \in Nat
    BY WalkedHere
  <1> HIDE DEF a
  <1>2. DepthBehind(s, a) = Len(stack)
    <2>1. DepthBehind(s, a - 1) > 0
      BY <1>1
    <2> QED
      BY <1>1, <2>1, LayoutNext
  <1>3. Len(stack) > 0
    <2>1. a \in 0..Len(s)
      BY <1>1
    <2> QED
      BY <1>2, <2>1, ScopedDepth
  <1>4. /\ IsList(p) /\ Len(p) = Len(stack) - 1 /\ Last(stack) = stack[Len(stack)]
        /\ \A k \in 1..(Len(stack) - 1) : p[k] = stack[k]
    BY <1>3, Popped DEF Walked
  <1> HIDE DEF p
  <1>5. ASSUME NEW size \in Nat
        PROVE  /\ IsCode(Put(t, n, PopScope(size)))
               /\ Len(Put(t, n, PopScope(size))) = Len(t)
               /\ Walked(s, Put(t, n, PopScope(size)), n + 1, p)
    <2> DEFINE x == PopScope(size)
               u == Put(t, n, x)
    <2>1. Plain(x)
      BY DEF Plain, PopScope
    <2> HIDE DEF x
    <2>2. /\ IsCode(u) /\ Len(u) = Len(t) /\ \A k \in 1..Len(t) : k # n => u[k] = t[k]
      BY <1>1, <2>1, PutCode
    <2> HIDE DEF u
    <2>3. \A k : Ahead(s, u, k) = Ahead(s, t, k)
      BY <2>2 DEF Ahead
    <2>4. ASSUME NEW k \in (n + 1)..Len(t) PROVE u[k] = s[Ahead(s, u, k)]
      <3>1. k \in 1..Len(t) /\ k # n /\ k \in n..Len(t)
        BY <1>1
      <3>2. u[k] = t[k] /\ t[k] = s[Ahead(s, t, k)]
        BY <2>2, <3>1 DEF Walked
      <3> QED
        BY <2>3, <3>2
    <2>5. ASSUME NEW k \in 1..Len(p) PROVE p[k] \in 1..n /\ u[p[k]].op = "pushscope"
      <3>0. k \in 1..(Len(stack) - 1)
        BY <1>4
      <3>1. k \in 1..Len(stack) /\ p[k] = stack[k]
        BY <3>0, <1>1, <1>4
      <3>2. p[k] \in 1..(n - 1) /\ t[p[k]].op = "pushscope"
        BY <3>1 DEF Walked
      <3>3. p[k] \in 1..n /\ p[k] \in 1..Len(t) /\ p[k] # n
        BY SMTT(40), <3>2, <1>1
      <3> QED
        BY <3>2, <3>3, <2>2
    <2>6. Len(p) + 1 = DepthBehind(s, a)
      BY <1>1, <1>2, <1>4
    <2>7. Walked(s, u, n + 1, p)
      BY ZenonT(60), <1>1, <1>4, <2>2, <2>3, <2>4, <2>5, <2>6 DEF Walked
    <2> QED
      BY <2>2, <2>7 DEF u, x
  <1> QED
    BY <1>3, <1>4, <1>5 DEF p

LEMMA SplicedCode ==
    ASSUME NEW t, NEW new, IsCode(t), IsCode(new), NEW n \in 1..Len(t)
    PROVE  IsCode(Splice(t, n, new)) /\ Len(Splice(t, n, new)) = (Len(t) + Len(new)) - 1
  <1> DEFINE u == Splice(t, n, new)
  <1>1. /\ IsList(u) /\ Len(u) = (Len(t) + Len(new)) - 1
        /\ \A i \in 1..(n - 1) : u[i] = t[i]
        /\ \A i \in 1..Len(new) : u[(n - 1) + i] = new[i]
        /\ \A i \in (n + 1)..Len(t) : u[(i + Len(new)) - 1] = t[i]
        /\ \A i \in 1..Len(u) : \/ i \in 1..(n - 1)
                                \/ \E k \in 1..Len(new) : i = (n - 1) + k
                                \/ \E k \in (n + 1)..Len(t) : i = (k + Len(new)) - 1
    BY Spliced DEF IsCode
  <1>0. Len(t) \in Nat /\ Len(new) \in Nat
    BY LayoutsFollow
  <1> HIDE DEF u
  <1>2. ASSUME NEW i \in 1..Len(u) PROVE Plain(u[i])
    <2>1. CASE i \in 1..(n - 1)
      <3>1. i \in 1..Len(t) /\ u[i] = t[i]
        BY <2>1, <1>1, <1>0
      <3> QED
        BY <3>1 DEF IsCode
    <2>2. CASE \E k \in 1..Len(new) : i = (n - 1) + k
      BY <2>2, <1>1 DEF IsCode
    <2>3. CASE \E k \in (n + 1)..Len(t) : i = (k + Len(new)) - 1
      <3>1. PICK k \in (n + 1)..Len(t) : i = (k + Len(new)) - 1
        BY <2>3
      <3>2. k \in 1..Len(t) /\ u[i] = t[k]
        BY <3>1, <1>1, <1>0
      <3> QED
        BY <3>2 DEF IsCode
    <2> QED
      BY <2>1, <2>2, <2>3, <1>1
  <1> QED
    BY <1>1, <1>2 DEF IsCode, u

\* A call is inside of a scope, and what replaces it is behind the walk.
LEMMA WalkedInlined ==
    ASSUME NEW s, NEW t, IsCode(s), IsCode(t), Scoped(s), NEW n, NEW stack,
           Walked(s, t, n, stack), n <= Len(t), IsCallMove(t[n])
    PROVE  /\ Len(stack) > 0 /\ Last(stack) = stack[Len(stack)]
           /\ \A new : \A size \in Nat : IsCode(new) =>
                 LET u == Splice(Put(t, Last(stack), PushScope(size)), n, new)
                 IN  /\ IsCode(u) /\ Len(u) = (Len(t) + Len(new)) - 1
                     /\ Walked(s, u, n + Len(new), stack)
  <1> DEFINE a == Ahead(s, t, n)
             scope == Last(stack)
  <1>1. /\ n \in 1..Len(t) /\ a \in 1..Len(s) /\ t[n] = s[a]
        /\ n + 1 \in 1..(Len(t) + 1) /\ (n + 1) - 1 = n
        /\ Ahead(s, t, n + 1) = a + 1 /\ a + 1 \in 1..(Len(s) + 1) /\ (a + 1) - 1 = a
        /\ DepthBehind(s, a - 1) = Len(stack) + 1
        /\ Len(stack) \in Nat
    BY WalkedHere
  <1>0. Len(t) \in Nat /\ Len(s) \in Nat
    BY LayoutsFollow
  <1> HIDE DEF a
  <1>2. DepthBehind(s, a) = Len(stack) + 1
    <2>1. DepthBehind(s, a - 1) > 0
      BY <1>1
    <2>2. s[a].op \notin {"pushscope", "popscope", "declare"}
      BY <1>1 DEF IsCallMove
    <2> QED
      BY <1>1, <2>1, <2>2, LayoutNext
  <1>3. Len(stack) > 0
    <2>1. DepthBehind(s, a) > 1
      BY <1>1 DEF Scoped
    <2> QED
      BY <1>1, <1>2, <2>1
  <1>4. scope = stack[Len(stack)]
    BY <1>3, Popped DEF Walked
  <1>5. scope \in 1..(n - 1) /\ scope \in 1..Len(t) /\ scope # n
    <2>1. Len(stack) \in 1..Len(stack)
      BY <1>1, <1>3
    <2>2. scope \in 1..(n - 1)
      BY <2>1, <1>4 DEF Walked
    <2> HIDE DEF scope
    <2> QED
      BY <2>2, <1>1
  <1> HIDE DEF scope
  <1>6. ASSUME NEW new, NEW size \in Nat, IsCode(new)
        PROVE  LET u == Splice(Put(t, scope, PushScope(size)), n, new)
               IN  /\ IsCode(u) /\ Len(u) = (Len(t) + Len(new)) - 1
                   /\ Walked(s, u, n + Len(new), stack)
    <2> DEFINE x == PushScope(size)
               g == Put(t, scope, x)
               u == Splice(g, n, new)
               m == n + Len(new)
    <2>0. Len(new) \in Nat
      BY <1>6, LayoutsFollow
    <2>1. Plain(x) /\ x.op = "pushscope"
      BY DEF Plain, PushScope
    <2> HIDE DEF x
    <2>2. /\ IsCode(g) /\ Len(g) = Len(t) /\ g[scope] = x
          /\ \A k \in 1..Len(t) : k # scope => g[k] = t[k]
      BY <1>5, <2>1, PutCode
    <2> HIDE DEF g
    <2>3. n \in 1..Len(g) /\ IsList(g) /\ IsList(new)
      BY <1>1, <1>6, <2>2 DEF IsCode
    <2>4. IsCode(u) /\ Len(u) = (Len(t) + Len(new)) - 1
      BY <1>6, <2>2, <2>3, SplicedCode
    <2>5. /\ \A i \in 1..(n - 1) : u[i] = g[i]
          /\ \A i \in (n + 1)..Len(g) : u[(i + Len(new)) - 1] = g[i]
      BY <2>3, Spliced
    <2> HIDE DEF u
    <2>6. \A k : Ahead(s, u, k) = (Len(s) - ((Len(t) + Len(new)) - 1)) + k
      BY <2>4 DEF Ahead
    <2>7. m \in 1..(Len(u) + 1) /\ m - 1 \in Nat /\ n - 1 <= m - 1 /\ n <= m
      BY <1>0, <1>1, <2>0, <2>4
    <2>8. Ahead(s, u, m) = a + 1
      <3>1. Ahead(s, u, m) = (Len(s) - ((Len(t) + Len(new)) - 1)) + (n + Len(new))
        BY <2>6
      <3>2. a = (Len(s) - Len(t)) + n
        BY DEF a, Ahead
      <3>3. n \in Nat
        BY <1>1
      <3> QED
        BY <3>1, <3>2, <3>3, <1>0, <2>0
    <2>9. ASSUME NEW k \in m..Len(u) PROVE u[k] = s[Ahead(s, u, k)]
      <3> DEFINE i == (k - Len(new)) + 1
      <3>1. i \in (n + 1)..Len(t) /\ (i + Len(new)) - 1 = k
        BY <1>0, <1>1, <2>0, <2>4
      <3>2. Ahead(s, u, k) = Ahead(s, t, i)
        <4>1. Ahead(s, u, k) = (Len(s) - ((Len(t) + Len(new)) - 1)) + k
          BY <2>6
        <4>2. Ahead(s, t, i) = (Len(s) - Len(t)) + ((k - Len(new)) + 1)
          BY DEF Ahead
        <4>3. k \in Int
          BY <1>0, <1>1, <2>0, <2>4
        <4> QED
          BY <4>1, <4>2, <4>3, <1>0, <2>0
      <3> HIDE DEF i
      <3>3. i \in 1..Len(t) /\ i \in n..Len(t) /\ i # scope
        BY <3>1, <1>1, <1>5
      <3>4. u[k] = g[i]
        BY <3>1, <2>2, <2>5
      <3>5. g[i] = t[i] /\ t[i] = s[Ahead(s, t, i)]
        BY <3>3, <2>2 DEF Walked
      <3> QED
        BY <3>2, <3>4, <3>5
    <2>10. ASSUME NEW k \in 1..Len(stack) PROVE stack[k] \in 1..(m - 1) /\ u[stack[k]].op = "pushscope"
      <3> DEFINE j == stack[k]
      <3>1. j \in 1..(n - 1) /\ t[j].op = "pushscope"
        BY DEF Walked
      <3> HIDE DEF j
      <3>2. j \in 1..(m - 1) /\ j \in 1..Len(t)
        BY <3>1, <1>1, <2>7
      <3>3. u[j] = g[j]
        BY <3>1, <2>5
      <3>4. g[j] = x \/ g[j] = t[j]
        BY <3>2, <2>2
      <3>5. u[j].op = "pushscope"
        BY <3>1, <3>3, <3>4, <2>1
      <3> QED
        BY <3>2, <3>5 DEF j
    <2>11. Walked(s, u, m, stack)
      <3>1. IsList(stack) /\ Len(stack) + 1 = DepthBehind(s, Ahead(s, u, m) - 1)
        BY <1>1, <1>2, <2>8 DEF Walked
      <3>2. Ahead(s, u, m) \in 1..(Len(s) + 1)
        BY <1>1, <2>8
      <3> HIDE DEF m
      <3> QED
        BY <3>1, <3>2, <2>7, <2>9, <2>10 DEF Walked
    <2> QED
      BY <2>4, <2>11 DEF u, g, x, m
  <1> QED
    BY <1>3, <1>4, <1>6 DEF scope

\* The walk begins with nothing open.
LEMMA WalkedFirst ==
    ASSUME NEW s, IsCode(s)
    PROVE  Walked(s, s, 1, <<>>)
  <1>1. Len(s) \in Nat /\ DepthBehind(s, 0) = 1
    BY LayoutsFollow, LayoutFirst
  <1>2. IsList(<<>>) /\ Len(<<>>) = 0
    <2>1. <<>> \in Seq({})
      OBVIOUS
    <2> QED
      BY <2>1 DEF IsList
  <1>3. Ahead(s, s, 1) = 1 /\ \A k \in 1..Len(s) : Ahead(s, s, k) = k
    BY <1>1 DEF Ahead
  <1>4. 1 \in 1..(Len(s) + 1) /\ 1 - 1 = 0 /\ 0 + 1 = 1
    BY <1>1
  <1>5. \A k \in 1..Len(<<>>) : FALSE
    BY <1>2
  <1> QED
    BY <1>1, <1>2, <1>3, <1>4, <1>5 DEF Walked

-----------------------------------------------------------------------------
(* The first invariant: where the walks are.                               *)

\* The lists are lists of instructions.
Lists ==
    /\ source \in Sources /\ DOMAIN prog = DOMAIN source
    /\ \A f \in DOMAIN source : IsCode(prog[f])

\* What has been kept of the functions looked at.
Records ==
    /\ DOMAIN replacementCode \subseteq Functions
    /\ \A f \in DOMAIN replacementCode :
          replacementCode[f] = ReplacementCode(f) /\ Len(source[f]) <= InlinerMax
    /\ inlineCount \in Nat

\* Only the lists that have been walked, or are walked now, have changed.
Course ==
    /\ stage \in {"check", "inline", "main", "allocate", "run", "done", "panic"}
    /\ visited \subseteq DOMAIN source
    /\ path \in DOMAIN source \cup {NoPath}
    /\ path # NoPath => stage \in {"inline", "main", "panic"}
    /\ stage = "check" => prog = source
    /\ stage # "check" => \A f \in DOMAIN source \ visited : f # path => prog[f] = source[f]

\* The place of the walk is one of the source's: from there on the list is the
\* source's, and the PushScopes on the stack are those open there.
OnWalk == path # NoPath => Walked(source[path], prog[path], node, pushScopeStack)

WalkInvariant == Lists /\ Records /\ Course /\ OnWalk

LEMMA SourceKept ==
    ASSUME source' = source
    PROVE  /\ Functions' = Functions
           /\ \A f : ReplacementCode(f)' = ReplacementCode(f)
  <1>1. Functions' = Functions
    BY DEF Functions
  <1>2. \A f, n : Replacement(f, n)' = Replacement(f, n)
    BY DEF Replacement
  <1>3. \A f : ReplacementCode(f)' = ReplacementCode(f)
    BY <1>2 DEF ReplacementCode
  <1> QED
    BY <1>1, <1>3

\* A list that is being walked, and the source it has been made from.
LEMMA WalkedLists ==
    ASSUME WalkInvariant, path # NoPath
    PROVE  /\ path \in DOMAIN source /\ path \in DOMAIN prog
           /\ source[path] \in SourceCodes
           /\ IsCode(source[path]) /\ Scoped(source[path]) /\ IsCode(prog[path])
           /\ Walked(source[path], prog[path], node, pushScopeStack)
           /\ \A n \in 1..Len(source[path]) : source[path][n] \in SourceInstrs
  <1>1. path \in DOMAIN source /\ path \in DOMAIN prog /\ source \in Sources /\ IsCode(prog[path])
    BY DEF WalkInvariant, Course, Lists
  <1>2. source[path] \in SourceCodes
    BY <1>1, SourceLists
  <1>3. IsCode(source[path]) /\ Scoped(source[path])
        /\ \A n \in 1..Len(source[path]) : source[path][n] \in SourceInstrs
    BY <1>2, SourceCode
  <1> QED
    BY <1>1, <1>2, <1>3 DEF WalkInvariant, OnWalk

LEMMA PopScopeDone ==
    ASSUME WalkInvariant, WalkPopScope
    PROVE  LET size == prog[path][Last(pushScopeStack)].size
           IN  /\ size \in Nat /\ Len(pushScopeStack) > 0
               /\ Last(pushScopeStack) = pushScopeStack[Len(pushScopeStack)]
               /\ DOMAIN prog' = DOMAIN prog
               /\ prog'[path] = Put(prog[path], node, PopScope(size))
               /\ \A f \in DOMAIN prog : f # path => prog'[f] = prog[f]
  <1> DEFINE s == source[path]
             t == prog[path]
             size == t[Last(pushScopeStack)].size
             x == PopScope(size)
  <1>0. path # NoPath /\ node <= Len(t) /\ t[node].op = "popscope"
    BY DEF WalkPopScope, Walking, Here
  <1>1. /\ path \in DOMAIN prog /\ IsCode(s) /\ Scoped(s) /\ IsCode(t)
        /\ Walked(s, t, node, pushScopeStack)
    BY <1>0, WalkedLists
  <1>2. Len(pushScopeStack) > 0 /\ Last(pushScopeStack) = pushScopeStack[Len(pushScopeStack)]
    <2> HIDE DEF s, t
    <2> QED
      BY <1>0, <1>1, WalkedPop
  <1>3. size \in Nat
    <2> DEFINE q == Last(pushScopeStack)
    <2>1. Len(pushScopeStack) \in 1..Len(pushScopeStack)
      BY <1>1, <1>2, ListFacts DEF Walked
    <2>2. q \in 1..(node - 1) /\ t[q].op = "pushscope" /\ node \in 1..(Len(t) + 1) /\ Len(t) \in Nat
      BY <1>1, <1>2, <2>1, LayoutsFollow DEF Walked
    <2> HIDE DEF q
    <2>3. q \in 1..Len(t)
      BY <2>2
    <2>4. Plain(t[q])
      BY <1>1, <2>3 DEF IsCode
    <2> QED
      BY <2>2, <2>4 DEF Plain, q
  <1>4. prog' = [prog EXCEPT ![path][node] = x]
    BY DEF WalkPopScope
  <1> HIDE DEF x
  <1>5. prog' = [prog EXCEPT ![path] = Put(t, node, x)]
    BY <1>4 DEF Put
  <1>6. DOMAIN prog' = DOMAIN prog /\ prog'[path] = Put(t, node, x)
        /\ \A f \in DOMAIN prog : f # path => prog'[f] = prog[f]
    BY <1>1, <1>5
  <1> QED
    BY <1>2, <1>3, <1>6 DEF x

\* The words a call's variables and those of its callee get.
LEMMA ExtraNat ==
    ASSUME NEW call, NEW args, args = call.args, IsList(args)
    PROVE  /\ ExtraSize(call) \in Nat /\ ExtraSize(call) = 4 * (48 + Len(args))
           /\ Len(args) \in Nat
  <1>1. Len(args) \in Nat
    BY ListFacts
  <1>2. ExtraSize(call) = 48 * 4 + 4 * Len(args)
    BY DEF ExtraSize, RegWidth
  <1> QED
    BY <1>1, <1>2

\* The code that replaces the call at the walk's place.
NewCode == ArgumentCode(Here.src) \o InlinedCode(Here.src.func, Here.dst)

LEMMA NewCodeFacts ==
    ASSUME WalkInvariant, Walking, IsCallMove(Here), Inlinable
    PROVE  /\ IsList(Here.src.args) /\ Here.src.func \in DOMAIN replacementCode
           /\ Here.src.func \in Functions
           /\ replacementCode[Here.src.func] = ReplacementCode(Here.src.func)
           /\ IsCode(ReplacementCode(Here.src.func))
           /\ IsCode(ArgumentCode(Here.src)) /\ IsCode(InlinedCode(Here.src.func, Here.dst))
           /\ IsCode(NewCode)
  <1> DEFINE s == source[path]
             t == prog[path]
             f == Here.src.func
             A == ArgumentCode(Here.src)
             N == InlinedCode(f, Here.dst)
  <1>0. path # NoPath /\ node <= Len(t) /\ Here = t[node]
    BY DEF Walking, Here
  <1>1. /\ IsCode(s) /\ Scoped(s) /\ IsCode(t) /\ Walked(s, t, node, pushScopeStack)
        /\ \A n \in 1..Len(s) : s[n] \in SourceInstrs
    BY <1>0, WalkedLists
  <1>2. Here \in SourceInstrs
    <2> HIDE DEF s, t
    <2>1. Ahead(s, t, node) \in 1..Len(s) /\ t[node] = s[Ahead(s, t, node)]
      BY <1>0, <1>1, WalkedHere
    <2> QED
      BY <2>1, <1>0, <1>1
  <1>3. IsList(Here.src.args)
    BY <1>2, InstrsAssumption DEF IsList
  <1>4. f \in DOMAIN replacementCode /\ f \in Functions /\ replacementCode[f] = ReplacementCode(f)
    BY DEF Inlinable, WalkInvariant, Records
  <1>5. IsCode(ReplacementCode(f))
    BY <1>4, ReplacementLabels DEF WalkInvariant, Lists
  <1>6. IsCode(A)
    BY <1>3, ArgumentFacts
  <1>7. IsCode(N)
    <2>1. IsCode(replacementCode[f])
      BY <1>4, <1>5
    <2> QED
      BY <2>1, InlinedFacts
  <1> HIDE DEF A, N
  <1>8. IsCode(A \o N)
    <2>1. IsList(A) /\ IsList(N)
      BY <1>6, <1>7 DEF IsCode
    <2>2. /\ IsList(A \o N) /\ Len(A \o N) = Len(A) + Len(N)
          /\ \A i \in 1..Len(A) : (A \o N)[i] = A[i]
          /\ \A i \in 1..Len(N) : (A \o N)[Len(A) + i] = N[i]
      BY ONLY <2>1, Joined
    <2>3. Len(A) \in Nat /\ Len(N) \in Nat
      BY <2>1, ListFacts
    <2> DEFINE b == A \o N
    <2> HIDE DEF b
    <2>4. ASSUME NEW i \in 1..Len(b) PROVE Plain(b[i])
      <3>1. CASE i <= Len(A)
        <4>1. i \in 1..Len(A)
          BY <2>2, <2>3, <3>1 DEF b
        <4>2. b[i] = A[i]
          BY <4>1, <2>2 DEF b
        <4> QED
          BY <4>1, <4>2, <1>6 DEF IsCode
      <3>2. CASE i > Len(A)
        <4>0. Len(b) = Len(A) + Len(N)
          BY <2>2 DEF b
        <4>1. i - Len(A) \in 1..Len(N) /\ Len(A) + (i - Len(A)) = i
          BY <2>3, <3>2, <4>0
        <4>2. b[Len(A) + (i - Len(A))] = N[i - Len(A)]
          BY <4>1, <2>2 DEF b
        <4>3. b[i] = N[i - Len(A)]
          BY <4>1, <4>2
        <4> QED
          BY <4>1, <4>3, <1>7 DEF IsCode
      <3>3. i \in Int /\ Len(A) \in Int
        BY <2>3
      <3> QED
        BY <3>1, <3>2, <3>3
    <2> QED
      BY <2>2, <2>4 DEF IsCode, b
  <1> QED
    BY <1>3, <1>4, <1>5, <1>6, <1>7, <1>8 DEF NewCode, A, N

LEMMA InlineCallDone ==
    ASSUME WalkInvariant, InlineCall, stage' = stage
    PROVE  LET scope == Last(pushScopeStack)
               size  == prog[path][scope].size + ExtraSize(Here.src)
           IN  /\ size \in Nat /\ prog[path][scope].size \in Nat
               /\ Len(pushScopeStack) > 0 /\ scope = pushScopeStack[Len(pushScopeStack)]
               /\ prog'[path] = Splice(Put(prog[path], scope, PushScope(size)), node, NewCode)
               /\ DOMAIN prog' = DOMAIN prog
               /\ \A f \in DOMAIN prog : f # path => prog'[f] = prog[f]
               /\ node' = node + Len(NewCode) /\ inlineCount' = inlineCount + 1
  <1> DEFINE s == source[path]
             t == prog[path]
             scope == Last(pushScopeStack)
             size == t[scope].size + ExtraSize(Here.src)
             x == PushScope(size)
             g == [t EXCEPT ![scope] = PushScope(@.size + ExtraSize(Here.src))]
             u == SubSeq(g, 1, node - 1) \o NewCode \o SubSeq(g, node + 1, Len(g))
  <1>0. path # NoPath /\ node <= Len(t) /\ Here = t[node] /\ Walking /\ IsCallMove(Here) /\ Inlinable
        /\ stage # "panic"
    BY DEF InlineCall, Walking, Here
  <1>1. /\ path \in DOMAIN prog /\ IsCode(s) /\ Scoped(s) /\ IsCode(t)
        /\ Walked(s, t, node, pushScopeStack)
    BY <1>0, WalkedLists
  <1>2. Len(pushScopeStack) > 0 /\ scope = pushScopeStack[Len(pushScopeStack)]
    <2>1. IsCallMove(t[node])
      BY <1>0
    <2> HIDE DEF s, t
    <2> QED
      BY <1>0, <1>1, <2>1, WalkedInlined
  <1>3. t[scope].size \in Nat
    <2> HIDE DEF t
    <2>1. Len(pushScopeStack) \in 1..Len(pushScopeStack)
      BY <1>1, <1>2, ListFacts DEF Walked
    <2>2. scope \in 1..(node - 1) /\ t[scope].op = "pushscope" /\ node \in 1..(Len(t) + 1) /\ Len(t) \in Nat
      BY <1>1, <1>2, <2>1, LayoutsFollow DEF Walked
    <2> HIDE DEF scope
    <2>3. scope \in 1..Len(t)
      BY <2>2
    <2>4. Plain(t[scope])
      BY <1>1, <2>3 DEF IsCode
    <2> QED
      BY <2>2, <2>4 DEF Plain
  <1>4. size \in Nat
    <2>1. ExtraSize(Here.src) \in Nat
      BY SMTT(40), <1>0, NewCodeFacts, ExtraNat
    <2> QED
      BY <1>3, <2>1
  <1>5. /\ prog' = [prog EXCEPT ![path] = u] /\ node' = node + Len(NewCode)
        /\ inlineCount' = inlineCount + 1
    BY <1>0 DEF InlineCall, NewCode
  <1>6. g = Put(t, scope, x)
    BY DEF Put
  <1>7. u = Splice(Put(t, scope, x), node, NewCode)
    <2> HIDE DEF g
    <2> QED
      BY <1>6 DEF Splice
  <1> HIDE DEF u, x
  <1>8. DOMAIN prog' = DOMAIN prog /\ prog'[path] = u
        /\ \A f \in DOMAIN prog : f # path => prog'[f] = prog[f]
    BY <1>1, <1>5
  <1> QED
    BY SMTT(40), <1>2, <1>3, <1>4, <1>5, <1>7, <1>8 DEF x

\* A step of the walk over one list, with what it leaves as it was.
LEMMA ListWalked ==
    ASSUME WalkInvariant, path # NoPath, stage \in {"inline", "main"},
           source' = source, stage' = stage, visited' = visited, path' = path,
           replacementCode' = replacementCode, inlineCount' \in Nat,
           DOMAIN prog' = DOMAIN prog, \A f \in DOMAIN prog : f # path => prog'[f] = prog[f],
           IsCode(prog'[path]), Walked(source[path], prog'[path], node', pushScopeStack')
    PROVE  WalkInvariant'
  <1>1. Functions' = Functions /\ \A f : ReplacementCode(f)' = ReplacementCode(f)
    BY SourceKept
  <1>2. Lists'
    <2>1. \A f \in DOMAIN source : IsCode(prog'[f])
      BY DEF WalkInvariant, Lists
    <2> QED
      BY <2>1 DEF WalkInvariant, Lists
  <1>3. Records'
    BY <1>1 DEF WalkInvariant, Records
  <1>4. Course'
    <2>1. \A f \in DOMAIN source \ visited : f # path => prog'[f] = source[f]
      BY DEF WalkInvariant, Lists, Course
    <2> QED
      BY <2>1 DEF WalkInvariant, Course
  <1>5. OnWalk'
    BY DEF OnWalk
  <1> QED
    BY <1>2, <1>3, <1>4, <1>5 DEF WalkInvariant

\* A step that leaves the lists alone and walks over none.
LEMMA ListsKept ==
    ASSUME WalkInvariant, source' = source, prog' = prog,
           replacementCode' = replacementCode, inlineCount' = inlineCount,
           Course', OnWalk'
    PROVE  WalkInvariant'
  <1>1. Functions' = Functions /\ \A f : ReplacementCode(f)' = ReplacementCode(f)
    BY SourceKept
  <1>2. Lists'
    BY DEF WalkInvariant, Lists
  <1>3. Records'
    BY <1>1 DEF WalkInvariant, Records
  <1> QED
    BY <1>2, <1>3 DEF WalkInvariant

LEMMA WalkInit == InlineInit => WalkInvariant
  <1> SUFFICES ASSUME InlineInit PROVE WalkInvariant
    OBVIOUS
  <1>1. Lists
    <2>1. \A f \in DOMAIN source : IsCode(prog[f])
      <3> SUFFICES ASSUME NEW f \in DOMAIN source PROVE IsCode(prog[f])
        OBVIOUS
      <3>1. source[f] \in SourceCodes
        BY SourceLists DEF InlineInit
      <3>2. prog[f] = source[f]
        BY DEF InlineInit
      <3> QED
        BY <3>1, <3>2, SourceCode
    <2> QED
      BY <2>1 DEF Lists, InlineInit
  <1>2. Records
    BY DEF Records, InlineInit
  <1>3. Course
    BY DEF Course, InlineInit
  <1>4. OnWalk
    BY DEF OnWalk, InlineInit
  <1> QED
    BY <1>1, <1>2, <1>3, <1>4 DEF WalkInvariant

LEMMA WalkChecks ==
    ASSUME WalkInvariant, NEW f \in Functions, CheckInlinable(f)
    PROVE  WalkInvariant'
  <1>0. /\ stage = "check" /\ source' = source /\ prog' = prog /\ path' = path
        /\ path = NoPath
    BY DEF CheckInlinable, walking, WalkInvariant, Course
  <1>1. Functions' = Functions /\ \A g : ReplacementCode(g)' = ReplacementCode(g)
    BY <1>0, SourceKept
  <1>2. Lists'
    BY <1>0 DEF WalkInvariant, Lists
  <1>3. OnWalk'
    BY <1>0 DEF OnWalk
  <1>4. CASE CheckPanics(source[f])
    <2>1. stage' = "panic" /\ visited' = visited /\ replacementCode' = replacementCode /\ inlineCount' = inlineCount
      BY <1>4 DEF CheckInlinable, inlining
    <2>2. Course'
      BY <1>0, <2>1 DEF WalkInvariant, Course
    <2> QED
      BY <1>0, <1>3, <2>1, <2>2, ListsKept
  <1>5. CASE ~ CheckPanics(source[f])
    <2> DEFINE D == DOMAIN replacementCode
                      \cup (IF Aborts(source[f]) \/ Len(source[f]) > InlinerMax THEN {} ELSE {f})
    <2>1. /\ stage' = stage /\ visited' = visited \cup {f} /\ inlineCount' = inlineCount
          /\ replacementCode' = [g \in D |-> IF g = f THEN ReplacementCode(f) ELSE replacementCode[g]]
      BY <1>5 DEF CheckInlinable
    <2>2. D \subseteq Functions
      BY DEF WalkInvariant, Records
    <2>3. ASSUME NEW g \in D PROVE replacementCode'[g] = ReplacementCode(g) /\ Len(source[g]) <= InlinerMax
      <3>0. replacementCode'[g] = IF g = f THEN ReplacementCode(f) ELSE replacementCode[g]
        <4> HIDE DEF D
        <4> QED
          BY <2>1
      <3>1. CASE g \in DOMAIN replacementCode
        <4>1. replacementCode[g] = ReplacementCode(g) /\ Len(source[g]) <= InlinerMax
          BY <3>1 DEF WalkInvariant, Records
        <4> QED
          BY <3>0, <4>1
      <3>2. CASE g \notin DOMAIN replacementCode
        <4>1. g = f /\ ~ (Len(source[f]) > InlinerMax)
          BY <3>2
        <4>2. Len(source[f]) \in Nat /\ InlinerMax \in Nat
          <5>1. source[f] \in SourceCodes
            BY SourceLists DEF WalkInvariant, Lists
          <5> QED
            BY <5>1, SourceCode, LayoutsFollow, InlinerAssumption
        <4> QED
          BY <3>0, <4>1, <4>2
      <3> QED
        BY <3>1, <3>2
    <2>4. DOMAIN replacementCode' = D
      <3> HIDE DEF D
      <3> QED
        BY <2>1
    <2> HIDE DEF D
    <2>5. Records'
      BY <1>0, <1>1, <2>1, <2>2, <2>3, <2>4 DEF WalkInvariant, Records
    <2>6. Course'
      BY <1>0, <2>1 DEF WalkInvariant, Course, Functions
    <2> QED
      BY <1>2, <1>3, <2>5, <2>6 DEF WalkInvariant
  <1> QED
    BY <1>4, <1>5

LEMMA WalkTurns ==
    ASSUME WalkInvariant,
           EndCheck \/ (\E f \in DOMAIN source : StartPath(f)) \/ EndPath \/ EndInline \/ HandOn \/ MoveOn
    PROVE  WalkInvariant'
  <1>1. CASE EndCheck
    <2>1. /\ source' = source /\ prog' = prog /\ replacementCode' = replacementCode
          /\ inlineCount' = inlineCount /\ path' = path /\ path = NoPath
          /\ stage' = "inline" /\ visited' = {} /\ prog = source
      BY <1>1 DEF EndCheck, inlining, walking, WalkInvariant, Course
    <2>2. Course' /\ OnWalk'
      BY <2>1 DEF WalkInvariant, Course, OnWalk
    <2> QED
      BY <2>1, <2>2, ListsKept
  <1>2. CASE \E f \in DOMAIN source : StartPath(f)
    <2>0. PICK f \in DOMAIN source : StartPath(f)
      BY <1>2
    <2>1. /\ source' = source /\ prog' = prog /\ replacementCode' = replacementCode
          /\ inlineCount' = inlineCount /\ path' = f /\ path = NoPath
          /\ stage' = stage /\ visited' = visited /\ stage \in {"inline", "main"} /\ f \notin visited
          /\ node' = 1 /\ pushScopeStack' = <<>>
      BY <2>0 DEF StartPath, inlining
    <2>2. NoPath \notin DOMAIN source /\ f # NoPath /\ IsCode(source[f])
      <3>1. NoPath \notin DOMAIN source /\ source[f] \in SourceCodes
        BY SourceLists DEF WalkInvariant, Lists
      <3> QED
        BY <3>1, SourceCode
    <2>3. prog[f] = source[f]
      BY <2>1, <2>2 DEF WalkInvariant, Course
    <2>4. OnWalk'
      BY <2>1, <2>2, <2>3, WalkedFirst DEF OnWalk
    <2>5. Course'
      BY <2>1, <2>2 DEF WalkInvariant, Course
    <2> QED
      BY <2>1, <2>4, <2>5, ListsKept
  <1>3. CASE EndPath
    <2>1. /\ source' = source /\ prog' = prog /\ replacementCode' = replacementCode
          /\ inlineCount' = inlineCount /\ path' = NoPath /\ path \in DOMAIN source
          /\ stage' = stage /\ visited' = visited \cup {path} /\ stage \in {"inline", "main"}
      BY <1>3 DEF EndPath, inlining, WalkInvariant, Course
    <2>2. Course' /\ OnWalk'
      BY <2>1 DEF WalkInvariant, Course, OnWalk
    <2> QED
      BY <2>1, <2>2, ListsKept
  <1>4. CASE EndInline \/ HandOn \/ MoveOn
    <2>1. /\ source' = source /\ prog' = prog /\ replacementCode' = replacementCode
          /\ inlineCount' = inlineCount /\ path' = path /\ path = NoPath
          /\ stage # "check" /\ stage' \in {"main", "allocate", "run", "done"} /\ visited' = visited
      BY <1>4 DEF EndInline, HandOn, MoveOn, Inlined, inlining, walking, WalkInvariant, Course
    <2>2. Course' /\ OnWalk'
      BY <2>1 DEF WalkInvariant, Course, OnWalk
    <2> QED
      BY <2>1, <2>2, ListsKept
  <1> QED
    BY <1>1, <1>2, <1>3, <1>4

LEMMA WalkGoesOn ==
    ASSUME WalkInvariant, WalkPushScope \/ WalkPopScope \/ WalkOther \/ WalkCallKept
    PROVE  WalkInvariant' /\ path # NoPath /\ path' = path /\ node' = node + 1
           /\ node \in 1..Len(prog[path]) /\ Len(prog'[path]) = Len(prog[path])
  <1> DEFINE s == source[path]
             t == prog[path]
  <1>0. /\ path # NoPath /\ node <= Len(t) /\ Here = t[node] /\ stage \in {"inline", "main"}
        /\ source' = source /\ stage' = stage /\ visited' = visited /\ path' = path
        /\ replacementCode' = replacementCode /\ node' = node + 1
    BY DEF WalkPushScope, WalkPopScope, WalkOther, WalkCallKept, Walking, Here, inlining
  <1>1. /\ path \in DOMAIN prog /\ IsCode(s) /\ Scoped(s) /\ IsCode(t)
        /\ Walked(s, t, node, pushScopeStack)
    BY <1>0, WalkedLists
  <1>2. inlineCount' \in Nat
    BY DEF WalkPushScope, WalkPopScope, WalkOther, WalkCallKept, inlining, WalkInvariant, Records
  <1>3. node \in 1..Len(t)
    BY <1>0, <1>1, LayoutsFollow DEF Walked
  <1>4. CASE WalkPushScope
    <2>1. prog' = prog /\ pushScopeStack' = Append(pushScopeStack, node) /\ t[node].op = "pushscope"
      BY <1>0, <1>4 DEF WalkPushScope
    <2>2. Walked(s, t, node + 1, Append(pushScopeStack, node))
      <3> HIDE DEF s, t
      <3> QED
        BY <1>0, <1>1, <2>1, WalkedPush
    <2>3. WalkInvariant'
      BY <1>0, <1>1, <1>2, <2>1, <2>2, ListWalked
    <2> QED
      BY <1>0, <1>3, <2>1, <2>3
  <1>5. CASE WalkPopScope
    <2> DEFINE size == t[Last(pushScopeStack)].size
               u == Put(t, node, PopScope(size))
    <2>1. pushScopeStack' = Front(pushScopeStack) /\ t[node].op = "popscope"
      BY <1>0, <1>5 DEF WalkPopScope
    <2>2. /\ size \in Nat /\ DOMAIN prog' = DOMAIN prog
          /\ prog'[path] = u /\ \A f \in DOMAIN prog : f # path => prog'[f] = prog[f]
      BY <1>5, PopScopeDone
    <2>3. IsCode(u) /\ Len(u) = Len(t) /\ Walked(s, u, node + 1, Front(pushScopeStack))
      <3>1. \A z \in Nat : /\ IsCode(Put(t, node, PopScope(z)))
                           /\ Len(Put(t, node, PopScope(z))) = Len(t)
                           /\ Walked(s, Put(t, node, PopScope(z)), node + 1, Front(pushScopeStack))
        <4> HIDE DEF s, t, size
        <4> QED
          BY <1>0, <1>1, <2>1, WalkedPop
      <3> HIDE DEF t, size
      <3> QED
        BY <2>2, <3>1
    <2> HIDE DEF u
    <2>4. WalkInvariant'
      BY <1>0, <1>2, <2>1, <2>2, <2>3, ListWalked
    <2> QED
      BY <1>0, <1>3, <2>2, <2>3, <2>4
  <1>6. CASE WalkOther \/ WalkCallKept
    <2>1. /\ prog' = prog /\ pushScopeStack' = pushScopeStack
          /\ t[node].op \notin {"pushscope", "popscope"}
      BY <1>0, <1>6 DEF WalkOther, WalkCallKept, IsCallMove
    <2>2. Walked(s, t, node + 1, pushScopeStack)
      <3> HIDE DEF s, t
      <3> QED
        BY <1>0, <1>1, <2>1, WalkedOn
    <2>3. WalkInvariant'
      BY <1>0, <1>1, <1>2, <2>1, <2>2, ListWalked
    <2> QED
      BY <1>0, <1>3, <2>1, <2>3
  <1> QED
    BY <1>4, <1>5, <1>6

LEMMA WalkInlines ==
    ASSUME WalkInvariant, InlineCall
    PROVE  /\ WalkInvariant'
           /\ stage' = stage => /\ node \in 1..Len(prog[path]) /\ Len(NewCode) \in Nat
                                /\ node' = node + Len(NewCode)
                                /\ Len(prog'[path]) = (Len(prog[path]) + Len(NewCode)) - 1
  <1> DEFINE s == source[path]
             t == prog[path]
  <1>0. /\ path # NoPath /\ node <= Len(t) /\ Here = t[node] /\ stage \in {"inline", "main"}
        /\ source' = source /\ visited' = visited /\ path' = path /\ Walking /\ IsCallMove(Here) /\ Inlinable
        /\ replacementCode' = replacementCode /\ pushScopeStack' = pushScopeStack
    BY DEF InlineCall, Walking, Here
  <1>1. /\ path \in DOMAIN prog /\ IsCode(s) /\ Scoped(s) /\ IsCode(t)
        /\ Walked(s, t, node, pushScopeStack)
    BY <1>0, WalkedLists
  <1>2. CASE stage' = stage
    <2> DEFINE scope == Last(pushScopeStack)
               size == t[scope].size + ExtraSize(Here.src)
               u == Splice(Put(t, scope, PushScope(size)), node, NewCode)
    <2>1. /\ size \in Nat /\ prog'[path] = u
          /\ DOMAIN prog' = DOMAIN prog /\ \A f \in DOMAIN prog : f # path => prog'[f] = prog[f]
          /\ node' = node + Len(NewCode) /\ inlineCount' = inlineCount + 1
      BY <1>2, InlineCallDone
    <2>2. IsCode(NewCode) /\ Len(NewCode) \in Nat
      BY <1>0, NewCodeFacts, LayoutsFollow
    <2>3. IsCode(u) /\ Len(u) = (Len(t) + Len(NewCode)) - 1
          /\ Walked(s, u, node + Len(NewCode), pushScopeStack)
      <3>1. IsCallMove(t[node])
        BY <1>0
      <3>2. \A new : \A z \in Nat : IsCode(new) =>
                 LET v == Splice(Put(t, Last(pushScopeStack), PushScope(z)), node, new)
                 IN  /\ IsCode(v) /\ Len(v) = (Len(t) + Len(new)) - 1
                     /\ Walked(s, v, node + Len(new), pushScopeStack)
        <4> HIDE DEF s, t
        <4> QED
          BY <1>0, <1>1, <3>1, WalkedInlined
      <3> HIDE DEF s, t, size
      <3> QED
        BY <2>1, <2>2, <3>2
    <2> HIDE DEF u
    <2>4. inlineCount' \in Nat
      BY <2>1 DEF WalkInvariant, Records
    <2>5. WalkInvariant'
      BY <1>0, <1>2, <2>1, <2>3, <2>4, ListWalked
    <2>6. node \in 1..Len(t)
      BY <1>0, <1>1, LayoutsFollow DEF Walked
    <2> QED
      BY <2>1, <2>2, <2>3, <2>5, <2>6
  <1>3. CASE stage' # stage
    <2>1. stage' = "panic" /\ prog' = prog /\ node' = node /\ inlineCount' = inlineCount
      BY <1>3 DEF InlineCall
    <2>2. Course' /\ OnWalk'
      BY <1>0, <2>1 DEF WalkInvariant, Course, OnWalk
    <2>3. WalkInvariant'
      BY <1>0, <2>1, <2>2, ListsKept
    <2> QED
      BY <1>3, <2>3
  <1> QED
    BY SMTT(40), <1>2, <1>3

LEMMA WalkStep == WalkInvariant /\ [InlineNext]_optimising => WalkInvariant'
  <1> SUFFICES ASSUME WalkInvariant, [InlineNext]_optimising PROVE WalkInvariant'
    OBVIOUS
  <1>1. CASE UNCHANGED optimising
    <2>1. /\ source' = source /\ prog' = prog /\ replacementCode' = replacementCode
          /\ inlineCount' = inlineCount /\ stage' = stage /\ visited' = visited
          /\ path' = path /\ node' = node /\ pushScopeStack' = pushScopeStack
      BY <1>1 DEF optimising, inlining, walking
    <2>2. Course' /\ OnWalk'
      BY <2>1 DEF WalkInvariant, Course, OnWalk
    <2> QED
      BY <2>1, <2>2, ListsKept
  <1>2. CASE InlineNext
    BY <1>2, WalkChecks, WalkTurns, WalkGoesOn, WalkInlines DEF InlineNext, Optimise
  <1> QED
    BY <1>1, <1>2

\* What is kept of a function is its own code, and the walks are where the
\* source has come to, whatever has been put in behind them.
THEOREM WalkInvariantHolds == InlineSpec => []WalkInvariant
  <1> QED
    BY WalkInit, WalkStep, PTL DEF InlineSpec

-----------------------------------------------------------------------------
(* Type correctness, and that the walks advance.                           *)

\* In every state of a run the walk is within its list, the scopes it holds
\* open are PushScopes before it, and code is kept of functions only.
THEOREM TypeCorrect == InlineSpec => []TypeOK
  <1>1. WalkInvariant => TypeOK
    <2> SUFFICES ASSUME WalkInvariant PROVE TypeOK
      OBVIOUS
    <2>1. ASSUME path # NoPath
          PROVE  /\ node \in 1..(Len(prog[path]) + 1)
                 /\ \A k \in 1..Len(pushScopeStack) :
                        /\ pushScopeStack[k] < node
                        /\ prog[path][pushScopeStack[k]].op = "pushscope"
      <3>1. Walked(source[path], prog[path], node, pushScopeStack)
        BY <2>1, WalkedLists
      <3>2. node \in Int /\ \A j \in 1..(node - 1) : j < node
        BY <3>1 DEF Walked
      <3> QED
        BY <3>1, <3>2 DEF Walked
    <2> QED
      BY <2>1 DEF TypeOK, WalkInvariant, Records, Course
  <1> QED
    BY <1>1, WalkInvariantHolds, PTL

\* Every step of a walk leaves less of its list to walk, whatever it puts in.
THEOREM AdvancesAlways == InlineSpec => WalkAdvances
  <1>1. WalkInvariant /\ [InlineNext]_optimising =>
            [path # NoPath /\ path' = path /\ stage' = stage =>
                Len(prog'[path]) - node' < Len(prog[path]) - node]_optimising
    <2> SUFFICES ASSUME WalkInvariant, InlineNext, path # NoPath, path' = path, stage' = stage
                 PROVE  Len(prog'[path]) - node' < Len(prog[path]) - node
      OBVIOUS
    <2>0. stage \in {"inline", "main", "panic"} /\ Len(prog[path]) \in Nat
      BY WalkedLists, LayoutsFollow DEF WalkInvariant, Course
    <2>1. CASE WalkPushScope \/ WalkPopScope \/ WalkOther \/ WalkCallKept
      <3>1. node' = node + 1 /\ node \in 1..Len(prog[path]) /\ Len(prog'[path]) = Len(prog[path])
        BY <2>1, WalkGoesOn
      <3> QED
        BY <2>0, <3>1
    <2>2. CASE InlineCall
      <3>1. /\ node \in 1..Len(prog[path]) /\ Len(NewCode) \in Nat /\ node' = node + Len(NewCode)
            /\ Len(prog'[path]) = (Len(prog[path]) + Len(NewCode)) - 1
        BY <2>2, WalkInlines
      <3> DEFINE l == Len(NewCode)
                 m == Len(prog'[path])
      <3>2. node \in 1..Len(prog[path]) /\ l \in Nat /\ node' = node + l /\ m = (Len(prog[path]) + l) - 1
        BY <3>1
      <3> HIDE DEF l, m
      <3>3. m - node' < Len(prog[path]) - node
        BY <2>0, <3>2
      <3> QED
        BY <3>3 DEF m
    <2>3. ~ (\E f \in Functions : CheckInlinable(f)) /\ ~ EndCheck
      BY <2>0 DEF CheckInlinable, EndCheck
    <2>4. ~ (\E f \in DOMAIN source : StartPath(f)) /\ ~ EndInline /\ ~ HandOn /\ ~ MoveOn
      BY <2>0 DEF StartPath, EndInline, HandOn, Inlined, MoveOn
    <2>5. ~ EndPath
      BY DEF EndPath
    <2> QED
      BY <2>1, <2>2, <2>3, <2>4, <2>5 DEF InlineNext, Optimise
  <1> QED
    BY <1>1, WalkInvariantHolds, PTL DEF InlineSpec, WalkAdvances

-----------------------------------------------------------------------------
(* The second invariant: labels and jumps.                                 *)

\* Labels made for a call carry the number of a call that has been replaced.
Counted ==
    \A f \in DOMAIN prog : \A m \in 1..Len(prog[f]) :
        IsLabel(prog[f][m]) /\ prog[f][m].label.kind = "ins"
            => prog[f][m].label.count \in 0..(inlineCount - 1)

Distinct ==
    \A f, g \in DOMAIN prog : \A m \in 1..Len(prog[f]), n \in 1..Len(prog[g]) :
        IsLabel(prog[f][m]) /\ IsLabel(prog[g][n]) /\ prog[f][m].label = prog[g][n].label
            => f = g /\ m = n

Resolving ==
    \A f \in DOMAIN prog : \A m \in 1..Len(prog[f]) : IsJump(prog[f][m]) =>
        \E n \in 1..Len(prog[f]) : prog[f][n] = Label(prog[f][m].dst)

LabelInvariant == Counted /\ Distinct /\ Resolving

LEMMA LabelIs ==
    ASSUME NEW c, IsCode(c), NEW n \in 1..Len(c), IsLabel(c[n])
    PROVE  c[n] = Label(c[n].label)
  BY DEF IsCode, Plain, IsLabel

LEMMA LabelInit == InlineInit => LabelInvariant
  <1> SUFFICES ASSUME InlineInit PROVE LabelInvariant
    OBVIOUS
  <1>0. source \in Sources /\ prog = source
    BY DEF InlineInit
  <1>1. ASSUME NEW f \in DOMAIN prog
        PROVE  /\ f \in DOMAIN source /\ prog[f] = source[f]
               /\ source[f] \in SourceCodes /\ IsCode(source[f]) /\ Resolved(source[f])
               /\ \A n \in 1..Len(source[f]) : source[f][n] \in SourceInstrs
    <2>1. f \in DOMAIN source /\ prog[f] = source[f] /\ source[f] \in SourceCodes
      BY <1>0, SourceLists
    <2> QED
      BY <2>1, SourceCode
  <1>2. Counted
    <2> SUFFICES ASSUME NEW f \in DOMAIN prog, NEW m \in 1..Len(prog[f]), IsLabel(prog[f][m])
                 PROVE  prog[f][m].label.kind # "ins"
      BY DEF Counted
    <2>1. prog[f][m] \in SourceInstrs
      BY <1>1
    <2> QED
      BY <2>1, InstrsAssumption DEF IsLabel
  <1>3. Distinct
    <2> SUFFICES ASSUME NEW f \in DOMAIN prog, NEW g \in DOMAIN prog,
                        NEW m \in 1..Len(prog[f]), NEW n \in 1..Len(prog[g]),
                        IsLabel(prog[f][m]), IsLabel(prog[g][n]),
                        prog[f][m].label = prog[g][n].label
                 PROVE  f = g /\ m = n
      BY DEF Distinct
    <2>1. prog[f][m] = Label(prog[f][m].label)
      BY <1>1, LabelIs
    <2>2. prog[g][n] = Label(prog[g][n].label)
      BY <1>1, LabelIs
    <2>3. prog[f][m] = prog[g][n]
      BY <2>1, <2>2
    <2> QED
      BY <1>0, <2>3, SourcesAssumption
  <1>4. Resolving
    BY <1>1 DEF Resolving, Resolved
  <1> QED
    BY <1>2, <1>3, <1>4 DEF LabelInvariant

\* The labels of the code that replaces a call are new, and its jumps stay
\* within it.
LEMMA NewLabels ==
    ASSUME WalkInvariant, Walking, IsCallMove(Here), Inlinable
    PROVE  /\ \A k \in 1..Len(NewCode) : IsLabel(NewCode[k]) =>
                 NewCode[k].label.kind = "ins" /\ NewCode[k].label.count = inlineCount
           /\ \A k, j \in 1..Len(NewCode) :
                 IsLabel(NewCode[k]) /\ IsLabel(NewCode[j]) /\ NewCode[k].label = NewCode[j].label => k = j
           /\ \A k \in 1..Len(NewCode) : IsJump(NewCode[k]) =>
                 \E j \in 1..Len(NewCode) : NewCode[j] = Label(NewCode[k].dst)
  <1> DEFINE f == Here.src.func
             args == Here.src.args
             A == ArgumentCode(Here.src)
             N == InlinedCode(f, Here.dst)
             R == ReplacementCode(f)
             W == NewCode
  <1>1. /\ IsList(args) /\ f \in Functions /\ replacementCode[f] = R
        /\ IsCode(R) /\ IsCode(A) /\ IsCode(N) /\ IsCode(W)
    BY NewCodeFacts
  <1>2. source \in Sources
    BY DEF WalkInvariant, Lists
  <1>3. /\ \A j, k \in 1..Len(R) :
               IsLabel(R[j]) /\ IsLabel(R[k]) /\ R[j].label = R[k].label => j = k
        /\ \A j \in 1..Len(R) : IsJump(R[j]) => \E k \in 1..Len(R) : R[k] = Label(R[j].dst)
    BY <1>1, <1>2, ReplacementLabels
  <1> HIDE DEF R
  <1>4. /\ Len(N) = Len(R)
        /\ \A n \in 1..Len(R) :
              /\ N[n].op = R[n].op
              /\ R[n].op = "label" => N[n] = Label(InlinedLabel(f, inlineCount, R[n].label))
              /\ R[n].op \in {"jmp", "jmpcond"} => N[n].dst = InlinedLabel(f, inlineCount, R[n].dst)
    <2>1. IsCode(replacementCode[f])
      BY <1>1
    <2> QED
      BY <1>1, <2>1, InlinedFacts
  <1>5. /\ Len(A) = 2 * Len(args) /\ Len(args) \in Nat
        /\ \A n \in 1..Len(args) : A[2 * n - 1].op = "declare" /\ A[2 * n].op = "move"
    BY <1>1, ArgumentFacts
  <1>6. W = A \o N
    BY DEF NewCode
  <1> HIDE DEF A, N, W, f, args
  <1>7. /\ Len(W) = Len(A) + Len(N) /\ Len(A) \in Nat /\ Len(N) \in Nat
        /\ \A i \in 1..Len(A) : W[i] = A[i]
        /\ \A i \in 1..Len(N) : W[Len(A) + i] = N[i]
    <2>1. IsList(A) /\ IsList(N)
      BY <1>1 DEF IsCode
    <2>2. /\ IsList(A \o N) /\ Len(A \o N) = Len(A) + Len(N)
          /\ \A i \in 1..Len(A) : (A \o N)[i] = A[i]
          /\ \A i \in 1..Len(N) : (A \o N)[Len(A) + i] = N[i]
      BY ONLY <2>1, Joined
    <2> QED
      BY <1>6, <2>1, <2>2, ListFacts
  <1>8. ASSUME NEW k \in 1..Len(A) PROVE A[k].op \in {"declare", "move"}
    <2> DEFINE n == (k + 1) \div 2
    <2>1. k \in Nat /\ k >= 1 /\ k <= 2 * Len(args)
      BY <1>5
    <2>2. n \in 1..Len(args) /\ (k = 2 * n - 1 \/ k = 2 * n)
      BY <1>5, <2>1
    <2> HIDE DEF n
    <2> QED
      BY <1>5, <2>2
  <1>9. ASSUME NEW k \in 1..Len(W), W[k].op \in {"label", "jmp", "jmpcond"}
        PROVE  \E j \in 1..Len(R) : k = Len(A) + j /\ W[k] = N[j]
    <2>1. k \notin 1..Len(A)
      BY <1>7, <1>8, <1>9
    <2>2. k - Len(A) \in 1..Len(N) /\ k = Len(A) + (k - Len(A))
      BY <2>1, <1>7
    <2>3. W[Len(A) + (k - Len(A))] = N[k - Len(A)]
      BY <2>2, <1>7
    <2> QED
      BY <2>2, <2>3, <1>4
  <1>10. ASSUME NEW k \in 1..Len(W), IsLabel(W[k])
         PROVE  \E j \in 1..Len(R) :
                    /\ k = Len(A) + j /\ IsLabel(R[j])
                    /\ W[k] = Label(InlinedLabel(f, inlineCount, R[j].label))
    <2>1. PICK j \in 1..Len(R) : k = Len(A) + j /\ W[k] = N[j]
      BY <1>9, <1>10 DEF IsLabel
    <2> QED
      BY <2>1, <1>4, <1>10 DEF IsLabel
  <1>11. ASSUME NEW k \in 1..Len(W), IsLabel(W[k])
         PROVE  W[k].label.kind = "ins" /\ W[k].label.count = inlineCount
    <2>1. PICK j \in 1..Len(R) : W[k] = Label(InlinedLabel(f, inlineCount, R[j].label))
      BY <1>10, <1>11
    <2>2. W[k].label = InlinedLabel(f, inlineCount, R[j].label)
      BY <2>1 DEF Label
    <2> QED
      BY <2>2 DEF InlinedLabel
  <1>12. ASSUME NEW k \in 1..Len(W), NEW j \in 1..Len(W),
                IsLabel(W[k]), IsLabel(W[j]), W[k].label = W[j].label
         PROVE  k = j
    <2>1. PICK a \in 1..Len(R) : /\ k = Len(A) + a /\ IsLabel(R[a])
                                 /\ W[k] = Label(InlinedLabel(f, inlineCount, R[a].label))
      BY <1>10, <1>12
    <2>2. PICK b \in 1..Len(R) : /\ j = Len(A) + b /\ IsLabel(R[b])
                                 /\ W[j] = Label(InlinedLabel(f, inlineCount, R[b].label))
      BY <1>10, <1>12
    <2>3. W[k].label = InlinedLabel(f, inlineCount, R[a].label)
          /\ W[j].label = InlinedLabel(f, inlineCount, R[b].label)
      BY <2>1, <2>2 DEF Label
    <2>4. InlinedLabel(f, inlineCount, R[a].label) = InlinedLabel(f, inlineCount, R[b].label)
      BY <2>3, <1>12
    <2>5. R[a].label = R[b].label
      BY <2>4 DEF InlinedLabel
    <2> QED
      BY <2>1, <2>2, <2>5, <1>3
  <1>13. ASSUME NEW k \in 1..Len(W), IsJump(W[k])
         PROVE  \E j \in 1..Len(W) : W[j] = Label(W[k].dst)
    <2>1. PICK a \in 1..Len(R) : k = Len(A) + a /\ W[k] = N[a]
      BY <1>9, <1>13 DEF IsJump
    <2>2. IsJump(R[a]) /\ W[k].dst = InlinedLabel(f, inlineCount, R[a].dst)
      BY <2>1, <1>4, <1>13 DEF IsJump
    <2>3. PICK b \in 1..Len(R) : R[b] = Label(R[a].dst)
      BY <2>2, <1>3
    <2>4. N[b] = Label(InlinedLabel(f, inlineCount, R[a].dst))
      <3>1. R[b].op = "label" /\ R[b].label = R[a].dst
        BY <2>3 DEF Label
      <3> QED
        BY <3>1, <1>4
    <2>5. Len(A) + b \in 1..Len(W) /\ W[Len(A) + b] = N[b]
      BY <1>4, <1>7
    <2> QED
      BY <2>2, <2>4, <2>5
  <1> QED
    BY <1>11, <1>12, <1>13 DEF W

\* What u has of labels and jumps is what t had at the places that from
\* tells, or, at those in fresh, made for call c.
Relabelled(t, u, from, fresh, c) ==
    /\ \A i \in 1..Len(u) : i \notin fresh /\ (IsLabel(u[i]) \/ IsJump(u[i])) =>
          from[i] \in 1..Len(t) /\ u[i] = t[from[i]]
    /\ \A i, j \in 1..Len(u) : i \notin fresh /\ j \notin fresh /\ from[i] = from[j] => i = j
    /\ fresh \subseteq 1..Len(u)
    /\ \A i \in fresh : IsLabel(u[i]) => u[i].label.kind = "ins" /\ u[i].label.count = c
    /\ \A i, j \in fresh : IsLabel(u[i]) /\ IsLabel(u[j]) /\ u[i].label = u[j].label => i = j
    /\ \A i \in fresh : IsJump(u[i]) => \E j \in 1..Len(u) : u[j] = Label(u[i].dst)
    /\ \A k \in 1..Len(t) : IsLabel(t[k]) => \E i \in 1..Len(u) : u[i] = t[k]

LEMMA ListRelabelled ==
    ASSUME LabelInvariant, inlineCount \in Nat, inlineCount' \in {inlineCount, inlineCount + 1},
           path \in DOMAIN prog, DOMAIN prog' = DOMAIN prog,
           \A f \in DOMAIN prog : f # path => prog'[f] = prog[f],
           NEW from, NEW fresh, fresh # {} => inlineCount' = inlineCount + 1,
           Relabelled(prog[path], prog'[path], from, fresh, inlineCount)
    PROVE  LabelInvariant'
  <1> DEFINE t == prog[path]
             u == prog'[path]
  <1>0. /\ \A i \in 1..Len(u) : i \notin fresh /\ (IsLabel(u[i]) \/ IsJump(u[i])) =>
              from[i] \in 1..Len(t) /\ u[i] = t[from[i]]
        /\ \A i, j \in 1..Len(u) : i \notin fresh /\ j \notin fresh /\ from[i] = from[j] => i = j
        /\ fresh \subseteq 1..Len(u)
        /\ \A i \in fresh : IsLabel(u[i]) => u[i].label.kind = "ins" /\ u[i].label.count = inlineCount
        /\ \A i, j \in fresh : IsLabel(u[i]) /\ IsLabel(u[j]) /\ u[i].label = u[j].label => i = j
        /\ \A i \in fresh : IsJump(u[i]) => \E j \in 1..Len(u) : u[j] = Label(u[i].dst)
        /\ \A k \in 1..Len(t) : IsLabel(t[k]) => \E i \in 1..Len(u) : u[i] = t[k]
    BY DEF Relabelled
  <1>1. ASSUME NEW f \in DOMAIN prog, NEW m \in 1..Len(prog'[f]), IsLabel(prog'[f][m])
        PROVE  \/ f = path /\ m \in fresh
               \/ /\ ~ (f = path /\ m \in fresh)
                  /\ \E k \in 1..Len(prog[f]) :
                        /\ prog'[f][m] = prog[f][k] /\ (f = path => k = from[m]) /\ (f # path => k = m)
    <2>1. CASE f = path
      BY <2>1, <1>0, <1>1
    <2>2. CASE f # path
      <3>1. prog'[f] = prog[f]
        BY <2>2
      <3> QED
        BY <2>2, <3>1
    <2> QED
      BY <2>1, <2>2
  <1>2. Counted'
    <2> SUFFICES ASSUME NEW f \in DOMAIN prog, NEW m \in 1..Len(prog'[f]),
                        IsLabel(prog'[f][m]), prog'[f][m].label.kind = "ins"
                 PROVE  prog'[f][m].label.count \in 0..(inlineCount' - 1)
      BY DEF Counted
    <2>1. CASE f = path /\ m \in fresh
      <3>1. prog'[f][m].label.count = inlineCount /\ inlineCount' = inlineCount + 1
        BY <1>0, <2>1
      <3> QED
        BY <3>1
    <2>2. CASE \E k \in 1..Len(prog[f]) : prog'[f][m] = prog[f][k]
      <3>1. prog'[f][m].label.count \in 0..(inlineCount - 1)
        BY <2>2 DEF LabelInvariant, Counted
      <3> QED
        BY <3>1
    <2> QED
      BY <1>1, <2>1, <2>2
  <1>3. Distinct'
    <2> SUFFICES ASSUME NEW f \in DOMAIN prog, NEW g \in DOMAIN prog,
                        NEW m \in 1..Len(prog'[f]), NEW n \in 1..Len(prog'[g]),
                        IsLabel(prog'[f][m]), IsLabel(prog'[g][n]),
                        prog'[f][m].label = prog'[g][n].label
                 PROVE  f = g /\ m = n
      BY DEF Distinct
    <2>1. CASE f = path /\ m \in fresh
      <3>1. prog'[f][m].label.kind = "ins" /\ prog'[f][m].label.count = inlineCount
        BY <1>0, <2>1
      <3>2. CASE g = path /\ n \in fresh
        BY <1>0, <2>1, <3>2
      <3>3. CASE \E k \in 1..Len(prog[g]) : prog'[g][n] = prog[g][k]
        <4>1. prog'[g][n].label.count \in 0..(inlineCount - 1)
          BY <3>1, <3>3 DEF LabelInvariant, Counted
        <4> QED
          BY <3>1, <4>1
      <3> QED
        BY <1>1, <3>2, <3>3
    <2>2. CASE ~ (f = path /\ m \in fresh)
      <3>1. PICK k \in 1..Len(prog[f]) :
                /\ prog'[f][m] = prog[f][k] /\ (f = path => k = from[m]) /\ (f # path => k = m)
        BY <1>1, <2>2
      <3>2. CASE g = path /\ n \in fresh
        <4>1. prog'[g][n].label.kind = "ins" /\ prog'[g][n].label.count = inlineCount
          BY <1>0, <3>2
        <4>2. prog'[f][m].label.count \in 0..(inlineCount - 1)
          BY <3>1, <4>1 DEF LabelInvariant, Counted
        <4> QED
          BY <4>1, <4>2
      <3>3. CASE ~ (g = path /\ n \in fresh)
        <4>1. PICK j \in 1..Len(prog[g]) :
                  /\ prog'[g][n] = prog[g][j] /\ (g = path => j = from[n]) /\ (g # path => j = n)
          BY <1>1, <3>3
        <4>2. f = g /\ k = j
          BY <3>1, <4>1 DEF LabelInvariant, Distinct
        <4>3. CASE f # path
          BY <3>1, <4>1, <4>2, <4>3
        <4>4. CASE f = path
          <5>1. from[m] = from[n] /\ m \notin fresh /\ n \notin fresh
            BY <2>2, <3>1, <3>3, <4>1, <4>2, <4>4
          <5> QED
            BY <1>0, <4>2, <4>4, <5>1
        <4> QED
          BY <4>3, <4>4
      <3> QED
        BY <3>2, <3>3
    <2> QED
      BY <2>1, <2>2
  <1>4. Resolving'
    <2> SUFFICES ASSUME NEW f \in DOMAIN prog, NEW m \in 1..Len(prog'[f]), IsJump(prog'[f][m])
                 PROVE  \E n \in 1..Len(prog'[f]) : prog'[f][n] = Label(prog'[f][m].dst)
      BY DEF Resolving
    <2>1. CASE f # path
      <3>1. prog'[f] = prog[f]
        BY <2>1
      <3> QED
        BY <3>1 DEF LabelInvariant, Resolving
    <2>2. CASE f = path /\ m \in fresh
      BY <1>0, <2>2
    <2>3. CASE f = path /\ m \notin fresh
      <3>1. from[m] \in 1..Len(t) /\ u[m] = t[from[m]]
        BY <1>0, <2>3
      <3>2. PICK n \in 1..Len(t) : t[n] = Label(u[m].dst)
        BY <2>3, <3>1 DEF LabelInvariant, Resolving
      <3>3. IsLabel(t[n])
        BY <3>2 DEF IsLabel, Label
      <3> QED
        BY <1>0, <2>3, <3>2, <3>3
    <2> QED
      BY <2>1, <2>2, <2>3
  <1> QED
    BY <1>2, <1>3, <1>4 DEF LabelInvariant

LEMMA LabelsKept ==
    ASSUME LabelInvariant, inlineCount \in Nat, inlineCount' \in {inlineCount, inlineCount + 1},
           prog' = prog
    PROVE  LabelInvariant'
  <1>1. Counted'
    <2> DEFINE c == inlineCount
               d == inlineCount'
    <2>0. c \in Nat /\ (d = c \/ d = c + 1)
      OBVIOUS
    <2> HIDE DEF c, d
    <2>1. \A k \in 0..(c - 1) : k \in 0..(d - 1)
      <3>1. CASE d = c
        BY <3>1
      <3>2. CASE d = c + 1
        BY <2>0, <3>2
      <3> QED
        BY <2>0, <3>1, <3>2
    <2>2. \A k \in 0..(inlineCount - 1) : k \in 0..(inlineCount' - 1)
      BY <2>1 DEF c, d
    <2> QED
      BY <2>2 DEF LabelInvariant, Counted
  <1>2. Distinct' /\ Resolving'
    BY DEF LabelInvariant, Distinct, Resolving
  <1> QED
    BY <1>1, <1>2 DEF LabelInvariant

LEMMA LabelPops ==
    ASSUME WalkInvariant, LabelInvariant, WalkPopScope
    PROVE  LabelInvariant'
  <1> DEFINE t == prog[path]
             size == t[Last(pushScopeStack)].size
             x == PopScope(size)
             u == Put(t, node, x)
             from == [i \in 1..Len(t) |-> i]
             fresh == {}
  <1>0. path # NoPath /\ node <= Len(t) /\ t[node].op = "popscope" /\ inlineCount' = inlineCount
    BY DEF WalkPopScope, Walking, Here, inlining
  <1>1. /\ path \in DOMAIN prog /\ IsCode(t) /\ Len(t) \in Nat /\ node \in 1..(Len(t) + 1)
    BY <1>0, WalkedLists, LayoutsFollow DEF Walked
  <1>2. /\ size \in Nat /\ DOMAIN prog' = DOMAIN prog
        /\ prog'[path] = u /\ \A f \in DOMAIN prog : f # path => prog'[f] = prog[f]
    BY PopScopeDone
  <1>3. Plain(x) /\ ~ IsLabel(x) /\ ~ IsJump(x)
    BY <1>2 DEF Plain, PopScope, IsLabel, IsJump
  <1> HIDE DEF x, size
  <1>4. node \in 1..Len(t)
    BY <1>0, <1>1
  <1>5. /\ Len(u) = Len(t) /\ u[node] = x
        /\ \A k \in 1..Len(t) : k # node => u[k] = t[k]
    BY <1>1, <1>3, <1>4, PutCode
  <1> HIDE DEF u
  <1>6. \A i \in 1..Len(u) : IsLabel(u[i]) \/ IsJump(u[i]) => from[i] \in 1..Len(t) /\ u[i] = t[from[i]]
    BY <1>3, <1>5
  <1>7. \A i, j \in 1..Len(u) : from[i] = from[j] => i = j
    BY <1>5
  <1>8. \A k \in 1..Len(t) : IsLabel(t[k]) => \E i \in 1..Len(u) : u[i] = t[k]
    <2> SUFFICES ASSUME NEW k \in 1..Len(t), IsLabel(t[k]) PROVE \E i \in 1..Len(u) : u[i] = t[k]
      OBVIOUS
    <2>1. k # node
      BY <1>0 DEF IsLabel
    <2> QED
      BY <2>1, <1>5
  <1>9. inlineCount \in Nat
    BY DEF WalkInvariant, Records
  <1> HIDE DEF from
  <1>10. /\ fresh \subseteq 1..Len(u) /\ (fresh # {} => inlineCount' = inlineCount + 1)
         /\ \A i \in fresh : FALSE
    OBVIOUS
  <1> HIDE DEF fresh
  <1>11. Relabelled(t, u, from, fresh, inlineCount)
    BY <1>6, <1>7, <1>8, <1>10 DEF Relabelled
  <1>12. /\ Relabelled(prog[path], prog'[path], from, fresh, inlineCount) /\ path \in DOMAIN prog
         /\ inlineCount' \in {inlineCount, inlineCount + 1}
    BY <1>0, <1>1, <1>2, <1>11
  <1> QED
    BY <1>2, <1>9, <1>10, <1>12, ListRelabelled

\* The places of a list in which new has been put for the n-th instruction.
Placed(t, u, n, new) ==
    LET l == Len(new)
    IN  /\ l \in Nat /\ Len(t) \in Nat /\ Len(u) = (Len(t) + l) - 1
        /\ \A i \in 1..l : (n - 1) + i \in 1..Len(u) /\ u[(n - 1) + i] = new[i]
        /\ \A i \in 1..Len(u) : n <= i /\ i < n + l =>
              (i - n) + 1 \in 1..l /\ u[i] = new[(i - n) + 1]
        /\ \A i \in 1..Len(u) : i < n /\ (IsLabel(u[i]) \/ IsJump(u[i])) =>
              i \in 1..Len(t) /\ u[i] = t[i]
        /\ \A i \in 1..Len(u) : i >= n + l =>
              (i - l) + 1 \in 1..Len(t) /\ u[i] = t[(i - l) + 1]
        /\ \A k \in 1..Len(t) : IsLabel(t[k]) => \E i \in 1..Len(u) : u[i] = t[k]

LEMMA InlinedPlaces ==
    ASSUME NEW t, NEW new, IsCode(t), IsCode(new), NEW n \in 1..Len(t), NEW scope \in 1..Len(t),
           scope < n, t[scope].op = "pushscope", t[n].op = "move",
           NEW x, Plain(x), x.op = "pushscope"
    PROVE  Placed(t, Splice(Put(t, scope, x), n, new), n, new)
  <1> DEFINE g == Put(t, scope, x)
             u == Splice(g, n, new)
             l == Len(new)
  <1>0. l \in Nat /\ Len(t) \in Nat
    BY LayoutsFollow
  <1>1. /\ IsCode(g) /\ Len(g) = Len(t) /\ g[scope] = x
        /\ \A k \in 1..Len(t) : k # scope => g[k] = t[k]
    BY PutCode
  <1> HIDE DEF g
  <1>2. /\ Len(u) = (Len(t) + l) - 1
        /\ \A i \in 1..(n - 1) : u[i] = g[i]
        /\ \A i \in 1..l : u[(n - 1) + i] = new[i]
        /\ \A i \in (n + 1)..Len(t) : u[(i + l) - 1] = g[i]
    <2>1. IsList(g) /\ IsList(new) /\ n \in 1..Len(g)
      BY <1>1 DEF IsCode
    <2>2. /\ Len(u) = (Len(g) + Len(new)) - 1
          /\ \A i \in 1..(n - 1) : u[i] = g[i]
          /\ \A i \in 1..Len(new) : u[(n - 1) + i] = new[i]
          /\ \A i \in (n + 1)..Len(g) : u[(i + Len(new)) - 1] = g[i]
      BY <2>1, Spliced
    <2> QED
      BY <2>2, <1>1
  <1> HIDE DEF u, l
  <1>3. ASSUME NEW i \in 1..l PROVE (n - 1) + i \in 1..Len(u) /\ u[(n - 1) + i] = new[i]
    BY <1>0, <1>2
  <1>4. ASSUME NEW i \in 1..Len(u), n <= i, i < n + l
        PROVE  (i - n) + 1 \in 1..l /\ u[i] = new[(i - n) + 1]
    <2>1. (i - n) + 1 \in 1..l /\ (n - 1) + ((i - n) + 1) = i
      BY <1>0, <1>2, <1>4
    <2>2. u[(n - 1) + ((i - n) + 1)] = new[(i - n) + 1]
      BY <2>1, <1>2
    <2> QED
      BY <2>1, <2>2
  <1>5. ASSUME NEW i \in 1..Len(u), i < n, IsLabel(u[i]) \/ IsJump(u[i])
        PROVE  i \in 1..Len(t) /\ u[i] = t[i]
    <2>1. i \in 1..(n - 1) /\ i \in 1..Len(t)
      BY <1>0, <1>5
    <2>2. u[i] = g[i]
      BY <2>1, <1>2
    <2>3. i # scope
      BY <2>2, <1>1, <1>5 DEF IsLabel, IsJump
    <2> QED
      BY <2>1, <2>2, <2>3, <1>1
  <1>6. ASSUME NEW i \in 1..Len(u), i >= n + l
        PROVE  (i - l) + 1 \in 1..Len(t) /\ u[i] = t[(i - l) + 1]
    <2> DEFINE k == (i - l) + 1
    <2>1. k \in (n + 1)..Len(t) /\ (k + l) - 1 = i
      BY <1>0, <1>2, <1>6
    <2> HIDE DEF k
    <2>2. u[i] = g[k] /\ k \in 1..Len(t) /\ k # scope
      BY <2>1, <1>2
    <2>3. k \in 1..Len(t) /\ u[i] = t[k]
      BY <2>2, <1>1
    <2> QED
      BY <2>3 DEF k
  <1>7. ASSUME NEW k \in 1..Len(t), IsLabel(t[k]) PROVE \E i \in 1..Len(u) : u[i] = t[k]
    <2>1. k # n /\ k # scope
      BY <1>7 DEF IsLabel
    <2>2. g[k] = t[k]
      BY <2>1, <1>1
    <2>3. CASE k < n
      <3>1. k \in 1..(n - 1) /\ k \in 1..Len(u)
        BY <2>3, <1>0, <1>2
      <3> QED
        BY <2>2, <3>1, <1>2
    <2>4. CASE k > n
      <3>1. k \in (n + 1)..Len(t) /\ (k + l) - 1 \in 1..Len(u)
        BY <2>4, <1>0, <1>2
      <3> QED
        BY <2>2, <3>1, <1>2
    <2> QED
      BY <2>1, <2>3, <2>4
  <1> QED
    BY <1>0, <1>2, <1>3, <1>4, <1>5, <1>6, <1>7 DEF u, g, l, Placed

LEMMA LabelInlines ==
    ASSUME WalkInvariant, LabelInvariant, InlineCall, stage' = stage
    PROVE  LabelInvariant'
  <1> DEFINE t == prog[path]
             scope == Last(pushScopeStack)
             z == t[scope].size + ExtraSize(Here.src)
             x == PushScope(z)
             u == Splice(Put(t, scope, x), node, NewCode)
             l == Len(NewCode)
             from == [i \in 1..Len(u) |-> IF i < node THEN i ELSE (i - l) + 1]
             fresh == {i \in 1..Len(u) : node <= i /\ i < node + l}
             W == NewCode
  <1>0. /\ path # NoPath /\ node <= Len(t) /\ Here = t[node] /\ Walking /\ IsCallMove(Here) /\ Inlinable
    BY DEF InlineCall, Walking, Here
  <1>1. /\ path \in DOMAIN prog /\ IsCode(t) /\ Len(t) \in Nat /\ node \in 1..(Len(t) + 1)
        /\ Walked(source[path], t, node, pushScopeStack)
    BY <1>0, WalkedLists, LayoutsFollow DEF Walked
  <1>2. /\ z \in Nat /\ DOMAIN prog' = DOMAIN prog
        /\ Len(pushScopeStack) > 0 /\ scope = pushScopeStack[Len(pushScopeStack)]
        /\ prog'[path] = u /\ \A f \in DOMAIN prog : f # path => prog'[f] = prog[f]
        /\ inlineCount' = inlineCount + 1
    BY InlineCallDone
  <1> HIDE DEF z
  <1>3. Plain(x) /\ x.op = "pushscope"
    BY <1>2 DEF Plain, PushScope
  <1> HIDE DEF x
  <1>4. node \in 1..Len(t) /\ scope \in 1..Len(t) /\ scope < node /\ t[scope].op = "pushscope"
    <2>1. Len(pushScopeStack) \in 1..Len(pushScopeStack)
      BY <1>1, <1>2, ListFacts DEF Walked
    <2>2. scope \in 1..(node - 1) /\ t[scope].op = "pushscope"
      BY <1>1, <1>2, <2>1 DEF Walked
    <2> HIDE DEF scope
    <2> QED
      BY <1>0, <1>1, <2>2
  <1>5. IsCode(W) /\ t[node].op = "move"
    BY <1>0, NewCodeFacts DEF IsCallMove
  <1>6. /\ \A k \in 1..l : IsLabel(W[k]) =>
              W[k].label.kind = "ins" /\ W[k].label.count = inlineCount
        /\ \A k, j \in 1..l :
              IsLabel(W[k]) /\ IsLabel(W[j]) /\ W[k].label = W[j].label => k = j
        /\ \A k \in 1..l : IsJump(W[k]) => \E j \in 1..l : W[j] = Label(W[k].dst)
    BY <1>0, NewLabels
  <1> HIDE DEF scope, t, W
  <1>7. /\ l \in Nat /\ Len(t) \in Nat /\ Len(u) = (Len(t) + l) - 1
        /\ \A i \in 1..l : (node - 1) + i \in 1..Len(u) /\ u[(node - 1) + i] = W[i]
        /\ \A i \in 1..Len(u) : node <= i /\ i < node + l =>
              (i - node) + 1 \in 1..l /\ u[i] = W[(i - node) + 1]
        /\ \A i \in 1..Len(u) : i < node /\ (IsLabel(u[i]) \/ IsJump(u[i])) =>
              i \in 1..Len(t) /\ u[i] = t[i]
        /\ \A i \in 1..Len(u) : i >= node + l =>
              (i - l) + 1 \in 1..Len(t) /\ u[i] = t[(i - l) + 1]
        /\ \A k \in 1..Len(t) : IsLabel(t[k]) => \E i \in 1..Len(u) : u[i] = t[k]
    <2>1. u = Splice(Put(t, scope, x), node, W) /\ l = Len(W)
      BY DEF W
    <2> HIDE DEF u, l
    <2>2. Placed(t, u, node, W)
      BY <1>1, <1>3, <1>4, <1>5, <2>1, InlinedPlaces
    <2> QED
      BY <2>1, <2>2 DEF Placed
  <1> HIDE DEF u, l
  <1>8. \A i \in 1..Len(u) : i \notin fresh /\ (IsLabel(u[i]) \/ IsJump(u[i])) =>
            from[i] \in 1..Len(t) /\ u[i] = t[from[i]]
    BY <1>4, <1>7
  <1>9. ASSUME NEW i \in 1..Len(u), NEW j \in 1..Len(u), i \notin fresh, j \notin fresh, from[i] = from[j]
        PROVE  i = j
    <2>1. (i < node \/ i >= node + l) /\ (j < node \/ j >= node + l)
      BY <1>4, <1>7, <1>9
    <2>2. i \in Int /\ j \in Int /\ node \in Int
      BY <1>4
    <2>3. (IF i < node THEN i ELSE (i - l) + 1) = (IF j < node THEN j ELSE (j - l) + 1)
      BY <1>9
    <2> QED
      BY <2>1, <2>2, <2>3, <1>7
  <1>10. ASSUME NEW i \in fresh PROVE (i - node) + 1 \in 1..l /\ u[i] = W[(i - node) + 1] /\ i \in Int
    BY <1>7
  <1>11. \A i \in fresh : IsLabel(u[i]) => u[i].label.kind = "ins" /\ u[i].label.count = inlineCount
    BY <1>6, <1>10
  <1>12. ASSUME NEW i \in fresh, NEW j \in fresh,
                IsLabel(u[i]), IsLabel(u[j]), u[i].label = u[j].label
         PROVE  i = j
    <2>1. (i - node) + 1 = (j - node) + 1
      BY <1>6, <1>10, <1>12
    <2>2. i \in Int /\ j \in Int /\ node \in Int
      BY <1>4
    <2> QED
      BY <2>1, <2>2
  <1>13. ASSUME NEW i \in fresh, IsJump(u[i])
         PROVE  \E j \in 1..Len(u) : u[j] = Label(u[i].dst)
    <2>1. PICK j \in 1..l : W[j] = Label(u[i].dst)
      BY <1>6, <1>10, <1>13
    <2> QED
      BY SMTT(40), <2>1, <1>7
  <1>14. fresh \subseteq 1..Len(u)
    OBVIOUS
  <1> HIDE DEF from, fresh
  <1>15. Relabelled(t, u, from, fresh, inlineCount)
    BY <1>7, <1>8, <1>9, <1>11, <1>12, <1>13, <1>14 DEF Relabelled
  <1>16. /\ Relabelled(prog[path], prog'[path], from, fresh, inlineCount)
         /\ path \in DOMAIN prog /\ DOMAIN prog' = DOMAIN prog
         /\ \A f \in DOMAIN prog : f # path => prog'[f] = prog[f]
    BY <1>1, <1>2, <1>15 DEF t
  <1>17. /\ inlineCount \in Nat /\ inlineCount' \in {inlineCount, inlineCount + 1}
         /\ inlineCount' = inlineCount + 1
    BY <1>2 DEF WalkInvariant, Records
  <1> QED
    BY SMTT(40), <1>16, <1>17, ListRelabelled

LEMMA LabelStep == WalkInvariant /\ LabelInvariant /\ [InlineNext]_optimising => LabelInvariant'
  <1> SUFFICES ASSUME WalkInvariant, LabelInvariant, [InlineNext]_optimising PROVE LabelInvariant'
    OBVIOUS
  <1>0. inlineCount \in Nat
    BY DEF WalkInvariant, Records
  <1>1. CASE WalkPopScope
    BY <1>1, LabelPops
  <1>2. CASE InlineCall /\ stage' = stage
    BY <1>2, LabelInlines
  <1>3. CASE InlineCall /\ stage' # stage
    <2>1. prog' = prog /\ inlineCount' = inlineCount
      BY <1>3 DEF InlineCall
    <2> QED
      BY <2>1, <1>0, LabelsKept
  <1>4. CASE WalkCallKept
    <2>1. prog' = prog /\ inlineCount' = inlineCount + 1
      BY <1>4 DEF WalkCallKept
    <2> QED
      BY <2>1, <1>0, LabelsKept
  <1>5. CASE \/ UNCHANGED optimising \/ EndCheck \/ EndPath \/ EndInline \/ HandOn \/ MoveOn
             \/ WalkPushScope \/ WalkOther
             \/ (\E f \in Functions : CheckInlinable(f)) \/ (\E f \in DOMAIN source : StartPath(f))
    <2>1. prog' = prog /\ inlineCount' = inlineCount
      BY <1>5 DEF optimising, EndCheck, EndPath, EndInline, HandOn, MoveOn, WalkPushScope, WalkOther,
                  CheckInlinable, StartPath, inlining
    <2> QED
      BY <2>1, <1>0, LabelsKept
  <1> QED
    BY <1>1, <1>2, <1>3, <1>4, <1>5 DEF InlineNext, Optimise

\* In every state, walks going on included, labels carry numbers of calls that
\* have been replaced, none is there twice, and every jump has its label in its
\* own list.
THEOREM LabelInvariantHolds == InlineSpec => []LabelInvariant
  <1> QED
    BY LabelInit, LabelStep, WalkInvariantHolds, PTL DEF InlineSpec

\* However many calls of a function have been replaced, and in whatever order
\* the functions came, no label is there twice.
THEOREM LabelsAlwaysUnique == InlineSpec => []LabelsUnique
  <1>1. LabelInvariant => LabelsUnique
    BY DEF LabelInvariant, Distinct, LabelsUnique
  <1> QED
    BY <1>1, LabelInvariantHolds, PTL

\* And every jump has its label in the function it is in.
THEOREM JumpsAlwaysResolve == InlineSpec => []JumpsResolve
  <1>1. LabelInvariant => JumpsResolve
    BY DEF LabelInvariant, Resolving, JumpsResolve
  <1> QED
    BY <1>1, LabelInvariantHolds, PTL

-----------------------------------------------------------------------------
(* The scopes open at a place, and the words of the frame within them.     *)

\* The words of the frame while scope k of those that q has opened is the
\* innermost one; the first is the function's own.
Frame(c, q, k) == IF k = 1 THEN 0 ELSE Dist(c, q[k - 1])

\* q are the places of the PushScopes open behind instruction n.
Opened(c, n, q) ==
    /\ IsList(q) /\ Len(q) + 1 = DepthBehind(c, n)
    /\ \A k \in 1..Len(q) : q[k] \in 1..n /\ c[q[k]].op = "pushscope"
    /\ \A j, k \in 1..Len(q) : j < k => q[j] < q[k]
    /\ \A k \in 1..Len(q) : Dist(c, q[k] - 1) = Frame(c, q, k)
    /\ Dist(c, n) = Frame(c, q, Len(q) + 1)

LEMMA EmptyList == IsList(<<>>) /\ Len(<<>>) = 0
  <1>1. <<>> \in Seq({})
    OBVIOUS
  <1> QED
    BY <1>1 DEF IsList

LEMMA OpenedFirst ==
    ASSUME NEW c, IsCode(c)
    PROVE  Opened(c, 0, <<>>)
  <1>1. DepthBehind(c, 0) = 1 /\ Dist(c, 0) = 0
    BY LayoutFirst
  <1>2. IsList(<<>>) /\ Len(<<>>) = 0
    BY EmptyList
  <1>3. 0 + 1 = 1 /\ \A k \in 1..Len(<<>>) : FALSE
    BY <1>2
  <1> QED
    BY <1>1, <1>2, <1>3 DEF Opened, Frame

LEMMA OpenedFacts ==
    ASSUME NEW c, IsCode(c), NEW n \in 0..Len(c), NEW q, Opened(c, n, q)
    PROVE  /\ Len(q) \in Nat /\ DepthBehind(c, n) = Len(q) + 1 /\ DepthBehind(c, n) > 0
           /\ n \in Nat /\ Len(c) \in Nat /\ Dist(c, n) \in Int
           /\ \A k \in 1..(Len(q) + 1) : Slot(c, n, k) \in Nat /\ Frame(c, q, k) \in Int
  <1>1. Len(q) \in Nat /\ DepthBehind(c, n) = Len(q) + 1
    BY ListFacts DEF Opened
  <1>2. n \in Nat /\ Len(c) \in Nat /\ Dist(c, n) \in Int
        /\ \A k \in 1..DepthBehind(c, n) : Slot(c, n, k) \in Nat
    BY LayoutsFollow, LayoutTypes
  <1>3. ASSUME NEW k \in 1..(Len(q) + 1) PROVE Frame(c, q, k) \in Int
    <2>1. CASE k = 1
      BY <2>1 DEF Frame
    <2>2. CASE k # 1
      <3>1. k - 1 \in 1..Len(q)
        BY <2>2, <1>1
      <3>2. q[k - 1] \in 1..n
        BY <3>1 DEF Opened
      <3>3. q[k - 1] \in 0..Len(c)
        BY <3>2, <1>2
      <3>4. Dist(c, q[k - 1]) \in Int
        BY <3>3, LayoutTypes
      <3> QED
        BY <2>2, <3>4 DEF Frame
    <2> QED
      BY <2>1, <2>2
  <1> QED
    BY <1>1, <1>2, <1>3

LEMMA OpenedOn ==
    ASSUME NEW c, IsCode(c), NEW n \in 1..Len(c), NEW q, Opened(c, n - 1, q),
           c[n].op \notin {"pushscope", "popscope"}
    PROVE  Opened(c, n, q)
  <1>0. n - 1 \in 0..Len(c) /\ n \in Nat
    BY LayoutsFollow
  <1>1. Len(q) \in Nat /\ DepthBehind(c, n - 1) = Len(q) + 1 /\ DepthBehind(c, n - 1) > 0
    BY <1>0, OpenedFacts
  <1>2. DepthBehind(c, n) = DepthBehind(c, n - 1) /\ Dist(c, n) = Dist(c, n - 1)
    BY <1>1, LayoutNext
  <1>3. \A k \in 1..Len(q) : q[k] \in 1..n /\ c[q[k]].op = "pushscope"
    <2>1. \A j \in 1..(n - 1) : j \in 1..n
      BY <1>0
    <2> QED
      BY <2>1 DEF Opened
  <1> QED
    BY <1>1, <1>2, <1>3 DEF Opened

LEMMA OpenedPush ==
    ASSUME NEW c, IsCode(c), NEW n \in 1..Len(c), NEW q, Opened(c, n - 1, q),
           c[n].op = "pushscope"
    PROVE  LET p == Append(q, n)
           IN  /\ Opened(c, n, p) /\ Len(p) = Len(q) + 1
               /\ \A k \in 1..(Len(q) + 1) : Frame(c, p, k) = Frame(c, q, k)
               /\ Frame(c, p, Len(q) + 2) = Frame(c, q, Len(q) + 1) + Words(c[n])
  <1> DEFINE p == Append(q, n)
  <1>0. n - 1 \in 0..Len(c) /\ n \in Nat
    BY LayoutsFollow
  <1>1. Len(q) \in Nat /\ DepthBehind(c, n - 1) = Len(q) + 1 /\ DepthBehind(c, n - 1) > 0
    BY <1>0, OpenedFacts
  <1>2. DepthBehind(c, n) = DepthBehind(c, n - 1) + 1 /\ Dist(c, n) = Dist(c, n - 1) + Words(c[n])
    BY <1>1, LayoutNext
  <1>3. /\ IsList(p) /\ Len(p) = Len(q) + 1 /\ p[Len(q) + 1] = n
        /\ \A k \in 1..Len(q) : p[k] = q[k]
    BY Pushed DEF Opened
  <1> HIDE DEF p
  <1>4. ASSUME NEW k \in 1..(Len(q) + 1) PROVE Frame(c, p, k) = Frame(c, q, k)
    <2>1. CASE k = 1
      BY <2>1 DEF Frame
    <2>2. CASE k # 1
      <3>1. k - 1 \in 1..Len(q)
        BY <2>2, <1>1
      <3>2. p[k - 1] = q[k - 1]
        BY <3>1, <1>3
      <3> QED
        BY <3>2 DEF Frame
    <2> QED
      BY <2>1, <2>2
  <1>5. Frame(c, p, Len(q) + 2) = Dist(c, n)
    <2>1. Len(q) + 2 # 1 /\ (Len(q) + 2) - 1 = Len(q) + 1
      BY <1>1
    <2> QED
      BY <2>1, <1>3 DEF Frame
  <1>6. Frame(c, q, Len(q) + 1) = Dist(c, n - 1)
    BY DEF Opened
  <1>7. ASSUME NEW k \in 1..Len(p)
        PROVE  p[k] \in 1..n /\ c[p[k]].op = "pushscope" /\ Dist(c, p[k] - 1) = Frame(c, p, k)
    <2>1. CASE k = Len(q) + 1
      <3>1. n \in 1..n /\ k \in 1..(Len(q) + 1)
        BY <1>0, <1>1, <2>1
      <3> QED
        BY <2>1, <3>1, <1>3, <1>4, <1>6
    <2>2. CASE k # Len(q) + 1
      <3>1. k \in 1..Len(q) /\ k \in 1..(Len(q) + 1)
        BY <2>2, <1>1, <1>3
      <3>2. p[k] = q[k] /\ Frame(c, p, k) = Frame(c, q, k)
        BY <3>1, <1>3, <1>4
      <3>3. q[k] \in 1..(n - 1) /\ c[q[k]].op = "pushscope" /\ Dist(c, q[k] - 1) = Frame(c, q, k)
        BY <3>1 DEF Opened
      <3>4. \A j \in 1..(n - 1) : j \in 1..n
        BY <1>0
      <3> QED
        BY <3>2, <3>3, <3>4
    <2> QED
      BY <2>1, <2>2
  <1>8. ASSUME NEW j \in 1..Len(p), NEW k \in 1..Len(p), j < k PROVE p[j] < p[k]
    <2>1. j \in 1..Len(q) /\ p[j] = q[j] /\ q[j] \in 1..(n - 1)
      <3>1. j \in 1..Len(q)
        BY <1>1, <1>3, <1>8
      <3> QED
        BY <3>1, <1>3 DEF Opened
    <2>2. CASE k = Len(q) + 1
      <3>1. p[k] = n /\ \A x \in 1..(n - 1) : x < n
        BY <2>2, <1>3
      <3> QED
        BY <2>1, <3>1
    <2>3. CASE k # Len(q) + 1
      <3>1. k \in 1..Len(q)
        BY <2>3, <1>1, <1>3
      <3> QED
        BY <2>1, <3>1, <1>3, <1>8 DEF Opened
    <2> QED
      BY <2>2, <2>3
  <1>9. Len(p) + 1 = DepthBehind(c, n) /\ Dist(c, n) = Frame(c, p, Len(p) + 1)
    <2>1. Len(p) + 1 = Len(q) + 2
      BY <1>1, <1>3
    <2> QED
      BY <2>1, <1>1, <1>2, <1>3, <1>5
  <1>10. Opened(c, n, p)
    BY <1>3, <1>7, <1>8, <1>9 DEF Opened
  <1> QED
    BY <1>2, <1>3, <1>4, <1>5, <1>6, <1>10 DEF p

LEMMA OpenedPop ==
    ASSUME NEW c, IsCode(c), NEW n \in 1..Len(c), NEW q, Opened(c, n - 1, q), Len(q) > 0,
           c[n].op = "popscope", Words(c[n]) = Words(c[q[Len(q)]])
    PROVE  LET p == Front(q)
           IN  /\ Opened(c, n, p) /\ Len(p) = Len(q) - 1
               /\ \A k \in 1..Len(q) : Frame(c, p, k) = Frame(c, q, k)
  <1> DEFINE p == Front(q)
             z == q[Len(q)]
  <1>0. n - 1 \in 0..Len(c) /\ n \in Nat /\ Len(c) \in Nat
    BY LayoutsFollow
  <1>1. Len(q) \in Nat /\ DepthBehind(c, n - 1) = Len(q) + 1 /\ DepthBehind(c, n - 1) > 0
    BY <1>0, OpenedFacts
  <1>2. DepthBehind(c, n) = DepthBehind(c, n - 1) - 1 /\ Dist(c, n) = Dist(c, n - 1) - Words(c[n])
    BY <1>1, LayoutNext
  <1>3. /\ IsList(p) /\ Len(p) = Len(q) - 1 /\ \A k \in 1..(Len(q) - 1) : p[k] = q[k]
    BY Popped DEF Opened
  <1> HIDE DEF p
  <1>4. ASSUME NEW k \in 1..Len(q) PROVE Frame(c, p, k) = Frame(c, q, k)
    <2>1. CASE k = 1
      BY <2>1 DEF Frame
    <2>2. CASE k # 1
      <3>1. k - 1 \in 1..(Len(q) - 1)
        BY <2>2, <1>1
      <3>2. p[k - 1] = q[k - 1]
        BY <3>1, <1>3
      <3> QED
        BY <3>2 DEF Frame
    <2> QED
      BY <2>1, <2>2
  <1>5. Len(q) \in 1..Len(q)
    BY <1>1
  <1>6. z \in 1..(n - 1) /\ c[z].op = "pushscope" /\ Dist(c, z - 1) = Frame(c, q, Len(q))
    BY <1>5 DEF Opened
  <1>7. Dist(c, n - 1) = Dist(c, z)
    <2>1. Len(q) + 1 # 1 /\ (Len(q) + 1) - 1 = Len(q)
      BY <1>1
    <2> QED
      BY <2>1 DEF Opened, Frame
  <1>8. Dist(c, z) = Dist(c, z - 1) + Words(c[z]) /\ Dist(c, z - 1) \in Int /\ Dist(c, z) \in Int
    <2> HIDE DEF z
    <2>1. z \in 1..Len(c) /\ z - 1 \in 0..Len(c) /\ z \in 0..Len(c)
      BY <1>0, <1>6
    <2>2. Dist(c, z - 1) \in Int /\ Dist(c, z) \in Int
      BY <2>1, LayoutTypes
    <2>3. DepthBehind(c, z - 1) > 0 \/ DepthBehind(c, z - 1) = 0
      BY SMTT(40), <2>1, LayoutTypes
    <2>4. Dist(c, z) = Dist(c, z - 1) + Words(c[z])
      <3>1. Layouts(c)[z] = LayoutPast(Layouts(c)[z - 1], c[z])
        BY <2>1, LayoutsFollow
      <3> QED
        BY <3>1, <1>6 DEF LayoutPast, Dist, DistancePast, Words
    <2> QED
      BY <2>2, <2>4
  <1>9. Dist(c, n) = Frame(c, q, Len(q))
    <2>1. Words(c[z]) \in Int
      <3> HIDE DEF z
      <3>1. z \in 1..Len(c)
        BY <1>0, <1>6
      <3>2. c[z].size \in Nat
        BY <3>1, <1>6 DEF IsCode, Plain
      <3> QED
        BY <3>2 DEF Words, RegWidth
    <2>2. Words(c[n]) = Words(c[z])
      OBVIOUS
    <2> HIDE DEF z
    <2> QED
      BY <2>1, <2>2, <1>2, <1>6, <1>7, <1>8
  <1>10. ASSUME NEW k \in 1..Len(p)
         PROVE  p[k] \in 1..n /\ c[p[k]].op = "pushscope" /\ Dist(c, p[k] - 1) = Frame(c, p, k)
    <2>1. k \in 1..(Len(q) - 1)
      BY <1>3
    <2>2. k \in 1..Len(q)
      BY <2>1, <1>1
    <2>3. p[k] = q[k] /\ Frame(c, p, k) = Frame(c, q, k)
      BY <2>1, <2>2, <1>3, <1>4
    <2>4. q[k] \in 1..(n - 1) /\ c[q[k]].op = "pushscope" /\ Dist(c, q[k] - 1) = Frame(c, q, k)
      BY <2>2 DEF Opened
    <2>5. \A j \in 1..(n - 1) : j \in 1..n
      BY <1>0
    <2> QED
      BY <2>3, <2>4, <2>5
  <1>11. ASSUME NEW j \in 1..Len(p), NEW k \in 1..Len(p), j < k PROVE p[j] < p[k]
    <2>1. j \in 1..(Len(q) - 1) /\ k \in 1..(Len(q) - 1)
      BY <1>3
    <2>2. j \in 1..Len(q) /\ k \in 1..Len(q)
      BY <2>1, <1>1
    <2>3. p[j] = q[j] /\ p[k] = q[k]
      BY <2>1, <1>3
    <2> QED
      BY <2>2, <2>3, <1>11 DEF Opened
  <1>12. Len(p) + 1 = DepthBehind(c, n) /\ Dist(c, n) = Frame(c, p, Len(p) + 1)
    <2>1. Len(p) + 1 = Len(q)
      BY <1>1, <1>3
    <2> QED
      BY <2>1, <1>1, <1>2, <1>4, <1>5, <1>9
  <1>13. Opened(c, n, p)
    BY <1>3, <1>10, <1>11, <1>12 DEF Opened
  <1> QED
    BY <1>3, <1>4, <1>13 DEF p

\* What is open depends on what comes before.
LEMMA OpenedAlike ==
    ASSUME NEW c, NEW t, IsCode(c), IsCode(t), NEW n \in Nat, n <= Len(c), n <= Len(t),
           \A i \in 1..n : c[i] = t[i], NEW q, Opened(c, n, q)
    PROVE  /\ Opened(t, n, q)
           /\ \A k \in 1..(Len(q) + 1) : Frame(t, q, k) = Frame(c, q, k) /\ Slot(t, n, k) = Slot(c, n, k)
  <1>1. \A j \in 0..n : Layouts(c)[j] = Layouts(t)[j]
    BY LayoutsAgree
  <1>2. \A j \in 0..n : /\ Dist(t, j) = Dist(c, j) /\ DepthBehind(t, j) = DepthBehind(c, j)
                        /\ \A k : Slot(t, j, k) = Slot(c, j, k)
    BY <1>1 DEF Dist, DepthBehind, Slot
  <1>3. n \in 0..n /\ Len(q) \in Nat
    BY ListFacts DEF Opened
  <1>4. ASSUME NEW k \in 1..(Len(q) + 1) PROVE Frame(t, q, k) = Frame(c, q, k)
    <2>1. CASE k = 1
      BY <2>1 DEF Frame
    <2>2. CASE k # 1
      <3>1. k - 1 \in 1..Len(q)
        BY <2>2, <1>3
      <3>2. q[k - 1] \in 1..n
        BY <3>1 DEF Opened
      <3>3. q[k - 1] \in 0..n
        BY <3>2
      <3> QED
        BY <3>3, <1>2 DEF Frame
    <2> QED
      BY <2>1, <2>2
  <1>5. ASSUME NEW k \in 1..Len(q)
        PROVE  q[k] \in 1..n /\ t[q[k]].op = "pushscope" /\ Dist(t, q[k] - 1) = Frame(t, q, k)
    <2>1. q[k] \in 1..n /\ c[q[k]].op = "pushscope" /\ Dist(c, q[k] - 1) = Frame(c, q, k)
      BY DEF Opened
    <2>2. k \in 1..(Len(q) + 1)
      BY <1>3
    <2>3. q[k] - 1 \in 0..n
      <3> DEFINE z == q[k]
      <3>1. z \in 1..n
        BY <2>1
      <3> HIDE DEF z
      <3>2. z - 1 \in 0..n
        BY <3>1
      <3> QED
        BY <3>2 DEF z
    <2> QED
      BY <2>1, <2>2, <2>3, <1>2, <1>4
  <1>6. Dist(t, n) = Frame(t, q, Len(q) + 1) /\ Len(q) + 1 = DepthBehind(t, n)
    <2>1. Len(q) + 1 \in 1..(Len(q) + 1)
      BY <1>3
    <2>2. Dist(c, n) = Frame(c, q, Len(q) + 1) /\ Len(q) + 1 = DepthBehind(c, n)
      BY DEF Opened
    <2> QED
      BY <2>1, <2>2, <1>2, <1>3, <1>4
  <1>7. IsList(q) /\ \A j, k \in 1..Len(q) : j < k => q[j] < q[k]
    BY DEF Opened
  <1> QED
    BY <1>2, <1>3, <1>4, <1>5, <1>6, <1>7 DEF Opened

\* A PushScope grows by w words: the slots stay, and from there on the frame
\* has w words more.
Wider(c, g, z, w) ==
    /\ IsCode(g) /\ Len(g) = Len(c) /\ g[z].op = "pushscope"
    /\ \A k \in 1..Len(c) : k # z => g[k] = c[k]
    /\ \A j \in 0..Len(c) :
          /\ Layouts(g)[j].scopes = Layouts(c)[j].scopes
          /\ Dist(g, j) = IF j >= z THEN Dist(c, j) + w ELSE Dist(c, j)

LEMMA Widened ==
    ASSUME NEW c, IsCode(c), NEW z \in 1..Len(c), c[z].op = "pushscope", NEW w \in Nat,
           NEW size, size = c[z].size + 4 * w
    PROVE  Wider(c, Put(c, z, PushScope(size)), z, w)
  <1> DEFINE x == PushScope(size)
             g == Put(c, z, x)
             good == {j \in 0..Len(c) : /\ Layouts(g)[j].scopes = Layouts(c)[j].scopes
                                        /\ Dist(g, j) = IF j >= z THEN Dist(c, j) + w ELSE Dist(c, j)}
  <1>0. Len(c) \in Nat /\ z \in Nat /\ z > 0
    BY LayoutsFollow
  <1>1. c[z].size \in Nat /\ size \in Nat
    <2>1. c[z].size \in Nat
      BY DEF IsCode, Plain
    <2> QED
      BY <2>1
  <1>2. Plain(x) /\ x.op = "pushscope" /\ x.size = size
    BY <1>1 DEF Plain, PushScope
  <1>3. Words(x) = Words(c[z]) + w /\ Words(c[z]) \in Int
    <2> DEFINE y == c[z].size
    <2>1. y \in Nat /\ size = y + 4 * w
      BY <1>1
    <2> HIDE DEF y
    <2>2. (y + 4 * w) \div 4 = (y \div 4) + w
      BY <2>1
    <2>3. size \div 4 = (y \div 4) + w /\ y \div 4 \in Int
      BY <2>1, <2>2
    <2> QED
      BY <2>3, <1>2 DEF Words, RegWidth, y
  <1> HIDE DEF x
  <1>4. /\ IsCode(g) /\ Len(g) = Len(c) /\ g[z] = x
        /\ \A k \in 1..Len(c) : k # z => g[k] = c[k]
    <2>1. IsCode(c) /\ z \in 1..Len(c) /\ Plain(x)
      BY <1>2
    <2>2. /\ IsCode(Put(c, z, x)) /\ Len(Put(c, z, x)) = Len(c) /\ Put(c, z, x)[z] = x
          /\ \A k \in 1..Len(c) : k # z => Put(c, z, x)[k] = c[k]
      BY ONLY <2>1, PutCode
    <2> QED
      BY <2>2
  <1> HIDE DEF g
  <1>5. ASSUME NEW j \in 0..Len(c), \A m \in 0..(j - 1) : m \in good PROVE j \in good
    <2>1. CASE j = 0
      <3>1. Layouts(g)[0] = NewLayout /\ Layouts(c)[0] = NewLayout /\ ~ (0 >= z)
        BY <1>0, <1>4, LayoutsFollow
      <3> QED
        BY <2>1, <3>1 DEF Dist
    <2>2. CASE j # 0
      <3>1. j \in 1..Len(c) /\ j - 1 \in 0..(j - 1) /\ j - 1 \in 0..Len(c)
        BY <1>0, <2>2
      <3>2. /\ Layouts(g)[j - 1].scopes = Layouts(c)[j - 1].scopes
            /\ Dist(g, j - 1) = IF j - 1 >= z THEN Dist(c, j - 1) + w ELSE Dist(c, j - 1)
            /\ Dist(c, j - 1) \in Int
        BY <1>5, <3>1, LayoutTypes
      <3>3. /\ Layouts(g)[j].scopes = ScopesPast(Layouts(g)[j - 1].scopes, g[j])
            /\ Dist(g, j) = DistancePast(Dist(g, j - 1), g[j])
            /\ Layouts(c)[j].scopes = ScopesPast(Layouts(c)[j - 1].scopes, c[j])
            /\ Dist(c, j) = DistancePast(Dist(c, j - 1), c[j])
        <4>1. Layouts(g)[j] = LayoutPast(Layouts(g)[j - 1], g[j])
          BY <3>1, <1>4, LayoutsFollow
        <4>2. Layouts(c)[j] = LayoutPast(Layouts(c)[j - 1], c[j])
          BY <3>1, LayoutsFollow
        <4> QED
          BY <4>1, <4>2 DEF LayoutPast, Dist
      <3>4. CASE j = z
        <4>1. /\ Layouts(g)[j].scopes = PushVarScope(Layouts(g)[j - 1].scopes)
              /\ Layouts(c)[j].scopes = PushVarScope(Layouts(c)[j - 1].scopes)
          BY <3>3, <3>4, <1>2, <1>4 DEF ScopesPast, IsVarMove
        <4>2. Dist(g, j) = Dist(g, j - 1) + Words(x) /\ Dist(c, j) = Dist(c, j - 1) + Words(c[z])
          BY <3>3, <3>4, <1>2, <1>4 DEF DistancePast, Words
        <4>3. Dist(g, j - 1) = Dist(c, j - 1)
          BY <3>2, <3>4, <1>0
        <4>4. Dist(g, j) = Dist(c, j) + w
          BY <4>2, <4>3, <3>2, <1>3
        <4>5. j >= z
          BY <3>4, <1>0
        <4> QED
          BY <4>1, <4>4, <4>5, <3>2
      <3>5. CASE j # z
        <4>1. g[j] = c[j] /\ Plain(c[j])
          BY <3>1, <3>5, <1>4 DEF IsCode
        <4>2. Layouts(g)[j].scopes = Layouts(c)[j].scopes
          BY <3>2, <3>3, <4>1
        <4>3. DistancePast(Dist(c, j - 1) + w, c[j]) = DistancePast(Dist(c, j - 1), c[j]) + w
          <5> DEFINE y == Dist(c, j - 1)
          <5>1. y \in Int /\ (c[j].op \in {"pushscope", "popscope"} => c[j].size \in Nat)
            BY <3>2, <4>1 DEF Plain
          <5> HIDE DEF y
          <5>2. CASE c[j].op = "pushscope"
            <6>1. Words(c[j]) \in Int
              BY <5>1, <5>2 DEF Words, RegWidth
            <6>2. (y + w) + Words(c[j]) = (y + Words(c[j])) + w
              BY <5>1, <6>1
            <6> QED
              BY <5>2, <6>2 DEF DistancePast, Words, y
          <5>3. CASE c[j].op = "popscope"
            <6>1. Words(c[j]) \in Int
              BY <5>1, <5>3 DEF Words, RegWidth
            <6>2. (y + w) - Words(c[j]) = (y - Words(c[j])) + w
              BY <5>1, <6>1
            <6> QED
              BY <5>3, <6>2 DEF DistancePast, Words, y
          <5>4. CASE c[j].op \notin {"pushscope", "popscope"}
            BY <5>4 DEF DistancePast
          <5> QED
            BY <5>2, <5>3, <5>4
        <4>4. (j - 1 >= z) <=> (j >= z)
          BY <3>1, <3>5, <1>0
        <4>5. Dist(g, j) = IF j >= z THEN Dist(c, j) + w ELSE Dist(c, j)
          <5>1. CASE j >= z
            BY <5>1, <3>2, <3>3, <4>1, <4>3, <4>4
          <5>2. CASE ~ (j >= z)
            BY <5>2, <3>2, <3>3, <4>1, <4>4
          <5> QED
            BY <5>1, <5>2
        <4> QED
          BY <4>2, <4>5
      <3> QED
        BY <3>4, <3>5
    <2> QED
      BY <2>1, <2>2
  <1>6. \A j \in 0..Len(c) : j \in good
    <2>1. 0 \in Nat
      OBVIOUS
    <2> HIDE DEF good
    <2> QED
      BY <1>0, <1>5, <2>1, AllBelow
  <1> QED
    BY <1>2, <1>4, <1>6 DEF g, x, Wider

\* Up to instruction n what is declared has words in the frame.
FitsTo(c, n) ==
    \A j \in 0..n : DepthBehind(c, j) > 0 /\ Slot(c, j, DepthBehind(c, j)) <= Dist(c, j)

\* The innermost scope open at n gets w words more.
WiderWithin(c, g, n, q, w) ==
    /\ IsCode(g) /\ Len(g) = Len(c) /\ Opened(g, n, q)
    /\ \A k \in 1..(Len(q) + 1) :
          /\ Slot(g, n, k) = Slot(c, n, k)
          /\ Frame(g, q, k) = IF k = Len(q) + 1 THEN Frame(c, q, k) + w ELSE Frame(c, q, k)
    /\ FitsTo(c, n) => FitsTo(g, n)

LEMMA OpenedWider ==
    ASSUME NEW c, IsCode(c), NEW n \in 0..Len(c), NEW q, Opened(c, n, q), Len(q) > 0,
           NEW w \in Nat, NEW z, z = q[Len(q)], NEW size, size = c[z].size + 4 * w
    PROVE  WiderWithin(c, Put(c, z, PushScope(size)), n, q, w)
  <1> DEFINE g == Put(c, z, PushScope(size))
  <1>0. Len(q) \in Nat /\ n \in Nat /\ Len(c) \in Nat
        /\ \A k \in 1..(Len(q) + 1) : Frame(c, q, k) \in Int
    BY OpenedFacts
  <1>1. z \in 1..n /\ z \in 1..Len(c) /\ c[z].op = "pushscope"
    <2>1. Len(q) \in 1..Len(q)
      BY <1>0
    <2>2. z \in 1..n /\ c[z].op = "pushscope"
      BY <2>1 DEF Opened
    <2> QED
      BY <2>2, <1>0
  <1>2. /\ IsCode(g) /\ Len(g) = Len(c) /\ g[z].op = "pushscope"
        /\ \A k \in 1..Len(c) : k # z => g[k] = c[k]
        /\ \A j \in 0..Len(c) :
              /\ Layouts(g)[j].scopes = Layouts(c)[j].scopes
              /\ Dist(g, j) = IF j >= z THEN Dist(c, j) + w ELSE Dist(c, j)
    <2>1. IsCode(c) /\ z \in 1..Len(c) /\ c[z].op = "pushscope" /\ w \in Nat /\ size = c[z].size + 4 * w
      BY <1>1
    <2>2. Wider(c, g, z, w)
      BY ONLY <2>1, Widened
    <2> HIDE DEF g
    <2> QED
      BY <2>2 DEF Wider
  <1> HIDE DEF g
  <1>3. \A j \in 0..Len(c) : DepthBehind(g, j) = DepthBehind(c, j) /\ \A k : Slot(g, j, k) = Slot(c, j, k)
    BY <1>2 DEF DepthBehind, Slot
  <1>4. \A k \in 1..Len(q) : /\ q[k] \in 1..n /\ q[k] \in 1..Len(c) /\ q[k] - 1 \in 0..Len(c)
                             /\ q[k] \in Int /\ q[k] <= z /\ (k # Len(q) => q[k] < z)
    <2> SUFFICES ASSUME NEW k \in 1..Len(q)
                 PROVE  /\ q[k] \in 1..n /\ q[k] \in 1..Len(c) /\ q[k] - 1 \in 0..Len(c)
                        /\ q[k] \in Int /\ q[k] <= z /\ (k # Len(q) => q[k] < z)
      OBVIOUS
    <2> DEFINE y == q[k]
    <2>1. y \in 1..n
      BY DEF Opened
    <2>2. CASE k = Len(q)
      <3>1. y = z
        BY <2>2
      <3> HIDE DEF y
      <3>2. y \in 1..Len(c) /\ y - 1 \in 0..Len(c) /\ y \in Int /\ y <= z
        BY <3>1, <2>1, <1>0
      <3> QED
        BY <3>2, <2>1, <2>2 DEF y
    <2>3. CASE k # Len(q)
      <3>1. k < Len(q) /\ Len(q) \in 1..Len(q)
        BY <2>3, <1>0
      <3>2. y < z
        BY <3>1 DEF Opened
      <3> HIDE DEF y
      <3>3. y \in 1..Len(c) /\ y - 1 \in 0..Len(c) /\ y \in Int /\ y <= z
        BY <3>2, <2>1, <1>0, <1>1
      <3> QED
        BY <3>2, <3>3, <2>1 DEF y
    <2> QED
      BY <2>2, <2>3
  <1>5. ASSUME NEW k \in 1..(Len(q) + 1)
        PROVE  Frame(g, q, k) = IF k = Len(q) + 1 THEN Frame(c, q, k) + w ELSE Frame(c, q, k)
    <2>1. CASE k = 1
      BY <2>1, <1>0 DEF Frame
    <2>2. CASE k # 1
      <3>1. k - 1 \in 1..Len(q)
        BY <2>2, <1>0
      <3>2. /\ q[k - 1] \in 0..Len(c) /\ q[k - 1] \in Int /\ q[k - 1] <= z
            /\ (k - 1 # Len(q) => q[k - 1] < z)
        <4>1. \A j \in 1..Len(c) : j \in 0..Len(c)
          OBVIOUS
        <4> QED
          BY <3>1, <4>1, <1>4
      <3>3. Dist(g, q[k - 1]) = IF q[k - 1] >= z THEN Dist(c, q[k - 1]) + w ELSE Dist(c, q[k - 1])
        BY <3>2, <1>2
      <3>4. CASE k = Len(q) + 1
        <4>1. k - 1 = Len(q) /\ q[k - 1] = z /\ z >= z
          BY <3>4, <1>0, <1>1
        <4> QED
          BY <2>2, <3>3, <3>4, <4>1 DEF Frame
      <3>5. CASE k # Len(q) + 1
        <4>1. k - 1 # Len(q)
          BY <3>5, <1>0
        <4>2. q[k - 1] < z /\ z \in Int
          BY <4>1, <3>2, <1>1
        <4>3. ~ (q[k - 1] >= z)
          <5> DEFINE y == q[k - 1]
          <5>1. y \in Int /\ y < z /\ z \in Int
            BY <3>2, <4>2
          <5> HIDE DEF y
          <5>2. ~ (y >= z)
            BY <5>1
          <5> QED
            BY <5>2 DEF y
        <4> QED
          BY <2>2, <3>3, <3>5, <4>3 DEF Frame
      <3> QED
        BY <3>4, <3>5
    <2> QED
      BY <2>1, <2>2
  <1>6. ASSUME NEW k \in 1..Len(q)
        PROVE  q[k] \in 1..n /\ g[q[k]].op = "pushscope" /\ Dist(g, q[k] - 1) = Frame(g, q, k)
    <2>1. q[k] \in 1..n /\ c[q[k]].op = "pushscope" /\ Dist(c, q[k] - 1) = Frame(c, q, k)
      BY DEF Opened
    <2>2. g[q[k]].op = "pushscope"
      <3>1. q[k] \in 1..Len(c)
        BY <1>4
      <3>2. CASE q[k] = z
        BY <3>2, <1>2
      <3>3. CASE q[k] # z
        <4>1. g[q[k]] = c[q[k]]
          BY <3>1, <3>3, <1>2
        <4> QED
          BY <4>1, <2>1
      <3> QED
        BY <3>2, <3>3
    <2>3. Dist(g, q[k] - 1) = Dist(c, q[k] - 1)
      <3> DEFINE y == q[k]
      <3>1. y - 1 \in 0..Len(c) /\ y \in Int /\ y <= z /\ z \in Int
        BY <1>1, <1>4
      <3> HIDE DEF y
      <3>2. ~ (y - 1 >= z)
        BY <3>1
      <3>3. Dist(g, y - 1) = Dist(c, y - 1)
        BY <3>1, <3>2, <1>2
      <3> QED
        BY <3>3 DEF y
    <2>4. Frame(g, q, k) = Frame(c, q, k)
      <3>1. k \in 1..(Len(q) + 1) /\ k # Len(q) + 1
        BY <1>0
      <3> QED
        BY <3>1, <1>5
    <2> QED
      BY <2>1, <2>2, <2>3, <2>4
  <1>7. Dist(g, n) = Frame(g, q, Len(q) + 1) /\ Len(q) + 1 = DepthBehind(g, n)
    <2>1. n >= z /\ Len(q) + 1 \in 1..(Len(q) + 1)
      BY <1>0, <1>1
    <2>2. Dist(c, n) = Frame(c, q, Len(q) + 1) /\ Len(q) + 1 = DepthBehind(c, n)
      BY DEF Opened
    <2> QED
      BY <2>1, <2>2, <1>2, <1>3, <1>5
  <1>8. Opened(g, n, q)
    BY <1>6, <1>7 DEF Opened
  <1>9. ASSUME FitsTo(c, n) PROVE FitsTo(g, n)
    <2> SUFFICES ASSUME NEW j \in 0..n
                 PROVE  DepthBehind(g, j) > 0 /\ Slot(g, j, DepthBehind(g, j)) <= Dist(g, j)
      BY DEF FitsTo
    <2>1. j \in 0..Len(c)
      BY <1>0
    <2>2. DepthBehind(c, j) > 0 /\ Slot(c, j, DepthBehind(c, j)) <= Dist(c, j)
      BY <1>9 DEF FitsTo
    <2> DEFINE d == DepthBehind(c, j)
               a == Slot(c, j, d)
               b == Dist(c, j)
    <2>3. a \in Nat /\ b \in Int
      <3>1. d \in 1..d
        BY <2>1, <2>2, LayoutTypes
      <3> QED
        BY <2>1, <3>1, LayoutTypes
    <2>4. a <= b /\ a <= b + w
      <3>1. a <= b
        BY <2>2
      <3> HIDE DEF a, b
      <3> QED
        BY <2>3, <3>1
    <2>5. Dist(g, j) = b \/ Dist(g, j) = b + w
      BY <2>1, <1>2
    <2>6. Slot(g, j, DepthBehind(g, j)) = a /\ DepthBehind(g, j) = d
      BY <2>1, <1>3
    <2> HIDE DEF a, b, d
    <2>7. a <= Dist(g, j)
      BY <2>4, <2>5
    <2> QED
      BY <2>2, <2>6, <2>7 DEF d
  <1>10. n \in 0..Len(c) /\ \A k : Slot(g, n, k) = Slot(c, n, k)
    BY <1>3
  <1> QED
    BY <1>2, <1>5, <1>8, <1>9, <1>10 DEF g, WiderWithin

\* Since its PushScope, every scope that p has opened has stayed open.
Since(s, a, p) ==
    \A k \in 1..Len(p) : /\ DepthBehind(s, p[k]) = k + 1
                         /\ \A j \in p[k]..a : DepthBehind(s, j) >= k + 1

LEMMA SinceOn ==
    ASSUME NEW s, IsCode(s), NEW a \in 1..Len(s), NEW p, Opened(s, a - 1, p), Since(s, a - 1, p),
           s[a].op \notin {"pushscope", "popscope"}
    PROVE  Since(s, a, p)
  <1>0. a - 1 \in 0..Len(s) /\ a \in Nat
    BY LayoutsFollow
  <1>1. Len(p) \in Nat /\ DepthBehind(s, a - 1) = Len(p) + 1 /\ DepthBehind(s, a - 1) > 0
    BY <1>0, OpenedFacts
  <1>2. DepthBehind(s, a) = Len(p) + 1
    BY <1>1, LayoutNext
  <1> SUFFICES ASSUME NEW k \in 1..Len(p), NEW j \in p[k]..a PROVE DepthBehind(s, j) >= k + 1
    BY DEF Since
  <1>3. CASE j = a
    BY <1>1, <1>2, <1>3
  <1>4. CASE j # a
    <2> DEFINE y == p[k]
    <2>1. y \in 1..(a - 1) /\ j \in y..a
      BY DEF Opened
    <2> HIDE DEF y
    <2>2. j \in y..(a - 1)
      BY <1>0, <1>4, <2>1
    <2> QED
      BY <2>2 DEF Since, y
  <1> QED
    BY <1>3, <1>4

LEMMA SincePush ==
    ASSUME NEW s, IsCode(s), NEW a \in 1..Len(s), NEW p, Opened(s, a - 1, p), Since(s, a - 1, p),
           s[a].op = "pushscope"
    PROVE  Since(s, a, Append(p, a))
  <1> DEFINE q == Append(p, a)
  <1>0. a - 1 \in 0..Len(s) /\ a \in Nat
    BY LayoutsFollow
  <1>1. Len(p) \in Nat /\ DepthBehind(s, a - 1) = Len(p) + 1 /\ DepthBehind(s, a - 1) > 0
    BY <1>0, OpenedFacts
  <1>2. DepthBehind(s, a) = Len(p) + 2
    <2>1. DepthBehind(s, a) = DepthBehind(s, a - 1) + 1
      BY <1>1, LayoutNext
    <2> QED
      BY <2>1, <1>1
  <1>3. Len(q) = Len(p) + 1 /\ q[Len(p) + 1] = a /\ \A k \in 1..Len(p) : q[k] = p[k]
    BY Pushed DEF Opened
  <1> HIDE DEF q
  <1> SUFFICES ASSUME NEW k \in 1..Len(q)
               PROVE  /\ DepthBehind(s, q[k]) = k + 1
                      /\ \A j \in q[k]..a : DepthBehind(s, j) >= k + 1
    BY DEF Since, q
  <1>4. CASE k = Len(p) + 1
    <2>1. q[k] = a /\ \A j \in a..a : j = a
      BY <1>0, <1>3, <1>4
    <2>2. k + 1 = Len(p) + 2 /\ Len(p) + 2 >= k + 1
      BY <1>1, <1>4
    <2> QED
      BY <2>1, <2>2, <1>2
  <1>5. CASE k # Len(p) + 1
    <2>1. k \in 1..Len(p)
      BY <1>1, <1>3, <1>5
    <2> DEFINE y == p[k]
    <2>2. y \in 1..(a - 1) /\ q[k] = y
      BY <2>1, <1>3 DEF Opened
    <2>3. DepthBehind(s, y) = k + 1 /\ \A j \in y..(a - 1) : DepthBehind(s, j) >= k + 1
      BY <2>1 DEF Since
    <2> HIDE DEF y
    <2>4. ASSUME NEW j \in y..a PROVE DepthBehind(s, j) >= k + 1
      <3>1. CASE j = a
        BY <3>1, <2>1, <1>1, <1>2
      <3>2. CASE j # a
        <4>1. j \in y..(a - 1)
          BY <3>2, <2>2, <1>0
        <4> QED
          BY <4>1, <2>3
      <3> QED
        BY <3>1, <3>2
    <2> QED
      BY <2>2, <2>3, <2>4
  <1> QED
    BY <1>4, <1>5

\* In a list of the translator's a PopScope gives back what the innermost
\* scope took.
LEMMA SincePop ==
    ASSUME NEW s, IsCode(s), Scoped(s), NEW a \in 1..Len(s), NEW p, Opened(s, a - 1, p),
           Since(s, a - 1, p), s[a].op = "popscope"
    PROVE  Len(p) > 0 /\ s[a].size = s[p[Len(p)]].size /\ Since(s, a, Front(p))
  <1> DEFINE q == Front(p)
             D == DepthBehind(s, a - 1)
  <1>0. a - 1 \in 0..Len(s) /\ a \in Nat /\ Len(s) \in Nat
    BY LayoutsFollow
  <1>1. Len(p) \in Nat /\ D = Len(p) + 1 /\ D > 0
    BY <1>0, OpenedFacts
  <1>2. DepthBehind(s, a) = Len(p)
    <2>1. DepthBehind(s, a) = D - 1
      BY <1>1, LayoutNext
    <2> QED
      BY <2>1, <1>1
  <1> HIDE DEF D
  <1>3. PICK m \in 1..(a - 1) : s[m] = PushScope(s[a].size) /\ SameScope(s, m, a - 1)
    BY DEF Scoped
  <1>4. m \in 1..Len(s) /\ m - 1 \in 0..Len(s) /\ s[m].op = "pushscope" /\ s[m].size = s[a].size
    BY <1>0, <1>3 DEF PushScope
  <1>5. /\ DepthBehind(s, m) = D
        /\ \A k \in m..(a - 1) : D <= DepthBehind(s, k)
    <2>1. \A k \in m..(a - 1) : k \in (m..(a - 1)) \cup ((a - 1)..m)
      OBVIOUS
    <2> QED
      BY <1>3, <2>1 DEF SameScope, D
  <1>6. DepthBehind(s, m - 1) = D - 1 /\ D - 1 > 0
    <2>1. DepthBehind(s, m - 1) > 0 /\ DepthBehind(s, m - 1) \in Nat
      BY <1>4, ScopedDepth, LayoutTypes
    <2>2. DepthBehind(s, m) = DepthBehind(s, m - 1) + 1
      BY <1>4, <2>1, LayoutNext
    <2> QED
      BY <2>1, <2>2, <1>5
  <1>7. Len(p) > 0 /\ Len(p) \in 1..Len(p)
    BY <1>1, <1>6
  <1> DEFINE z == p[Len(p)]
  <1>8. /\ z \in 1..(a - 1) /\ s[z].op = "pushscope" /\ DepthBehind(s, z) = D
        /\ \A j \in z..(a - 1) : DepthBehind(s, j) >= D
    BY <1>1, <1>7 DEF Opened, Since
  <1> HIDE DEF z
  <1>9. DepthBehind(s, z - 1) = D - 1 /\ D - 1 < D
    <2>1. z \in 1..Len(s) /\ z - 1 \in 0..Len(s)
      BY <1>0, <1>8
    <2>2. DepthBehind(s, z - 1) > 0 /\ DepthBehind(s, z - 1) \in Nat
      BY <2>1, ScopedDepth, LayoutTypes
    <2>3. DepthBehind(s, z) = DepthBehind(s, z - 1) + 1
      BY <1>8, <2>1, <2>2, LayoutNext
    <2> QED
      BY <2>2, <2>3, <1>8
  <1>10. m = z
    <2>1. CASE m < z
      <3>1. z - 1 \in m..(a - 1)
        BY <2>1, <1>3, <1>8, <1>0
      <3>2. D <= D - 1
        BY <3>1, <1>5, <1>9
      <3> QED
        BY <3>2, <1>1
    <2>2. CASE z < m
      <3>1. m - 1 \in z..(a - 1)
        BY <2>2, <1>3, <1>8, <1>0
      <3>2. D - 1 >= D
        BY <3>1, <1>6, <1>8
      <3> QED
        BY <3>2, <1>1
    <2>3. m \in Int /\ z \in Int
      BY <1>3, <1>8
    <2> QED
      BY <2>1, <2>2, <2>3
  <1>11. IsList(q) /\ Len(q) = Len(p) - 1 /\ \A k \in 1..(Len(p) - 1) : q[k] = p[k]
    BY <1>7, Popped DEF Opened
  <1> HIDE DEF q
  <1>12. ASSUME NEW k \in 1..Len(q)
         PROVE  /\ DepthBehind(s, q[k]) = k + 1
                /\ \A j \in q[k]..a : DepthBehind(s, j) >= k + 1
    <2>1. k \in 1..(Len(p) - 1) /\ k \in 1..Len(p) /\ Len(p) >= k + 1
      BY <1>1, <1>11
    <2> DEFINE y == p[k]
    <2>2. y \in 1..(a - 1) /\ q[k] = y
      BY <2>1, <1>11 DEF Opened
    <2>3. DepthBehind(s, y) = k + 1 /\ \A j \in y..(a - 1) : DepthBehind(s, j) >= k + 1
      BY <2>1 DEF Since
    <2> HIDE DEF y
    <2>4. ASSUME NEW j \in y..a PROVE DepthBehind(s, j) >= k + 1
      <3>1. CASE j = a
        BY <3>1, <2>1, <1>2
      <3>2. CASE j # a
        <4>1. j \in y..(a - 1)
          BY <3>2, <2>2, <1>0
        <4> QED
          BY <4>1, <2>3
      <3> QED
        BY <3>1, <3>2
    <2> QED
      BY <2>2, <2>3, <2>4
  <1> QED
    BY <1>4, <1>7, <1>10, <1>12 DEF q, z, Since

-----------------------------------------------------------------------------
(* The frame of a list that is being walked against the source's.          *)

\* With q open behind instruction n of t, and p behind instruction a of the
\* source s, no scope of t has more slots taken than its frame has grown.
Roomy(s, a, p, t, n, q) ==
    /\ Opened(s, a, p) /\ Since(s, a, p) /\ Opened(t, n, q) /\ Len(p) = Len(q)
    /\ \A k \in 1..(Len(q) + 1) : Slot(t, n, k) - Slot(s, a, k) <= Frame(t, q, k) - Frame(s, p, k)
    /\ FitsTo(t, n)

LEMMA FitsOn ==
    ASSUME NEW c, IsCode(c), NEW n \in 1..Len(c), FitsTo(c, n - 1),
           DepthBehind(c, n) > 0, Slot(c, n, DepthBehind(c, n)) <= Dist(c, n)
    PROVE  FitsTo(c, n)
  <1> SUFFICES ASSUME NEW j \in 0..n, j # n PROVE j \in 0..(n - 1)
    BY DEF FitsTo
  <1> QED
    BY LayoutsFollow

LEMMA RoomyFits ==
    ASSUME NEW s, NEW t, IsCode(s), IsCode(t), FitsTo(s, Len(s)),
           NEW a \in 1..Len(s), NEW n \in 1..Len(t), NEW p, NEW q,
           Opened(s, a, p), Since(s, a, p), Opened(t, n, q), Len(p) = Len(q),
           \A k \in 1..(Len(q) + 1) : Slot(t, n, k) - Slot(s, a, k) <= Frame(t, q, k) - Frame(s, p, k),
           FitsTo(t, n - 1)
    PROVE  Roomy(s, a, p, t, n, q)
  <1> DEFINE d == Len(q) + 1
             x == Slot(t, n, d)
             y == Slot(s, a, d)
  <1>1. n \in 0..Len(t) /\ a \in 0..Len(s)
    OBVIOUS
  <1>2. /\ Len(q) \in Nat /\ DepthBehind(t, n) = d /\ DepthBehind(s, a) = d
        /\ Dist(t, n) \in Int /\ Dist(s, a) \in Int
        /\ \A k \in 1..d : Slot(t, n, k) \in Nat
        /\ \A k \in 1..d : Slot(s, a, k) \in Nat
    BY <1>1, OpenedFacts
  <1>3. d \in 1..d /\ d > 0
    BY <1>2
  <1>4. x - y <= Dist(t, n) - Dist(s, a)
    <2>1. Dist(t, n) = Frame(t, q, d) /\ Dist(s, a) = Frame(s, p, d)
      BY DEF Opened
    <2> QED
      BY <2>1, <1>3
  <1>5. y <= Dist(s, a)
    <2>1. DepthBehind(s, a) > 0 /\ Slot(s, a, DepthBehind(s, a)) <= Dist(s, a)
      BY <1>1 DEF FitsTo
    <2> QED
      BY <2>1, <1>2
  <1>6. x \in Nat /\ y \in Nat
    BY <1>2, <1>3
  <1> HIDE DEF x, y
  <1>7. x <= Dist(t, n)
    BY <1>2, <1>4, <1>5, <1>6
  <1>8. DepthBehind(t, n) > 0 /\ Slot(t, n, DepthBehind(t, n)) <= Dist(t, n)
    BY <1>2, <1>3, <1>7 DEF x
  <1>9. FitsTo(t, n)
    <2> HIDE DEF d
    <2> QED
      BY <1>8, FitsOn
  <1> QED
    BY <1>9 DEF Roomy

\* The walk goes over an instruction that opens and closes nothing.
LEMMA RoomyOn ==
    ASSUME NEW s, NEW t, IsCode(s), IsCode(t), FitsTo(s, Len(s)),
           NEW a \in 1..Len(s), NEW n \in 1..Len(t), NEW p, NEW q, Roomy(s, a - 1, p, t, n - 1, q),
           t[n] = s[a], s[a].op \notin {"pushscope", "popscope"}
    PROVE  Roomy(s, a, p, t, n, q)
  <1> DEFINE d == Len(q) + 1
  <1>0. /\ Opened(s, a - 1, p) /\ Since(s, a - 1, p) /\ Opened(t, n - 1, q) /\ Len(p) = Len(q)
        /\ FitsTo(t, n - 1)
    BY DEF Roomy
  <1>1. n - 1 \in 0..Len(t) /\ a - 1 \in 0..Len(s)
    BY LayoutsFollow
  <1>2. /\ Len(q) \in Nat /\ DepthBehind(t, n - 1) = d /\ DepthBehind(s, a - 1) = d /\ d > 0
        /\ \A k \in 1..d : Slot(t, n - 1, k) \in Nat /\ Slot(s, a - 1, k) \in Nat
    BY ZenonT(60), <1>0, <1>1, OpenedFacts
  <1>3. Opened(s, a, p) /\ Since(s, a, p) /\ Opened(t, n, q)
    BY <1>0, OpenedOn, SinceOn
  <1>4. ASSUME NEW k \in 1..d PROVE Slot(t, n, k) - Slot(s, a, k) = Slot(t, n - 1, k) - Slot(s, a - 1, k)
    <2> HIDE DEF d
    <2>1. CASE s[a].op = "declare"
      <3>1. /\ Slot(t, n, k) = IF k = d THEN Slot(t, n - 1, k) + 1 ELSE Slot(t, n - 1, k)
            /\ Slot(s, a, k) = IF k = d THEN Slot(s, a - 1, k) + 1 ELSE Slot(s, a - 1, k)
        BY <2>1, <1>2, LayoutNext
      <3> QED
        BY <3>1, <1>2
    <2>2. CASE s[a].op # "declare"
      <3>1. Slot(t, n, k) = Slot(t, n - 1, k) /\ Slot(s, a, k) = Slot(s, a - 1, k)
        BY <2>2, <1>2, LayoutNext
      <3> QED
        BY <3>1
    <2> QED
      BY <2>1, <2>2
  <1>5. \A k \in 1..d : Slot(t, n, k) - Slot(s, a, k) <= Frame(t, q, k) - Frame(s, p, k)
    BY <1>4 DEF Roomy
  <1> QED
    BY <1>0, <1>3, <1>5, RoomyFits

LEMMA RoomyPush ==
    ASSUME NEW s, NEW t, IsCode(s), IsCode(t), FitsTo(s, Len(s)),
           NEW a \in 1..Len(s), NEW n \in 1..Len(t), NEW p, NEW q, Roomy(s, a - 1, p, t, n - 1, q),
           t[n] = s[a], s[a].op = "pushscope"
    PROVE  Roomy(s, a, Append(p, a), t, n, Append(q, n))
  <1> DEFINE d == Len(q) + 1
             x == Append(p, a)
             y == Append(q, n)
  <1>0. /\ Opened(s, a - 1, p) /\ Since(s, a - 1, p) /\ Opened(t, n - 1, q) /\ Len(p) = Len(q)
        /\ FitsTo(t, n - 1)
        /\ \A k \in 1..d : Slot(t, n - 1, k) - Slot(s, a - 1, k) <= Frame(t, q, k) - Frame(s, p, k)
    BY DEF Roomy
  <1>1. n - 1 \in 0..Len(t) /\ a - 1 \in 0..Len(s)
    BY LayoutsFollow
  <1>2. /\ Len(q) \in Nat /\ DepthBehind(t, n - 1) = d /\ DepthBehind(s, a - 1) = d /\ d > 0
        /\ \A k \in 1..d : Frame(t, q, k) \in Int /\ Frame(s, p, k) \in Int
    BY ZenonT(60), <1>0, <1>1, OpenedFacts
  <1>3. /\ Opened(s, a, x) /\ Len(x) = Len(q) + 1
        /\ \A k \in 1..d : Frame(s, x, k) = Frame(s, p, k)
        /\ Frame(s, x, Len(q) + 2) = Frame(s, p, d) + Words(s[a])
    BY <1>0, OpenedPush
  <1>4. /\ Opened(t, n, y) /\ Len(y) = Len(q) + 1
        /\ \A k \in 1..d : Frame(t, y, k) = Frame(t, q, k)
        /\ Frame(t, y, Len(q) + 2) = Frame(t, q, d) + Words(t[n])
    BY <1>0, OpenedPush
  <1>5. Since(s, a, x)
    BY <1>0, SincePush
  <1> HIDE DEF x, y
  <1>6. Words(s[a]) \in Int /\ Words(t[n]) = Words(s[a])
    <2>1. s[a].size \in Nat
      BY DEF IsCode, Plain
    <2> QED
      BY <2>1 DEF Words, RegWidth
  <1>7. /\ \A k \in 1..d : Slot(t, n, k) = Slot(t, n - 1, k) /\ Slot(s, a, k) = Slot(s, a - 1, k)
        /\ Slot(t, n, d + 1) = Slot(t, n - 1, d) /\ Slot(s, a, d + 1) = Slot(s, a - 1, d)
    <2> HIDE DEF d
    <2> QED
      BY <1>2, LayoutNext
  <1>8. ASSUME NEW k \in 1..(Len(y) + 1)
        PROVE  Slot(t, n, k) - Slot(s, a, k) <= Frame(t, y, k) - Frame(s, x, k)
    <2>1. CASE k = d + 1
      <3>1. d \in 1..d /\ Len(q) + 2 = d + 1
        BY <1>2
      <3>2. /\ Frame(t, y, d + 1) = Frame(t, q, d) + Words(s[a])
            /\ Frame(s, x, d + 1) = Frame(s, p, d) + Words(s[a])
        BY <3>1, <1>3, <1>4, <1>6
      <3>3. (Frame(t, q, d) + Words(s[a])) - (Frame(s, p, d) + Words(s[a])) = Frame(t, q, d) - Frame(s, p, d)
        <4> DEFINE i == Frame(t, q, d)
                   j == Frame(s, p, d)
                   w == Words(s[a])
        <4>1. i \in Int /\ j \in Int /\ w \in Int
          BY <3>1, <1>2, <1>6
        <4> HIDE DEF i, j, w
        <4>2. (i + w) - (j + w) = i - j
          BY <4>1
        <4> QED
          BY <4>2 DEF i, j, w
      <3>4. Slot(t, n - 1, d) - Slot(s, a - 1, d) <= Frame(t, q, d) - Frame(s, p, d)
        BY <3>1, <1>0
      <3> HIDE DEF d
      <3> QED
        BY <2>1, <3>2, <3>3, <3>4, <1>7
    <2>2. CASE k # d + 1
      <3>1. k \in 1..d
        BY <2>2, <1>2, <1>4
      <3> HIDE DEF d
      <3> QED
        BY <3>1, <1>0, <1>3, <1>4, <1>7
    <2> QED
      BY <2>1, <2>2
  <1>9. Roomy(s, a, x, t, n, y)
    BY <1>0, <1>3, <1>4, <1>5, <1>8, RoomyFits
  <1> QED
    BY <1>9 DEF x, y

\* A PopScope of the walk's list has its PushScope's size.
LEMMA RoomyPop ==
    ASSUME NEW s, NEW t, IsCode(s), Scoped(s), IsCode(t), FitsTo(s, Len(s)),
           NEW a \in 1..Len(s), NEW n \in 1..Len(t), NEW p, NEW q, Roomy(s, a - 1, p, t, n - 1, q),
           s[a].op = "popscope", t[n].op = "popscope", t[n].size = t[q[Len(q)]].size
    PROVE  Roomy(s, a, Front(p), t, n, Front(q))
  <1> DEFINE d == Len(q) + 1
             x == Front(p)
             y == Front(q)
  <1>0. /\ Opened(s, a - 1, p) /\ Since(s, a - 1, p) /\ Opened(t, n - 1, q) /\ Len(p) = Len(q)
        /\ FitsTo(t, n - 1)
        /\ \A k \in 1..d : Slot(t, n - 1, k) - Slot(s, a - 1, k) <= Frame(t, q, k) - Frame(s, p, k)
    BY DEF Roomy
  <1>1. n - 1 \in 0..Len(t) /\ a - 1 \in 0..Len(s)
    BY LayoutsFollow
  <1>2. /\ Len(q) \in Nat /\ DepthBehind(t, n - 1) = d /\ DepthBehind(s, a - 1) = d /\ d > 0
    BY ZenonT(60), <1>0, <1>1, OpenedFacts
  <1>3. Len(p) > 0 /\ s[a].size = s[p[Len(p)]].size /\ Since(s, a, x)
    BY <1>0, SincePop
  <1>4. /\ Opened(s, a, x) /\ Len(x) = Len(q) - 1
        /\ \A k \in 1..Len(q) : Frame(s, x, k) = Frame(s, p, k)
    <2>1. Words(s[a]) = Words(s[p[Len(p)]])
      BY <1>3 DEF Words
    <2> QED
      BY <2>1, <1>0, <1>3, OpenedPop
  <1>5. /\ Opened(t, n, y) /\ Len(y) = Len(q) - 1
        /\ \A k \in 1..Len(q) : Frame(t, y, k) = Frame(t, q, k)
    <2>1. Words(t[n]) = Words(t[q[Len(q)]]) /\ Len(q) > 0
      BY <1>0, <1>3 DEF Words
    <2> QED
      BY <2>1, <1>0, OpenedPop
  <1> HIDE DEF x, y
  <1>6. \A k \in 1..Len(q) : Slot(t, n, k) = Slot(t, n - 1, k) /\ Slot(s, a, k) = Slot(s, a - 1, k)
    <2>1. d - 1 = Len(q)
      BY <1>2
    <2> HIDE DEF d
    <2> QED
      BY <2>1, <1>2, LayoutNext
  <1>7. ASSUME NEW k \in 1..(Len(y) + 1)
        PROVE  Slot(t, n, k) - Slot(s, a, k) <= Frame(t, y, k) - Frame(s, x, k)
    <2>1. k \in 1..Len(q) /\ k \in 1..d
      BY <1>2, <1>5
    <2> HIDE DEF d
    <2> QED
      BY <2>1, <1>0, <1>4, <1>5, <1>6
  <1>8. Roomy(s, a, x, t, n, y)
    BY <1>0, <1>3, <1>4, <1>5, <1>7, RoomyFits
  <1> QED
    BY <1>8 DEF x, y

\* The lists of Roomy count only up to where they are looked at.
LEMMA FitsAlike ==
    ASSUME NEW c, NEW t, IsCode(c), IsCode(t), NEW n \in Nat, n <= Len(c), n <= Len(t),
           \A i \in 1..n : c[i] = t[i], FitsTo(c, n)
    PROVE  FitsTo(t, n)
  <1>1. \A j \in 0..n : Layouts(c)[j] = Layouts(t)[j]
    BY LayoutsAgree
  <1>2. \A j \in 0..n : /\ Dist(t, j) = Dist(c, j) /\ DepthBehind(t, j) = DepthBehind(c, j)
                        /\ \A k : Slot(t, j, k) = Slot(c, j, k)
    BY <1>1 DEF Dist, DepthBehind, Slot
  <1> QED
    BY <1>2 DEF FitsTo

LEMMA RoomyAlike ==
    ASSUME NEW s, NEW t, NEW u, IsCode(t), IsCode(u), NEW a, NEW p, NEW q, NEW n \in Nat,
           Roomy(s, a, p, t, n, q), n <= Len(t), n <= Len(u), \A i \in 1..n : t[i] = u[i]
    PROVE  Roomy(s, a, p, u, n, q)
  <1>1. Opened(t, n, q) /\ FitsTo(t, n)
    BY DEF Roomy
  <1>2. FitsTo(u, n)
    BY <1>1, FitsAlike
  <1>3. /\ Opened(u, n, q)
        /\ \A k \in 1..(Len(q) + 1) : Frame(u, q, k) = Frame(t, q, k) /\ Slot(u, n, k) = Slot(t, n, k)
    BY <1>1, OpenedAlike
  <1> QED
    BY <1>2, <1>3 DEF Roomy

\* No scope hands out more slots than there are instructions.
LEMMA SlotBound ==
    ASSUME NEW c, IsCode(c), Scoped(c)
    PROVE  \A n \in 0..Len(c) : \A k \in 1..DepthBehind(c, n) : Slot(c, n, k) <= n
  <1> DEFINE good == {n \in 0..Len(c) : \A k \in 1..DepthBehind(c, n) : Slot(c, n, k) <= n}
  <1>0. Len(c) \in Nat
    BY LayoutsFollow
  <1>1. ASSUME NEW n \in 0..Len(c), \A m \in 0..(n - 1) : m \in good PROVE n \in good
    <2>1. CASE n = 0
      BY <2>1, LayoutFirst
    <2>2. CASE n # 0
      <3> DEFINE d == DepthBehind(c, n - 1)
      <3>1. n \in 1..Len(c) /\ n - 1 \in 0..(n - 1) /\ n - 1 \in 0..Len(c)
        BY <1>0, <2>2
      <3>2. d \in Nat /\ d > 0 /\ \A k \in 1..d : Slot(c, n - 1, k) \in Nat
        BY <3>1, ScopedDepth, LayoutTypes
      <3>3. \A k \in 1..d : Slot(c, n - 1, k) <= n - 1
        BY <3>1, <1>1
      <3> HIDE DEF d
      <3> SUFFICES ASSUME NEW k \in 1..DepthBehind(c, n) PROVE Slot(c, n, k) <= n
        OBVIOUS
      <3>4. CASE c[n].op = "pushscope"
        <4>1. /\ DepthBehind(c, n) = d + 1 /\ Slot(c, n, d + 1) = Slot(c, n - 1, d)
              /\ \A j \in 1..d : Slot(c, n, j) = Slot(c, n - 1, j)
          BY <3>1, <3>2, <3>4, LayoutNext DEF d
        <4>2. CASE k = d + 1
          <5>1. d \in 1..d
            BY <3>2
          <5> QED
            BY <4>1, <4>2, <5>1, <3>1, <3>2, <3>3
        <4>3. CASE k # d + 1
          <5>1. k \in 1..d
            BY <4>1, <4>3, <3>2
          <5> QED
            BY <4>1, <5>1, <3>1, <3>2, <3>3
        <4> QED
          BY <4>2, <4>3
      <3>5. CASE c[n].op = "popscope"
        <4>1. /\ DepthBehind(c, n) = d - 1
              /\ \A j \in 1..(d - 1) : Slot(c, n, j) = Slot(c, n - 1, j)
          BY <3>1, <3>2, <3>5, LayoutNext DEF d
        <4>2. k \in 1..(d - 1) /\ k \in 1..d
          BY <4>1, <3>2
        <4> QED
          BY <4>1, <4>2, <3>1, <3>2, <3>3
      <3>6. CASE c[n].op \notin {"pushscope", "popscope"}
        <4>1. DepthBehind(c, n) = d /\ Slot(c, n, k) \in {Slot(c, n - 1, k), Slot(c, n - 1, k) + 1}
          BY <3>1, <3>2, <3>6, LayoutNext DEF d
        <4>2. Slot(c, n - 1, k) <= n - 1 /\ Slot(c, n - 1, k) \in Nat
          BY <4>1, <3>2, <3>3
        <4> QED
          BY <4>1, <4>2, <3>1
      <3> QED
        BY <3>4, <3>5, <3>6
    <2> QED
      BY <2>1, <2>2
  <1>2. \A n \in 0..Len(c) : n \in good
    <2>1. 0 \in Nat
      OBVIOUS
    <2> HIDE DEF good
    <2> QED
      BY <1>0, <1>1, <2>1, AllBelow
  <1> QED
    BY <1>2

\* A function declares nothing outside of its own scope.
LEMMA FunctionSlots ==
    ASSUME NEW c, IsCode(c), Scoped(c), IsFunction(c)
    PROVE  \A n \in 0..Len(c) : Slot(c, n, 1) = 0
  <1> DEFINE good == {n \in 0..Len(c) : Slot(c, n, 1) = 0}
  <1>0. Len(c) \in Nat /\ Len(c) >= 3
    BY LayoutsFollow DEF IsFunction
  <1>1. ASSUME NEW n \in 0..Len(c), \A m \in 0..(n - 1) : m \in good PROVE n \in good
    <2>1. CASE n = 0
      BY <2>1, LayoutFirst
    <2>2. CASE n # 0
      <3> DEFINE d == DepthBehind(c, n - 1)
      <3>1. n \in 1..Len(c) /\ n - 1 \in 0..(n - 1) /\ n - 1 \in 0..Len(c)
        BY <1>0, <2>2
      <3>2. d \in Nat /\ d > 0 /\ Slot(c, n - 1, 1) = 0 /\ DepthBehind(c, n) > 0
        BY <3>1, <1>1, ScopedDepth, LayoutTypes
      <3> HIDE DEF d
      <3>3. 1 \in 1..d
        BY <3>2
      <3>4. CASE c[n].op = "popscope"
        <4>1. /\ DepthBehind(c, n) = d - 1
              /\ \A j \in 1..(d - 1) : Slot(c, n, j) = Slot(c, n - 1, j)
          BY <3>1, <3>2, <3>4, LayoutNext DEF d
        <4>2. 1 \in 1..(d - 1)
          BY <4>1, <3>2
        <4> QED
          BY <4>1, <4>2, <3>2
      <3>5. CASE c[n].op \notin {"popscope", "declare"}
        <4>1. Slot(c, n, 1) = Slot(c, n - 1, 1)
          BY <3>1, <3>2, <3>3, <3>5, LayoutNext DEF d
        <4> QED
          BY <4>1, <3>2
      <3>6. CASE c[n].op = "declare"
        <4>1. /\ DepthBehind(c, n) = d
              /\ Slot(c, n, 1) = IF 1 = d THEN Slot(c, n - 1, 1) + 1 ELSE Slot(c, n - 1, 1)
          BY <3>1, <3>2, <3>3, <3>6, LayoutNext DEF d
        <4>2. n # 1 /\ n # Len(c)
          BY <3>6 DEF IsFunction, IsLabel
        <4>3. n \in 2..(Len(c) - 1)
          BY <4>2, <3>1, <1>0
        <4>4. DepthBehind(c, n) > 1
          BY <4>3 DEF IsFunction
        <4> QED
          BY <4>1, <4>4, <3>2
      <3> QED
        BY <3>4, <3>5, <3>6
    <2> QED
      BY <2>1, <2>2
  <1>2. \A n \in 0..Len(c) : n \in good
    <2>1. 0 \in Nat
      OBVIOUS
    <2> HIDE DEF good
    <2> QED
      BY <1>0, <1>1, <2>1, AllBelow
  <1> QED
    BY <1>2

-----------------------------------------------------------------------------
(* What the code put in for a call does to the frame.                      *)

\* From b to e the scopes open at b stay, and the innermost one of them hands
\* out k slots.
Passed(t, b, e, k) ==
    /\ DepthBehind(t, e) = DepthBehind(t, b) /\ Dist(t, e) = Dist(t, b)
    /\ \A j \in 1..DepthBehind(t, b) :
          Slot(t, e, j) = IF j = DepthBehind(t, b) THEN Slot(t, b, j) + k ELSE Slot(t, b, j)

LEMMA PassedNone ==
    ASSUME NEW t, IsCode(t), NEW b \in 0..Len(t)
    PROVE  Passed(t, b, b, 0)
  <1>1. \A j \in 1..DepthBehind(t, b) : Slot(t, b, j) \in Nat
    BY LayoutTypes
  <1>2. \A x \in Nat : x + 0 = x
    OBVIOUS
  <1> QED
    BY <1>1, <1>2 DEF Passed

LEMMA PassedOn ==
    ASSUME NEW t, IsCode(t), NEW b \in 0..Len(t), NEW e \in 1..Len(t), NEW k \in Nat,
           DepthBehind(t, b) > 0, Passed(t, b, e - 1, k), t[e].op \notin {"pushscope", "popscope"}
    PROVE  Passed(t, b, e, IF t[e].op = "declare" THEN k + 1 ELSE k)
  <1> DEFINE d == DepthBehind(t, b)
  <1>0. d \in Nat /\ d > 0 /\ \A j \in 1..d : Slot(t, b, j) \in Nat
    BY LayoutTypes
  <1>1. /\ DepthBehind(t, e - 1) = d /\ Dist(t, e - 1) = Dist(t, b)
        /\ \A j \in 1..d : Slot(t, e - 1, j) = IF j = d THEN Slot(t, b, j) + k ELSE Slot(t, b, j)
    BY DEF Passed
  <1> HIDE DEF d
  <1>2. CASE t[e].op = "declare"
    <2>1. /\ DepthBehind(t, e) = d /\ Dist(t, e) = Dist(t, e - 1)
          /\ \A j \in 1..d :
                Slot(t, e, j) = IF j = d THEN Slot(t, e - 1, j) + 1 ELSE Slot(t, e - 1, j)
      BY ZenonT(60), <1>0, <1>1, <1>2, LayoutNext
    <2>2. ASSUME NEW j \in 1..d
          PROVE  Slot(t, e, j) = IF j = d THEN Slot(t, b, j) + (k + 1) ELSE Slot(t, b, j)
      <3>1. CASE j = d
        <4>1. Slot(t, e, j) = (Slot(t, b, j) + k) + 1 /\ Slot(t, b, j) \in Nat
          BY <2>1, <3>1, <1>0, <1>1
        <4> QED
          BY <4>1, <3>1
      <3>2. CASE j # d
        BY <2>1, <3>2, <1>1
      <3> QED
        BY <3>1, <3>2
    <2> QED
      BY <2>1, <2>2, <1>1, <1>2 DEF Passed, d
  <1>3. CASE t[e].op # "declare"
    <2>1. /\ DepthBehind(t, e) = d /\ Dist(t, e) = Dist(t, e - 1)
          /\ \A j \in 1..d : Slot(t, e, j) = Slot(t, e - 1, j)
      BY <1>0, <1>1, <1>3, LayoutNext
    <2> QED
      BY <2>1, <1>1, <1>3 DEF Passed, d
  <1> QED
    BY <1>2, <1>3

\* Where the scopes open at b stay, the frame has room for what it hands out.
LEMMA PassedFits ==
    ASSUME NEW t, IsCode(t), NEW b \in 0..Len(t), NEW e \in 1..Len(t), NEW k \in Nat, NEW h \in Nat,
           DepthBehind(t, b) > 0, Passed(t, b, e, k), k <= h,
           Slot(t, b, DepthBehind(t, b)) + h <= Dist(t, b), FitsTo(t, e - 1)
    PROVE  FitsTo(t, e)
  <1> DEFINE d == DepthBehind(t, b)
             x == Slot(t, b, d)
  <1>1. d \in Nat /\ d > 0 /\ d \in 1..d /\ x \in Nat /\ Dist(t, b) \in Int
    BY LayoutTypes
  <1>2. DepthBehind(t, e) = d /\ Dist(t, e) = Dist(t, b) /\ Slot(t, e, d) = x + k
    BY <1>1 DEF Passed
  <1>3. x + h <= Dist(t, b)
    OBVIOUS
  <1> HIDE DEF x, d
  <1>4. x + k <= Dist(t, b)
    BY <1>1, <1>3
  <1> QED
    BY <1>1, <1>2, <1>4, FitsOn

\* The arguments of a call.
LEMMA ArgumentsPassed ==
    ASSUME NEW t, IsCode(t), NEW b \in 0..Len(t), NEW K \in Nat, b + 2 * K <= Len(t),
           DepthBehind(t, b) > 0,
           \A i \in 1..K : t[b + 2 * i - 1].op = "declare" /\ t[b + 2 * i].op = "move",
           Slot(t, b, DepthBehind(t, b)) + K <= Dist(t, b), FitsTo(t, b)
    PROVE  Passed(t, b, b + 2 * K, K) /\ FitsTo(t, b + 2 * K)
  <1> DEFINE good == {i \in 0..K : Passed(t, b, b + 2 * i, i) /\ FitsTo(t, b + 2 * i)}
  <1>0. b \in Nat /\ Len(t) \in Nat
    BY LayoutsFollow
  <1>1. ASSUME NEW i \in 0..K, \A m \in 0..(i - 1) : m \in good PROVE i \in good
    <2>1. CASE i = 0
      <3>1. b + 2 * 0 = b
        BY <1>0
      <3> QED
        BY <2>1, <3>1, PassedNone
    <2>2. CASE i # 0
      <3> DEFINE x == (b + 2 * i) - 1
                 y == b + 2 * i
      <3>1. /\ i \in 1..K /\ i - 1 \in 0..(i - 1) /\ i - 1 \in Nat /\ i \in Nat /\ i - 1 <= K /\ i <= K
            /\ x \in 1..Len(t) /\ y \in 1..Len(t) /\ y - 1 = x /\ x - 1 = b + 2 * (i - 1)
            /\ b + 2 * i - 1 = x /\ (i - 1) + 1 = i
        BY <1>0, <2>2
      <3>2. t[x].op = "declare" /\ t[y].op = "move"
        BY <3>1
      <3> HIDE DEF x, y
      <3>3. Passed(t, b, x - 1, i - 1) /\ FitsTo(t, x - 1)
        BY <3>1, <1>1
      <3>4. Passed(t, b, x, i)
        <4>1. Passed(t, b, x, IF t[x].op = "declare" THEN (i - 1) + 1 ELSE i - 1)
          <5>1. t[x].op \notin {"pushscope", "popscope"}
            BY <3>2
          <5> QED
            BY <3>1, <3>3, <5>1, PassedOn
        <4> QED
          BY <3>1, <3>2, <4>1
      <3>5. FitsTo(t, x)
        BY <3>1, <3>3, <3>4, PassedFits
      <3>6. Passed(t, b, y, i)
        <4>1. Passed(t, b, y, IF t[y].op = "declare" THEN i + 1 ELSE i)
          <5>1. t[y].op \notin {"pushscope", "popscope"} /\ Passed(t, b, y - 1, i)
            BY <3>1, <3>2, <3>4
          <5> QED
            BY <3>1, <5>1, PassedOn
        <4> QED
          BY <3>2, <4>1
      <3>7. FitsTo(t, y)
        <4>1. FitsTo(t, y - 1)
          BY <3>1, <3>5
        <4> QED
          BY <3>1, <3>6, <4>1, PassedFits
      <3> QED
        BY <3>6, <3>7 DEF y
    <2> QED
      BY <2>1, <2>2
  <1>2. \A i \in 0..K : i \in good
    <2>1. 0 \in Nat
      OBVIOUS
    <2> HIDE DEF good
    <2> QED
      BY <1>1, <2>1, AllBelow
  <1> QED
    BY <1>2

\* Behind x, t has the scopes that were open behind c and those of c's
\* innermost one on are what the function's are behind its m-th instruction.
Shifted(t, c, x, f, m) ==
    /\ DepthBehind(t, x) = (DepthBehind(t, c) - 1) + DepthBehind(f, m)
    /\ Dist(t, x) = Dist(t, c)
    /\ \A k \in 1..(DepthBehind(t, c) - 1) : Slot(t, x, k) = Slot(t, c, k)
    /\ \A i \in 1..DepthBehind(f, m) :
          Slot(t, x, (DepthBehind(t, c) - 1) + i) = Slot(t, c, DepthBehind(t, c)) + Slot(f, m, i)

\* An instruction of a function and the one put in for it.
Alike(i, r) ==
    /\ (r.op \in {"pushscope", "popscope", "declare"} \/ i.op \in {"pushscope", "popscope", "declare"})
          => r.op = i.op
    /\ r.op \in {"pushscope", "popscope"} => r.size = 0

LEMMA ShiftedStays ==
    ASSUME NEW t, IsCode(t), NEW f, IsCode(f), NEW c \in 0..Len(t), NEW x \in 1..Len(t),
           NEW m \in 0..Len(f), DepthBehind(t, c) > 0, DepthBehind(f, m) > 0,
           Shifted(t, c, x - 1, f, m), t[x].op \notin {"pushscope", "popscope", "declare"}
    PROVE  Shifted(t, c, x, f, m)
  <1> DEFINE b == DepthBehind(t, c) - 1
             d == DepthBehind(f, m)
  <1>0. b \in Nat /\ d \in Nat /\ d > 0
    BY SMTT(40), LayoutTypes
  <1>1. DepthBehind(t, x - 1) = b + d /\ b + d > 0
    BY <1>0 DEF Shifted
  <1> HIDE DEF b, d
  <1>2. /\ DepthBehind(t, x) = b + d /\ Dist(t, x) = Dist(t, x - 1)
        /\ \A k \in 1..(b + d) : Slot(t, x, k) = Slot(t, x - 1, k)
    BY <1>1, LayoutNext
  <1>3. (\A k \in 1..b : k \in 1..(b + d)) /\ \A i \in 1..d : b + i \in 1..(b + d)
    BY <1>0
  <1> QED
    BY <1>2, <1>3 DEF Shifted, b, d

LEMMA ShiftedStep ==
    ASSUME NEW t, IsCode(t), NEW f, IsCode(f), Scoped(f), NEW c \in 0..Len(t), NEW x \in 1..Len(t),
           NEW m \in 1..Len(f), DepthBehind(t, c) > 0,
           Shifted(t, c, x - 1, f, m - 1), Alike(f[m], t[x])
    PROVE  Shifted(t, c, x, f, m)
  <1> DEFINE b == DepthBehind(t, c) - 1
             d == DepthBehind(f, m - 1)
             e == DepthBehind(f, m)
             base == Slot(t, c, DepthBehind(t, c))
  <1>0. /\ b \in Nat /\ d \in Nat /\ d > 0 /\ e \in Nat /\ e > 0 /\ base \in Nat
        /\ \A i \in 1..d : Slot(f, m - 1, i) \in Nat
    <2>1. m - 1 \in 0..Len(f) /\ m \in 0..Len(f) /\ DepthBehind(t, c) \in Nat
      BY LayoutsFollow, LayoutTypes
    <2>2. DepthBehind(t, c) \in 1..DepthBehind(t, c) /\ b \in Nat
      BY <2>1
    <2>3. base \in Nat
      BY <2>2, LayoutTypes
    <2>4. d > 0 /\ e > 0
      BY <2>1, ScopedDepth
    <2>5. d \in Nat /\ e \in Nat /\ \A i \in 1..d : Slot(f, m - 1, i) \in Nat
      BY <2>1, LayoutTypes
    <2> HIDE DEF b, d, e, base
    <2> QED
      BY <2>2, <2>3, <2>4, <2>5
  <1>1. /\ DepthBehind(t, x - 1) = b + d /\ b + d > 0 /\ Dist(t, x - 1) = Dist(t, c)
        /\ \A k \in 1..b : Slot(t, x - 1, k) = Slot(t, c, k)
        /\ \A i \in 1..d : Slot(t, x - 1, b + i) = base + Slot(f, m - 1, i)
    BY <1>0 DEF Shifted
  <1>2. Dist(t, c) \in Int
    BY LayoutTypes
  <1> SUFFICES /\ DepthBehind(t, x) = b + e /\ Dist(t, x) = Dist(t, c)
               /\ \A k \in 1..b : Slot(t, x, k) = Slot(t, c, k)
               /\ \A i \in 1..e : Slot(t, x, b + i) = base + Slot(f, m, i)
    BY DEF Shifted
  <1> HIDE DEF b, d, e, base
  <1>3. /\ \A k \in 1..b : k \in 1..(b + d)
        /\ \A i \in 1..d : b + i \in 1..(b + d)
        /\ \A i \in 1..(d - 1) : i \in 1..d
    BY <1>0
  <1>4. CASE f[m].op = "pushscope"
    <2>1. /\ e = d + 1 /\ Slot(f, m, d + 1) = Slot(f, m - 1, d)
          /\ \A i \in 1..d : Slot(f, m, i) = Slot(f, m - 1, i)
      BY <1>0, <1>4, LayoutNext DEF d, e
    <2>2. t[x].op = "pushscope" /\ Words(t[x]) = 0
      <3>1. t[x].op = "pushscope" /\ t[x].size = 0
        BY <1>4 DEF Alike
      <3> QED
        BY <3>1 DEF Words, RegWidth
    <2>3. /\ DepthBehind(t, x) = (b + d) + 1 /\ Slot(t, x, (b + d) + 1) = Slot(t, x - 1, b + d)
          /\ \A k \in 1..(b + d) : Slot(t, x, k) = Slot(t, x - 1, k)
          /\ Dist(t, x) = Dist(t, x - 1) + 0
      BY <1>1, <2>2, LayoutNext
    <2>4. ASSUME NEW i \in 1..e PROVE Slot(t, x, b + i) = base + Slot(f, m, i)
      <3>1. CASE i = d + 1
        <4>1. d \in 1..d /\ b + i = (b + d) + 1
          BY <1>0, <3>1
        <4> QED
          BY <4>1, <3>1, <2>1, <2>3, <1>1
      <3>2. CASE i # d + 1
        <4>1. i \in 1..d
          BY <3>2, <1>0, <2>1
        <4> QED
          BY <4>1, <2>1, <2>3, <1>1, <1>3
      <3> QED
        BY <3>1, <3>2
    <2>5. DepthBehind(t, x) = b + e /\ Dist(t, x) = Dist(t, c)
      BY <2>1, <2>3, <1>0, <1>1, <1>2
    <2>6. \A k \in 1..b : Slot(t, x, k) = Slot(t, c, k)
      BY <2>3, <1>1, <1>3
    <2> QED
      BY <2>4, <2>5, <2>6
  <1>5. CASE f[m].op = "popscope"
    <2>1. e = d - 1 /\ \A i \in 1..(d - 1) : Slot(f, m, i) = Slot(f, m - 1, i)
      BY <1>0, <1>5, LayoutNext DEF d, e
    <2>2. t[x].op = "popscope" /\ Words(t[x]) = 0
      <3>1. t[x].op = "popscope" /\ t[x].size = 0
        BY <1>5 DEF Alike
      <3> QED
        BY <3>1 DEF Words, RegWidth
    <2>3. /\ DepthBehind(t, x) = (b + d) - 1
          /\ \A k \in 1..((b + d) - 1) : Slot(t, x, k) = Slot(t, x - 1, k)
          /\ Dist(t, x) = Dist(t, x - 1) - 0
      BY <1>1, <2>2, LayoutNext
    <2>4. (\A k \in 1..b : k \in 1..((b + d) - 1)) /\ \A i \in 1..(d - 1) : b + i \in 1..((b + d) - 1)
      BY <1>0
    <2>5. DepthBehind(t, x) = b + e /\ Dist(t, x) = Dist(t, c)
      BY <2>1, <2>3, <1>0, <1>1, <1>2
    <2>6. \A k \in 1..b : Slot(t, x, k) = Slot(t, c, k)
      BY <2>3, <2>4, <1>1
    <2>7. \A i \in 1..e : Slot(t, x, b + i) = base + Slot(f, m, i)
      BY <2>1, <2>3, <2>4, <1>1, <1>3
    <2> QED
      BY <2>5, <2>6, <2>7
  <1>6. CASE f[m].op = "declare"
    <2>1. /\ e = d
          /\ \A i \in 1..d :
                Slot(f, m, i) = IF i = d THEN Slot(f, m - 1, i) + 1 ELSE Slot(f, m - 1, i)
      BY <1>0, <1>6, LayoutNext DEF d, e
    <2>2. t[x].op = "declare"
      BY <1>6 DEF Alike
    <2>3. /\ DepthBehind(t, x) = b + d /\ Dist(t, x) = Dist(t, x - 1)
          /\ \A k \in 1..(b + d) :
                Slot(t, x, k) = IF k = b + d THEN Slot(t, x - 1, k) + 1 ELSE Slot(t, x - 1, k)
      BY <1>1, <2>2, LayoutNext
    <2>4. ASSUME NEW i \in 1..e PROVE Slot(t, x, b + i) = base + Slot(f, m, i)
      <3>1. CASE i = d
        <4>1. Slot(t, x, b + i) = (base + Slot(f, m - 1, i)) + 1 /\ Slot(f, m, i) = Slot(f, m - 1, i) + 1
          BY <3>1, <2>1, <2>3, <1>1, <1>3
        <4>2. Slot(f, m - 1, i) \in Nat
          BY <2>1, <1>0
        <4> QED
          BY <4>1, <4>2, <1>0
      <3>2. CASE i # d
        <4>1. b + i # b + d
          BY <3>2, <1>0, <2>1
        <4> QED
          BY <4>1, <3>2, <2>1, <2>3, <1>1, <1>3
      <3> QED
        BY <3>1, <3>2
    <2>5. ASSUME NEW k \in 1..b PROVE Slot(t, x, k) = Slot(t, c, k)
      <3>1. k # b + d
        BY <1>0
      <3> QED
        BY <3>1, <2>3, <1>1, <1>3
    <2> QED
      BY <2>1, <2>3, <2>4, <2>5, <1>1
  <1>7. CASE f[m].op \notin {"pushscope", "popscope", "declare"}
    <2>1. e = d /\ \A i \in 1..d : Slot(f, m, i) = Slot(f, m - 1, i)
      BY <1>0, <1>7, LayoutNext DEF d, e
    <2>2. t[x].op \notin {"pushscope", "popscope", "declare"}
      BY <1>7 DEF Alike
    <2>3. /\ DepthBehind(t, x) = b + d /\ Dist(t, x) = Dist(t, x - 1)
          /\ \A k \in 1..(b + d) : Slot(t, x, k) = Slot(t, x - 1, k)
      BY <1>1, <2>2, LayoutNext
    <2> QED
      BY <2>1, <2>3, <1>1, <1>3
  <1> QED
    BY <1>4, <1>5, <1>6, <1>7

LEMMA ShiftedFits ==
    ASSUME NEW t, IsCode(t), NEW f, IsCode(f), Scoped(f), Len(f) <= 48,
           NEW c \in 0..Len(t), NEW x \in 1..Len(t), NEW m \in 0..Len(f), DepthBehind(t, c) > 0,
           Slot(t, c, DepthBehind(t, c)) + 48 <= Dist(t, c),
           Shifted(t, c, x, f, m), FitsTo(t, x - 1)
    PROVE  FitsTo(t, x)
  <1> DEFINE b == DepthBehind(t, c) - 1
             e == DepthBehind(f, m)
             base == Slot(t, c, DepthBehind(t, c))
             y == Slot(f, m, e)
  <1>0. b \in Nat /\ e \in Nat /\ e > 0 /\ base \in Nat /\ Dist(t, c) \in Int
    <2>1. DepthBehind(t, c) \in Nat
      BY LayoutTypes
    <2>2. DepthBehind(t, c) \in 1..DepthBehind(t, c)
      BY <2>1
    <2> QED
      BY SMTT(40), <2>1, <2>2, ScopedDepth, LayoutTypes
  <1>1. e \in 1..e
    BY <1>0
  <1>2. y \in Nat /\ y <= 48
    <2>1. y \in Nat /\ y <= m /\ m \in Nat /\ m <= Len(f) /\ Len(f) \in Nat
      BY SMTT(40), <1>1, LayoutTypes, SlotBound, LayoutsFollow
    <2> HIDE DEF y
    <2> QED
      BY <2>1
  <1>3. DepthBehind(t, x) = b + e /\ Dist(t, x) = Dist(t, c) /\ Slot(t, x, b + e) = base + y
    BY <1>1 DEF Shifted
  <1>4. base + 48 <= Dist(t, c)
    OBVIOUS
  <1> HIDE DEF b, e, base, y
  <1>5. DepthBehind(t, x) > 0 /\ Slot(t, x, DepthBehind(t, x)) <= Dist(t, x)
    BY <1>0, <1>2, <1>3, <1>4
  <1> QED
    BY <1>5, FitsOn

\* The instructions that replace those of the function, as far as scopes go.
LEMMA ReplacedAlike ==
    ASSUME source \in Sources, NEW f \in Functions, NEW R, NEW pos, Replacing(R, pos, f),
           NEW j \in 1..Len(R), NEW r, r.op = R[j].op,
           R[j].op \in {"pushscope", "popscope"} => r = R[j]
    PROVE  /\ Starts(pos, j)   => Alike(source[f][pos[j]], r)
           /\ ~ Starts(pos, j) => r.op \notin {"pushscope", "popscope", "declare"}
  <1> DEFINE i == source[f][pos[j]]
  <1>1. CASE Starts(pos, j)
    <2>1. /\ i.op \in {"label", "jmp", "jmpcond", "declare"} => R[j] = i
          /\ i.op = "pushscope" => R[j] = PushScope(0)
          /\ i.op = "popscope"  => R[j] = PopScope(0)
          /\ i.op \notin Marks  => R[j].op \notin Marks
      BY <1>1, ReplacingParts
    <2>2. /\ PushScope(0).op = "pushscope" /\ PushScope(0).size = 0
          /\ PopScope(0).op = "popscope" /\ PopScope(0).size = 0
      BY DEF PushScope, PopScope
    <2> HIDE DEF i
    <2> DEFINE x == R[j]
    <2>r. r.op = x.op /\ (x.op \in {"pushscope", "popscope"} => r = x)
      OBVIOUS
    <2> HIDE DEF x
    <2>3. Alike(i, r)
      <3>1. CASE i.op = "pushscope"
        <4>1. r.op = "pushscope" /\ r.size = 0
          BY <2>1, <2>2, <3>1, <2>r DEF x
        <4> QED
          BY <3>1, <4>1 DEF Alike
      <3>2. CASE i.op = "popscope"
        <4>1. r.op = "popscope" /\ r.size = 0
          BY <2>1, <2>2, <3>2, <2>r DEF x
        <4> QED
          BY <3>2, <4>1 DEF Alike
      <3>3. CASE i.op \in {"label", "jmp", "jmpcond", "declare"}
        <4>1. r.op = i.op
          BY <2>1, <3>3, <2>r DEF x
        <4> QED
          BY <3>3, <4>1 DEF Alike
      <3>4. CASE i.op \notin Marks
        <4>1. r.op \notin Marks
          BY <2>1, <3>4, <2>r DEF x
        <4> QED
          BY <3>4, <4>1 DEF Alike, Marks
      <3> QED
        BY <3>1, <3>2, <3>3, <3>4 DEF Marks
    <2> QED
      BY <1>1, <2>3 DEF i
  <1>2. CASE ~ Starts(pos, j)
    <2>1. R[j] \in {Label(EndLabel(f)), Jmp(EndLabel(f))}
      BY <1>2, ReplacingParts
    <2> QED
      BY <1>2, <2>1 DEF Label, Jmp
  <1> QED
    BY <1>1, <1>2

\* The body of a callee.
LEMMA BodyPassed ==
    ASSUME source \in Sources, NEW f \in Functions, Len(source[f]) <= 48,
           NEW R, R = ReplacementCode(f), NEW t, IsCode(t), NEW c \in 0..Len(t), c + Len(R) <= Len(t),
           \A j \in 1..Len(R) : /\ t[c + j].op = R[j].op
                                /\ R[j].op \in {"pushscope", "popscope"} => t[c + j] = R[j],
           DepthBehind(t, c) > 0, Slot(t, c, DepthBehind(t, c)) + 48 <= Dist(t, c), FitsTo(t, c)
    PROVE  Passed(t, c, c + Len(R), 0) /\ FitsTo(t, c + Len(R))
  <1> DEFINE F == source[f]
             L == Len(R)
  <1>1. PICK pos : Replacing(R, pos, f)
    BY ReplacementTraced
  <1>2. IsCode(F) /\ Scoped(F) /\ IsFunction(F) /\ Len(F) \in Nat /\ Len(F) >= 3 /\ Len(F) <= 48
    <2>1. F \in SourceCodes /\ IsFunction(F)
      BY SourceLists
    <2>2. IsCode(F) /\ Scoped(F)
      BY <2>1, SourceCode
    <2> QED
      BY <2>1, <2>2, LayoutsFollow DEF IsFunction
  <1>3. /\ L \in Nat /\ L >= 3 /\ pos \in [1..L -> 2..Len(F)] /\ pos[1] = 2 /\ pos[L] = Len(F)
        /\ \A j \in 2..L : pos[j] \in {pos[j - 1], pos[j - 1] + 1}
    BY <1>1, ListFacts DEF Replacing
  <1>4. c \in Nat /\ Len(t) \in Nat /\ c + L <= Len(t)
    BY LayoutsFollow
  <1>5. DepthBehind(F, 1) = 1 /\ Slot(F, 1, 1) = 0 /\ DepthBehind(F, Len(F)) = 1 /\ Slot(F, Len(F), 1) = 0
    <2>1. DepthBehind(F, 0) = 1 /\ F[1].op = "label" /\ 1 \in 1..Len(F) /\ 1 - 1 = 0
      BY <1>2, LayoutFirst DEF IsFunction, IsLabel
    <2>2. DepthBehind(F, 1) = 1
      <3> HIDE DEF F
      <3>1. DepthBehind(F, 1 - 1) > 0 /\ F[1].op \notin {"pushscope", "popscope", "declare"}
        BY <2>1
      <3>2. DepthBehind(F, 1) = DepthBehind(F, 1 - 1)
        BY <2>1, <3>1, <1>2, LayoutNext
      <3> QED
        BY <2>1, <3>2
    <2>3. 1 \in 0..Len(F) /\ Len(F) \in 0..Len(F)
      BY <1>2
    <2> QED
      BY <2>2, <2>3, <1>2, FunctionSlots DEF IsFunction
  <1>6. DepthBehind(t, c) \in Nat /\ Slot(t, c, DepthBehind(t, c)) \in Nat
    <2>1. DepthBehind(t, c) \in Nat
      BY LayoutTypes
    <2>2. DepthBehind(t, c) \in 1..DepthBehind(t, c)
      BY <2>1
    <2> QED
      BY <2>1, <2>2, LayoutTypes
  <1> DEFINE at(j) == IF j = 0 THEN 1 ELSE pos[j]
             good == {j \in 0..L : Shifted(t, c, c + j, F, at(j)) /\ FitsTo(t, c + j)}
  <1> HIDE DEF L
  <1>7. ASSUME NEW j \in 0..L, \A m \in 0..(j - 1) : m \in good PROVE j \in good
    <2>1. CASE j = 0
      <3> DEFINE D == DepthBehind(t, c)
      <3>1. D \in Nat /\ D > 0 /\ Slot(t, c, D) \in Nat
        BY <1>6
      <3> HIDE DEF D, F
      <3>2. D = (D - 1) + 1
        BY <3>1
      <3>3. \A i \in 1..1 : Slot(t, c, (D - 1) + i) = Slot(t, c, D) + Slot(F, 1, i)
        <4>1. \A i \in 1..1 : i = 1
          OBVIOUS
        <4> QED
          BY <4>1, <3>1, <3>2, <1>5
      <3>4. Shifted(t, c, c, F, 1)
        BY <3>2, <3>3, <1>5 DEF Shifted, D
      <3>5. c + 0 = c
        BY <1>4
      <3> QED
        BY <2>1, <3>4, <3>5
    <2>2. CASE j # 0
      <3> DEFINE x == c + j
                 m == pos[j]
                 n == at(j - 1)
      <3>1. /\ j \in 1..L /\ j - 1 \in 0..(j - 1) /\ j - 1 \in 0..L
            /\ x \in 1..Len(t) /\ x - 1 = c + (j - 1)
        BY <2>2, <1>3, <1>4
      <3>2. Shifted(t, c, x - 1, F, n) /\ FitsTo(t, x - 1)
        BY <3>1, <1>7
      <3>3. m \in 1..Len(F) /\ m \in 0..Len(F) /\ at(j) = m
        <4>1. m \in 2..Len(F)
          BY <3>1, <1>3
        <4> HIDE DEF m, F
        <4>2. m \in 1..Len(F) /\ m \in 0..Len(F)
          BY <4>1, <1>2
        <4> QED
          BY <4>2, <3>1 DEF m
      <3>4. (Starts(pos, j) => n = m - 1) /\ (~ Starts(pos, j) => n = m)
        <4>1. CASE j = 1
          <5>1. n = 1 /\ m = 2 /\ Starts(pos, j)
            BY <4>1, <1>3 DEF Starts
          <5> QED
            BY <5>1
        <4>2. CASE j # 1
          <5>1. j \in 2..L /\ j - 1 # 0 /\ j - 1 \in 1..L
            BY <4>2, <3>1, <1>3
          <5>2. n = pos[j - 1] /\ m \in {n, n + 1} /\ n \in Int
            BY <5>1, <1>3
          <5>3. Starts(pos, j) <=> n # m
            BY <4>2, <5>2 DEF Starts
          <5> HIDE DEF n, m
          <5>4. CASE m = n
            BY <5>3, <5>4
          <5>5. CASE m = n + 1
            BY <5>2, <5>3, <5>5
          <5> QED
            BY <5>2, <5>4, <5>5
        <4> QED
          BY <4>1, <4>2
      <3>5. /\ Starts(pos, j)   => Alike(F[m], t[x])
            /\ ~ Starts(pos, j) => t[x].op \notin {"pushscope", "popscope", "declare"}
        <4>1. t[x].op = R[j].op /\ (R[j].op \in {"pushscope", "popscope"} => t[x] = R[j])
          BY <3>1 DEF L
        <4> HIDE DEF x
        <4> QED
          BY <4>1, <3>1, <1>1, ReplacedAlike DEF L
      <3> HIDE DEF x, m, n, F
      <3>6. Shifted(t, c, x, F, m)
        <4>1. CASE Starts(pos, j)
          <5>1. Shifted(t, c, x - 1, F, m - 1) /\ Alike(F[m], t[x])
            BY <4>1, <3>2, <3>4, <3>5
          <5> QED
            BY <5>1, <3>1, <3>3, <1>2, ShiftedStep
        <4>2. CASE ~ Starts(pos, j)
          <5>1. Shifted(t, c, x - 1, F, m) /\ t[x].op \notin {"pushscope", "popscope", "declare"}
            BY <4>2, <3>2, <3>4, <3>5
          <5>2. DepthBehind(F, m) > 0
            BY <3>3, <1>2, ScopedDepth
          <5> QED
            BY <5>1, <5>2, <3>1, <3>3, <1>2, ShiftedStays
        <4> QED
          BY <4>1, <4>2
      <3>7. FitsTo(t, x)
        BY <3>1, <3>2, <3>3, <3>6, <1>2, ShiftedFits
      <3> QED
        BY <3>1, <3>3, <3>6, <3>7 DEF x
    <2> QED
      BY <2>1, <2>2
  <1>8. \A j \in 0..L : j \in good
    <2>1. 0 \in Nat
      OBVIOUS
    <2> HIDE DEF good
    <2> QED
      BY <1>3, <1>7, <2>1, AllBelow
  <1>9. Shifted(t, c, c + L, F, Len(F)) /\ FitsTo(t, c + L)
    <2>1. L \in 0..L /\ L # 0
      BY <1>3
    <2>2. L \in good
      BY <2>1, <1>8
    <2> QED
      BY <2>1, <2>2, <1>3
  <1>10. Passed(t, c, c + L, 0)
    <2> DEFINE D == DepthBehind(t, c)
               e == c + L
    <2>1. D \in Nat /\ D > 0 /\ \A j \in 1..D : Slot(t, c, j) \in Nat
      BY LayoutTypes
    <2>2. /\ DepthBehind(t, e) = (D - 1) + 1 /\ Dist(t, e) = Dist(t, c)
          /\ \A k \in 1..(D - 1) : Slot(t, e, k) = Slot(t, c, k)
          /\ Slot(t, e, (D - 1) + 1) = Slot(t, c, D) + 0
      <3> HIDE DEF e, F
      <3>1. 1 \in 1..1
        OBVIOUS
      <3> QED
        BY <3>1, <1>5, <1>9 DEF Shifted, e
    <2> HIDE DEF D, e
    <2>3. ASSUME NEW j \in 1..D PROVE Slot(t, e, j) = IF j = D THEN Slot(t, c, j) + 0 ELSE Slot(t, c, j)
      <3>1. (D - 1) + 1 = D /\ (j # D => j \in 1..(D - 1))
        BY <2>1
      <3> QED
        BY <3>1, <2>2
    <2>4. (D - 1) + 1 = D
      BY <2>1
    <2> QED
      BY <2>2, <2>3, <2>4 DEF Passed, D, e
  <1> QED
    BY <1>9, <1>10 DEF L

LEMMA OpenedPassed ==
    ASSUME NEW t, IsCode(t), NEW b \in 0..Len(t), NEW e \in 0..Len(t), b <= e, NEW q, Opened(t, b, q),
           NEW k, Passed(t, b, e, k)
    PROVE  Opened(t, e, q)
  <1>1. DepthBehind(t, e) = DepthBehind(t, b) /\ Dist(t, e) = Dist(t, b)
    BY DEF Passed
  <1>2. \A j \in 1..b : j \in 1..e
    BY LayoutsFollow
  <1> QED
    BY <1>1, <1>2 DEF Opened

LEMMA PassedPassed ==
    ASSUME NEW t, IsCode(t), NEW b \in 0..Len(t), NEW c, NEW e, NEW k \in Nat,
           Passed(t, b, c, k), Passed(t, c, e, 0)
    PROVE  Passed(t, b, e, k)
  <1> DEFINE d == DepthBehind(t, b)
  <1>1. \A j \in 1..d : Slot(t, b, j) \in Nat
    BY LayoutTypes
  <1>2. /\ DepthBehind(t, c) = d /\ Dist(t, c) = Dist(t, b)
        /\ \A j \in 1..d : Slot(t, c, j) = IF j = d THEN Slot(t, b, j) + k ELSE Slot(t, b, j)
    BY DEF Passed
  <1> HIDE DEF d
  <1>3. /\ DepthBehind(t, e) = d /\ Dist(t, e) = Dist(t, c)
        /\ \A j \in 1..d : Slot(t, e, j) = IF j = d THEN Slot(t, c, j) + 0 ELSE Slot(t, c, j)
    BY <1>2 DEF Passed
  <1>4. \A j \in 1..d : Slot(t, e, j) = IF j = d THEN Slot(t, b, j) + k ELSE Slot(t, b, j)
    BY <1>1, <1>2, <1>3
  <1> QED
    BY <1>2, <1>3, <1>4 DEF Passed, d

\* A call is replaced: g is the walk's list t with the innermost scope grown,
\* and in u the code for the call follows the first b instructions of g.
CallReplaced(s, a, p, t, b, q, g, u, K, f, R, c) ==
    /\ IsCode(s) /\ IsCode(t) /\ IsCode(u) /\ a \in 1..Len(s) /\ b \in 0..Len(t) /\ b <= Len(u)
    /\ Roomy(s, a - 1, p, t, b, q) /\ s[a].op \notin {"pushscope", "popscope", "declare"}
    /\ K \in Nat /\ WiderWithin(t, g, b, q, 48 + K) /\ \A i \in 1..b : u[i] = g[i]
    /\ \A i \in 1..K : u[b + 2 * i - 1].op = "declare" /\ u[b + 2 * i].op = "move"
    /\ f \in Functions /\ Len(source[f]) <= 48 /\ R = ReplacementCode(f) /\ Len(R) \in Nat
    /\ c = b + 2 * K /\ c + Len(R) <= Len(u)
    /\ \A j \in 1..Len(R) : /\ u[c + j].op = R[j].op
                            /\ R[j].op \in {"pushscope", "popscope"} => u[c + j] = R[j]

LEMMA RoomyBlock ==
    ASSUME source \in Sources, NEW s, NEW a, NEW p, NEW t, NEW b, NEW q, NEW g, NEW u, NEW K,
           NEW f, NEW R, NEW c, CallReplaced(s, a, p, t, b, q, g, u, K, f, R, c)
    PROVE  Roomy(s, a, p, u, c + Len(R), q)
  <1> USE DEF CallReplaced
  <1> DEFINE d == Len(q) + 1
             e == c + Len(R)
  <1>0. /\ Opened(s, a - 1, p) /\ Since(s, a - 1, p) /\ Opened(t, b, q) /\ Len(p) = Len(q)
        /\ FitsTo(t, b)
        /\ \A k \in 1..d : Slot(t, b, k) - Slot(s, a - 1, k) <= Frame(t, q, k) - Frame(s, p, k)
    BY DEF Roomy
  <1>1. /\ b \in Nat /\ b <= Len(t) /\ Len(t) \in Nat /\ Len(u) \in Nat /\ b \in 0..Len(u)
        /\ a - 1 \in 0..Len(s)
    BY SMTT(40), LayoutsFollow
  <1>2. c \in 0..Len(u) /\ e \in 0..Len(u) /\ b <= e /\ b <= c /\ e \in Nat
    BY <1>1
  <1>3. /\ IsCode(g) /\ Len(g) = Len(t) /\ Opened(g, b, q) /\ FitsTo(g, b)
        /\ \A k \in 1..d :
              /\ Slot(g, b, k) = Slot(t, b, k)
              /\ Frame(g, q, k) = IF k = d THEN Frame(t, q, k) + (48 + K) ELSE Frame(t, q, k)
    BY <1>0 DEF WiderWithin
  <1>4. /\ Opened(u, b, q) /\ FitsTo(u, b)
        /\ \A k \in 1..d : Frame(u, q, k) = Frame(g, q, k) /\ Slot(u, b, k) = Slot(g, b, k)
    <2>1. b <= Len(g) /\ \A i \in 1..b : g[i] = u[i]
      BY <1>1, <1>3
    <2>2. FitsTo(u, b)
      BY <1>1, <1>3, <2>1, FitsAlike
    <2>3. /\ Opened(u, b, q)
          /\ \A k \in 1..(Len(q) + 1) : Frame(u, q, k) = Frame(g, q, k) /\ Slot(u, b, k) = Slot(g, b, k)
      <3>1. IsCode(g) /\ IsCode(u) /\ b \in Nat /\ b <= Len(g) /\ b <= Len(u) /\ Opened(g, b, q)
            /\ \A i \in 1..b : g[i] = u[i]
        BY <1>1, <1>3, <2>1
      <3> QED
        BY ONLY <3>1, OpenedAlike
    <2> QED
      BY <2>2, <2>3
  <1>5. /\ Len(q) \in Nat /\ d > 0 /\ d \in 1..d
        /\ DepthBehind(t, b) = d /\ DepthBehind(u, b) = d /\ DepthBehind(s, a - 1) = d
        /\ \A k \in 1..d : Slot(t, b, k) \in Nat /\ Frame(t, q, k) \in Int
        /\ \A k \in 1..d : Slot(s, a - 1, k) \in Nat /\ Frame(s, p, k) \in Int
    <2>1. Len(q) \in Nat
      BY <1>0, <1>1, OpenedFacts
    <2>2. d \in 1..d /\ d > 0
      BY <2>1
    <2>3. /\ DepthBehind(t, b) = d
          /\ \A k \in 1..d : Slot(t, b, k) \in Nat /\ Frame(t, q, k) \in Int
      BY <1>0, OpenedFacts
    <2>4. DepthBehind(u, b) = d
      BY <1>1, <1>4, OpenedFacts
    <2>5. /\ DepthBehind(s, a - 1) = d
          /\ \A k \in 1..d : Slot(s, a - 1, k) \in Nat /\ Frame(s, p, k) \in Int
      <3>1. Opened(s, a - 1, p) /\ Len(p) = Len(q)
        BY <1>0
      <3>2. /\ DepthBehind(s, a - 1) = Len(p) + 1
            /\ \A k \in 1..(Len(p) + 1) : Slot(s, a - 1, k) \in Nat /\ Frame(s, p, k) \in Int
        BY ZenonT(60), <3>1, <1>1, OpenedFacts
      <3> QED
        BY <3>1, <3>2
    <2> HIDE DEF d
    <2> QED
      BY <2>1, <2>2, <2>3, <2>4, <2>5
  <1>6. Slot(t, b, d) <= Dist(t, b) /\ Dist(t, b) = Frame(t, q, d) /\ Dist(u, b) = Frame(u, q, d)
    <2>1. b \in 0..b
      BY <1>1
    <2>2. Slot(t, b, DepthBehind(t, b)) <= Dist(t, b)
      BY <2>1, <1>0 DEF FitsTo
    <2> QED
      BY <2>2, <1>0, <1>4, <1>5 DEF Opened
  <1> HIDE DEF d, e
  <1>7. (Slot(u, b, d) + K) + 48 <= Dist(u, b) /\ Slot(u, b, d) + K <= Dist(u, b)
    <2>1. Slot(u, b, d) = Slot(t, b, d) /\ Dist(u, b) = Dist(t, b) + (48 + K)
      BY <1>3, <1>4, <1>5, <1>6
    <2>2. Slot(t, b, d) \in Nat /\ Dist(t, b) \in Int
      BY <1>5, <1>6
    <2> QED
      BY SMTT(40), <2>1, <2>2, <1>6
  <1>8. Passed(u, b, c, K) /\ FitsTo(u, c)
    <2>1. b + 2 * K <= Len(u) /\ DepthBehind(u, b) > 0 /\ Slot(u, b, DepthBehind(u, b)) + K <= Dist(u, b)
      BY <1>2, <1>5, <1>7
    <2>2. Passed(u, b, b + 2 * K, K) /\ FitsTo(u, b + 2 * K)
      BY <2>1, <1>1, <1>4, ArgumentsPassed
    <2> QED
      BY <2>2
  <1>9. Passed(u, c, e, 0) /\ FitsTo(u, e)
    <2>1. DepthBehind(u, c) = d /\ Dist(u, c) = Dist(u, b) /\ Slot(u, c, d) = Slot(u, b, d) + K
      BY <1>5, <1>8 DEF Passed
    <2>2. DepthBehind(u, c) > 0 /\ Slot(u, c, DepthBehind(u, c)) + 48 <= Dist(u, c)
      BY <2>1, <1>5, <1>7
    <2>3. Passed(u, c, c + Len(R), 0) /\ FitsTo(u, c + Len(R))
      BY <2>2, <1>2, <1>8, BodyPassed
    <2> QED
      BY <2>3 DEF e
  <1>10. Passed(u, b, e, K)
    BY <1>1, <1>8, <1>9, PassedPassed
  <1>11. Opened(u, e, q)
    BY <1>1, <1>2, <1>4, <1>10, OpenedPassed
  <1>12. Opened(s, a, p) /\ Since(s, a, p) /\ \A k \in 1..d : Slot(s, a, k) = Slot(s, a - 1, k)
    <2>1. s[a].op \notin {"pushscope", "popscope"}
      OBVIOUS
    <2>2. Opened(s, a, p) /\ Since(s, a, p)
      BY <2>1, <1>0, OpenedOn, SinceOn
    <2>3. \A k \in 1..d : Slot(s, a, k) = Slot(s, a - 1, k)
      <3>1. DepthBehind(s, a - 1) = d /\ DepthBehind(s, a - 1) > 0
        BY <1>5
      <3>2. \A k \in 1..DepthBehind(s, a - 1) : Slot(s, a, k) = Slot(s, a - 1, k)
        BY <3>1, LayoutNext
      <3> QED
        BY <3>1, <3>2
    <2> QED
      BY <2>2, <2>3
  <1>13. ASSUME NEW k \in 1..d
         PROVE  Slot(u, e, k) - Slot(s, a, k) <= Frame(u, q, k) - Frame(s, p, k)
    <2>1. /\ Slot(t, b, k) - Slot(s, a - 1, k) <= Frame(t, q, k) - Frame(s, p, k)
          /\ Slot(t, b, k) \in Nat /\ Frame(t, q, k) \in Int
          /\ Slot(s, a - 1, k) \in Nat /\ Frame(s, p, k) \in Int
          /\ Slot(s, a, k) = Slot(s, a - 1, k)
      BY <1>0, <1>5, <1>12
    <2>2. CASE k = d
      <3>1. Slot(u, e, k) = Slot(t, b, k) + K /\ Frame(u, q, k) = Frame(t, q, k) + (48 + K)
        BY <2>2, <1>3, <1>4, <1>5, <1>10 DEF Passed
      <3> DEFINE i == Slot(t, b, k)
                 j == Slot(s, a - 1, k)
                 m == Frame(t, q, k)
                 n == Frame(s, p, k)
      <3>2. i \in Nat /\ j \in Nat /\ m \in Int /\ n \in Int /\ i - j <= m - n
        BY <2>1
      <3> HIDE DEF i, j, m, n
      <3>3. (i + K) - j <= (m + (48 + K)) - n
        BY <3>2
      <3> QED
        BY <3>1, <3>3, <2>1 DEF i, j, m, n
    <2>3. CASE k # d
      <3>1. Slot(u, e, k) = Slot(t, b, k) /\ Frame(u, q, k) = Frame(t, q, k)
        BY <2>3, <1>3, <1>4, <1>5, <1>10 DEF Passed
      <3> QED
        BY <3>1, <2>1
    <2> QED
      BY <2>2, <2>3
  <1> QED
    BY <1>0, <1>9, <1>11, <1>12, <1>13 DEF Roomy, d, e

-----------------------------------------------------------------------------
(* The third invariant: the frames.                                        *)

\* The list that is walked has room up to the place of the walk, the others
\* have room everywhere.
Framed ==
    path # NoPath =>
        \E p : Roomy(source[path], Ahead(source[path], prog[path], node) - 1, p,
                     prog[path], node - 1, pushScopeStack)

Fitting == \A f \in DOMAIN prog : f # path => FitsTo(prog[f], Len(prog[f]))

FrameInvariant == Framed /\ Fitting

LEMMA SourceFits ==
    ASSUME SourcesFit, NEW code \in SourceCodes
    PROVE  FitsTo(code, Len(code))
  <1>1. IsCode(code) /\ Scoped(code) /\ Fits(code)
    BY SourceCode DEF SourcesFit
  <1> SUFFICES ASSUME NEW j \in 0..Len(code)
               PROVE  DepthBehind(code, j) > 0 /\ Slot(code, j, DepthBehind(code, j)) <= Dist(code, j)
    BY DEF FitsTo
  <1>2. DepthBehind(code, j) > 0
    BY <1>1, ScopedDepth
  <1>3. NextSlot(Layouts(code)[j].scopes) <= Layouts(code)[j].dist
    BY <1>1 DEF Fits
  <1> QED
    BY <1>1, <1>2, <1>3, LayoutTypes DEF Dist

LEMMA FitsHolds ==
    ASSUME NEW c, IsCode(c), FitsTo(c, Len(c))
    PROVE  FrameHoldsSlots(c)
  <1> SUFFICES ASSUME NEW n \in 1..Len(c), c[n].op = "declare"
               PROVE  NextSlot(Layouts(c)[n - 1].scopes) < Layouts(c)[n - 1].dist
    BY DEF FrameHoldsSlots
  <1> DEFINE d == DepthBehind(c, n - 1)
  <1>1. n - 1 \in 0..Len(c) /\ n \in 0..Len(c)
    BY LayoutsFollow
  <1>2. d > 0 /\ d \in Nat /\ Slot(c, n, DepthBehind(c, n)) <= Dist(c, n)
    BY <1>1, LayoutTypes DEF FitsTo
  <1>3. DepthBehind(c, n) = d /\ Slot(c, n, d) = Slot(c, n - 1, d) + 1 /\ Dist(c, n) = Dist(c, n - 1)
    <2>1. d \in 1..d
      BY <1>2
    <2> QED
      BY <2>1, <1>2, LayoutNext
  <1>4. Slot(c, n - 1, d) \in Nat /\ Dist(c, n - 1) \in Int
        /\ NextSlot(Layouts(c)[n - 1].scopes) = Slot(c, n - 1, d)
    <2>1. d \in 1..d
      BY <1>2
    <2> QED
      BY <2>1, <1>1, <1>2, LayoutTypes
  <1> HIDE DEF d
  <1>5. Slot(c, n - 1, d) < Dist(c, n - 1)
    BY <1>2, <1>3, <1>4
  <1> QED
    BY <1>4, <1>5 DEF Dist

LEMMA RoomyFirst ==
    ASSUME NEW s, IsCode(s), FitsTo(s, Len(s))
    PROVE  Roomy(s, 0, <<>>, s, 0, <<>>)
  <1>1. Len(s) \in Nat /\ Len(<<>>) = 0
    BY LayoutsFollow, EmptyList
  <1>2. Opened(s, 0, <<>>)
    BY OpenedFirst
  <1>3. Since(s, 0, <<>>)
    <2>1. \A k \in 1..Len(<<>>) : FALSE
      BY <1>1
    <2> QED
      BY <2>1 DEF Since
  <1>4. FitsTo(s, 0)
    <2>1. \A j \in 0..0 : j \in 0..Len(s)
      BY <1>1
    <2> QED
      BY <2>1 DEF FitsTo
  <1>5. ASSUME NEW k \in 1..(Len(<<>>) + 1)
        PROVE  Slot(s, 0, k) - Slot(s, 0, k) <= Frame(s, <<>>, k) - Frame(s, <<>>, k)
    <2>1. 0 \in 0..Len(s)
      BY <1>1
    <2>2. Slot(s, 0, k) \in Nat /\ Frame(s, <<>>, k) \in Int
      BY <2>1, <1>2, OpenedFacts
    <2> QED
      BY <2>2
  <1> QED
    BY <1>2, <1>3, <1>4, <1>5 DEF Roomy

LEMMA FrameInit ==
    ASSUME SourcesFit, InlineInit
    PROVE  FrameInvariant
  <1>1. \A f \in DOMAIN prog : FitsTo(prog[f], Len(prog[f]))
    <2> SUFFICES ASSUME NEW f \in DOMAIN prog PROVE FitsTo(prog[f], Len(prog[f]))
      OBVIOUS
    <2>1. source \in Sources /\ prog = source
      BY DEF InlineInit
    <2>2. prog[f] \in SourceCodes
      BY <2>1, SourceLists
    <2> QED
      BY <2>2, SourceFits
  <1> QED
    BY <1>1 DEF FrameInvariant, Framed, Fitting, InlineInit

LEMMA FrameKept ==
    ASSUME FrameInvariant, source' = source, prog' = prog, path' = path, node' = node,
           pushScopeStack' = pushScopeStack
    PROVE  FrameInvariant'
  <1> QED
    BY DEF FrameInvariant, Framed, Fitting

\* A step of the walk over one list.
LEMMA FrameWalked ==
    ASSUME FrameInvariant, source' = source, path' = path,
           DOMAIN prog' = DOMAIN prog, \A f \in DOMAIN prog : f # path => prog'[f] = prog[f],
           NEW p, Roomy(source[path], Ahead(source[path], prog'[path], node') - 1, p,
                        prog'[path], node' - 1, pushScopeStack')
    PROVE  FrameInvariant'
  <1>1. Framed'
    BY DEF Framed
  <1>2. Fitting'
    BY DEF FrameInvariant, Fitting
  <1> QED
    BY <1>1, <1>2 DEF FrameInvariant

LEMMA FrameTurns ==
    ASSUME SourcesFit, WalkInvariant, FrameInvariant,
           (\E f \in DOMAIN source : StartPath(f)) \/ EndPath
    PROVE  FrameInvariant'
  <1>1. CASE \E f \in DOMAIN source : StartPath(f)
    <2>0. PICK f \in DOMAIN source : StartPath(f)
      BY <1>1
    <2>1. /\ source' = source /\ prog' = prog /\ path' = f /\ path = NoPath
          /\ f \notin visited /\ stage \in {"inline", "main"}
          /\ node' = 1 /\ pushScopeStack' = <<>>
      BY <2>0 DEF StartPath, inlining
    <2>2. source[f] \in SourceCodes /\ NoPath \notin DOMAIN source
      BY SourceLists DEF WalkInvariant, Lists
    <2>3. IsCode(source[f]) /\ FitsTo(source[f], Len(source[f]))
      BY <2>2, SourceCode, SourceFits
    <2>4. prog[f] = source[f]
      BY <2>1, <2>2 DEF WalkInvariant, Course
    <2>5. Roomy(source[f], 0, <<>>, source[f], 0, <<>>)
      BY <2>3, RoomyFirst
    <2>6. Ahead(source[f], source[f], 1) - 1 = 0 /\ 1 - 1 = 0
      BY <2>3, LayoutsFollow DEF Ahead
    <2>7. Framed'
      <3>1. Roomy(source'[path'], Ahead(source'[path'], prog'[path'], node') - 1, <<>>,
                  prog'[path'], node' - 1, pushScopeStack')
        BY <2>1, <2>4, <2>5, <2>6
      <3> QED
        BY <3>1 DEF Framed
    <2>8. Fitting'
      BY <2>1, <2>2 DEF FrameInvariant, Fitting, WalkInvariant, Lists
    <2> QED
      BY <2>7, <2>8 DEF FrameInvariant
  <1>2. CASE EndPath
    <2>1. /\ source' = source /\ prog' = prog /\ path' = NoPath /\ path # NoPath
          /\ node > Len(prog[path])
      BY <1>2 DEF EndPath
    <2>2. PICK p : Roomy(source[path], Ahead(source[path], prog[path], node) - 1, p,
                         prog[path], node - 1, pushScopeStack)
      BY <2>1 DEF FrameInvariant, Framed
    <2>3. node - 1 = Len(prog[path])
      <3>1. Walked(source[path], prog[path], node, pushScopeStack) /\ Len(prog[path]) \in Nat
        BY <2>1, WalkedLists, LayoutsFollow
      <3>2. node \in 1..(Len(prog[path]) + 1)
        BY <3>1 DEF Walked
      <3> QED
        BY <3>1, <3>2, <2>1
    <2>4. FitsTo(prog[path], Len(prog[path]))
      BY <2>2, <2>3 DEF Roomy
    <2> QED
      BY <2>1, <2>4 DEF FrameInvariant, Framed, Fitting
  <1> QED
    BY <1>1, <1>2

\* What the walk has in front of it, and the frames as they are.
LEMMA FramesHere ==
    ASSUME SourcesFit, WalkInvariant, FrameInvariant, path # NoPath, node <= Len(prog[path])
    PROVE  LET s == source[path]
               t == prog[path]
               a == Ahead(s, t, node)
           IN  /\ path \in DOMAIN prog /\ IsCode(s) /\ Scoped(s) /\ IsCode(t) /\ FitsTo(s, Len(s))
               /\ node \in 1..Len(t) /\ a \in 1..Len(s) /\ t[node] = s[a]
               /\ Ahead(s, t, node + 1) - 1 = a /\ (node + 1) - 1 = node
               /\ Len(s) \in Nat /\ Len(t) \in Nat
               /\ \E p : Roomy(s, a - 1, p, t, node - 1, pushScopeStack)
  <1> DEFINE s == source[path]
             t == prog[path]
             a == Ahead(s, t, node)
  <1>1. /\ path \in DOMAIN prog /\ s \in SourceCodes /\ IsCode(s) /\ Scoped(s) /\ IsCode(t)
        /\ Walked(s, t, node, pushScopeStack)
    BY WalkedLists
  <1>2. FitsTo(s, Len(s))
    BY <1>1, SourceFits
  <1>3. \E p : Roomy(s, a - 1, p, t, node - 1, pushScopeStack)
    BY DEF FrameInvariant, Framed
  <1>4. Len(s) \in Nat /\ Len(t) \in Nat
    BY <1>1, LayoutsFollow
  <1>5. /\ node \in 1..Len(t) /\ a \in 1..Len(s) /\ t[node] = s[a]
        /\ Ahead(s, t, node + 1) = a + 1 /\ (a + 1) - 1 = a /\ (node + 1) - 1 = node
    <2>1. node <= Len(t)
      OBVIOUS
    <2> HIDE DEF s, t
    <2> QED
      BY <2>1, <1>1, WalkedHere DEF a
  <1> QED
    BY <1>1, <1>2, <1>3, <1>4, <1>5

LEMMA FrameGoesOn ==
    ASSUME SourcesFit, WalkInvariant, FrameInvariant,
           WalkPushScope \/ WalkPopScope \/ WalkOther \/ WalkCallKept
    PROVE  FrameInvariant'
  <1> DEFINE s == source[path]
             t == prog[path]
             a == Ahead(s, t, node)
             q == pushScopeStack
  <1>0. /\ path # NoPath /\ node <= Len(t) /\ Here = t[node]
        /\ source' = source /\ path' = path /\ node' = node + 1
    BY DEF WalkPushScope, WalkPopScope, WalkOther, WalkCallKept, Walking, Here, inlining
  <1>1. /\ path \in DOMAIN prog /\ IsCode(s) /\ Scoped(s) /\ IsCode(t) /\ FitsTo(s, Len(s))
        /\ node \in 1..Len(t) /\ a \in 1..Len(s) /\ t[node] = s[a]
        /\ Ahead(s, t, node + 1) - 1 = a /\ (node + 1) - 1 = node
        /\ Len(s) \in Nat /\ Len(t) \in Nat
        /\ \E p : Roomy(s, a - 1, p, t, node - 1, q)
    BY <1>0, FramesHere
  <1>2. PICK p : Roomy(s, a - 1, p, t, node - 1, q)
    BY <1>1
  <1>3. CASE WalkPushScope
    <2>1. prog' = prog /\ pushScopeStack' = Append(q, node) /\ s[a].op = "pushscope"
      BY <1>0, <1>1, <1>3 DEF WalkPushScope
    <2>2. Roomy(s, a, Append(p, a), t, node, Append(q, node))
      <3> HIDE DEF s, t, a, q
      <3> QED
        BY <1>1, <1>2, <2>1, RoomyPush
    <2>3. Roomy(source[path], Ahead(source[path], prog'[path], node') - 1, Append(p, a),
                prog'[path], node' - 1, pushScopeStack')
      BY <1>0, <1>1, <2>1, <2>2
    <2> QED
      BY <1>0, <2>1, <2>3, FrameWalked
  <1>4. CASE WalkPopScope
    <2> DEFINE z == Last(q)
               size == t[z].size
               u == Put(t, node, PopScope(size))
    <2>1. pushScopeStack' = Front(q) /\ s[a].op = "popscope"
      BY <1>0, <1>1, <1>4 DEF WalkPopScope
    <2>2. /\ size \in Nat /\ Len(q) > 0 /\ z = q[Len(q)] /\ DOMAIN prog' = DOMAIN prog
          /\ prog'[path] = u /\ \A f \in DOMAIN prog : f # path => prog'[f] = prog[f]
      BY <1>4, PopScopeDone
    <2>3. z \in 1..(node - 1)
      <3>1. Opened(t, node - 1, q)
        BY <1>2 DEF Roomy
      <3>2. Len(q) \in 1..Len(q)
        BY <2>2, <3>1, ListFacts DEF Opened
      <3> QED
        BY <2>2, <3>1, <3>2 DEF Opened
    <2> HIDE DEF z, size
    <2>4. Plain(PopScope(size)) /\ PopScope(size).op = "popscope" /\ PopScope(size).size = size
      BY <2>2 DEF Plain, PopScope
    <2>5. /\ IsCode(u) /\ Len(u) = Len(t) /\ u[node] = PopScope(size)
          /\ \A k \in 1..Len(t) : k # node => u[k] = t[k]
      <3> HIDE DEF t
      <3>1. IsCode(t) /\ node \in 1..Len(t) /\ Plain(PopScope(size))
        BY <1>1, <2>4
      <3> QED
        BY <3>1, PutCode
    <2> HIDE DEF u
    <2>6. \A i \in 1..(node - 1) : t[i] = u[i] /\ i \in 1..Len(t) /\ i # node
      BY <1>1, <2>5
    <2>7. u[z].size = size /\ u[node].op = "popscope" /\ u[node].size = size
      BY <2>3, <2>4, <2>5, <2>6 DEF size
    <2>8. Roomy(s, a - 1, p, u, node - 1, q)
      <3>1. node - 1 \in Nat /\ node - 1 <= Len(t) /\ node - 1 <= Len(u)
        BY <1>1, <2>5
      <3> HIDE DEF s, t, a, q
      <3> QED
        BY <3>1, <1>1, <1>2, <2>5, <2>6, RoomyAlike
    <2>9. Roomy(s, a, Front(p), u, node, Front(q))
      <3>1. node \in 1..Len(u) /\ u[node].size = u[q[Len(q)]].size
        BY <1>1, <2>2, <2>5, <2>7
      <3> HIDE DEF s, t, a, q
      <3> QED
        BY <3>1, <1>1, <2>1, <2>5, <2>7, <2>8, RoomyPop
    <2>10. Ahead(s, u, node + 1) - 1 = a
      BY <1>1, <2>5 DEF Ahead
    <2>11. Roomy(source[path], Ahead(source[path], prog'[path], node') - 1, Front(p),
                 prog'[path], node' - 1, pushScopeStack')
      BY <1>0, <1>1, <2>1, <2>2, <2>9, <2>10
    <2> QED
      BY <1>0, <2>2, <2>11, FrameWalked
  <1>5. CASE WalkOther \/ WalkCallKept
    <2>1. prog' = prog /\ pushScopeStack' = q /\ s[a].op \notin {"pushscope", "popscope"}
      BY <1>0, <1>1, <1>5 DEF WalkOther, WalkCallKept, IsCallMove
    <2>2. Roomy(s, a, p, t, node, q)
      <3> HIDE DEF s, t, a, q
      <3> QED
        BY <1>1, <1>2, <2>1, RoomyOn
    <2>3. Roomy(source[path], Ahead(source[path], prog'[path], node') - 1, p,
                prog'[path], node' - 1, pushScopeStack')
      BY <1>0, <1>1, <2>1, <2>2
    <2> QED
      BY <1>0, <2>1, <2>3, FrameWalked
  <1> QED
    BY <1>3, <1>4, <1>5

\* Where the parts of the code for a call come to be.
CallCode(new, K, R) ==
    /\ K \in Nat /\ Len(R) \in Nat /\ Len(new) = 2 * K + Len(R)
    /\ \A i \in 1..K : /\ 2 * i - 1 \in 1..Len(new) /\ 2 * i \in 1..Len(new)
                       /\ new[2 * i - 1].op = "declare" /\ new[2 * i].op = "move"
    /\ \A j \in 1..Len(R) : /\ 2 * K + j \in 1..Len(new)
                            /\ new[2 * K + j].op = R[j].op
                            /\ R[j].op \in {"pushscope", "popscope"} => new[2 * K + j] = R[j]

LEMMA NewCodeParts ==
    ASSUME WalkInvariant, Walking, IsCallMove(Here), Inlinable
    PROVE  CallCode(NewCode, Len(Here.src.args), ReplacementCode(Here.src.func))
  <1> DEFINE call == Here.src
             R == ReplacementCode(call.func)
             K == Len(call.args)
             A == ArgumentCode(call)
             N == InlinedCode(call.func, Here.dst)
  <1>1. /\ IsList(call.args) /\ replacementCode[call.func] = R /\ IsCode(R)
        /\ IsCode(A) /\ IsCode(N)
    BY NewCodeFacts
  <1>2. /\ K \in Nat /\ Len(A) = 2 * K
        /\ \A n \in 1..K : A[2 * n - 1].op = "declare" /\ A[2 * n].op = "move"
    BY <1>1, ArgumentFacts
  <1>3. /\ Len(N) = Len(R)
        /\ \A n \in 1..Len(R) : /\ N[n].op = R[n].op
                                /\ R[n].op \in {"pushscope", "popscope"} => N[n] = R[n]
    <2>1. IsCode(replacementCode[call.func])
      BY <1>1
    <2>2. LET r == replacementCode[call.func]
          IN  /\ Len(N) = Len(r)
              /\ \A n \in 1..Len(r) : /\ N[n].op = r[n].op
                                      /\ r[n].op \in {"pushscope", "popscope"} => N[n] = r[n]
      BY <2>1, InlinedFacts
    <2> QED
      BY <2>2, <1>1
  <1>4. NewCode = A \o N
    BY DEF NewCode
  <1> HIDE DEF A, N, R, K
  <1>5. /\ Len(NewCode) = Len(A) + Len(N)
        /\ \A i \in 1..Len(A) : NewCode[i] = A[i]
        /\ \A i \in 1..Len(N) : NewCode[Len(A) + i] = N[i]
    <2>1. IsList(A) /\ IsList(N)
      BY <1>1 DEF IsCode
    <2>2. /\ Len(A \o N) = Len(A) + Len(N)
          /\ \A i \in 1..Len(A) : (A \o N)[i] = A[i]
          /\ \A i \in 1..Len(N) : (A \o N)[Len(A) + i] = N[i]
      BY ONLY <2>1, Joined
    <2> QED
      BY <2>2, <1>4
  <1>6. Len(R) \in Nat
    BY <1>1, LayoutsFollow
  <1> DEFINE L == Len(NewCode)
  <1>7. L = 2 * K + Len(R)
    BY <1>2, <1>3, <1>5
  <1> HIDE DEF L
  <1>8. ASSUME NEW i \in 1..K
        PROVE  /\ 2 * i - 1 \in 1..L /\ 2 * i \in 1..L
               /\ NewCode[2 * i - 1].op = "declare" /\ NewCode[2 * i].op = "move"
    <2>1. /\ 2 * i - 1 \in 1..L /\ 2 * i \in 1..L
          /\ 2 * i - 1 \in 1..(2 * K) /\ 2 * i \in 1..(2 * K)
      <3> DEFINE r == Len(R)
      <3>1. K \in Nat /\ r \in Nat /\ L = 2 * K + r /\ i \in 1..K
        BY <1>2, <1>6, <1>7
      <3> HIDE DEF r
      <3> QED
        BY ONLY <3>1
    <2>2. NewCode[2 * i - 1] = A[2 * i - 1] /\ NewCode[2 * i] = A[2 * i]
      BY <2>1, <1>2, <1>5
    <2> QED
      BY <2>1, <2>2, <1>2
  <1>9. ASSUME NEW j \in 1..Len(R)
        PROVE  /\ 2 * K + j \in 1..L /\ NewCode[2 * K + j].op = R[j].op
               /\ R[j].op \in {"pushscope", "popscope"} => NewCode[2 * K + j] = R[j]
    <2>1. 2 * K + j \in 1..L
      <3> DEFINE r == Len(R)
      <3>1. K \in Nat /\ r \in Nat /\ L = 2 * K + r /\ j \in 1..r
        BY <1>2, <1>6, <1>7
      <3> HIDE DEF r
      <3> QED
        BY ONLY <3>1
    <2>2. NewCode[2 * K + j] = N[j]
      BY <1>2, <1>3, <1>5
    <2> QED
      BY <2>1, <2>2, <1>3
  <1> QED
    BY <1>2, <1>6, <1>7, <1>8, <1>9 DEF L, CallCode, R, K, call

LEMMA FrameInlines ==
    ASSUME SourcesFit, InlinerMax <= 48, WalkInvariant, FrameInvariant, InlineCall
    PROVE  FrameInvariant'
  <1> DEFINE s == source[path]
             t == prog[path]
             a == Ahead(s, t, node)
             q == pushScopeStack
             f == Here.src.func
             K == Len(Here.src.args)
             R == ReplacementCode(f)
  <1>0. /\ path # NoPath /\ node <= Len(t) /\ Here = t[node]
        /\ source' = source /\ path' = path /\ Walking /\ IsCallMove(Here) /\ Inlinable
        /\ pushScopeStack' = pushScopeStack
    BY DEF InlineCall, Walking, Here
  <1>1. CASE stage' # stage
    <2>1. prog' = prog /\ node' = node
      BY <1>1 DEF InlineCall
    <2> QED
      BY <1>0, <2>1, FrameKept
  <1>2. CASE stage' = stage
    <2> DEFINE z == Last(q)
               size == t[z].size + ExtraSize(Here.src)
               g == Put(t, z, PushScope(size))
               u == Splice(g, node, NewCode)
               b == node - 1
               c == b + 2 * K
    <2>1. /\ size \in Nat /\ Len(q) > 0 /\ z = q[Len(q)] /\ prog'[path] = u
          /\ DOMAIN prog' = DOMAIN prog /\ \A h \in DOMAIN prog : h # path => prog'[h] = prog[h]
          /\ node' = node + Len(NewCode)
      BY <1>2, InlineCallDone
    <2>2. /\ path \in DOMAIN prog /\ IsCode(s) /\ Scoped(s) /\ IsCode(t) /\ FitsTo(s, Len(s))
          /\ node \in 1..Len(t) /\ a \in 1..Len(s) /\ t[node] = s[a]
          /\ Len(s) \in Nat /\ Len(t) \in Nat
          /\ \E p : Roomy(s, a - 1, p, t, node - 1, q)
      BY <1>0, FramesHere
    <2>3. PICK p : Roomy(s, a - 1, p, t, b, q)
      BY <2>2
    <2>4. /\ f \in Functions /\ IsCode(NewCode) /\ IsList(Here.src.args) /\ IsCode(R)
          /\ source \in Sources /\ Len(source[f]) <= 48
      <3>1. /\ f \in Functions /\ IsCode(NewCode) /\ IsList(Here.src.args) /\ IsCode(R)
            /\ f \in DOMAIN replacementCode /\ source \in Sources
        BY <1>0, NewCodeFacts DEF WalkInvariant, Lists
      <3>2. Len(source[f]) <= InlinerMax /\ InlinerMax \in Nat
        BY <3>1, InlinerAssumption DEF WalkInvariant, Records
      <3>3. Len(source[f]) \in Nat
        BY <3>1, SourceLists, SourceCode, LayoutsFollow
      <3> QED
        BY <3>1, <3>2, <3>3
    <2>5. /\ K \in Nat /\ Len(R) \in Nat /\ Len(NewCode) = 2 * K + Len(R)
          /\ \A i \in 1..K : /\ 2 * i - 1 \in 1..Len(NewCode) /\ 2 * i \in 1..Len(NewCode)
                             /\ NewCode[2 * i - 1].op = "declare" /\ NewCode[2 * i].op = "move"
          /\ \A j \in 1..Len(R) : /\ 2 * K + j \in 1..Len(NewCode)
                                  /\ NewCode[2 * K + j].op = R[j].op
                                  /\ R[j].op \in {"pushscope", "popscope"} => NewCode[2 * K + j] = R[j]
      <3>1. CallCode(NewCode, K, R)
        BY <1>0, NewCodeParts
      <3> HIDE DEF K, R
      <3> QED
        BY <3>1 DEF CallCode
    <2>6. size = t[z].size + 4 * (48 + K)
      BY <2>4, ExtraNat
    <2>7. b \in 0..Len(t) /\ b \in Nat /\ 48 + K \in Nat
      BY <2>2, <2>5
    <2> HIDE DEF size, R, K
    <2>8. WiderWithin(t, g, b, q, 48 + K)
      <3>1. Opened(t, b, q)
        BY <2>3 DEF Roomy
      <3> HIDE DEF t, b, q, z
      <3> QED
        BY <3>1, <2>1, <2>2, <2>6, <2>7, OpenedWider
    <2>9. IsCode(g) /\ Len(g) = Len(t)
      BY <2>8 DEF WiderWithin
    <2> HIDE DEF g, z
    <2>10. /\ IsCode(u) /\ Len(u) = (Len(t) + Len(NewCode)) - 1
           /\ \A i \in 1..b : u[i] = g[i]
           /\ \A i \in 1..Len(NewCode) : u[b + i] = NewCode[i]
      <3>1. node \in 1..Len(g) /\ IsList(g) /\ IsList(NewCode)
        BY <2>2, <2>4, <2>9 DEF IsCode
      <3>2. IsCode(u) /\ Len(u) = (Len(t) + Len(NewCode)) - 1
        BY <3>1, <2>4, <2>9, SplicedCode
      <3> QED
        BY <3>1, <3>2, Spliced
    <2> HIDE DEF u
    <2>11. /\ b <= Len(u) /\ c + Len(R) <= Len(u) /\ c + Len(R) = (node + Len(NewCode)) - 1
      BY <2>2, <2>5, <2>10
    <2>12. ASSUME NEW i \in 1..K PROVE u[b + 2 * i - 1].op = "declare" /\ u[b + 2 * i].op = "move"
      <3>1. b + 2 * i - 1 = b + (2 * i - 1)
        BY <2>2
      <3>2. u[b + (2 * i - 1)] = NewCode[2 * i - 1] /\ u[b + 2 * i] = NewCode[2 * i]
        BY <2>5, <2>10
      <3> QED
        BY <3>1, <3>2, <2>5
    <2>13. ASSUME NEW j \in 1..Len(R)
           PROVE  /\ u[c + j].op = R[j].op
                  /\ R[j].op \in {"pushscope", "popscope"} => u[c + j] = R[j]
      <3>1. c + j = b + (2 * K + j)
        BY <2>2, <2>5
      <3>2. u[b + (2 * K + j)] = NewCode[2 * K + j]
        BY <2>5, <2>10
      <3> QED
        BY <3>1, <3>2, <2>5
    <2>14. s[a].op \notin {"pushscope", "popscope", "declare"}
      BY <1>0, <2>2 DEF IsCallMove
    <2>15. Roomy(s, a, p, u, c + Len(R), q)
      <3> DEFINE e == c
      <3>1. e = b + 2 * K /\ e + Len(R) <= Len(u) /\ R = ReplacementCode(f)
            /\ \A j \in 1..Len(R) : /\ u[e + j].op = R[j].op
                                    /\ R[j].op \in {"pushscope", "popscope"} => u[e + j] = R[j]
        BY <2>11, <2>13 DEF R
      <3>2. /\ source \in Sources /\ IsCode(s) /\ IsCode(t) /\ IsCode(u)
            /\ a \in 1..Len(s) /\ b \in 0..Len(t) /\ b <= Len(u) /\ Roomy(s, a - 1, p, t, b, q)
            /\ s[a].op \notin {"pushscope", "popscope", "declare"}
            /\ K \in Nat /\ WiderWithin(t, g, b, q, 48 + K) /\ \A i \in 1..b : u[i] = g[i]
        BY <2>2, <2>3, <2>4, <2>5, <2>7, <2>8, <2>10, <2>11, <2>14
      <3>3. /\ \A i \in 1..K : u[b + 2 * i - 1].op = "declare" /\ u[b + 2 * i].op = "move"
            /\ f \in Functions /\ Len(source[f]) <= 48 /\ Len(R) \in Nat
        BY <2>4, <2>5, <2>12
      <3> HIDE DEF s, t, a, q, b, e, f
      <3>4. CallReplaced(s, a, p, t, b, q, g, u, K, f, R, e)
        BY ONLY <3>1, <3>2, <3>3 DEF CallReplaced
      <3>5. Roomy(s, a, p, u, e + Len(R), q)
        BY ONLY <3>2, <3>4, RoomyBlock
      <3> QED
        BY <3>5 DEF e, s, t, a, q, b, f
    <2>16. Ahead(s, u, node + Len(NewCode)) - 1 = a
      <3> DEFINE l == Len(NewCode)
                 i == Len(s)
                 j == Len(t)
      <3>1. l \in Nat /\ i \in Nat /\ j \in Nat /\ node \in Int /\ Len(u) = (j + l) - 1
        BY <2>2, <2>5, <2>10
      <3>2. Ahead(s, u, node + Len(NewCode)) = (i - Len(u)) + (node + l) /\ a = (i - j) + node
        BY DEF Ahead
      <3> HIDE DEF l, i, j, a
      <3> QED
        BY <3>1, <3>2
    <2>17. Roomy(source[path], Ahead(source[path], prog'[path], node') - 1, p,
                 prog'[path], node' - 1, pushScopeStack')
      BY <1>0, <2>1, <2>11, <2>15, <2>16
    <2> QED
      BY <1>0, <2>1, <2>17, FrameWalked
  <1> QED
    BY SMTT(40), <1>1, <1>2

LEMMA FrameStep ==
    ASSUME SourcesFit, InlinerMax <= 48, WalkInvariant, FrameInvariant, [InlineNext]_optimising
    PROVE  FrameInvariant'
  <1>1. CASE UNCHANGED optimising
    BY <1>1, FrameKept DEF optimising, walking
  <1>2. CASE WalkPushScope \/ WalkPopScope \/ WalkOther \/ WalkCallKept
    BY <1>2, FrameGoesOn
  <1>3. CASE InlineCall
    BY <1>3, FrameInlines
  <1>4. CASE (\E f \in DOMAIN source : StartPath(f)) \/ EndPath
    BY <1>4, FrameTurns
  <1>5. CASE (\E f \in Functions : CheckInlinable(f)) \/ EndCheck \/ EndInline \/ HandOn \/ MoveOn
    <2>1. /\ source' = source /\ prog' = prog /\ path' = path /\ node' = node
          /\ pushScopeStack' = pushScopeStack
      BY <1>5 DEF CheckInlinable, EndCheck, EndInline, HandOn, MoveOn, walking
    <2> QED
      BY <2>1, FrameKept
  <1> QED
    BY <1>1, <1>2, <1>3, <1>4, <1>5 DEF InlineNext, Optimise

\* Frames that hold what is declared in them before the inliner hold it after:
\* the words a call's scope gets are enough for its arguments and for what a
\* function of at most InlinerMax instructions declares, wherever and in
\* whatever order calls are replaced.  OPTIMISER_INLINER_MAX is 20.
THEOREM FramesAlwaysHold ==
    ASSUME SourcesFit, InlinerMax <= 48
    PROVE  InlineSpec => []InlinedFramesHold
  <1>1. InlineInit => FrameInvariant
    BY FrameInit
  <1>2. WalkInvariant /\ FrameInvariant /\ [InlineNext]_optimising => FrameInvariant'
    BY FrameStep
  <1>3. WalkInvariant /\ FrameInvariant => InlinedFramesHold
    <2> SUFFICES ASSUME WalkInvariant, FrameInvariant, Inlined, NEW f \in DOMAIN prog
                 PROVE  FrameHoldsSlots(prog[f])
      BY DEF InlinedFramesHold
    <2>1. FitsTo(prog[f], Len(prog[f]))
      <3>1. path = NoPath /\ NoPath \notin DOMAIN prog
        BY SourceLists DEF Inlined, WalkInvariant, Lists
      <3> QED
        BY <3>1 DEF FrameInvariant, Fitting
    <2>2. IsCode(prog[f])
      BY DEF WalkInvariant, Lists
    <2> QED
      BY <2>1, <2>2, FitsHolds
  <1> QED
    BY <1>1, <1>2, <1>3, WalkInvariantHolds, PTL DEF InlineSpec
=============================================================================
