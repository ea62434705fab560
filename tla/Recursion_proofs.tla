-------------------------- MODULE Recursion_proofs --------------------------
(***************************************************************************)
(* Induction and recursion for the proofs of the other modules, from the   *)
(* least element of a set of naturals: the provers cannot use induction    *)
(* theorems that take an operator as their parameter, nor do they know     *)
(* that a recursively defined function exists.                             *)
(***************************************************************************)
EXTENDS Integers, WellFoundedInduction, TLAPS

-----------------------------------------------------------------------------
(* Induction, and functions given by a first value and a step.             *)

\* A set of naturals has a least element.
LEMMA LeastOf ==
    ASSUME NEW S, S \subseteq Nat, S # {}
    PROVE  \E m \in S : \A k \in S : m <= k
  <1>1. PICK x \in S : \A y \in S : ~ (<<y, x>> \in OpToRel(<, Nat))
    BY NatLessThanWellFounded, WFMin
  <1>2. ASSUME NEW y \in S PROVE x <= y
    <2>1. ~ (y < x)
      BY <1>1 DEF OpToRel
    <2> QED
      BY <2>1
  <1> QED
    BY <1>2

\* What holds of n whenever it holds of all below n holds up to any bound.
LEMMA AllBelow ==
    ASSUME NEW lo \in Nat, NEW hi \in Nat, NEW P,
           \A n \in lo..hi : (\A m \in lo..(n - 1) : m \in P) => n \in P
    PROVE  \A n \in lo..hi : n \in P
  <1> DEFINE bad == {n \in lo..hi : n \notin P}
  <1>1. bad = {}
    <2> SUFFICES ASSUME bad # {} PROVE FALSE
      OBVIOUS
    <2>1. bad \subseteq Nat
      OBVIOUS
    <2>2. PICK n \in bad : \A k \in bad : n <= k
      <3> HIDE DEF bad
      <3> QED
        BY <2>1, LeastOf
    <2>3. n \in lo..hi /\ n \notin P
      OBVIOUS
    <2>4. \A m \in lo..(n - 1) : m \in P
      <3> SUFFICES ASSUME NEW m \in lo..(n - 1), m \notin P PROVE FALSE
        OBVIOUS
      <3>1. m \in bad /\ m < n
        BY <2>3
      <3> QED
        BY <2>2, <2>3, <3>1
    <2> QED
      BY <2>3, <2>4
  <1> QED
    BY <1>1

\* A first value and a step that follows make a function.
Follows(F, V, first, N, step) ==
    /\ F \in [0..N -> V] /\ F[0] = first
    /\ \A n \in 1..N : F[n] = step[<<n, F[n - 1]>>]

LEMMA Iterated ==
    ASSUME NEW V, NEW first, NEW N, NEW step,
           first \in V, N \in Nat, step \in [(1..N) \X V -> V]
    PROVE  \E F : Follows(F, V, first, N, step)
  <1> DEFINE Prefix(n, g) == /\ g \in [0..n -> V] /\ g[0] = first
                             /\ \A m \in 1..n : g[m] = step[<<m, g[m - 1]>>]
             good == {n \in 0..N : \E g : Prefix(n, g)}
  <1>1. ASSUME NEW n \in 0..N, \A m \in 0..(n - 1) : m \in good PROVE n \in good
    <2>1. CASE n = 0
      <3>1. Prefix(0, [m \in 0..0 |-> first])
        OBVIOUS
      <3> QED
        BY <2>1, <3>1
    <2>2. CASE n # 0
      <3>1. n - 1 \in 0..(n - 1) /\ n \in 1..N
        BY <2>2
      <3>2. PICK g : Prefix(n - 1, g)
        <4>1. n - 1 \in good
          BY <1>1, <3>1
        <4> QED
          BY <4>1
      <3> DEFINE h == [m \in 0..n |-> IF m < n THEN g[m] ELSE step[<<n, g[n - 1]>>]]
      <3>3. g[n - 1] \in V /\ step[<<n, g[n - 1]>>] \in V
        BY <3>1, <3>2
      <3>4. h \in [0..n -> V]
        BY <3>1, <3>2, <3>3
      <3>5. h[0] = first
        BY <3>1, <3>2
      <3>6. ASSUME NEW m \in 1..n PROVE h[m] = step[<<m, h[m - 1]>>]
        <4>1. CASE m = n
          <5>1. h[n] = step[<<n, g[n - 1]>>] /\ h[n - 1] = g[n - 1]
            BY <3>1
          <5> QED
            BY <4>1, <5>1
        <4>2. CASE m < n
          <5>1. m \in 1..(n - 1) /\ h[m] = g[m] /\ h[m - 1] = g[m - 1]
            BY <3>1, <4>2
          <5> QED
            BY <3>2, <5>1
        <4> QED
          BY <4>1, <4>2
      <3>7. Prefix(n, h)
        BY <3>4, <3>5, <3>6
      <3> QED
        BY <3>7
    <2> QED
      BY <2>1, <2>2
  <1>2. N \in good
    <2> HIDE DEF good
    <2>1. 0 \in Nat /\ N \in 0..N
      OBVIOUS
    <2> QED
      BY <1>1, <2>1, AllBelow
  <1>3. PICK F : Prefix(N, F)
    BY <1>2
  <1> QED
    BY <1>3 DEF Follows

-----------------------------------------------------------------------------
(* Recursive functions.                                                    *)

\* There is a member of S of the least measure.
LEMMA Lightest ==
    ASSUME NEW S, NEW m \in [S -> Nat], S # {}
    PROVE  \E x \in S : \A y \in S : m[x] <= m[y]
  <1> DEFINE M == {m[x] : x \in S}
  <1>1. M \subseteq Nat /\ M # {}
    OBVIOUS
  <1>2. PICK k \in M : \A j \in M : ~ (<<j, k>> \in OpToRel(<, Nat))
    <2> HIDE DEF M
    <2> QED
      BY <1>1, NatLessThanWellFounded, WFMin
  <1>3. ASSUME NEW j \in M PROVE k <= j
    <2>1. ~ (j < k)
      BY <1>1, <1>2 DEF OpToRel
    <2> QED
      BY <2>1, <1>1
  <1>4. PICK x \in S : k = m[x]
    OBVIOUS
  <1>5. ASSUME NEW y \in S PROVE m[x] <= m[y]
    BY <1>3, <1>4
  <1> QED
    BY <1>5

\* What follows from itself at everything lighter holds of everything.
LEMMA ByMeasure ==
    ASSUME NEW E, NEW m \in [E -> Nat], NEW P,
           \A e \in E : (\A c \in E : m[c] < m[e] => c \in P) => e \in P
    PROVE  E \subseteq P
  <1> SUFFICES ASSUME E \ P # {} PROVE FALSE
    OBVIOUS
  <1> DEFINE S == E \ P
             k == [e \in S |-> m[e]]
  <1>1. k \in [S -> Nat]
    OBVIOUS
  <1>2. PICK x \in S : \A y \in S : k[x] <= k[y]
    <2> HIDE DEF S, k
    <2> QED
      BY <1>1, Lightest DEF S
  <1>3. \A c \in E : m[c] < m[x] => c \in P
    <2> SUFFICES ASSUME NEW c \in E, m[c] < m[x], c \notin P PROVE FALSE
      OBVIOUS
    <2>1. c \in S /\ k[c] = m[c] /\ k[x] = m[x]
      OBVIOUS
    <2>2. m[x] \in Nat /\ m[c] \in Nat
      OBVIOUS
    <2> HIDE DEF S, k
    <2> QED
      BY <1>2, <2>1, <2>2
  <1> QED
    BY <1>3

\* T has a fixed point when what it says of e depends on what is lighter.
Local(E, V, m, T) ==
    /\ m \in [E -> Nat] /\ T \in [[E -> V] -> [E -> V]]
    /\ \A f, g \in [E -> V], e \in E :
          (\A c \in E : m[c] < m[e] => f[c] = g[c]) => T[f][e] = T[g][e]

\* f is right about everything lighter than n.
RightBelow(E, V, m, T, n, f) ==
    f \in [E -> V] /\ \A e \in E : m[e] < n => f[e] = T[f][e]

LEMMA RightOnes ==
    ASSUME NEW E, NEW V, NEW m, NEW T, Local(E, V, m, T),
           NEW n \in Nat, NEW f, NEW k \in Nat, NEW g,
           RightBelow(E, V, m, T, n, f), RightBelow(E, V, m, T, k, g)
    PROVE  \A e \in E : m[e] < n /\ m[e] < k => f[e] = g[e]
  <1> DEFINE P == {e \in E : m[e] < n /\ m[e] < k => f[e] = g[e]}
  <1>1. m \in [E -> Nat] /\ f \in [E -> V] /\ g \in [E -> V]
    BY DEF Local, RightBelow
  <1>2. ASSUME NEW e \in E, \A c \in E : m[c] < m[e] => c \in P PROVE e \in P
    <2> SUFFICES ASSUME m[e] < n, m[e] < k PROVE f[e] = g[e]
      OBVIOUS
    <2>1. ASSUME NEW c \in E, m[c] < m[e] PROVE f[c] = g[c]
      <3>1. m[c] \in Nat /\ m[e] \in Nat
        BY <1>1
      <3>2. m[c] < n /\ m[c] < k
        BY <2>1, <3>1
      <3> QED
        BY <1>2, <2>1, <3>2
    <2>2. T[f][e] = T[g][e]
      BY <1>1, <2>1 DEF Local
    <2> QED
      BY <2>2 DEF RightBelow
  <1>3. E \subseteq P
    <2> HIDE DEF P
    <2> QED
      BY <1>1, <1>2, ByMeasure
  <1> QED
    BY <1>3

LEMMA RightExists ==
    ASSUME NEW E, NEW V, NEW m, NEW T, Local(E, V, m, T), NEW start \in [E -> V], NEW n \in Nat
    PROVE  \E f : RightBelow(E, V, m, T, n, f)
  <1> DEFINE P == {k \in Nat : \E f : RightBelow(E, V, m, T, k, f)}
             id == [k \in Nat |-> k]
  <1>1. m \in [E -> Nat]
    BY DEF Local
  <1>2. ASSUME NEW k \in Nat, \A c \in Nat : id[c] < id[k] => c \in P PROVE k \in P
    <2>1. CASE k = 0
      <3>1. \A e \in E : ~ (m[e] < 0)
        BY <1>1
      <3>2. RightBelow(E, V, m, T, 0, start)
        BY <3>1 DEF RightBelow
      <3> QED
        BY <2>1, <3>2
    <2>2. CASE k # 0
      <3>1. k - 1 \in Nat /\ id[k - 1] < id[k]
        BY <2>2
      <3>2. PICK g : RightBelow(E, V, m, T, k - 1, g)
        <4>1. k - 1 \in P
          BY <1>2, <3>1
        <4> QED
          BY <4>1
      <3>3. g \in [E -> V] /\ T[g] \in [E -> V]
        BY <3>2 DEF RightBelow, Local
      <3> DEFINE f == [e \in E |-> IF m[e] < k - 1 THEN g[e] ELSE T[g][e]]
      <3>4. f \in [E -> V]
        BY <3>3
      <3>5. ASSUME NEW e \in E, m[e] < k PROVE f[e] = T[f][e]
        <4>1. ASSUME NEW c \in E, m[c] < m[e] PROVE f[c] = g[c]
          <5>1. m[c] \in Nat /\ m[e] \in Nat
            BY <1>1
          <5>2. m[c] < k - 1
            BY <3>5, <4>1, <5>1
          <5> QED
            BY <5>2
        <4>2. T[f][e] = T[g][e]
          <5> HIDE DEF f
          <5> QED
            BY <3>3, <3>4, <4>1 DEF Local
        <4>3. m[e] < k - 1 => g[e] = T[g][e]
          BY <3>2 DEF RightBelow
        <4>4. f[e] = T[g][e]
          BY <4>3
        <4> QED
          BY <4>2, <4>4
      <3>6. RightBelow(E, V, m, T, k, f)
        <4> HIDE DEF f
        <4> QED
          BY <3>4, <3>5 DEF RightBelow
      <3> QED
        BY <3>6
    <2> QED
      BY <2>1, <2>2
  <1>3. Nat \subseteq P
    <2>1. id \in [Nat -> Nat]
      OBVIOUS
    <2> HIDE DEF P, id
    <2> QED
      BY <1>2, <2>1, ByMeasure
  <1> QED
    BY <1>3

LEMMA FixedPoint ==
    ASSUME NEW E, NEW V, NEW m, NEW T, Local(E, V, m, T), V # {}
    PROVE  \E f \in [E -> V] : f = T[f]
  <1>1. m \in [E -> Nat]
    BY DEF Local
  <1>0. PICK start : start \in [E -> V]
    <2>1. PICK v : v \in V
      OBVIOUS
    <2>2. [e \in E |-> v] \in [E -> V]
      BY <2>1
    <2> QED
      BY <2>2
  <1> DEFINE Right(n) == CHOOSE f : RightBelow(E, V, m, T, n, f)
             f == [e \in E |-> Right(m[e] + 1)[e]]
  <1>2. ASSUME NEW n \in Nat PROVE RightBelow(E, V, m, T, n, Right(n))
    BY <1>0, RightExists
  <1> HIDE DEF Right
  <1>3. ASSUME NEW e \in E
        PROVE  m[e] \in Nat /\ m[e] + 1 \in Nat /\ RightBelow(E, V, m, T, m[e] + 1, Right(m[e] + 1))
    <2>1. m[e] \in Nat /\ m[e] + 1 \in Nat
      BY <1>1
    <2> QED
      BY <1>2, <2>1
  <1>4. f \in [E -> V]
    <2> SUFFICES ASSUME NEW e \in E PROVE Right(m[e] + 1)[e] \in V
      OBVIOUS
    <2>1. Right(m[e] + 1) \in [E -> V]
      BY <1>3 DEF RightBelow
    <2> QED
      BY <2>1
  <1>5. ASSUME NEW e \in E PROVE f[e] = T[f][e]
    <2> DEFINE g == Right(m[e] + 1)
    <2>1. RightBelow(E, V, m, T, m[e] + 1, g) /\ m[e] \in Nat /\ f[e] = g[e]
      BY <1>3
    <2>2. ASSUME NEW c \in E, m[c] < m[e] PROVE f[c] = g[c]
      <3> DEFINE h == Right(m[c] + 1)
      <3>1. RightBelow(E, V, m, T, m[c] + 1, h) /\ m[c] \in Nat /\ f[c] = h[c]
        BY <1>3
      <3>2. m[c] < m[c] + 1 /\ m[c] < m[e] + 1 /\ m[c] + 1 \in Nat /\ m[e] + 1 \in Nat
        BY <2>1, <2>2, <3>1
      <3> HIDE DEF g, h, f
      <3>3. \A d \in E : m[d] < m[c] + 1 /\ m[d] < m[e] + 1 => h[d] = g[d]
        BY <2>1, <3>1, <3>2, RightOnes
      <3> QED
        BY <3>1, <3>2, <3>3
    <2>3. g \in [E -> V] /\ g[e] = T[g][e]
      <3>1. m[e] < m[e] + 1
        BY <2>1
      <3> QED
        BY <2>1, <3>1 DEF RightBelow
    <2>4. T[f][e] = T[g][e]
      <3> HIDE DEF f, g
      <3> QED
        BY <1>4, <2>2, <2>3 DEF Local
    <2> QED
      BY <2>1, <2>3, <2>4
  <1>6. T[f] \in [E -> V]
    BY <1>4 DEF Local
  <1>7. f = T[f]
    <2> HIDE DEF f
    <2> QED
      BY <1>4, <1>5, <1>6
  <1> QED
    BY <1>4, <1>7
=============================================================================
