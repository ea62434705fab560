----------------------------- MODULE Walk_proofs -----------------------------
(***************************************************************************)
(* What the two walks over the finished code compute, from its layout      *)
(* (LayoutInv of Translator_proofs): the slots of AllocateRegisters and    *)
(* the distances of GenerateCode, and where a step of a run can lead.      *)
(* Nothing here depends on a run: the facts are about the code of a        *)
(* program once EndMain is done.                                           *)
(***************************************************************************)
EXTENDS StackFrame, Translator_proofs, Recursion_proofs, FiniteSetTheorems

-----------------------------------------------------------------------------
(* The finished code.                                                      *)

CodeDone == stage = "done" /\ JumpInv /\ ScopeInv /\ LayoutInv

\* The scope in force before code[i]; the function level at the end.
HomeAt(i) == IF i > Len(code) THEN 0 ELSE home[i]

\* What the proofs below use of the code, said once.
LEMMA DoneFacts ==
    ASSUME CodeDone
    PROVE  /\ Len(code) \in Nat /\ Len(home) = Len(code) /\ Depth = 0
           /\ \A i \in 1..Len(code) : code[i] \in Instrs /\ home[i] \in 0..(i - 1)
           /\ HomeAt(1) = 0
           /\ \A i \in 1..Len(code) : HomeAt(i) = home[i] /\ HomeAt(i + 1) = NextHome(i)
           /\ \A i \in 1..Len(code) : home[i] # 0 => /\ home[i] \in 1..(i - 1)
                                                     /\ code[home[i]].op = "pushscope"
           /\ \A i \in 1..Len(code) : code[i].op = "popscope" =>
                  /\ home[i] \in 1..(i - 1) /\ code[home[i]].op = "pushscope"
                  /\ code[home[i]].size = code[i].size
           /\ \A i \in 1..Len(code) : code[i].op = "pushscope" =>
                  code[i].size = AlignedSize(Cardinality(DeclaredIn(i)))
  <1> USE DEF CodeDone
  <1>1. TypeOK /\ FramesNest /\ LayoutInv /\ ScopeInv
    BY DEF JumpInv
  <1>2. Depth = 0 /\ Len(code) \in Nat /\ Len(home) = Len(code)
    BY <1>1 DEF TypeOK, FramesNest, Depth
  <1>3. \A i \in 1..Len(code) : code[i] \in Instrs /\ home[i] \in 0..(i - 1)
    <2>1. \A i \in 1..Len(code) : code[i] \in Instrs /\ home[i] \in Nat
      BY <1>1, <1>2 DEF TypeOK, Positions
    <2>2. \A i \in 1..Len(code) : home[i] < i
      BY <1>1 DEF ScopeInv
    <2> QED
      BY <2>1, <2>2
  <1>4. HomesFollow /\ HomesArePushes /\ ClosedScopesSized
    BY <1>1 DEF LayoutInv
  <1>5. HomeAt(1) = 0
    BY <1>2, <1>4 DEF HomesFollow, HomeAt
  <1>6. ASSUME NEW i \in 1..Len(code) PROVE HomeAt(i) = home[i] /\ HomeAt(i + 1) = NextHome(i)
    <2>1. HomeAt(i) = home[i]
      BY <1>2 DEF HomeAt
    <2>2. CASE i < Len(code)
      <3>1. home[i + 1] = NextHome(i)
        BY <1>4, <2>2 DEF HomesFollow
      <3>2. ~ (i + 1 > Len(code))
        BY <2>2, <1>2
      <3> QED
        BY <2>1, <3>1, <3>2 DEF HomeAt
    <2>3. CASE i = Len(code)
      <3>1. Innermost = NextHome(i) /\ Innermost = 0
        BY <1>2, <1>4, <2>3 DEF HomesFollow, Innermost
      <3>2. i + 1 > Len(code)
        BY <2>3, <1>2
      <3> QED
        BY <2>1, <3>1, <3>2 DEF HomeAt
    <2> QED
      BY <1>2, <2>2, <2>3
  <1>7. ASSUME NEW i \in 1..Len(code), code[i].op = "popscope"
        PROVE  /\ home[i] \in 1..(i - 1) /\ code[home[i]].op = "pushscope"
               /\ code[home[i]].size = code[i].size
    <2>1. home[i] \in 1..(i - 1) /\ code[home[i]] = PushScope(code[i].size)
      BY <1>1, <1>7 DEF ScopeInv, ScopeSizesAgree
    <2> DEFINE s == code[i].size
    <2>2. PushScope(s).op = "pushscope" /\ PushScope(s).size = s
      BY DEF PushScope
    <2> HIDE DEF s
    <2>3. code[home[i]] = PushScope(s)
      BY <2>1 DEF s
    <2> QED
      BY <2>1, <2>2, <2>3 DEF s
  <1>8. \A i \in 1..Len(code) : code[i].op = "pushscope" =>
            code[i].size = AlignedSize(Cardinality(DeclaredIn(i)))
    BY <1>2, <1>4 DEF ClosedScopesSized
  <1> QED
    BY <1>2, <1>3, <1>4, <1>5, <1>6, <1>7, <1>8 DEF HomesArePushes

\* The three ways the scope goes on.
LEMMA NextHomes ==
    ASSUME CodeDone, NEW i \in 1..Len(code)
    PROVE  /\ code[i].op = "pushscope" => HomeAt(i + 1) = i
           /\ code[i].op = "popscope" => HomeAt(i + 1) = home[home[i]]
           /\ code[i].op \notin {"pushscope", "popscope"} => HomeAt(i + 1) = home[i]
  BY DoneFacts DEF NextHome, HomeAfter

\* The code of a scope, and of the scopes within, comes after its PushScope
\* without a gap.
LEMMA Extent ==
    ASSUME CodeDone, NEW x \in 1..(Len(code) + 1), NEW y \in x..(Len(code) + 1), HomeAt(y) < x
    PROVE  HomeAt(x) >= HomeAt(y)
  <1> DEFINE Good(n) == HomeAt(n) < x => HomeAt(x) >= HomeAt(n)
             good == {n \in x..(Len(code) + 1) : Good(n)}
  <1>1. Len(code) \in Nat /\ x \in Nat /\ Len(code) + 1 \in Nat
    BY DoneFacts
  <1>2. \A n \in 1..(Len(code) + 1) : HomeAt(n) \in Nat /\ HomeAt(n) < n
    BY DoneFacts DEF HomeAt
  <1>3. ASSUME NEW n \in x..(Len(code) + 1), \A m \in x..(n - 1) : m \in good
        PROVE  n \in good
    <2>1. CASE n = x
      BY <1>2, <2>1
    <2>2. CASE n # x
      <3> DEFINE i == n - 1
      <3>1. i \in 1..Len(code) /\ i \in x..(n - 1) /\ i + 1 = n
        BY <1>1, <2>2
      <3>2. Good(i) /\ HomeAt(i) = home[i]
        BY <1>3, <3>1, DoneFacts
      <3> HIDE DEF i
      <3>3. CASE code[i].op = "pushscope"
        BY <3>1, <3>3, NextHomes
      <3>4. CASE code[i].op = "popscope"
        <4> DEFINE q == home[i]
        <4>1. HomeAt(n) = home[q] /\ q \in 1..(i - 1) /\ HomeAt(q) = home[q] /\ q \in 1..Len(code)
          BY <3>1, <3>4, NextHomes, DoneFacts
        <4> HIDE DEF q
        <4>2. HomeAt(q) < q
          BY <1>2, <4>1
        <4>3. CASE q >= x
          <5>1. q \in x..(n - 1)
            BY <1>1, <3>1, <4>1, <4>3
          <5>2. Good(q)
            BY <1>3, <5>1
          <5> QED
            BY <4>1, <5>2
        <4>4. CASE q < x
          <5>1. HomeAt(x) >= q
            BY <3>2, <4>4 DEF q
          <5> QED
            BY <1>2, <4>1, <4>2, <5>1
        <4> QED
          BY <1>1, <4>1, <4>3, <4>4
      <3>5. CASE code[i].op \notin {"pushscope", "popscope"}
        BY <3>1, <3>2, <3>5, NextHomes
      <3> QED
        BY <3>3, <3>4, <3>5
    <2> QED
      BY <2>1, <2>2
  <1>4. \A n \in x..(Len(code) + 1) : n \in good
    <2> HIDE DEF good
    <2> QED
      BY ZenonT(60), <1>1, <1>3, AllBelow
  <1> QED
    BY <1>4
-----------------------------------------------------------------------------
(* The two walks are functions of the code.                                *)

LEMMA InstrParts ==
    ASSUME NEW i \in Instrs
    PROVE  /\ i.op \in {"pushscope", "popscope"} => i.size \in Nat
           /\ i.op = "declare" => i.var \in Names
           /\ i.op = "label" => i.label \in CodeLabels
           /\ i.op \in {"jmp", "jmpcond"} => i.dst \in CodeLabels
  BY DEF Instrs, SimpleKinds

\* DistanceAt is the walk that GenerateCode makes.
LEMMA DistanceWalk ==
    ASSUME CodeDone
    PROVE  /\ DistanceAt \in [1..(Len(code) + 1) -> Int]
           /\ DistanceAt[1] = 0
           /\ \A i \in 1..Len(code) : DistanceAt[i + 1] = Counted(DistanceAt[i], code[i])
  <1> DEFINE dom == 1..(Len(code) + 1)
             step == [p \in (1..Len(code)) \X Int |-> Counted(p[2], code[p[1]])]
  <1>1. Len(code) \in Nat
    BY DoneFacts
  <1>2. step \in [(1..Len(code)) \X Int -> Int]
    <2>1. ASSUME NEW n \in 1..Len(code), NEW d \in Int PROVE Counted(d, code[n]) \in Int
      BY DoneFacts, InstrParts DEF Counted
    <2> QED
      BY <2>1
  <1>3. PICK F \in [0..Len(code) -> Int] :
            F[0] = 0 /\ \A n \in 1..Len(code) : F[n] = step[<<n, F[n - 1]>>]
    <2> DEFINE V == Int
               N == Len(code)
               first == 0
    <2>1. first \in V /\ N \in Nat /\ step \in [(1..N) \X V -> V]
      BY <1>1, <1>2
    <2> HIDE DEF step, V, N, first
    <2>2. \E F : Follows(F, V, first, N, step)
      BY <2>1, Iterated
    <2> QED
      BY <2>2 DEF Follows, N, V, first
  <1> DEFINE G == [n \in dom |-> F[n - 1]]
  <1>4. ASSUME NEW n \in 1..Len(code) PROVE F[n] = Counted(F[n - 1], code[n])
    <2>1. F[n - 1] \in Int
      BY <1>1
    <2> QED
      BY <1>3, <2>1
  <1>5. G = [n \in dom |-> IF n = 1 THEN 0 ELSE Counted(G[n - 1], code[n - 1])]
    <2>1. ASSUME NEW n \in dom, n # 1 PROVE G[n] = Counted(G[n - 1], code[n - 1])
      <3>1. n - 1 \in 1..Len(code) /\ n - 1 \in dom
        BY <1>1, <2>1
      <3>2. G[n] = F[n - 1] /\ G[n - 1] = F[(n - 1) - 1]
        BY <3>1
      <3> QED
        BY <1>4, <3>1, <3>2
    <2>2. G[1] = 0
      BY <1>1, <1>3
    <2> QED
      BY <2>1, <2>2
  <1>6. DistanceAt = CHOOSE f : f = [n \in dom |-> IF n = 1 THEN 0 ELSE Counted(f[n - 1], code[n - 1])]
    BY DEF DistanceAt
  <1> HIDE DEF G, dom
  <1>7. DistanceAt = [n \in dom |-> IF n = 1 THEN 0 ELSE Counted(DistanceAt[n - 1], code[n - 1])]
    BY <1>5, <1>6
  <1> USE DEF dom
  <1>8. DistanceAt[1] = 0
    BY <1>1, <1>7
  <1>9. ASSUME NEW i \in 1..Len(code) PROVE DistanceAt[i + 1] = Counted(DistanceAt[i], code[i])
    <2>1. i + 1 \in dom /\ i + 1 # 1 /\ (i + 1) - 1 = i
      BY <1>1
    <2> QED
      BY <1>7, <2>1
  <1>10. \A n \in dom : DistanceAt[n] \in Int
    <2> DEFINE good == {n \in dom : DistanceAt[n] \in Int}
    <2>1. ASSUME NEW n \in 1..(Len(code) + 1), \A m \in 1..(n - 1) : m \in good PROVE n \in good
      <3>1. CASE n = 1
        BY <1>8, <3>1
      <3>2. CASE n # 1
        <4> DEFINE i == n - 1
        <4>1. i \in 1..Len(code) /\ i \in 1..(n - 1) /\ i + 1 = n
          BY <1>1, <3>2
        <4> HIDE DEF i
        <4>2. DistanceAt[i] \in Int
          BY <2>1, <4>1
        <4>3. Counted(DistanceAt[i], code[i]) \in Int
          BY <4>1, <4>2, DoneFacts, InstrParts DEF Counted
        <4> QED
          BY <1>9, <4>1, <4>3
      <3> QED
        BY <3>1, <3>2
    <2> HIDE DEF good
    <2>2. \A n \in 1..(Len(code) + 1) : n \in good
      <3>1. 1 \in Nat /\ Len(code) + 1 \in Nat
        BY <1>1
      <3> QED
        BY <2>1, <3>1, AllBelow
    <2> QED
      BY <2>2 DEF good
  <1> QED
    BY <1>7, <1>8, <1>9, <1>10

\* What a visit of the allocator does to its scope stack.
Visited(s, n) ==
    LET i == code[n]
    IN  CASE i.op = "pushscope" -> PushVarScope(s)
          [] i.op = "popscope" -> PopVarScope(s)
          [] i.op = "label" /\ i.label.kind \in {"func", "main"} -> PushVarScope(s)
          [] i.op = "declare" -> CreateVariable(s, i.var, n)
          [] OTHER -> s

LEMMA ScopeTypes ==
    ASSUME NEW s \in Seq(VarScopes)
    PROVE  /\ NextSlot(s) \in Nat
           /\ PushVarScope(s) \in Seq(VarScopes)
           /\ PopVarScope(s) \in Seq(VarScopes)
           /\ \A name \in Names, type \in Nat : CreateVariable(s, name, type) \in Seq(VarScopes)
  <1>1. NextSlot(s) \in Nat
    <2>1. CASE s = <<>>
      BY <2>1 DEF NextSlot
    <2>2. CASE s # <<>>
      <3>1. s[Len(s)] \in VarScopes
        BY <2>2
      <3>2. s[Len(s)].next \in Nat
        BY <3>1 DEF VarScopes
      <3> QED
        BY <2>2, <3>2 DEF NextSlot
    <2> QED
      BY <2>1, <2>2
  <1>2. [vars |-> [n \in Names |-> NoVariable], next |-> NextSlot(s)] \in VarScopes
    BY <1>1 DEF VarScopes, Variables, NoVariable, NoType
  <1>3. PopVarScope(s) \in Seq(VarScopes)
    BY DEF PopVarScope
  <1>4. ASSUME NEW name \in Names, NEW type \in Nat
        PROVE  CreateVariable(s, name, type) \in Seq(VarScopes)
    <2> DEFINE v == Variable(NextSlot(s), type)
    <2>1. v \in Variables
      BY <1>1 DEF Variable, Variables
    <2> HIDE DEF v
    <2> DEFINE new(sc) == [vars |-> [sc.vars EXCEPT ![name] = v], next |-> sc.next + 1]
    <2>2. \A sc \in VarScopes : new(sc) \in VarScopes
      BY <2>1 DEF VarScopes
    <2>3. CreateVariable(s, name, type) = [s EXCEPT ![Len(s)] = new(s[Len(s)])]
      BY DEF CreateVariable, v
    <2> HIDE DEF new
    <2>4. CASE s = <<>>
      <3>1. DOMAIN CreateVariable(s, name, type) = DOMAIN s
        BY <2>3
      <3>2. CreateVariable(s, name, type) = [k \in DOMAIN s |-> CreateVariable(s, name, type)[k]]
        BY <2>3, <3>1
      <3>3. DOMAIN s = 1..0
        BY <2>4
      <3> QED
        BY <3>2, <3>3
    <2>5. CASE s # <<>>
      <3>1. Len(s) \in 1..Len(s) /\ s[Len(s)] \in VarScopes
        BY <2>5
      <3> QED
        BY <2>2, <2>3, <3>1
    <2> QED
      BY <2>4, <2>5
  <1> QED
    BY <1>1, <1>2, <1>3, <1>4 DEF PushVarScope

\* ScopesAfter is the walk that AllocateRegisters makes.
LEMMA ScopeWalk ==
    ASSUME CodeDone
    PROVE  /\ ScopesAfter \in [0..Len(code) -> Seq(VarScopes)]
           /\ ScopesAfter[0] = <<>>
           /\ \A i \in 1..Len(code) : ScopesAfter[i] = Visited(ScopesAfter[i - 1], i)
  <1> DEFINE dom == 0..Len(code)
             V == Seq(VarScopes)
             step == [p \in (1..Len(code)) \X V |-> Visited(p[2], p[1])]
  <1>1. Len(code) \in Nat
    BY DoneFacts
  <1>2. ASSUME NEW n \in 1..Len(code), NEW s \in V PROVE Visited(s, n) \in V
    <2>1. code[n].op = "declare" => code[n].var \in Names
      BY DoneFacts, InstrParts
    <2>2. n \in Nat
      OBVIOUS
    <2> QED
      BY <2>1, <2>2, ScopeTypes DEF Visited
  <1>3. step \in [(1..Len(code)) \X V -> V]
    BY <1>2
  <1>4. PICK F \in [dom -> V] :
            F[0] = <<>> /\ \A n \in 1..Len(code) : F[n] = step[<<n, F[n - 1]>>]
    <2> DEFINE N == Len(code)
               first == <<>>
    <2>1. first \in V /\ N \in Nat /\ step \in [(1..N) \X V -> V]
      BY <1>1, <1>3
    <2> HIDE DEF step, V, N, first
    <2>2. \E F : Follows(F, V, first, N, step)
      BY <2>1, Iterated
    <2> QED
      BY <2>2 DEF Follows, N, first
  <1>5. ASSUME NEW n \in 1..Len(code) PROVE F[n] = Visited(F[n - 1], n)
    <2>1. F[n - 1] \in V
      BY <1>1
    <2> HIDE DEF V
    <2> QED
      BY <1>4, <2>1
  <1> HIDE DEF step, V
  <1>6. F = [n \in dom |-> IF n = 0 THEN <<>> ELSE Visited(F[n - 1], n)]
    BY <1>1, <1>4, <1>5
  <1>7. ScopesAfter = CHOOSE f : f = [n \in dom |-> IF n = 0 THEN <<>> ELSE Visited(f[n - 1], n)]
    BY DEF ScopesAfter, Visited
  <1>8. ScopesAfter = [n \in dom |-> IF n = 0 THEN <<>> ELSE Visited(ScopesAfter[n - 1], n)]
    BY <1>6, <1>7
  <1>9. ScopesAfter[0] = <<>> /\ \A i \in 1..Len(code) : ScopesAfter[i] = Visited(ScopesAfter[i - 1], i)
    BY <1>1, <1>8
  <1>10. \A n \in dom : ScopesAfter[n] \in V
    <2> DEFINE good == {n \in dom : ScopesAfter[n] \in V}
    <2>1. ASSUME NEW n \in 0..Len(code), \A m \in 0..(n - 1) : m \in good PROVE n \in good
      <3>1. CASE n = 0
        <4>1. <<>> \in V
          BY DEF V
        <4> QED
          BY <1>9, <3>1, <4>1
      <3>2. CASE n # 0
        <4>1. n \in 1..Len(code) /\ n - 1 \in 0..(n - 1)
          BY <1>1, <3>2
        <4>2. ScopesAfter[n - 1] \in V
          BY <2>1, <4>1
        <4> QED
          BY <1>2, <1>9, <4>1, <4>2
      <3> QED
        BY <3>1, <3>2
    <2> HIDE DEF good
    <2>2. \A n \in 0..Len(code) : n \in good
      <3>1. 0 \in Nat
        OBVIOUS
      <3> QED
        BY <1>1, <2>1, <3>1, AllBelow
    <2> QED
      BY <2>2 DEF good
  <1> QED
    BY <1>8, <1>9, <1>10 DEF V
-----------------------------------------------------------------------------
(* Slots.                                                                  *)

\* The next slot when the allocator comes to code[i].
SlotAt(i) == NextSlot(ScopesAfter[i - 1])

LEMMA ScopeStacks ==
    ASSUME NEW s \in Seq(VarScopes)
    PROVE  /\ PushVarScope(s) # <<>> /\ PopVarScope(PushVarScope(s)) = s
           /\ NextSlot(PushVarScope(s)) = NextSlot(s)
           /\ \A name, type : s # <<>> =>
                  /\ CreateVariable(s, name, type) # <<>>
                  /\ PopVarScope(CreateVariable(s, name, type)) = PopVarScope(s)
                  /\ NextSlot(CreateVariable(s, name, type)) = NextSlot(s) + 1
  <1> DEFINE new == [vars |-> [n \in Names |-> NoVariable], next |-> NextSlot(s)]
  <1>1. PushVarScope(s) = Append(s, new) /\ new.next = NextSlot(s)
    BY DEF PushVarScope
  <1> HIDE DEF new
  <1>2. PushVarScope(s) # <<>> /\ PopVarScope(PushVarScope(s)) = s
    BY <1>1 DEF PopVarScope
  <1>3. NextSlot(PushVarScope(s)) = NextSlot(s)
    <2>1. Append(s, new) # <<>> /\ Append(s, new)[Len(Append(s, new))] = new
      OBVIOUS
    <2> QED
      BY <1>1, <2>1 DEF NextSlot
  <1>4. ASSUME NEW name, NEW type, s # <<>>
        PROVE  /\ CreateVariable(s, name, type) # <<>>
               /\ PopVarScope(CreateVariable(s, name, type)) = PopVarScope(s)
               /\ NextSlot(CreateVariable(s, name, type)) = NextSlot(s) + 1
    <2> DEFINE last == [vars |-> [s[Len(s)].vars EXCEPT ![name] = Variable(NextSlot(s), type)],
                        next |-> s[Len(s)].next + 1]
               t == CreateVariable(s, name, type)
    <2>1. t = [s EXCEPT ![Len(s)] = last] /\ last.next = s[Len(s)].next + 1
      BY DEF CreateVariable
    <2> HIDE DEF last, t
    <2>2. Len(s) \in 1..Len(s) /\ Len(s) \in Nat
      BY <1>4
    <2>3. Len(t) = Len(s) /\ t[Len(s)] = last /\ \A k \in 1..(Len(s) - 1) : t[k] = s[k]
      BY <2>1, <2>2
    <2>4. t # <<>>
      BY SMTT(40), <2>2, <2>3
    <2>5. NextSlot(t) = NextSlot(s) + 1
      BY <1>4, <2>1, <2>3, <2>4 DEF NextSlot
    <2>6. PopVarScope(t) = PopVarScope(s)
      BY <2>2, <2>3 DEF PopVarScope
    <2> QED
      BY <2>4, <2>5, <2>6 DEF t
  <1> QED
    BY <1>2, <1>3, <1>4

\* The allocator's innermost scope is that of the code, and the stack below
\* it the one that its PushScope found.
LEMMA Allocation ==
    ASSUME CodeDone, NEW n \in 1..(Len(code) + 1)
    PROVE  /\ HomeAt(n) = 0 => SlotAt(n) = 0
           /\ HomeAt(n) # 0 => /\ ScopesAfter[n - 1] # <<>>
                               /\ PopVarScope(ScopesAfter[n - 1]) = ScopesAfter[HomeAt(n) - 1]
  <1> DEFINE Good(m) == /\ HomeAt(m) = 0 => SlotAt(m) = 0
                        /\ HomeAt(m) # 0 =>
                              /\ ScopesAfter[m - 1] # <<>>
                              /\ PopVarScope(ScopesAfter[m - 1]) = ScopesAfter[HomeAt(m) - 1]
             good == {m \in 1..(Len(code) + 1) : Good(m)}
  <1>1. Len(code) \in Nat
    BY DoneFacts
  <1>2. ASSUME NEW m \in 1..(Len(code) + 1), \A k \in 1..(m - 1) : k \in good PROVE m \in good
    <2>1. CASE m = 1
      <3>1. HomeAt(1) = 0 /\ SlotAt(1) = 0
        BY DoneFacts, ScopeWalk DEF SlotAt, NextSlot
      <3>2. Good(1)
        BY <3>1
      <3> QED
        BY <2>1, <3>2
    <2>2. CASE m # 1
      <3> DEFINE i == m - 1
                 s == ScopesAfter[i - 1]
      <3>1. i \in 1..Len(code) /\ i \in 1..(m - 1) /\ i + 1 = m /\ i = m - 1
        BY <1>1, <2>2
      <3> HIDE DEF i
      <3>2. s \in Seq(VarScopes) /\ ScopesAfter[i] = Visited(s, i)
        <4>1. i - 1 \in 0..Len(code)
          BY <1>1, <3>1
        <4> QED
          BY <3>1, <4>1, ScopeWalk
      <3>3. Good(i) /\ HomeAt(i) = home[i]
        <4>1. i \in good
          BY <1>2, <3>1
        <4> QED
          BY <4>1, <3>1, DoneFacts
      <3>4. HomeAt(i) = 0 => NextSlot(s) = 0
        BY <3>3 DEF SlotAt
      <3>5. HomeAt(i) # 0 => s # <<>> /\ PopVarScope(s) = ScopesAfter[HomeAt(i) - 1]
        BY <3>3
      <3> HIDE DEF Good
      <3>6. CASE code[i].op = "pushscope"
        <4>1. ScopesAfter[i] = PushVarScope(s) /\ HomeAt(m) = i /\ i # 0
          BY <3>1, <3>2, <3>6, NextHomes DEF Visited
        <4>2. ScopesAfter[i] # <<>> /\ PopVarScope(ScopesAfter[i]) = ScopesAfter[i - 1]
          BY <3>2, <4>1, ScopeStacks
        <4> QED
          BY <3>1, <4>1, <4>2 DEF Good
      <3>7. CASE code[i].op = "popscope"
        <4> DEFINE q == home[i]
        <4>1. ScopesAfter[i] = PopVarScope(s) /\ HomeAt(m) = home[q] /\ q \in 1..(i - 1) /\ q # 0
          BY <3>1, <3>2, <3>7, NextHomes, DoneFacts DEF Visited
        <4>2. ScopesAfter[i] = ScopesAfter[q - 1]
          BY <3>3, <3>5, <4>1
        <4> HIDE DEF q
        <4>3. q \in 1..(m - 1) /\ q \in 1..Len(code)
          BY <1>1, <3>1, <4>1
        <4>4. Good(q) /\ HomeAt(q) = home[q]
          <5>1. q \in good
            BY <1>2, <4>3
          <5> QED
            BY <5>1, <4>3, DoneFacts
        <4> QED
          BY <3>1, <4>1, <4>2, <4>4 DEF Good, SlotAt
      <3>8. CASE StartLabel(code[i])
        <4>1. home[i] = 0
          BY <3>1, <3>8 DEF CodeDone, LayoutInv, FunctionLevel
        <4>2. code[i].op = "label" /\ HomeAt(m) = 0 /\ ScopesAfter[i] = PushVarScope(s)
          BY <3>1, <3>2, <3>8, <4>1, NextHomes DEF StartLabel, IsLabel, Visited
        <4>3. SlotAt(m) = 0
          BY <3>1, <3>2, <3>3, <3>4, <4>1, <4>2, ScopeStacks DEF SlotAt
        <4> QED
          BY <4>2, <4>3 DEF Good
      <3>9. CASE code[i].op = "declare"
        <4>1. home[i] # 0
          BY <3>1, <3>9 DEF CodeDone, LayoutInv, FunctionLevel, StartLabel, IsLabel
        <4>2. HomeAt(m) = home[i] /\ ScopesAfter[i] = CreateVariable(s, code[i].var, i)
          BY <3>1, <3>2, <3>9, NextHomes DEF Visited
        <4>3. ScopesAfter[i] # <<>> /\ PopVarScope(ScopesAfter[i]) = PopVarScope(s)
          BY <3>2, <3>3, <3>5, <4>1, <4>2, ScopeStacks
        <4> QED
          BY <3>1, <3>3, <3>5, <4>1, <4>2, <4>3 DEF Good
      <3>10. CASE code[i].op \notin {"pushscope", "popscope", "declare"} /\ ~StartLabel(code[i])
        <4>1. HomeAt(m) = home[i] /\ ScopesAfter[i] = s
          BY <3>1, <3>2, <3>10, NextHomes DEF Visited, StartLabel, IsLabel
        <4> QED
          BY <3>1, <3>3, <3>4, <3>5, <4>1 DEF Good, SlotAt
      <3> QED
        BY <3>6, <3>7, <3>8, <3>9, <3>10
    <2> QED
      BY <2>1, <2>2
  <1>3. \A m \in 1..(Len(code) + 1) : m \in good
    <2> HIDE DEF good
    <2>1. 1 \in Nat /\ Len(code) + 1 \in Nat
      BY <1>1
    <2> QED
      BY ZenonT(60), <1>2, <2>1, AllBelow
  <1> QED
    BY <1>3

\* A Declare takes a slot, and the end of a scope returns what it has taken.
LEMMA SlotSteps ==
    ASSUME CodeDone, NEW i \in 1..Len(code)
    PROVE  /\ SlotAt(i) \in Nat /\ SlotAt(i + 1) \in Nat
           /\ code[i].op = "declare" => SlotAt(i + 1) = SlotAt(i) + 1
           /\ code[i].op = "popscope" => SlotAt(i + 1) = SlotAt(home[i])
           /\ code[i].op \notin {"declare", "popscope"} => SlotAt(i + 1) = SlotAt(i)
  <1> DEFINE s == ScopesAfter[i - 1]
  <1>1. Len(code) \in Nat /\ i - 1 \in 0..Len(code) /\ i \in 0..Len(code) /\ (i + 1) - 1 = i
    BY DoneFacts
  <1>2. s \in Seq(VarScopes) /\ ScopesAfter[i] \in Seq(VarScopes) /\ ScopesAfter[i] = Visited(s, i)
    BY <1>1, ScopeWalk
  <1>3. SlotAt(i) = NextSlot(s) /\ SlotAt(i + 1) = NextSlot(ScopesAfter[i])
    BY <1>1 DEF SlotAt
  <1>4. SlotAt(i) \in Nat /\ SlotAt(i + 1) \in Nat
    BY <1>2, <1>3, ScopeTypes
  <1>5. HomeAt(i) = home[i] /\ (HomeAt(i) # 0 => s # <<>> /\ PopVarScope(s) = ScopesAfter[HomeAt(i) - 1])
    <2>1. i \in 1..(Len(code) + 1)
      BY <1>1
    <2> QED
      BY <2>1, Allocation, DoneFacts
  <1>6. CASE code[i].op = "declare"
    <2>1. home[i] # 0
      BY <1>6 DEF CodeDone, LayoutInv, FunctionLevel, StartLabel, IsLabel
    <2>2. ScopesAfter[i] = CreateVariable(s, code[i].var, i)
      BY <1>2, <1>6 DEF Visited
    <2>3. SlotAt(i + 1) = SlotAt(i) + 1
      BY <1>2, <1>3, <1>5, <2>1, <2>2, ScopeStacks
    <2> QED
      BY <1>4, <1>6, <2>3
  <1>7. CASE code[i].op = "popscope"
    <2>1. ScopesAfter[i] = PopVarScope(s) /\ home[i] # 0
      BY <1>2, <1>7, DoneFacts DEF Visited
    <2>2. SlotAt(i + 1) = SlotAt(home[i])
      BY <1>3, <1>5, <2>1 DEF SlotAt
    <2> QED
      BY <1>4, <1>7, <2>2
  <1>8. CASE code[i].op \notin {"declare", "popscope"}
    <2>1. ScopesAfter[i] = s \/ ScopesAfter[i] = PushVarScope(s)
      BY <1>2, <1>8 DEF Visited
    <2>2. SlotAt(i + 1) = SlotAt(i)
      BY <1>2, <1>3, <2>1, ScopeStacks
    <2> QED
      BY <1>4, <1>8, <2>2
  <1> QED
    BY <1>6, <1>7, <1>8
\* Two places of one scope with no declaration of the scope in between have
\* the same slots taken.
LEMMA SameSlot ==
    ASSUME CodeDone, NEW i \in 1..Len(code), NEW j \in i..Len(code), home[i] = home[j],
           \A d \in i..(j - 1) : home[d] = home[i] => code[d].op # "declare"
    PROVE  SlotAt(i) = SlotAt(j)
  <1> DEFINE p == home[i]
             Good(n) == home[n] = p => SlotAt(n) = SlotAt(i)
             good == {n \in i..j : Good(n)}
  <1>1. Len(code) \in Nat /\ i \in Nat /\ j \in Nat /\ i <= j /\ j <= Len(code)
    BY DoneFacts
  <1>2. ASSUME NEW n \in i..j, \A m \in i..(n - 1) : m \in good PROVE n \in good
    <2> SUFFICES ASSUME home[n] = p PROVE SlotAt(n) = SlotAt(i)
      OBVIOUS
    <2>1. CASE n = i
      BY <2>1
    <2>2. CASE n # i
      <3> DEFINE k == n - 1
      <3>1. k \in 1..Len(code) /\ k \in i..(n - 1) /\ k + 1 = n /\ k \in i..(j - 1)
        BY <1>1, <2>2
      <3> HIDE DEF k
      <3>2. HomeAt(n) = p
        BY <1>1, <3>1, DoneFacts DEF HomeAt
      <3>3. Good(k)
        BY <1>2, <3>1
      <3>4. CASE code[k].op = "pushscope"
        <4>1. p = k
          BY <3>1, <3>2, <3>4, NextHomes
        <4>2. p < i
          BY SMTT(40), DoneFacts
        <4> QED
          BY <1>1, <3>1, <4>1, <4>2
      <3>5. CASE code[k].op = "popscope"
        <4> DEFINE q == home[k]
        <4>1. p = home[q] /\ q \in 1..(k - 1) /\ SlotAt(n) = SlotAt(q)
          BY <3>1, <3>2, <3>5, NextHomes, SlotSteps, DoneFacts
        <4> HIDE DEF q
        <4>2. q >= i
          <5> SUFFICES ASSUME q < i PROVE FALSE
            BY <1>1, <4>1
          <5>1. i \in 1..(Len(code) + 1) /\ k \in i..(Len(code) + 1)
            BY <1>1, <3>1
          <5>2. HomeAt(k) = q /\ HomeAt(i) = p
            BY <3>1, DoneFacts DEF q
          <5>3. p >= q
            BY <5>1, <5>2, Extent
          <5>4. p < q /\ p \in Nat /\ q \in Nat
            <6>1. q \in 1..Len(code)
              BY <1>1, <3>1, <4>1
            <6> QED
              BY <6>1, <4>1, DoneFacts
          <5> QED
            BY <5>3, <5>4
        <4>3. Good(q)
          <5>1. q \in i..(n - 1)
            BY <1>1, <3>1, <4>1, <4>2
          <5> QED
            BY <1>2, <5>1
        <4> QED
          BY <4>1, <4>3
      <3>6. CASE code[k].op \notin {"pushscope", "popscope"}
        <4>1. home[k] = p
          BY <3>1, <3>2, <3>6, NextHomes
        <4>2. code[k].op # "declare"
          BY <3>1, <4>1
        <4>3. SlotAt(n) = SlotAt(k)
          BY <3>1, <3>6, <4>2, SlotSteps
        <4> QED
          BY <3>3, <4>1, <4>3
      <3> QED
        BY <3>4, <3>5, <3>6
    <2> QED
      BY <2>1, <2>2
  <1>3. \A n \in i..j : n \in good
    <2> HIDE DEF good
    <2> QED
      BY <1>1, <1>2, AllBelow
  <1>4. j \in i..j
    BY <1>1
  <1> QED
    BY <1>3, <1>4

\* A jump and its label see the same slots taken.
LEMMA JumpSlots ==
    ASSUME CodeDone, NEW i \in 1..Len(code), NEW j \in 1..Len(code),
           IsJump(code[i]), code[j] = Label(code[i].dst)
    PROVE  home[i] = home[j] /\ SlotAt(i) = SlotAt(j)
           /\ QuietBetween(home[i], i, j) /\ QuietBetween(home[i], j, i)
  <1>1. IsLabel(code[j]) /\ code[j].label = code[i].dst
    BY DEF Label, IsLabel
  <1>2. home[i] = home[j]
    <2>1. PICK q \in 1..Len(code) : code[q] = Label(code[i].dst) /\ home[q] = home[i]
      BY SMTT(40), DoneFacts DEF CodeDone, JumpInv, JumpsAccounted
    <2>2. IsLabel(code[q]) /\ code[q].label = code[i].dst
      BY <2>1 DEF Label, IsLabel
    <2>3. q = j
      BY <1>1, <2>2 DEF CodeDone, JumpInv, LabelsUnique
    <2> QED
      BY <2>1, <2>3
  <1>3. QuietBetween(home[i], i, j) /\ QuietBetween(home[i], j, i)
    BY <1>1 DEF CodeDone, LayoutInv, JumpsPassNoDeclare
  <1>4. code[i].op # "declare" /\ code[j].op # "declare"
    BY <1>1 DEF IsJump, IsLabel
  <1>5. i \in Nat /\ j \in Nat /\ Len(code) \in Nat
    BY DoneFacts
  <1>6. CASE i <= j
    <2>1. \A d \in i..(j - 1) : home[d] = home[i] => code[d].op # "declare"
      <3> SUFFICES ASSUME NEW d \in i..(j - 1), home[d] = home[i] PROVE code[d].op # "declare"
        OBVIOUS
      <3>1. d = i \/ (i < d /\ d < j /\ d \in 1..Len(code))
        BY <1>5
      <3> QED
        BY <1>3, <1>4, <3>1 DEF QuietBetween
    <2>2. j \in i..Len(code)
      BY <1>5, <1>6
    <2> QED
      BY <1>2, <1>3, <2>1, <2>2, SameSlot
  <1>7. CASE j < i
    <2>1. \A d \in j..(i - 1) : home[d] = home[j] => code[d].op # "declare"
      <3> SUFFICES ASSUME NEW d \in j..(i - 1), home[d] = home[j] PROVE code[d].op # "declare"
        OBVIOUS
      <3>1. d = j \/ (j < d /\ d < i /\ d \in 1..Len(code))
        BY <1>5
      <3> QED
        BY <1>2, <1>3, <1>4, <3>1 DEF QuietBetween
    <2>2. i \in j..Len(code)
      BY <1>5, <1>7
    <2> QED
      BY <1>2, <1>3, <2>1, <2>2, SameSlot
  <1> QED
    BY <1>5, <1>6, <1>7

-----------------------------------------------------------------------------
(* Distances.                                                              *)

LEMMA SizesAligned == \A n \in Nat : AlignedSize(n) \in Nat /\ AlignedSize(n) % 8 = 0
                                      /\ n * RegWidth <= AlignedSize(n)
  <1> SUFFICES ASSUME NEW n \in Nat
               PROVE  AlignedSize(n) \in Nat /\ AlignedSize(n) % 8 = 0 /\ n * RegWidth <= AlignedSize(n)
    OBVIOUS
  <1>1. (n * 4) % 8 = 0 \/ (n * 4) % 8 = 4
    OBVIOUS
  <1>2. n * 4 \in Nat
    OBVIOUS
  <1> QED
    BY <1>1, <1>2 DEF AlignedSize, RegWidth

\* The names of a scope are finitely many.
LEMMA DeclaredFinite ==
    ASSUME CodeDone, NEW p
    PROVE  IsFiniteSet(DeclaredIn(p)) /\ Cardinality(DeclaredIn(p)) \in Nat
  <1>1. DeclaredIn(p) \subseteq Names
    BY DoneFacts, InstrParts DEF DeclaredIn
  <1> QED
    BY <1>1, NamesAssumption, FS_Subset, FS_CardinalityType

\* In a scope the distance is the one after its PushScope, and outside all
\* scopes it is zero.
LEMMA DistanceSteps ==
    ASSUME CodeDone, NEW n \in 1..(Len(code) + 1)
    PROVE  /\ DistanceAt[n] \in Nat /\ DistanceAt[n] % 8 = 0
           /\ HomeAt(n) = 0 => DistanceAt[n] = 0
           /\ HomeAt(n) # 0 => DistanceAt[n] = DistanceAt[HomeAt(n)] + code[HomeAt(n)].size
  <1> DEFINE D == DistanceAt
             Good(m) == /\ D[m] \in Nat /\ D[m] % 8 = 0
                        /\ HomeAt(m) = 0 => D[m] = 0
                        /\ HomeAt(m) # 0 => D[m] = D[HomeAt(m)] + code[HomeAt(m)].size
             good == {m \in 1..(Len(code) + 1) : Good(m)}
  <1>1. Len(code) \in Nat /\ D[1] = 0
    BY DoneFacts, DistanceWalk
  <1>2. ASSUME NEW m \in 1..(Len(code) + 1), \A k \in 1..(m - 1) : k \in good PROVE m \in good
    <2>1. CASE m = 1
      BY <1>1, <2>1, DoneFacts
    <2>2. CASE m # 1
      <3> DEFINE i == m - 1
      <3>1. i \in 1..Len(code) /\ i \in 1..(m - 1) /\ i + 1 = m
        BY <1>1, <2>2
      <3> HIDE DEF i
      <3>2. Good(i) /\ HomeAt(i) = home[i]
        BY <1>2, <3>1, DoneFacts
      <3>3. D[m] = Counted(D[i], code[i])
        BY <3>1, DistanceWalk
      <3>4. CASE code[i].op = "pushscope"
        <4>1. HomeAt(m) = i /\ D[m] = D[i] + code[i].size /\ i # 0
          BY <3>1, <3>3, <3>4, NextHomes DEF Counted
        <4>2. code[i].size \in Nat /\ code[i].size % 8 = 0
          <5> DEFINE c == Cardinality(DeclaredIn(i))
          <5>1. c \in Nat
            BY DeclaredFinite
          <5> HIDE DEF c
          <5>2. code[i].size = AlignedSize(c)
            BY <3>1, <3>4, DoneFacts DEF c
          <5> QED
            BY <5>1, <5>2, SizesAligned
        <4>3. (D[i] + code[i].size) % 8 = 0 /\ D[i] + code[i].size \in Nat
          BY SMTT(40), <3>2, <4>2
        <4> QED
          BY <4>1, <4>3
      <3>5. CASE code[i].op = "popscope"
        <4> DEFINE q == home[i]
        <4>1. /\ HomeAt(m) = home[q] /\ D[m] = D[i] - code[i].size /\ q \in 1..(i - 1)
              /\ code[q].size = code[i].size
          BY <3>1, <3>3, <3>5, NextHomes, DoneFacts DEF Counted
        <4>2. D[i] = D[q] + code[i].size
          BY <3>2, <4>1
        <4> HIDE DEF q
        <4>3. q \in 1..(m - 1) /\ q \in 1..Len(code)
          BY <1>1, <3>1, <4>1
        <4>4. Good(q) /\ HomeAt(q) = home[q]
          BY <1>2, <4>3, DoneFacts
        <4>5. code[i].size \in Nat
          BY <3>1, <3>5, DoneFacts, InstrParts
        <4>6. D[m] = D[q]
          BY <4>1, <4>2, <4>4, <4>5
        <4> QED
          BY <4>1, <4>4, <4>6
      <3>6. CASE code[i].op \notin {"pushscope", "popscope"}
        <4>1. HomeAt(m) = home[i] /\ D[m] = D[i]
          BY <3>1, <3>3, <3>6, NextHomes DEF Counted
        <4> QED
          BY <3>2, <4>1
      <3> QED
        BY <3>4, <3>5, <3>6
    <2> QED
      BY <2>1, <2>2
  <1>3. \A m \in 1..(Len(code) + 1) : m \in good
    <2> HIDE DEF good
    <2>1. 1 \in Nat /\ Len(code) + 1 \in Nat
      BY <1>1
    <2> QED
      BY <1>2, <2>1, AllBelow
  <1> QED
    BY <1>3
-----------------------------------------------------------------------------
(* A word for every slot.                                                  *)

\* No scope declares a name twice.  The semantic check sees to it but for the
\* parameters of a function, which a body may declare again.
DeclaredOnce ==
    \A i, j \in 1..Len(code) :
        /\ code[i].op = "declare" /\ code[j].op = "declare" /\ code[i].var = code[j].var
        /\ home[i] = home[j]
        => i = j

\* The declarations of scope h before code[n].
DeclaresBefore(h, n) == {j \in (h + 1)..(n - 1) : code[j].op = "declare" /\ home[j] = h}

LEMMA BeforeFinite ==
    ASSUME NEW h \in Nat, NEW n \in Nat
    PROVE  IsFiniteSet(DeclaresBefore(h, n)) /\ Cardinality(DeclaresBefore(h, n)) \in Nat
  <1>1. IsFiniteSet((h + 1)..(n - 1))
    BY FS_Interval
  <1>2. DeclaresBefore(h, n) \in SUBSET ((h + 1)..(n - 1))
    BY DEF DeclaresBefore
  <1> HIDE DEF DeclaresBefore
  <1> QED
    BY <1>1, <1>2, FS_Subset, FS_CardinalityType

\* The slots taken in a scope are those of its declarations so far.
LEMMA SlotCounts ==
    ASSUME CodeDone, NEW n \in 1..(Len(code) + 1), HomeAt(n) # 0
    PROVE  SlotAt(n) = SlotAt(HomeAt(n)) + Cardinality(DeclaresBefore(HomeAt(n), n))
  <1> DEFINE Good(m) == HomeAt(m) # 0 =>
                 SlotAt(m) = SlotAt(HomeAt(m)) + Cardinality(DeclaresBefore(HomeAt(m), m))
             good == {m \in 1..(Len(code) + 1) : Good(m)}
  <1>1. Len(code) \in Nat
    BY DoneFacts
  <1>2. ASSUME NEW m \in 1..(Len(code) + 1), \A k \in 1..(m - 1) : k \in good PROVE m \in good
    <2>1. CASE m = 1
      BY <2>1, DoneFacts
    <2>2. CASE m # 1
      <3> DEFINE i == m - 1
      <3>1. i \in 1..Len(code) /\ i \in 1..(m - 1) /\ i + 1 = m /\ i \in Nat
        BY <1>1, <2>2
      <3> HIDE DEF i
      <3>2. Good(i) /\ HomeAt(i) = home[i]
        BY <1>2, <3>1, DoneFacts
      <3>3. SlotAt(i) \in Nat
        BY <3>1, SlotSteps
      <3> HIDE DEF Good
      <3>4. CASE code[i].op = "pushscope"
        <4>1. HomeAt(m) = i /\ SlotAt(m) = SlotAt(i)
          BY <3>1, <3>4, NextHomes, SlotSteps
        <4>2. DeclaresBefore(i, m) = {}
          BY <3>1 DEF DeclaresBefore
        <4>3. Cardinality(DeclaresBefore(i, m)) = 0
          BY <4>2, FS_EmptySet
        <4>4. Good(m)
          BY <3>3, <4>1, <4>3 DEF Good
        <4> QED
          BY <4>4
      <3>5. CASE code[i].op = "popscope"
        <4> DEFINE q == home[i]
                   p == home[q]
        <4>1. /\ HomeAt(m) = p /\ q \in 1..(i - 1) /\ code[q].op = "pushscope"
              /\ SlotAt(m) = SlotAt(q)
          BY <3>1, <3>5, NextHomes, DoneFacts, SlotSteps
        <4> HIDE DEF q
        <4>2. q \in 1..(m - 1) /\ q \in 1..Len(code)
          BY <1>1, <3>1, <4>1
        <4>3. Good(q) /\ HomeAt(q) = p /\ p \in 0..(q - 1)
          BY <1>2, <4>2, DoneFacts DEF Good
        <4>4. ASSUME NEW j \in q..i, j \in 1..Len(code), code[j].op = "declare" PROVE home[j] # p
          <5>1. j # q /\ j # i
            BY <3>5, <4>1, <4>4
          <5>2. j \in 1..(Len(code) + 1) /\ i \in j..(Len(code) + 1) /\ q < j
            BY <1>1, <3>1, <4>1, <4>4, <5>1
          <5>3. HomeAt(i) = q /\ HomeAt(j) = home[j]
            BY <3>2, <4>4, DoneFacts DEF q
          <5>4. home[j] >= q
            BY <5>2, <5>3, Extent
          <5>5. home[j] \in Nat
            BY <4>4, DoneFacts
          <5> QED
            BY <4>2, <4>3, <5>4, <5>5
        <4> HIDE DEF p
        <4>5. DeclaresBefore(p, m) = DeclaresBefore(p, q)
          <5>1. ASSUME NEW j \in (p + 1)..(m - 1), code[j].op = "declare", home[j] = p
                PROVE  j \in (p + 1)..(q - 1)
            <6>1. j \in 1..Len(code) /\ (j < q \/ j \in q..i)
              BY <1>1, <3>1, <4>2, <4>3
            <6> QED
              BY <4>2, <4>3, <4>4, <5>1, <6>1
          <5>2. (p + 1)..(q - 1) \subseteq (p + 1)..(m - 1)
            BY <1>1, <4>2, <4>3
          <5> QED
            BY <5>1, <5>2 DEF DeclaresBefore
        <4> QED
          BY <4>1, <4>3, <4>5 DEF Good
      <3>6. CASE code[i].op = "declare"
        <4> DEFINE h == home[i]
        <4>1. HomeAt(m) = h /\ SlotAt(m) = SlotAt(i) + 1 /\ h \in 0..(i - 1)
          BY <3>1, <3>6, NextHomes, SlotSteps, DoneFacts
        <4>2. DeclaresBefore(h, m) = DeclaresBefore(h, i) \cup {i}
          <5>1. (h + 1)..(m - 1) = ((h + 1)..(i - 1)) \cup {i}
            BY SMTT(40), <1>1, <3>1, <4>1
          <5> QED
            BY <3>6, <5>1 DEF DeclaresBefore
        <4>3. i \notin DeclaresBefore(h, i)
          BY <3>1 DEF DeclaresBefore
        <4> HIDE DEF h
        <4>4. h \in Nat
          BY <4>1
        <4>5. /\ IsFiniteSet(DeclaresBefore(h, i)) /\ Cardinality(DeclaresBefore(h, i)) \in Nat
          BY <3>1, <4>4, BeforeFinite
        <4>6. Cardinality(DeclaresBefore(h, m)) = Cardinality(DeclaresBefore(h, i)) + 1
          BY <4>2, <4>3, <4>5, FS_AddElement
        <4>7. h # 0 => SlotAt(i) = SlotAt(h) + Cardinality(DeclaresBefore(h, i)) /\ SlotAt(h) \in Nat
          <5>1. h # 0 => h \in 1..Len(code)
            BY <1>1, <3>1, <4>1
          <5> QED
            BY <3>2, <5>1, SlotSteps DEF Good, h
        <4> QED
          BY <3>3, <4>1, <4>5, <4>6, <4>7 DEF Good
      <3>7. CASE code[i].op \notin {"pushscope", "popscope", "declare"}
        <4> DEFINE h == home[i]
        <4>1. HomeAt(m) = h /\ SlotAt(m) = SlotAt(i) /\ h \in 0..(i - 1)
          BY <3>1, <3>7, NextHomes, SlotSteps, DoneFacts
        <4>2. DeclaresBefore(h, m) = DeclaresBefore(h, i)
          <5>1. (h + 1)..(m - 1) = ((h + 1)..(i - 1)) \cup {i}
            BY <1>1, <3>1, <4>1
          <5> QED
            BY <3>7, <5>1 DEF DeclaresBefore
        <4> QED
          BY <3>2, <4>1, <4>2 DEF Good
      <3> QED
        BY <3>4, <3>5, <3>6, <3>7
    <2> QED
      BY <2>1, <2>2
  <1>3. \A m \in 1..(Len(code) + 1) : m \in good
    <2> HIDE DEF good
    <2>1. 1 \in Nat /\ Len(code) + 1 \in Nat
      BY <1>1
    <2> QED
      BY ZenonT(60), <1>2, <2>1, AllBelow
  <1> QED
    BY <1>3

\* Where no scope declares a name twice, a scope has a word for each of its
\* declarations.
LEMMA DeclaresFit ==
    ASSUME CodeDone, DeclaredOnce, NEW h \in 1..Len(code), code[h].op = "pushscope",
           NEW n \in 1..(Len(code) + 1)
    PROVE  /\ Cardinality(DeclaresBefore(h, n)) * RegWidth <= code[h].size
           /\ code[h].size \in Nat
  <1> DEFINE S == DeclaresBefore(h, n)
             T == DeclaredIn(h)
             f == [j \in S |-> code[j].var]
  <1>1. Len(code) \in Nat /\ h \in Nat /\ n \in Nat
    BY DoneFacts
  <1>2. \A j \in S : j \in 1..Len(code) /\ code[j].op = "declare" /\ home[j] = h
    BY <1>1 DEF DeclaresBefore
  <1>3. f \in Injection(S, T)
    <2>1. f \in [S -> T]
      BY <1>2 DEF DeclaredIn
    <2>2. ASSUME NEW a \in S, NEW b \in S, f[a] = f[b] PROVE a = b
      BY <1>2, <2>2 DEF DeclaredOnce
    <2> HIDE DEF f, S, T
    <2>3. IsInjective(f)
      BY <2>1, <2>2 DEF IsInjective
    <2> QED
      BY <2>1, <2>3 DEF Injection
  <1>4. IsFiniteSet(T) /\ Cardinality(T) \in Nat
    BY DeclaredFinite
  <1>5. code[h].size = AlignedSize(Cardinality(T))
    BY DoneFacts
  <1>6. Cardinality(S) \in Nat
    BY <1>1, BeforeFinite
  <1> HIDE DEF S, T, f
  <1>7. Cardinality(S) <= Cardinality(T)
    BY <1>3, <1>4, FS_Injection
  <1>8. Cardinality(T) * RegWidth <= AlignedSize(Cardinality(T)) /\ AlignedSize(Cardinality(T)) \in Nat
    BY <1>4, SizesAligned
  <1>9. Cardinality(S) * RegWidth <= Cardinality(T) * RegWidth
    BY <1>4, <1>6, <1>7 DEF RegWidth
  <1>10. Cardinality(S) * RegWidth \in Nat /\ Cardinality(T) * RegWidth \in Nat
    BY <1>4, <1>6 DEF RegWidth
  <1> QED
    BY <1>5, <1>8, <1>9, <1>10 DEF S

\* There is a word for every slot taken.
LEMMA SlotsFit ==
    ASSUME CodeDone, DeclaredOnce, NEW n \in 1..(Len(code) + 1)
    PROVE  SlotAt(n) \in Nat /\ SlotAt(n) * RegWidth <= DistanceAt[n]
  <1> DEFINE Good(m) == SlotAt(m) \in Nat /\ SlotAt(m) * RegWidth <= DistanceAt[m]
             good == {m \in 1..(Len(code) + 1) : Good(m)}
  <1>1. Len(code) \in Nat
    BY DoneFacts
  <1>2. ASSUME NEW m \in 1..(Len(code) + 1), \A k \in 1..(m - 1) : k \in good PROVE m \in good
    <2>1. CASE HomeAt(m) = 0
      <3>1. SlotAt(m) = 0 /\ DistanceAt[m] = 0
        BY <2>1, Allocation, DistanceSteps
      <3> QED
        BY <3>1 DEF RegWidth
    <2>2. CASE HomeAt(m) # 0
      <3> DEFINE h == HomeAt(m)
                 c == Cardinality(DeclaresBefore(h, m))
      <3>1. h \in 1..(m - 1) /\ h \in 1..Len(code) /\ code[h].op = "pushscope" /\ h \in Nat /\ m \in Nat
        BY <1>1, <2>2, DoneFacts DEF HomeAt
      <3>2. Good(h)
        BY <1>2, <3>1
      <3>3. SlotAt(m) = SlotAt(h) + c
        BY <2>2, SlotCounts
      <3>4. DistanceAt[m] = DistanceAt[h] + code[h].size
        BY <2>2, DistanceSteps
      <3> HIDE DEF h
      <3>5. c * RegWidth <= code[h].size /\ code[h].size \in Nat
        BY <3>1, DeclaresFit
      <3>6. c \in Nat
        BY <3>1, BeforeFinite
      <3>7. DistanceAt[h] \in Nat
        <4>1. h \in 1..(Len(code) + 1)
          BY <1>1, <3>1
        <4> QED
          BY <4>1, DistanceSteps
      <3> HIDE DEF c
      <3> QED
        BY SMTT(40), <3>2, <3>3, <3>4, <3>5, <3>6, <3>7 DEF RegWidth
    <2> QED
      BY <2>1, <2>2
  <1>3. \A m \in 1..(Len(code) + 1) : m \in good
    <2> HIDE DEF good
    <2>1. 1 \in Nat /\ Len(code) + 1 \in Nat
      BY <1>1
    <2> QED
      BY ZenonT(60), <1>2, <2>1, AllBelow
  <1> QED
    BY <1>3
-----------------------------------------------------------------------------
(* Where a step of a run can lead.                                         *)

\* The code is done, and AllocateRegisters and GenerateCode have walked it.
WalksDone ==
    /\ CodeDone
    /\ slot = [i \in 1..Len(code) |-> SlotAt(i)]
    /\ dist = [i \in 1..(Len(code) + 1) |-> DistanceAt[i]]

LEMMA WalkFacts ==
    ASSUME WalksDone
    PROVE  /\ CodeDone
           /\ slot \in Seq(Nat) /\ dist \in Seq(Nat)
           /\ \A i \in 1..Len(code) : slot[i] = SlotAt(i) /\ slot[i] \in Nat
           /\ \A i \in 1..(Len(code) + 1) : dist[i] = DistanceAt[i] /\ dist[i] \in Nat
  <1>1. CodeDone /\ Len(code) \in Nat
    BY DoneFacts DEF WalksDone
  <1>2. \A i \in 1..Len(code) : slot[i] = SlotAt(i) /\ slot[i] \in Nat
    BY <1>1, SlotSteps DEF WalksDone
  <1>3. \A i \in 1..(Len(code) + 1) : dist[i] = DistanceAt[i] /\ dist[i] \in Nat
    BY <1>1, DistanceSteps DEF WalksDone
  <1>4. slot \in [1..Len(code) -> Nat] /\ dist \in [1..(Len(code) + 1) -> Nat]
    BY <1>2, <1>3 DEF WalksDone
  <1>5. Len(code) + 1 \in Nat
    BY <1>1
  <1>6. slot \in Seq(Nat) /\ dist \in Seq(Nat)
    <2>1. \A n \in Nat : \A f : f \in [1..n -> Nat] => f \in Seq(Nat)
      OBVIOUS
    <2> QED
      BY <1>1, <1>4, <1>5, <2>1
  <1> QED
    BY <1>1, <1>2, <1>3, <1>6

\* Scope q is open at instruction i.
OpenScope(q, i) ==
    /\ q \in 1..(i - 1) /\ code[q].op = "pushscope"
    /\ \A d \in (q + 1)..i : home[d] >= q

\* Where a function ends.
Ends(i) == i > Len(code) \/ StartLabel(code[i])

\* Instruction i is in the function that starts at label l, or where it ends.
InFunction(l, i) ==
    \E e \in 1..(i - 1) : /\ e \in 1..Len(code) /\ code[e] = Label(l)
                          /\ \A d \in (e + 1)..(i - 1) : ~StartLabel(code[d])

\* "live" are initialised variables of scopes open at p, with slots that are
\* taken, each its own, and below those of the scopes opened since.
LiveAt(p, live) ==
    /\ Ends(p) => live = {}
    /\ \A i \in live :
          /\ i \in 1..Len(code) /\ i < p /\ code[i].op = "declare"
          /\ OpenScope(home[i], p)
          /\ slot[i] < slot[p]
          /\ code[p].op \in {"move", "param"} /\ code[p - 1].op = "declare" => slot[i] < slot[p - 1]
          /\ \A q \in 1..Len(code) : OpenScope(q, p) /\ q > home[i] => slot[i] < slot[q]
    /\ \A i, j \in live : slot[i] = slot[j] => i = j

\* A function ends at the level outside all scopes.
LEMMA EndsOutside ==
    ASSUME CodeDone, NEW p \in 1..(Len(code) + 1), Ends(p)
    PROVE  HomeAt(p) = 0
  <1>1. Len(code) \in Nat
    BY DoneFacts
  <1>2. CASE p > Len(code)
    BY <1>2 DEF HomeAt
  <1>3. CASE p \in 1..Len(code)
    BY <1>1, <1>3, DoneFacts DEF Ends, CodeDone, LayoutInv, FunctionLevel
  <1> QED
    BY <1>1, <1>2, <1>3

\* Only the end of a scope leads to the end of the function.
LEMMA StaysInside ==
    ASSUME CodeDone, NEW p \in 1..Len(code), ~Ends(p), code[p].op # "popscope"
    PROVE  p + 1 \in 1..Len(code) /\ ~Ends(p + 1)
  <1>1. Len(code) \in Nat /\ p + 1 \in 1..(Len(code) + 1)
    BY DoneFacts
  <1>2. ~Ends(p + 1)
    <2>1. CASE HomeAt(p + 1) # 0
      BY <1>1, <2>1, EndsOutside
    <2>2. CASE HomeAt(p + 1) = 0
      <3>1. code[p].op # "pushscope" /\ home[p] = 0
        BY <2>2, NextHomes
      <3>2. code[p].op = "locale" /\ p > 1 /\ code[p - 1] = Label(MainLabel)
        BY <3>1 DEF Ends, CodeDone, LayoutInv, FunctionLevel
      <3>3. p - 1 \in 1..Len(code) /\ (p - 1) + 2 = p + 1
        BY <1>1, <3>2
      <3>4. (p - 1) + 1 < Len(code) /\ code[(p - 1) + 2].op = "pushscope"
        BY <3>2, <3>3 DEF CodeDone, LayoutInv, FunctionsOpen
      <3> QED
        BY <1>1, <3>3, <3>4 DEF Ends, StartLabel, IsLabel
    <2> QED
      BY <2>1, <2>2
  <1> QED
    BY <1>1, <1>2 DEF Ends

\* The scope of an instruction is open.
LEMMA HomeOpen ==
    ASSUME CodeDone, NEW p \in 1..Len(code), home[p] # 0
    PROVE  OpenScope(home[p], p)
  <1>1. Len(code) \in Nat /\ home[p] \in 1..(p - 1) /\ code[home[p]].op = "pushscope"
    BY DoneFacts
  <1>2. ASSUME NEW d \in (home[p] + 1)..p PROVE home[d] >= home[p]
    <2>1. d \in 1..(Len(code) + 1) /\ p \in d..(Len(code) + 1) /\ home[p] < d /\ d \in 1..Len(code)
      BY <1>1
    <2>2. HomeAt(p) = home[p] /\ HomeAt(d) = home[d]
      BY <2>1, DoneFacts
    <2> QED
      BY <2>1, <2>2, Extent
  <1> QED
    BY <1>1, <1>2 DEF OpenScope

\* The scopes open at an instruction are those open at its own PushScope.
LEMMA SameOpen ==
    ASSUME CodeDone, NEW p \in 1..Len(code), NEW r \in 1..Len(code), home[p] = home[r],
           NEW q, OpenScope(q, p)
    PROVE  OpenScope(q, r) /\ q <= home[p]
  <1>1. Len(code) \in Nat /\ p \in Nat /\ r \in Nat /\ home[p] \in 0..(p - 1) /\ home[r] \in 0..(r - 1)
    BY DoneFacts
  <1>2. q \in Nat /\ q > 0 /\ q < p /\ home[p] >= q /\ code[q].op = "pushscope"
    BY <1>1 DEF OpenScope
  <1>3. OpenScope(home[r], r)
    BY <1>1, <1>2, HomeOpen
  <1>4. ASSUME NEW d \in (q + 1)..r PROVE home[d] >= q
    <2>1. CASE d <= home[r]
      BY <1>1, <1>2, <1>4, <2>1 DEF OpenScope
    <2>2. CASE d > home[r]
      <3>1. d \in (home[r] + 1)..r /\ d \in 1..Len(code)
        BY <1>1, <1>2, <1>4, <2>2
      <3>2. home[d] >= home[r] /\ home[d] \in Nat
        BY <1>3, <3>1, DoneFacts DEF OpenScope
      <3> QED
        BY SMTT(40), <1>1, <1>2, <3>2
    <2> QED
      BY <1>1, <1>2, <1>4, <2>1, <2>2
  <1> QED
    BY <1>1, <1>2, <1>4 DEF OpenScope
LEMMA OpenBefore ==
    ASSUME NEW p \in Nat, NEW q, OpenScope(q, p + 1), q # p
    PROVE  OpenScope(q, p) /\ home[p + 1] >= q
  BY DEF OpenScope

LEMMA OpenAfter ==
    ASSUME NEW p \in Nat, NEW q, OpenScope(q, p), home[p + 1] >= q
    PROVE  OpenScope(q, p + 1)
  BY DEF OpenScope

\* What a step inside a scope keeps of an initialised variable.
LEMMA LiveInside ==
    ASSUME WalksDone, NEW p \in 1..Len(code), ~Ends(p), code[p].op \notin {"pushscope", "popscope"},
           NEW live, LiveAt(p, live)
    PROVE  LiveAt(p + 1, live)
  <1>1. Len(code) \in Nat /\ CodeDone /\ p \in Nat
    BY DoneFacts, WalkFacts
  <1>2. p + 1 \in 1..Len(code) /\ ~Ends(p + 1)
    BY <1>1, StaysInside
  <1>3. home[p + 1] = home[p]
    <2>1. HomeAt(p + 1) = home[p + 1]
      BY <1>1, <1>2, DoneFacts
    <2> QED
      BY <1>1, <2>1, NextHomes
  <1>4. slot[p] \in Nat /\ slot[p + 1] \in Nat /\ slot[p] <= slot[p + 1]
    <2>1. slot[p] = SlotAt(p) /\ slot[p + 1] = SlotAt(p + 1) /\ slot[p] \in Nat /\ slot[p + 1] \in Nat
      BY <1>2, WalkFacts
    <2>2. SlotAt(p + 1) = SlotAt(p) \/ SlotAt(p + 1) = SlotAt(p) + 1
      BY <1>1, SlotSteps
    <2> QED
      BY <2>1, <2>2
  <1>5. ASSUME NEW i \in live
        PROVE  /\ i \in 1..Len(code) /\ i < p + 1 /\ code[i].op = "declare"
               /\ OpenScope(home[i], p + 1)
               /\ slot[i] < slot[p + 1]
               /\ code[p].op = "declare" => slot[i] < slot[p]
               /\ \A q \in 1..Len(code) : OpenScope(q, p + 1) /\ q > home[i] => slot[i] < slot[q]
    <2>1. /\ i \in 1..Len(code) /\ i < p /\ code[i].op = "declare"
          /\ OpenScope(home[i], p) /\ slot[i] < slot[p]
          /\ \A q \in 1..Len(code) : OpenScope(q, p) /\ q > home[i] => slot[i] < slot[q]
      BY DEF LiveAt
    <2>2. slot[i] \in Nat
      BY <2>1, WalkFacts
    <2>3. OpenScope(home[i], p + 1)
      <3>1. home[p] >= home[i]
        BY <1>1, <2>1 DEF OpenScope
      <3> QED
        BY <1>1, <1>3, <2>1, <3>1, OpenAfter
    <2>4. ASSUME NEW q \in 1..Len(code), OpenScope(q, p + 1), q > home[i] PROVE slot[i] < slot[q]
      <3>1. q # p
        BY <2>4 DEF OpenScope
      <3>2. OpenScope(q, p)
        BY <1>1, <2>4, <3>1, OpenBefore
      <3> QED
        BY <2>1, <2>4, <3>2
    <2> QED
      BY <1>1, <1>4, <2>1, <2>2, <2>3, <2>4
  <1>6. \A i, j \in live : slot[i] = slot[j] => i = j
    BY DEF LiveAt
  <1>7. (p + 1) - 1 = p
    BY <1>1
  <1> QED
    BY <1>2, <1>5, <1>6, <1>7 DEF LiveAt

\* A scope opens.
LEMMA LiveEntering ==
    ASSUME WalksDone, NEW p \in 1..Len(code), code[p].op = "pushscope",
           NEW live, LiveAt(p, live)
    PROVE  LiveAt(p + 1, live)
  <1>1. Len(code) \in Nat /\ CodeDone /\ p \in Nat
    BY DoneFacts, WalkFacts
  <1>2. p + 1 \in 1..Len(code) /\ ~Ends(p + 1) /\ ~Ends(p)
    <2>1. ~Ends(p)
      BY <1>1 DEF Ends, StartLabel, IsLabel
    <2> QED
      BY <1>1, <2>1, StaysInside
  <1>3. home[p + 1] = p
    <2>1. HomeAt(p + 1) = home[p + 1]
      BY <1>1, <1>2, DoneFacts
    <2> QED
      BY <1>1, <2>1, NextHomes
  <1>4. slot[p] \in Nat /\ slot[p + 1] = slot[p]
    BY <1>1, <1>2, SlotSteps, WalkFacts
  <1>5. ASSUME NEW i \in live
        PROVE  /\ i \in 1..Len(code) /\ i < p + 1 /\ code[i].op = "declare"
               /\ OpenScope(home[i], p + 1)
               /\ slot[i] < slot[p + 1]
               /\ \A q \in 1..Len(code) : OpenScope(q, p + 1) /\ q > home[i] => slot[i] < slot[q]
    <2>1. /\ i \in 1..Len(code) /\ i < p /\ code[i].op = "declare"
          /\ OpenScope(home[i], p) /\ slot[i] < slot[p]
          /\ \A q \in 1..Len(code) : OpenScope(q, p) /\ q > home[i] => slot[i] < slot[q]
      BY DEF LiveAt
    <2>2. OpenScope(home[i], p + 1)
      <3>1. home[i] < p /\ home[i] \in Nat
        BY <1>1, <2>1 DEF OpenScope
      <3> QED
        BY <1>1, <1>3, <2>1, <3>1, OpenAfter
    <2>3. ASSUME NEW q \in 1..Len(code), OpenScope(q, p + 1), q > home[i] PROVE slot[i] < slot[q]
      <3>1. CASE q = p
        BY <2>1, <3>1
      <3>2. CASE q # p
        <4>1. OpenScope(q, p)
          BY <1>1, <2>3, <3>2, OpenBefore
        <4> QED
          BY <2>1, <2>3, <4>1
      <3> QED
        BY <3>1, <3>2
    <2> QED
      BY <1>1, <1>4, <2>1, <2>2, <2>3
  <1>6. \A i, j \in live : slot[i] = slot[j] => i = j
    BY DEF LiveAt
  <1>7. code[(p + 1) - 1].op # "declare"
    BY <1>1
  <1> QED
    BY <1>2, <1>5, <1>6, <1>7 DEF LiveAt

\* A scope closes, and its variables with it.
LEMMA LiveLeaving ==
    ASSUME WalksDone, NEW p \in 1..Len(code), code[p].op = "popscope",
           NEW live, LiveAt(p, live)
    PROVE  LiveAt(p + 1, {i \in live : home[i] # home[p]})
  <1> DEFINE q == home[p]
             rest == {i \in live : home[i] # q}
  <1>1. Len(code) \in Nat /\ CodeDone /\ p \in Nat
    BY DoneFacts, WalkFacts
  <1>2. q \in 1..(p - 1) /\ q \in 1..Len(code) /\ HomeAt(p + 1) = home[q]
    BY <1>1, DoneFacts, NextHomes
  <1>3. ASSUME NEW i \in rest
        PROVE  /\ i \in 1..Len(code) /\ i < p /\ code[i].op = "declare"
               /\ OpenScope(home[i], p)
               /\ \A r \in 1..Len(code) : OpenScope(r, p) /\ r > home[i] => slot[i] < slot[r]
               /\ home[i] < q /\ home[q] >= home[i] /\ home[i] \in Nat /\ home[i] # 0
               /\ slot[i] < slot[q]
    <2>1. /\ i \in 1..Len(code) /\ i < p /\ code[i].op = "declare"
          /\ OpenScope(home[i], p)
          /\ \A r \in 1..Len(code) : OpenScope(r, p) /\ r > home[i] => slot[i] < slot[r]
      BY DEF LiveAt
    <2>2. home[i] <= q /\ home[i] # q /\ home[i] \in Nat /\ home[i] # 0
      BY <1>1, <1>2, <2>1 DEF OpenScope
    <2>3. home[i] < q /\ home[q] >= home[i]
      BY SMTT(40), <1>1, <1>2, <2>1, <2>2 DEF OpenScope
    <2>4. OpenScope(q, p)
      BY <1>1, <1>2, HomeOpen
    <2> HIDE DEF q
    <2>5. slot[i] < slot[q]
      BY <1>2, <2>1, <2>3, <2>4
    <2> QED
      BY <2>1, <2>2, <2>3, <2>5
  <1>4. Ends(p + 1) => rest = {}
    <2> SUFFICES ASSUME Ends(p + 1), NEW i \in rest PROVE FALSE
      OBVIOUS
    <2>1. p + 1 \in 1..(Len(code) + 1)
      BY <1>1
    <2>2. HomeAt(p + 1) = 0
      BY <1>1, <2>1, EndsOutside
    <2> QED
      BY <1>2, <1>3, <2>2
  <1>5. ASSUME NEW i \in rest
        PROVE  /\ i \in 1..Len(code) /\ i < p + 1 /\ code[i].op = "declare"
               /\ OpenScope(home[i], p + 1)
               /\ slot[i] < slot[p + 1]
               /\ \A r \in 1..Len(code) : OpenScope(r, p + 1) /\ r > home[i] => slot[i] < slot[r]
    <2>1. p + 1 \in 1..Len(code) /\ home[p + 1] = home[q]
      <3>1. p + 1 \in 1..Len(code)
        BY <1>1, <1>4 DEF Ends
      <3> QED
        BY <1>1, <1>2, <3>1, DoneFacts
    <2>2. slot[p + 1] = slot[q]
      BY ZenonT(60), <1>1, <1>2, <2>1, SlotSteps, WalkFacts
    <2>3. OpenScope(home[i], p + 1)
      BY <1>1, <1>3, <2>1, OpenAfter
    <2>4. ASSUME NEW r \in 1..Len(code), OpenScope(r, p + 1), r > home[i] PROVE slot[i] < slot[r]
      <3>1. r # p
        BY <2>4 DEF OpenScope
      <3>2. OpenScope(r, p)
        BY <1>1, <2>4, <3>1, OpenBefore
      <3> QED
        BY <1>3, <2>4, <3>2
    <2> QED
      BY <1>1, <1>3, <2>2, <2>3, <2>4
  <1>6. \A i, j \in rest : slot[i] = slot[j] => i = j
    BY DEF LiveAt
  <1>7. code[(p + 1) - 1].op # "declare"
    BY <1>1
  <1> HIDE DEF rest
  <1>8. LiveAt(p + 1, rest)
    BY <1>4, <1>5, <1>6, <1>7 DEF LiveAt
  <1> QED
    BY <1>8 DEF rest
\* A declaration is followed by the move of its value: the two are of one
\* scope, and the move makes the variable one that must keep its value.
LEMMA LiveInitialised ==
    ASSUME WalksDone, NEW p \in 1..Len(code), code[p].op \in {"move", "param"},
           code[p - 1].op = "declare", NEW live, LiveAt(p, live)
    PROVE  /\ p - 1 \in 1..Len(code) /\ home[p - 1] = home[p] /\ home[p] # 0
           /\ ~Ends(p)
           /\ \A i \in live : slot[i] < slot[p - 1]
           /\ LiveAt(p + 1, live \cup {p - 1})
  <1>1. Len(code) \in Nat /\ CodeDone /\ p \in Nat
    BY DoneFacts, WalkFacts
  <1>2. home[p] # 0 /\ home[p] \in 1..(p - 1) /\ ~Ends(p)
    <2>1. ~StartLabel(code[p])
      BY DEF StartLabel, IsLabel
    <2>2. home[p] # 0
      BY <1>1, <2>1 DEF CodeDone, LayoutInv, FunctionLevel
    <2> QED
      BY <1>1, <2>1, <2>2, DoneFacts DEF Ends
  <1>3. p - 1 \in 1..Len(code) /\ (p - 1) + 1 = p
    BY <1>1, <1>2
  <1>4. home[p - 1] = home[p]
    <2>1. HomeAt(p) = home[p]
      BY <1>1, DoneFacts
    <2> QED
      BY <1>1, <1>3, <2>1, NextHomes
  <1>5. p + 1 \in 1..Len(code) /\ ~Ends(p + 1)
    BY <1>1, <1>2, StaysInside
  <1>6. LiveAt(p + 1, live)
    BY <1>1, <1>2, LiveInside
  <1>7. \A i \in live : slot[i] < slot[p - 1]
    BY DEF LiveAt
  <1>8. home[p + 1] = home[p]
    <2>1. HomeAt(p + 1) = home[p + 1]
      BY <1>1, <1>5, DoneFacts
    <2> QED
      BY <1>1, <2>1, NextHomes
  <1>9. slot[p - 1] \in Nat /\ slot[p - 1] < slot[p + 1]
    <2>1. /\ slot[p - 1] = SlotAt(p - 1) /\ slot[p] = SlotAt(p) /\ slot[p + 1] = SlotAt(p + 1)
          /\ slot[p - 1] \in Nat
      BY <1>3, <1>5, WalkFacts
    <2>2. SlotAt(p) = SlotAt(p - 1) + 1
      BY <1>1, <1>3, SlotSteps
    <2>3. SlotAt(p + 1) = SlotAt(p)
      BY <1>1, SlotSteps
    <2> QED
      BY <2>1, <2>2, <2>3
  <1>10. OpenScope(home[p - 1], p + 1)
    BY <1>1, <1>2, <1>4, <1>5, <1>8, HomeOpen
  <1>11. ASSUME NEW q \in 1..Len(code), OpenScope(q, p + 1) PROVE ~ (q > home[p - 1])
    <2>1. home[p + 1] >= q
      BY <1>1, <1>11 DEF OpenScope
    <2> QED
      BY <1>2, <1>4, <1>8, <2>1
  <1>12. (p + 1) - 1 = p /\ p - 1 < p + 1 /\ code[p].op # "declare"
    BY <1>1
  <1> DEFINE k == p - 1
             all == live \cup {k}
  <1>13. \A i \in all : /\ i \in 1..Len(code) /\ i < p + 1 /\ code[i].op = "declare"
                        /\ OpenScope(home[i], p + 1)
                        /\ slot[i] < slot[p + 1]
                        /\ \A q \in 1..Len(code) : OpenScope(q, p + 1) /\ q > home[i] => slot[i] < slot[q]
    <2>1. ASSUME NEW i \in live
          PROVE  /\ i \in 1..Len(code) /\ i < p + 1 /\ code[i].op = "declare"
                 /\ OpenScope(home[i], p + 1)
                 /\ slot[i] < slot[p + 1]
                 /\ \A q \in 1..Len(code) : OpenScope(q, p + 1) /\ q > home[i] => slot[i] < slot[q]
      BY <1>6 DEF LiveAt
    <2>2. ASSUME NEW i, i = k
          PROVE  /\ i \in 1..Len(code) /\ i < p + 1 /\ code[i].op = "declare"
                 /\ OpenScope(home[i], p + 1)
                 /\ slot[i] < slot[p + 1]
                 /\ \A q \in 1..Len(code) : OpenScope(q, p + 1) /\ q > home[i] => slot[i] < slot[q]
      BY <1>3, <1>9, <1>10, <1>11, <1>12, <2>2
    <2> QED
      BY <2>1, <2>2
  <1>14. \A i, j \in all : slot[i] = slot[j] => i = j
    <2>1. \A i, j \in live : slot[i] = slot[j] => i = j
      BY DEF LiveAt
    <2>2. \A i \in live : slot[i] # slot[k]
      <3> SUFFICES ASSUME NEW i \in live PROVE slot[i] # slot[k]
        OBVIOUS
      <3>1. i \in 1..Len(code)
        BY DEF LiveAt
      <3>2. slot[i] \in Nat /\ slot[i] < slot[k]
        BY <1>7, <3>1, WalkFacts
      <3> QED
        BY <1>9, <3>2
    <2> QED
      BY <2>1, <2>2
  <1> HIDE DEF all
  <1>15. LiveAt(p + 1, all)
    BY <1>5, <1>12, <1>13, <1>14 DEF LiveAt
  <1> QED
    BY <1>2, <1>3, <1>4, <1>7, <1>15 DEF all

\* A jump lands where the same variables must keep their values.
LEMMA LiveJumping ==
    ASSUME WalksDone, NEW p \in 1..Len(code), NEW r \in 1..Len(code),
           IsJump(code[p]), code[r] = Label(code[p].dst), NEW live, LiveAt(p, live)
    PROVE  /\ home[p] = home[r] /\ home[p] # 0 /\ ~Ends(p) /\ ~Ends(r)
           /\ dist[p] = dist[r]
           /\ LiveAt(r, live)
  <1>1. /\ Len(code) \in Nat /\ CodeDone /\ p \in Nat /\ r \in Nat
        /\ home[p] \in 0..(p - 1) /\ home[r] \in 0..(r - 1)
    BY DoneFacts, WalkFacts
  <1>2. home[p] = home[r] /\ slot[p] = slot[r] /\ QuietBetween(home[p], r, p)
    BY SMTT(40), <1>1, JumpSlots, WalkFacts
  <1>3. home[p] # 0 /\ ~Ends(p) /\ ~Ends(r)
    <2>1. ~StartLabel(code[p])
      BY DEF StartLabel, IsLabel, IsJump
    <2>2. home[p] # 0
      BY <1>1, <2>1 DEF CodeDone, LayoutInv, FunctionLevel, IsJump
    <2>3. HomeAt(r) # 0
      BY <1>1, <1>2, <2>2, DoneFacts
    <2>4. r \in 1..(Len(code) + 1)
      BY <1>1
    <2>5. ~Ends(r)
      BY <1>1, <2>3, <2>4, EndsOutside
    <2> QED
      BY <1>1, <2>1, <2>2, <2>5 DEF Ends
  <1>4. dist[p] = dist[r]
    <2>1. p \in 1..(Len(code) + 1) /\ r \in 1..(Len(code) + 1)
      BY <1>1
    <2>2. HomeAt(p) = HomeAt(r) /\ HomeAt(p) # 0
      BY <1>1, <1>2, <1>3, DoneFacts
    <2>3. DistanceAt[p] = DistanceAt[r]
      BY <1>1, <2>1, <2>2, DistanceSteps
    <2> QED
      BY <2>1, <2>3, WalkFacts
  <1>5. code[r].op = "label"
    BY DEF Label
  <1>6. ASSUME NEW i \in live
        PROVE  /\ i \in 1..Len(code) /\ i < r /\ code[i].op = "declare"
               /\ OpenScope(home[i], r)
               /\ slot[i] < slot[r]
               /\ \A q \in 1..Len(code) : OpenScope(q, r) /\ q > home[i] => slot[i] < slot[q]
    <2>1. /\ i \in 1..Len(code) /\ i < p /\ code[i].op = "declare"
          /\ OpenScope(home[i], p) /\ slot[i] < slot[p]
          /\ \A q \in 1..Len(code) : OpenScope(q, p) /\ q > home[i] => slot[i] < slot[q]
      BY DEF LiveAt
    <2>2. OpenScope(home[i], r) /\ home[i] <= home[p]
      BY <1>1, <1>2, <2>1, SameOpen
    <2>3. ASSUME NEW q \in 1..Len(code), OpenScope(q, r), q > home[i] PROVE slot[i] < slot[q]
      <3>1. OpenScope(q, p)
        BY <1>1, <1>2, <2>3, SameOpen
      <3> QED
        BY <2>1, <2>3, <3>1
    <2>4. i < r
      <3> SUFFICES ASSUME r <= i PROVE FALSE
        BY <1>1, <2>1
      <3>1. r < i /\ home[i] \in Nat
        BY <1>1, <1>5, <2>1, DoneFacts
      <3>2. CASE home[i] = home[p]
        BY <1>2, <2>1, <3>1, <3>2 DEF QuietBetween
      <3>3. CASE home[i] < home[p]
        <4>1. /\ i \in 1..(Len(code) + 1) /\ p \in i..(Len(code) + 1) /\ home[p] < i
          BY <1>1, <1>2, <2>1, <3>1
        <4>2. HomeAt(p) = home[p] /\ HomeAt(i) = home[i]
          BY <1>1, <2>1, DoneFacts
        <4>3. home[i] >= home[p]
          BY <1>1, <4>1, <4>2, Extent
        <4> QED
          BY <1>1, <3>1, <3>3, <4>3
      <3> QED
        BY <1>1, <2>2, <3>1, <3>2, <3>3
    <2> QED
      BY <1>2, <2>1, <2>2, <2>3, <2>4
  <1>7. \A i, j \in live : slot[i] = slot[j] => i = j
    BY DEF LiveAt
  <1>8. LiveAt(r, live)
    BY <1>3, <1>5, <1>6, <1>7 DEF LiveAt
  <1> QED
    BY <1>2, <1>3, <1>4, <1>8
-----------------------------------------------------------------------------
(* Words of a frame.                                                       *)

\* The words between the base of the frame and sp at instruction p.
WordsAt(p) == dist[p] \div RegWidth

LEMMA QuarterSum ==
    \A m, n \in Nat : m % 8 = 0 /\ n % 8 = 0 => /\ (m + n) \div 4 = m \div 4 + n \div 4
                                                /\ m \div 4 \in Nat
  OBVIOUS

LEMMA SizeWords ==
    ASSUME CodeDone, NEW i \in 1..Len(code), code[i].op \in {"pushscope", "popscope"}
    PROVE  code[i].size \in Nat /\ code[i].size % 8 = 0 /\ code[i].size \div RegWidth \in Nat
  <1>1. ASSUME NEW j \in 1..Len(code), code[j].op = "pushscope"
        PROVE  code[j].size \in Nat /\ code[j].size % 8 = 0 /\ code[j].size \div RegWidth \in Nat
    <2> DEFINE c == Cardinality(DeclaredIn(j))
    <2>1. c \in Nat
      BY DeclaredFinite
    <2> HIDE DEF c
    <2>2. code[j].size = AlignedSize(c)
      BY <1>1, DoneFacts DEF c
    <2>3. code[j].size \in Nat /\ code[j].size % 8 = 0
      BY <2>1, <2>2, SizesAligned
    <2> DEFINE s == code[j].size
    <2> HIDE DEF s
    <2>4. s \in Nat /\ s % 8 = 0
      BY <2>3 DEF s
    <2>5. s \div 4 \in Nat
      BY <2>4
    <2> QED
      BY <2>4, <2>5 DEF s, RegWidth
  <1>2. CASE code[i].op = "pushscope"
    BY <1>1, <1>2
  <1>3. CASE code[i].op = "popscope"
    <2>1. home[i] \in 1..Len(code) /\ code[home[i]].op = "pushscope" /\ code[home[i]].size = code[i].size
      BY <1>3, DoneFacts
    <2> QED
      BY <1>1, <2>1
  <1> QED
    BY <1>2, <1>3

\* The frame grows and shrinks with the scopes and is empty where a function
\* ends.
LEMMA WordSteps ==
    ASSUME WalksDone, NEW p \in 1..Len(code)
    PROVE  /\ WordsAt(p) \in Nat /\ WordsAt(p + 1) \in Nat
           /\ code[p].op = "pushscope" => WordsAt(p + 1) = WordsAt(p) + code[p].size \div RegWidth
           /\ code[p].op = "popscope" => WordsAt(p) = WordsAt(p + 1) + code[p].size \div RegWidth
           /\ code[p].op \notin {"pushscope", "popscope"} => WordsAt(p + 1) = WordsAt(p)
  <1> DEFINE d == dist[p]
             e == dist[p + 1]
             s == code[p].size
  <1>1. CodeDone /\ Len(code) \in Nat /\ p \in 1..(Len(code) + 1) /\ p + 1 \in 1..(Len(code) + 1)
    BY DoneFacts, WalkFacts
  <1>2. d \in Nat /\ e \in Nat /\ d % 8 = 0 /\ e % 8 = 0
    BY <1>1, WalkFacts, DistanceSteps
  <1>3. e = Counted(d, code[p])
    BY <1>1, WalkFacts, DistanceWalk
  <1>4. WordsAt(p) = d \div 4 /\ WordsAt(p + 1) = e \div 4
    BY DEF WordsAt, RegWidth
  <1>5. code[p].op \in {"pushscope", "popscope"} => s \in Nat /\ s % 8 = 0
    BY <1>1, SizeWords
  <1>6. /\ code[p].op = "pushscope" => e = d + s
        /\ code[p].op = "popscope" => e = d - s
        /\ code[p].op \notin {"pushscope", "popscope"} => e = d
    BY <1>3 DEF Counted
  <1> HIDE DEF d, e
  <1>7. d \div 4 \in Nat /\ e \div 4 \in Nat
    BY <1>2
  <1>8. CASE code[p].op = "pushscope"
    <2>1. e \div 4 = d \div 4 + s \div 4
      BY <1>2, <1>5, <1>6, <1>8, QuarterSum
    <2> QED
      BY <1>4, <1>7, <1>8, <2>1 DEF RegWidth
  <1>9. CASE code[p].op = "popscope"
    <2>1. d = e + s
      BY <1>2, <1>5, <1>6, <1>9
    <2>2. d \div 4 = e \div 4 + s \div 4
      BY <1>2, <1>5, <1>9, <2>1, QuarterSum
    <2> QED
      BY <1>4, <1>7, <1>9, <2>2 DEF RegWidth
  <1> QED
    BY <1>4, <1>6, <1>7, <1>8, <1>9

LEMMA NoWordsAtEnd ==
    ASSUME WalksDone, NEW p \in 1..(Len(code) + 1), HomeAt(p) = 0
    PROVE  dist[p] = 0 /\ WordsAt(p) = 0
  <1>1. dist[p] = 0
    BY WalkFacts, DistanceSteps
  <1> QED
    BY <1>1 DEF WordsAt, RegWidth

\* Where no scope declares a name twice, the frame has a word for each slot.
LEMMA SlotWord ==
    ASSUME WalksDone, DeclaredOnce, NEW p \in 1..Len(code)
    PROVE  slot[p] \in Nat /\ slot[p] <= WordsAt(p)
  <1> DEFINE s == slot[p]
             d == dist[p]
  <1>1. CodeDone /\ Len(code) \in Nat /\ p \in 1..(Len(code) + 1)
    BY DoneFacts, WalkFacts
  <1>2. s \in Nat /\ d \in Nat /\ s * 4 <= d
    BY <1>1, WalkFacts, SlotsFit DEF RegWidth
  <1> HIDE DEF s, d
  <1>3. s <= d \div 4
    BY <1>2
  <1> QED
    BY <1>2, <1>3 DEF s, d, WordsAt, RegWidth

-----------------------------------------------------------------------------
(* Functions.                                                              *)

LEMMA InFunctionNext ==
    ASSUME CodeDone, NEW p \in 1..Len(code), ~Ends(p), NEW l, InFunction(l, p)
    PROVE  InFunction(l, p + 1)
  <1>1. PICK e \in 1..(p - 1) : /\ e \in 1..Len(code) /\ code[e] = Label(l)
                                /\ \A d \in (e + 1)..(p - 1) : ~StartLabel(code[d])
    BY DEF InFunction
  <1>2. p \in Nat /\ Len(code) \in Nat /\ e \in Nat
    BY DoneFacts
  <1>3. \A d \in (e + 1)..((p + 1) - 1) : d = p \/ d \in (e + 1)..(p - 1)
    BY <1>2
  <1>4. e \in 1..((p + 1) - 1)
    BY <1>2
  <1>5. ~StartLabel(code[p])
    BY DEF Ends
  <1> QED
    BY <1>1, <1>3, <1>4, <1>5 DEF InFunction

\* All code of a scope is in one function.
LEMMA InFunctionSame ==
    ASSUME CodeDone, NEW p \in 1..Len(code), NEW r \in 1..Len(code), home[p] = home[r], home[p] # 0,
           NEW l, InFunction(l, p), StartLabel(Label(l))
    PROVE  InFunction(l, r)
  <1>1. PICK e \in 1..(p - 1) : /\ e \in 1..Len(code) /\ code[e] = Label(l)
                                /\ \A d \in (e + 1)..(p - 1) : ~StartLabel(code[d])
    BY DEF InFunction
  <1> DEFINE h == home[p]
  <1>2. p \in Nat /\ r \in Nat /\ Len(code) \in Nat /\ e \in Nat /\ h \in 1..(p - 1) /\ h \in 1..(r - 1)
        /\ code[h].op = "pushscope"
    BY SMTT(40), DoneFacts
  <1>3. OpenScope(h, p) /\ OpenScope(h, r)
    BY HomeOpen
  <1>4. \A d \in 1..Len(code) : StartLabel(code[d]) => home[d] = 0
    BY DEF CodeDone, LayoutInv, FunctionLevel
  <1>5. e < h
    <2>1. e # h
      BY <1>1, <1>2 DEF Label
    <2>2. ~ (e > h)
      <3> SUFFICES ASSUME e > h PROVE FALSE
        OBVIOUS
      <3>1. home[e] >= h
        BY <1>2, <1>3 DEF OpenScope
      <3>2. home[e] = 0
        BY <1>1, <1>4
      <3> QED
        BY <1>2, <3>1, <3>2
    <2> QED
      BY <1>2, <2>1, <2>2
  <1>6. ASSUME NEW d \in (e + 1)..(r - 1) PROVE ~StartLabel(code[d])
    <2>1. CASE d < p
      BY <1>1, <1>2, <2>1
    <2>2. CASE d >= p
      <3>1. d \in (h + 1)..r /\ d \in 1..Len(code)
        BY <1>2, <2>2
      <3>2. home[d] # 0
        BY <1>2, <1>3, <3>1 DEF OpenScope
      <3> QED
        BY <1>4, <3>1, <3>2
    <2> QED
      BY <1>2, <2>1, <2>2
  <1>7. e \in 1..(r - 1)
    BY <1>2, <1>5
  <1> QED
    BY <1>1, <1>6, <1>7 DEF InFunction

\* The labels of what is called.
FrameLabels == {MainLabel} \cup {FuncLabel(f) : f \in functions}

LEMMA LabelOnce ==
    ASSUME CodeDone, NEW l, NEW e \in 1..Len(code), code[e] = Label(l)
    PROVE  EntryOf(l) = e
  <1>1. \A i \in 1..Len(code) : code[i] = Label(l) => i = e
    BY DEF CodeDone, JumpInv, LabelsUnique, Label, IsLabel
  <1> QED
    BY <1>1 DEF EntryOf

LEMMA Entries ==
    ASSUME WalksDone, NEW l \in FrameLabels
    PROVE  /\ EntryOf(l) \in 1..Len(code) /\ code[EntryOf(l)] = Label(l) /\ StartLabel(Label(l))
           /\ EntryOf(l) + 1 \in 1..Len(code) /\ ~Ends(EntryOf(l) + 1)
           /\ InFunction(l, EntryOf(l) + 1)
           /\ dist[EntryOf(l) + 1] = 0 /\ WordsAt(EntryOf(l) + 1) = 0
           /\ LiveAt(EntryOf(l) + 1, {})
  <1> DEFINE e == EntryOf(l)
  <1>1. CodeDone /\ Len(code) \in Nat
    BY DoneFacts, WalkFacts
  <1>2. \E i \in 1..Len(code) : code[i] = Label(l)
    BY <1>1 DEF FrameLabels, CodeDone, LayoutInv, FunctionsLabelled
  <1>3. e \in 1..Len(code) /\ code[e] = Label(l)
    BY <1>1, <1>2, LabelOnce
  <1>4. StartLabel(Label(l))
    BY DEF StartLabel, IsLabel, Label, FrameLabels, MainLabel, FuncLabel
  <1> HIDE DEF e
  <1>5. home[e] = 0
    BY <1>1, <1>3, <1>4 DEF CodeDone, LayoutInv, FunctionLevel
  <1>6. e + 1 \in 1..Len(code) /\ code[e + 1].op \in {"pushscope", "locale"}
    <2>1. FunctionsOpen
      BY <1>1 DEF CodeDone, LayoutInv
    <2>2. CASE l = MainLabel
      <3>1. code[e] = Label(MainLabel)
        BY <1>3, <2>2
      <3>2. e + 1 < Len(code) /\ code[e + 1].op = "locale"
        BY <1>3, <2>1, <3>1 DEF FunctionsOpen
      <3> QED
        BY <1>1, <1>3, <3>2
    <2>3. CASE l # MainLabel
      <3>1. FuncStart(code[e])
        BY <1>3, <2>3 DEF FuncStart, IsLabel, Label, FrameLabels, FuncLabel
      <3>2. e < Len(code) /\ code[e + 1].op = "pushscope"
        BY <1>3, <2>1, <3>1 DEF FunctionsOpen
      <3> QED
        BY <1>1, <1>3, <3>2
    <2> QED
      BY <2>2, <2>3
  <1>7. ~Ends(e + 1)
    BY <1>1, <1>6 DEF Ends, StartLabel, IsLabel
  <1>8. InFunction(l, e + 1)
    <2>1. e \in 1..((e + 1) - 1) /\ (e + 1)..((e + 1) - 1) = {}
      BY <1>1, <1>3
    <2> QED
      BY <1>3, <2>1 DEF InFunction
  <1>9. HomeAt(e + 1) = 0
    <2>1. code[e].op \notin {"pushscope", "popscope"}
      BY <1>3 DEF Label
    <2> QED
      BY <1>1, <1>3, <1>5, <2>1, NextHomes
  <1>10. dist[e + 1] = 0 /\ WordsAt(e + 1) = 0
    <2>1. e + 1 \in 1..(Len(code) + 1)
      BY <1>1, <1>6
    <2> QED
      BY <1>9, <2>1, NoWordsAtEnd
  <1>11. LiveAt(e + 1, {})
    BY DEF LiveAt
  <1> QED
    BY <1>3, <1>4, <1>6, <1>7, <1>8, <1>10, <1>11 DEF e
-----------------------------------------------------------------------------
(* Parameters.                                                             *)

\* The places of n parameter moves are n.
LEMMA ParamPlaces ==
    ASSUME NEW b \in Nat, NEW n \in Nat
    PROVE  Cardinality({b + 2 * m : m \in 1..n}) = n
  <1> DEFINE S == 1..n
             T == {b + 2 * m : m \in 1..n}
             f == [m \in S |-> b + 2 * m]
  <1>1. IsFiniteSet(S) /\ Cardinality(S) = n
    BY FS_Interval
  <1>2. f \in [S -> T]
    OBVIOUS
  <1>3. \A x, y \in S : f[x] = f[y] => x = y
    OBVIOUS
  <1>4. \A t \in T : \E x \in S : f[x] = t
    OBVIOUS
  <1> HIDE DEF f, S, T
  <1>5. IsInjective(f)
    BY <1>2, <1>3 DEF IsInjective
  <1>6. f \in Injection(S, T)
    BY <1>2, <1>5 DEF Injection
  <1>7. f \in Surjection(S, T)
    BY <1>2, <1>4 DEF Surjection
  <1>8. Cardinality(T) = Cardinality(S)
    BY <1>1, <1>6, <1>7, FS_Surjection
  <1> QED
    BY <1>1, <1>8 DEF T

LEMMA ParamCount ==
    ASSUME WalksDone, NEW l \in FrameLabels
    PROVE  /\ Params(l) \in 0..MaxParams
           /\ l = MainLabel => Params(l) = 0
           /\ \A p \in 1..Len(code) : code[p].op = "param" /\ home[p] = EntryOf(l) + 1 =>
                  \E m \in 1..Params(l) : p = EntryOf(l) + 1 + 2 * m
  <1> DEFINE e == EntryOf(l)
  <1>1. CodeDone /\ Len(code) \in Nat /\ e \in 1..Len(code) /\ code[e] = Label(l)
    BY DoneFacts, WalkFacts, Entries
  <1>2. Params(l) = Cardinality(ParamsAt(e + 1))
    BY DEF Params, ParamsAt
  <1> HIDE DEF e
  <1>3. CASE l = MainLabel
    <2>1. ParamsAt(e + 1) = {}
      <3> SUFFICES ASSUME NEW i \in ParamsAt(e + 1) PROVE FALSE
        OBVIOUS
      <3>1. i \in 1..Len(code) /\ code[i].op = "param" /\ home[i] = e + 1
        BY DEF ParamsAt
      <3>2. code[e + 1].op = "pushscope"
        <4>1. home[i] # 0
          BY <1>1, <3>1
        <4>2. code[home[i]].op = "pushscope"
          BY <1>1, <3>1, <4>1, DoneFacts
        <4> QED
          BY <3>1, <4>2
      <3>3. code[e + 1].op = "locale"
        BY <1>1, <1>3 DEF CodeDone, LayoutInv, FunctionsOpen
      <3> QED
        BY <3>2, <3>3
    <2>2. Params(l) = 0
      BY <1>2, <2>1, FS_EmptySet
    <2>3. \A p \in 1..Len(code) : ~ (code[p].op = "param" /\ home[p] = e + 1)
      BY <2>1 DEF ParamsAt
    <2> QED
      BY <2>2, <2>3, BoundsAssumption DEF e
  <1>4. CASE l # MainLabel
    <2>1. FuncStart(code[e])
      BY <1>1, <1>4 DEF FuncStart, IsLabel, Label, FrameLabels, FuncLabel
    <2>2. PICK n \in 0..MaxParams : ParamsAt(e + 1) = {e + 1 + 2 * m : m \in 1..n}
      BY <1>1, <2>1 DEF CodeDone, LayoutInv, ParamsInFront
    <2>3. Params(l) = n
      <3> DEFINE b == e + 1
      <3>1. b \in Nat /\ n \in Nat
        BY <1>1, BoundsAssumption
      <3> HIDE DEF b
      <3>2. Cardinality({b + 2 * m : m \in 1..n}) = n
        BY <3>1, ParamPlaces
      <3> QED
        BY <1>2, <2>2, <3>2 DEF b
    <2>4. ASSUME NEW p \in 1..Len(code), code[p].op = "param", home[p] = e + 1
          PROVE  \E m \in 1..n : p = e + 1 + 2 * m
      BY <2>2, <2>4 DEF ParamsAt
    <2> QED
      BY <1>4, <2>3, <2>4 DEF e
  <1> QED
    BY <1>3, <1>4

LEMMA StackArgCount ==
    ASSUME WalksDone, NEW l \in FrameLabels
    PROVE  /\ StackArgs(l) \in Nat /\ StackArgs(l) <= Params(l)
           /\ l = MainLabel => StackArgs(l) = 0
           /\ StackArgs(l) > 0 => StackArgs(l) = Params(l) - ArgRegisters
  BY ParamCount, BoundsAssumption, StackBoundsAssumption DEF StackArgs

\* The move of a parameter is in front of its function's body, so that its
\* place tells which parameter it is.
LEMMA ParamMove ==
    ASSUME WalksDone, NEW p \in 1..Len(code), code[p].op = "param",
           NEW l \in FrameLabels, InFunction(l, p)
    PROVE  /\ code[p - 1].op = "declare"
           /\ (p - EntryOf(l) - 3) \div 2 \in 0..(Params(l) - 1)
  <1> DEFINE h == home[p]
  <1>1. CodeDone /\ Len(code) \in Nat
    BY DoneFacts, WalkFacts
  <1>2. h > 1 /\ FuncStart(code[h - 1]) /\ code[p - 1].op = "declare" /\ h \in 1..(p - 1)
    <2>1. h > 1 /\ FuncStart(code[h - 1]) /\ code[p - 1].op = "declare"
      BY <1>1 DEF CodeDone, LayoutInv, ParamsInFront
    <2> QED
      BY <1>1, <2>1, DoneFacts
  <1>3. PICK e \in 1..(p - 1) : /\ e \in 1..Len(code) /\ code[e] = Label(l)
                                /\ \A d \in (e + 1)..(p - 1) : ~StartLabel(code[d])
    BY DEF InFunction
  <1>4. EntryOf(l) = e /\ StartLabel(Label(l))
    BY <1>1, <1>3, LabelOnce, Entries
  <1>5. e = h - 1
    <2>1. h - 1 \in 1..(p - 1) /\ StartLabel(code[h - 1])
      BY <1>1, <1>2 DEF FuncStart, StartLabel
    <2>2. ~ (e < h - 1)
      BY <1>2, <1>3, <2>1
    <2>3. e # h
      <3>1. code[h].op = "pushscope"
        <4>1. home[p] # 0
          BY <1>2
        <4> QED
          BY <1>1, <4>1, DoneFacts
      <3> QED
        BY <1>3, <3>1 DEF Label
    <2>4. ~ (e > h)
      <3> SUFFICES ASSUME e > h PROVE FALSE
        OBVIOUS
      <3>1. home[e] = 0
        BY <1>1, <1>3, <1>4 DEF CodeDone, LayoutInv, FunctionLevel
      <3>2. OpenScope(h, p)
        BY <1>1, <1>2, HomeOpen
      <3>3. home[e] >= h
        BY <1>3, <3>2 DEF OpenScope
      <3> QED
        BY <1>2, <3>1, <3>3
    <2> QED
      BY <1>2, <1>3, <2>2, <2>3, <2>4
  <1>6. PICK m \in 1..Params(l) : p = e + 1 + 2 * m
    <2>1. home[p] = EntryOf(l) + 1
      BY <1>2, <1>4, <1>5
    <2> QED
      BY <1>4, <2>1, ParamCount
  <1>7. (p - e - 3) = 2 * (m - 1) /\ m \in Nat /\ Params(l) \in Nat
    BY <1>6, ParamCount, BoundsAssumption
  <1>8. (2 * (m - 1)) \div 2 = m - 1
    BY SMTT(40), <1>7
  <1>9. (p - EntryOf(l) - 3) \div 2 = m - 1
    BY <1>4, <1>7, <1>8
  <1>10. m - 1 \in 0..(Params(l) - 1)
    BY <1>6, <1>7
  <1> QED
    BY <1>2, <1>9, <1>10

-----------------------------------------------------------------------------
(* Jumps and returns.                                                      *)

LEMMA JumpTarget ==
    ASSUME CodeDone, NEW p \in 1..Len(code), IsJump(code[p])
    PROVE  LET r == CHOOSE j \in 1..Len(code) : code[j] = Label(code[p].dst)
           IN  r \in 1..Len(code) /\ code[r] = Label(code[p].dst)
  <1>1. \E q \in 1..Len(code) : code[q] = Label(code[p].dst)
    BY DoneFacts DEF CodeDone, JumpInv, JumpsAccounted
  <1> QED
    BY <1>1

LEMMA FunctionEnds ==
    ASSUME CodeDone, pc \in 1..Len(code), ~Ends(pc), NEW l, InFunction(l, pc)
    PROVE  /\ EndOfFunction \in 1..(Len(code) + 1) /\ Ends(EndOfFunction)
           /\ InFunction(l, EndOfFunction)
  <1> DEFINE IsEnd(j) == /\ (IF j > Len(code) THEN TRUE ELSE StartsFunction(j))
                         /\ \A i \in pc..(j - 1) : ~StartsFunction(i)
             stops == {j \in pc..(Len(code) + 1) : Ends(j)}
             E == EndOfFunction
  <1>1. Len(code) \in Nat /\ pc \in Nat
    BY DoneFacts
  <1>2. \A j : StartsFunction(j) <=> StartLabel(code[j])
    BY DEF StartsFunction, StartLabel
  <1>3. \E j \in pc..(Len(code) + 1) : IsEnd(j)
    <2>1. Len(code) + 1 \in stops
      BY <1>1 DEF Ends
    <2>2. stops \subseteq Nat
      BY <1>1
    <2>3. PICK j \in stops : \A k \in stops : j <= k
      <3> HIDE DEF stops
      <3> QED
        BY <2>1, <2>2, LeastOf
    <2>4. \A i \in pc..(j - 1) : ~StartsFunction(i)
      <3> SUFFICES ASSUME NEW i \in pc..(j - 1), StartsFunction(i) PROVE FALSE
        OBVIOUS
      <3>1. i \in stops
        BY <1>1, <1>2 DEF Ends
      <3> QED
        BY <1>1, <2>3, <3>1
    <2>5. IF j > Len(code) THEN TRUE ELSE StartsFunction(j)
      BY <1>1, <1>2 DEF Ends
    <2> QED
      BY <2>4, <2>5
  <1>4. E \in pc..(Len(code) + 1) /\ IsEnd(E)
    BY <1>3 DEF EndOfFunction
  <1> HIDE DEF E
  <1>5. Ends(E)
    BY <1>2, <1>4 DEF Ends
  <1>6. PICK e \in 1..(pc - 1) : /\ e \in 1..Len(code) /\ code[e] = Label(l)
                                 /\ \A d \in (e + 1)..(pc - 1) : ~StartLabel(code[d])
    BY DEF InFunction
  <1>7. InFunction(l, E)
    <2>1. e \in 1..(E - 1)
      BY <1>1, <1>4, <1>6
    <2>2. ASSUME NEW d \in (e + 1)..(E - 1) PROVE ~StartLabel(code[d])
      <3>1. d \in (e + 1)..(pc - 1) \/ d \in pc..(E - 1)
        BY <1>1, <1>4, <1>6
      <3> QED
        BY <1>2, <1>4, <1>6, <3>1
    <2> QED
      BY <1>6, <2>1, <2>2 DEF InFunction
  <1> QED
    BY <1>1, <1>4, <1>5, <1>7 DEF E
=============================================================================
