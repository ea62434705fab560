------------------------ MODULE NameResolution_proofs ------------------------
(***************************************************************************)
(* Theorems about NameResolution: type correctness, how the allocator      *)
(* numbers its slots (SlotInv), and, when parameters are not declared      *)
(* again, that the passes agree about names (NameInv).                     *)
(***************************************************************************)
EXTENDS NameResolution, WellFoundedInduction, FiniteSetTheorems, SequenceTheorems,
        TLAPS

-----------------------------------------------------------------------------
(* The innermost scope of a set of scopes.                                 *)

\* A set of naturals has a least element.
LEMMA SmallestOf ==
    ASSUME NEW S, S \subseteq Nat, S # {}
    PROVE  /\ \E m \in S : \A k \in S : m <= k
           /\ (CHOOSE m \in S : \A k \in S : m <= k) \in S
  <1>1. PICK x \in S : \A y \in S : ~ (<<y, x>> \in OpToRel(<, Nat))
    BY NatLessThanWellFounded, WFMin
  <1>2. ASSUME NEW y \in S PROVE x <= y
    <2>1. ~ (y < x)
      BY <1>1 DEF OpToRel
    <2> QED
      BY <2>1
  <1> QED
    BY <1>2

\* Greatest finds the greatest index of a set of indices.
LEMMA GreatestOf ==
    ASSUME NEW n \in Nat, NEW S, S \subseteq 1..n, S # {}
    PROVE  /\ Greatest(S) \in S
           /\ \A k \in S : k <= Greatest(S)
  <1> DEFINE T == {n - k : k \in S}
  <1>1. T \subseteq Nat
    OBVIOUS
  <1>2. T # {}
    <2>1. PICK k \in S : TRUE
      OBVIOUS
    <2>2. n - k \in T
      OBVIOUS
    <2> QED
      BY <2>2
  <1>3. PICK m \in T : \A k \in T : m <= k
    BY <1>1, <1>2, SmallestOf
  <1>4. PICK g \in S : m = n - g
    OBVIOUS
  <1>5. ASSUME NEW k \in S PROVE k <= g
    <2>1. n - g <= n - k
      BY <1>3, <1>4
    <2>2. k \in 1..n /\ g \in 1..n
      OBVIOUS
    <2> QED
      BY <2>1, <2>2
  <1> QED
    BY <1>5 DEF Greatest

-----------------------------------------------------------------------------
(* The operators on the allocator's scopes.                                *)

\* The next free slot is a natural number.
LEMMA NextSlotType ==
    ASSUME NEW s \in Seq(VarScopes)
    PROVE  NextSlot(s) \in Nat
  <1>1. ASSUME s # <<>> PROVE s[Len(s)] \in VarScopes
    BY <1>1
  <1>2. ASSUME s # <<>> PROVE s[Len(s)].next \in Nat
    BY <1>1, <1>2 DEF VarScopes
  <1> QED
    BY <1>2 DEF NextSlot

\* pushScope opens an empty scope that goes on where the last one stands.
LEMMA PushFacts ==
    ASSUME NEW s \in Seq(VarScopes)
    PROVE  /\ PushVarScope(s) \in Seq(VarScopes)
           /\ Len(PushVarScope(s)) = Len(s) + 1
           /\ \A k \in 1..Len(s) : PushVarScope(s)[k] = s[k]
           /\ PushVarScope(s)[Len(s) + 1].next = NextSlot(s)
           /\ VarsOf(PushVarScope(s)[Len(s) + 1]) = {}
  <1> DEFINE new == [vars |-> [n \in Names |-> NoVariable], next |-> NextSlot(s)]
  <1>1. new \in VarScopes
    BY NextSlotType DEF VarScopes, Variables, NoVariable, NoType
  <1>2. VarsOf(new) = {}
    BY DEF VarsOf, NoVariable
  <1>3. PushVarScope(s) = Append(s, new)
    BY DEF PushVarScope
  <1> HIDE DEF new
  <1>4. new.next = NextSlot(s)
    BY DEF new
  <1>5. Append(s, new)[Len(s) + 1] = new
    OBVIOUS
  <1> QED
    BY <1>1, <1>2, <1>3, <1>4, <1>5

\* A sequence without its last element.
LEMMA DropLast ==
    ASSUME NEW S, NEW s \in Seq(S), s # <<>>
    PROVE  /\ SubSeq(s, 1, Len(s) - 1) \in Seq(S)
           /\ Len(SubSeq(s, 1, Len(s) - 1)) = Len(s) - 1
           /\ \A k \in 1..Len(s) - 1 : SubSeq(s, 1, Len(s) - 1)[k] = s[k]
  <1>1. Len(s) \in Nat /\ Len(s) >= 1
    BY EmptySeq, LenProperties
  <1>2. ASSUME NEW k \in 1..Len(s) - 1 PROVE s[k] \in S
    <2>1. k \in 1..Len(s)
      BY <1>1
    <2> QED
      BY <2>1, ElementOfSeq
  <1> DEFINE n == Len(s) - 1
  <1>3. n \in Int /\ n \in Nat /\ 1 \in Int
    BY <1>1
  <1>4. \A k \in 1..n : s[k] \in S
    BY <1>2
  <1> HIDE DEF n
  <1>5. /\ SubSeq(s, 1, n) \in Seq(S)
        /\ Len(SubSeq(s, 1, n)) = IF 1 <= n THEN n - 1 + 1 ELSE 0
        /\ \A k \in 1..(n - 1 + 1) : SubSeq(s, 1, n)[k] = s[1 + k - 1]
    BY <1>3, <1>4, SubSeqProperties
  <1>6. Len(SubSeq(s, 1, n)) = n /\ \A k \in 1..n : SubSeq(s, 1, n)[k] = s[k]
    BY <1>3, <1>5
  <1> QED
    BY <1>5, <1>6 DEF n

\* A sequence with another last element.
LEMMA ReplaceLast ==
    ASSUME NEW S, NEW s \in Seq(S), s # <<>>, NEW e \in S,
           NEW t, t = [s EXCEPT ![Len(s)] = e]
    PROVE  /\ Len(t) = Len(s)
           /\ \A k \in 1..Len(s) - 1 : t[k] = s[k]
           /\ t[Len(s)] = e
  <1>1. Len(s) \in Nat /\ Len(s) \in 1..Len(s)
    BY LenProperties, EmptySeq
  <1> QED
    BY <1>1

\* popScope keeps all scopes but the innermost.
LEMMA PopFacts ==
    ASSUME NEW s \in Seq(VarScopes), s # <<>>
    PROVE  /\ PopVarScope(s) \in Seq(VarScopes)
           /\ Len(PopVarScope(s)) = Len(s) - 1
           /\ \A k \in 1..Len(s) - 1 : PopVarScope(s)[k] = s[k]
  BY SMTT(40), DropLast DEF PopVarScope

\* t is s with the variable created.
CreatedIn(s, t, name, type) ==
    /\ t \in Seq(VarScopes)
    /\ Len(t) = Len(s)
    /\ \A k \in 1..Len(s) - 1 : t[k] = s[k]
    /\ t[Len(s)].next = s[Len(s)].next + 1
    /\ \A n \in Names : t[Len(s)].vars[n] =
          IF n = name THEN Variable(s[Len(s)].next, type) ELSE s[Len(s)].vars[n]
    /\ VarsOf(t[Len(s)]) = VarsOf(s[Len(s)]) \cup {name}

\* createVariable changes one variable of the innermost scope.
LEMMA CreateFacts ==
    ASSUME NEW s \in Seq(VarScopes), s # <<>>,
           NEW name \in Names, NEW type \in Nat \ {0}
    PROVE  CreatedIn(s, CreateVariable(s, name, type), name, type)
  <1> DEFINE top == s[Len(s)]
             new == [vars |-> [top.vars EXCEPT ![name] = Variable(top.next, type)],
                     next |-> top.next + 1]
  <1>1. Len(s) \in 1..Len(s) /\ top \in VarScopes
    OBVIOUS
  <1>2. Variable(top.next, type) \in Variables
    BY <1>1 DEF Variable, Variables, VarScopes
  <1>3. new \in VarScopes
    BY <1>1, <1>2 DEF VarScopes
  <1>4. CreateVariable(s, name, type) = [s EXCEPT ![Len(s)] = new]
    BY DEF CreateVariable, NextSlot
  <1>5. \A n \in Names : new.vars[n] =
            IF n = name THEN Variable(top.next, type) ELSE top.vars[n]
    BY <1>1 DEF VarScopes
  <1>6. VarsOf(new) = VarsOf(top) \cup {name}
    BY <1>5 DEF VarsOf, Variable, NoType
  <1>7. new.next = top.next + 1
    OBVIOUS
  <1> HIDE DEF new
  <1>8. /\ [s EXCEPT ![Len(s)] = new] \in Seq(VarScopes)
        /\ Len([s EXCEPT ![Len(s)] = new]) = Len(s)
        /\ \A k \in 1..Len(s) - 1 : [s EXCEPT ![Len(s)] = new][k] = s[k]
        /\ [s EXCEPT ![Len(s)] = new][Len(s)] = new
    BY <1>1, <1>3
  <1> QED
    BY <1>4, <1>5, <1>6, <1>7, <1>8 DEF CreatedIn

\* The scopes that have a name are scopes.
LEMMA DeclaringFacts ==
    ASSUME NEW s \in Seq(VarScopes), NEW name \in Names, Declaring(s, name) # {}
    PROVE  /\ Greatest(Declaring(s, name)) \in 1..Len(s)
           /\ name \in VarsOf(s[Greatest(Declaring(s, name))])
           /\ \A k \in Declaring(s, name) : k <= Greatest(Declaring(s, name))
  <1>1. Declaring(s, name) \subseteq 1..Len(s) /\ Len(s) \in Nat
    BY DEF Declaring
  <1>2. Greatest(Declaring(s, name)) \in Declaring(s, name)
    BY <1>1, GreatestOf
  <1> QED
    BY <1>1, <1>2, GreatestOf DEF Declaring

\* initialiseVariable initialises the innermost variable of the name and
\* changes nothing else.
LEMMA InitialiseFacts ==
    ASSUME NEW s \in Seq(VarScopes), NEW name \in Names
    PROVE  LET t == InitialiseVariable(s, name) IN
           /\ t \in Seq(VarScopes)
           /\ Len(t) = Len(s)
           /\ \A k \in 1..Len(s) :
                 /\ t[k].next = s[k].next
                 /\ VarsOf(t[k]) = VarsOf(s[k])
                 /\ \A n \in Names :
                       /\ t[k].vars[n].stack = s[k].vars[n].stack
                       /\ t[k].vars[n].typeInfo = s[k].vars[n].typeInfo
                       /\ s[k].vars[n].initialised => t[k].vars[n].initialised
           /\ Declaring(s, name) # {} =>
                 t[Greatest(Declaring(s, name))].vars[name].initialised
  <1>1. CASE Declaring(s, name) = {}
    BY <1>1 DEF InitialiseVariable
  <1>2. CASE Declaring(s, name) # {}
    <2> DEFINE g == Greatest(Declaring(s, name))
    <2>1. g \in 1..Len(s)
      BY <1>2, DeclaringFacts
    <2>2. InitialiseVariable(s, name) = [s EXCEPT ![g].vars[name].initialised = TRUE]
      BY <1>2 DEF InitialiseVariable
    <2> HIDE DEF g
    <2> DEFINE old == s[g]
               new == [old EXCEPT !.vars[name].initialised = TRUE]
    <2>3. old \in VarScopes
      BY <2>1
    <2>4. /\ new \in VarScopes
          /\ new.next = old.next
          /\ \A n \in Names :
                /\ new.vars[n].stack = old.vars[n].stack
                /\ new.vars[n].typeInfo = old.vars[n].typeInfo
                /\ old.vars[n].initialised => new.vars[n].initialised
          /\ new.vars[name].initialised
      BY <2>3 DEF VarScopes, Variables
    <2>5. VarsOf(new) = VarsOf(old)
      BY <2>4 DEF VarsOf
    <2>6. InitialiseVariable(s, name) = [s EXCEPT ![g] = new]
      BY <2>2
    <2> HIDE DEF new
    <2>7. /\ [s EXCEPT ![g] = new] \in Seq(VarScopes)
          /\ Len([s EXCEPT ![g] = new]) = Len(s)
          /\ [s EXCEPT ![g] = new][g] = new
          /\ \A k \in 1..Len(s) : k # g => [s EXCEPT ![g] = new][k] = s[k]
      BY <2>1, <2>4
    <2> DEFINE t == [s EXCEPT ![g] = new]
    <2> HIDE DEF t
    <2>8. ASSUME NEW k \in 1..Len(s)
          PROVE  /\ t[k].next = s[k].next
                 /\ VarsOf(t[k]) = VarsOf(s[k])
                 /\ \A n \in Names :
                       /\ t[k].vars[n].stack = s[k].vars[n].stack
                       /\ t[k].vars[n].typeInfo = s[k].vars[n].typeInfo
                       /\ s[k].vars[n].initialised => t[k].vars[n].initialised
      <3>1. CASE k = g
        BY <3>1, <2>4, <2>5, <2>7 DEF t
      <3>2. CASE k # g
        <4>1. t[k] = s[k]
          BY <3>2, <2>7 DEF t
        <4> QED
          BY <4>1
      <3> QED
        BY <3>1, <3>2
    <2>9. t[g].vars[name].initialised
      BY <2>4, <2>7 DEF t
    <2>10. InitialiseVariable(s, name) = t /\ t \in Seq(VarScopes) /\ Len(t) = Len(s)
      BY <2>6, <2>7 DEF t
    <2> QED
      BY <2>8, <2>9, <2>10 DEF g
  <1> QED
    BY <1>1, <1>2

\* The allocator's lookup yields a declared type or NoType.
LEMMA LookupFacts ==
    ASSUME NEW s \in Seq(VarScopes), NEW name \in Names
    PROVE  LookupType(s, name) \in Nat
  <1>1. CASE Readable(s, name) = {}
    BY <1>1 DEF LookupType, NoType
  <1>2. CASE Readable(s, name) # {}
    <2> DEFINE g == Greatest(Readable(s, name))
    <2>1. Readable(s, name) \subseteq 1..Len(s) /\ Len(s) \in Nat
      BY DEF Readable, Declaring
    <2>2. g \in 1..Len(s)
      BY <1>2, <2>1, GreatestOf
    <2>3. s[g] \in VarScopes
      BY <2>2
    <2>4. s[g].vars[name].typeInfo \in Nat
      BY <2>3 DEF VarScopes, Variables
    <2> QED
      BY <1>2, <2>4 DEF LookupType
  <1> QED
    BY <1>1, <1>2

-----------------------------------------------------------------------------
(* How the operators keep the numbering of the slots.                      *)

\* The numbering is a matter of the next slots, names and slots alone.
LEMMA SameNumbering ==
    ASSUME NEW s, NEW t, Len(t) = Len(s), SlotsNumbered(s),
           \A k \in 1..Len(s) :
                 /\ t[k].next = s[k].next
                 /\ VarsOf(t[k]) = VarsOf(s[k])
                 /\ \A n \in VarsOf(s[k]) : t[k].vars[n].stack = s[k].vars[n].stack
    PROVE  SlotsNumbered(t)
  <1>1. \A k, l \in 1..Len(t) : k <= l => t[k].next <= t[l].next
    BY DEF SlotsNumbered
  <1>2. ASSUME NEW k \in 1..Len(t), NEW n \in VarsOf(t[k])
        PROVE  /\ t[k].vars[n].stack < t[k].next
               /\ \A j \in 1..(k - 1) : t[j].next <= t[k].vars[n].stack
               /\ \A m \in VarsOf(t[k]) : t[k].vars[m].stack = t[k].vars[n].stack => m = n
    BY <1>2 DEF SlotsNumbered
  <1> QED
    BY <1>1, <1>2 DEF SlotsNumbered

\* initialiseVariable does not renumber.
LEMMA InitialiseNumbered ==
    ASSUME NEW s \in Seq(VarScopes), NEW name \in Names, SlotsNumbered(s)
    PROVE  SlotsNumbered(InitialiseVariable(s, name))
  <1> DEFINE t == InitialiseVariable(s, name)
  <1>1. /\ Len(t) = Len(s)
        /\ \A k \in 1..Len(s) :
              /\ t[k].next = s[k].next
              /\ VarsOf(t[k]) = VarsOf(s[k])
              /\ \A n \in Names : t[k].vars[n].stack = s[k].vars[n].stack
    BY InitialiseFacts
  <1>2. \A k \in 1..Len(s) : VarsOf(s[k]) \subseteq Names
    BY DEF VarsOf
  <1> HIDE DEF t
  <1>3. SlotsNumbered(t)
    BY <1>1, <1>2, SameNumbering
  <1> QED
    BY <1>3 DEF t

\* Nor does pushScope: its scope has no variable and goes on.
LEMMA PushNumbered ==
    ASSUME NEW s \in Seq(VarScopes), SlotsNumbered(s)
    PROVE  SlotsNumbered(PushVarScope(s))
  <1> DEFINE t == PushVarScope(s)
             d == Len(s)
  <1>1. /\ t \in Seq(VarScopes) /\ Len(t) = d + 1 /\ d \in Nat
        /\ \A k \in 1..d : t[k] = s[k]
        /\ t[d + 1].next = NextSlot(s)
        /\ VarsOf(t[d + 1]) = {}
    <2>1. d \in Nat
      OBVIOUS
    <2> QED
      BY <2>1, PushFacts, Zenon
  <1>2. ASSUME NEW k \in 1..d PROVE s[k].next <= NextSlot(s)
    <2>1. d \in 1..d /\ k <= d /\ s # <<>>
      BY <1>1
    <2>2. s[k].next <= s[d].next
      BY <2>1 DEF SlotsNumbered
    <2> QED
      BY <2>1, <2>2 DEF NextSlot
  <1>3. NextSlot(s) \in Nat
    BY NextSlotType
  <1> HIDE DEF t
  <1>4. ASSUME NEW k \in 1..Len(t), NEW l \in 1..Len(t), k <= l
        PROVE  t[k].next <= t[l].next
    <2>1. CASE l \in 1..d
      <3>1. k \in 1..d
        BY <1>4, <2>1
      <3> QED
        BY <1>1, <1>4, <2>1, <3>1 DEF SlotsNumbered
    <2>2. CASE l = d + 1
      <3>1. k \in 1..d \/ k = d + 1
        BY <1>1
      <3> QED
        BY <1>1, <1>2, <1>3, <2>2, <3>1
    <2> QED
      BY <1>1, <2>1, <2>2
  <1>5. ASSUME NEW k \in 1..Len(t), NEW n \in VarsOf(t[k])
        PROVE  /\ t[k].vars[n].stack < t[k].next
               /\ \A j \in 1..(k - 1) : t[j].next <= t[k].vars[n].stack
               /\ \A m \in VarsOf(t[k]) : t[k].vars[m].stack = t[k].vars[n].stack => m = n
    <2>1. k \in 1..d
      BY <1>1, <1>5
    <2>2. \A j \in 1..k : t[j] = s[j]
      BY <1>1, <2>1
    <2>3. t[k] = s[k] /\ \A j \in 1..(k - 1) : t[j] = s[j]
      BY <2>1, <2>2
    <2> QED
      BY <2>1, <2>3, <1>5 DEF SlotsNumbered
  <1>6. SlotsNumbered(t)
    BY <1>4, <1>5 DEF SlotsNumbered
  <1> QED
    BY <1>6 DEF t

\* Nor does popScope.
LEMMA PopNumbered ==
    ASSUME NEW s \in Seq(VarScopes), s # <<>>, SlotsNumbered(s)
    PROVE  SlotsNumbered(PopVarScope(s))
  <1> DEFINE t == PopVarScope(s)
  <1>1. Len(t) = Len(s) - 1 /\ Len(s) \in Nat /\ \A k \in 1..Len(t) : t[k] = s[k]
    BY PopFacts
  <1> HIDE DEF t
  <1>2. \A k, l \in 1..Len(t) : k <= l => t[k].next <= t[l].next
    BY <1>1 DEF SlotsNumbered
  <1>3. ASSUME NEW k \in 1..Len(t), NEW n \in VarsOf(t[k])
        PROVE  /\ t[k].vars[n].stack < t[k].next
               /\ \A j \in 1..(k - 1) : t[j].next <= t[k].vars[n].stack
               /\ \A m \in VarsOf(t[k]) : t[k].vars[m].stack = t[k].vars[n].stack => m = n
    <2>1. t[k] = s[k] /\ k \in 1..Len(s) /\ \A j \in 1..(k - 1) : t[j] = s[j]
      BY <1>1
    <2> QED
      BY <2>1, <1>3 DEF SlotsNumbered
  <1>4. SlotsNumbered(t)
    BY <1>2, <1>3 DEF SlotsNumbered
  <1> QED
    BY <1>4 DEF t

\* createVariable takes the next slot, which nobody has.
LEMMA CreateNumbered ==
    ASSUME NEW s \in Seq(VarScopes), s # <<>>, SlotsNumbered(s),
           NEW name \in Names, NEW type \in Nat \ {0}
    PROVE  SlotsNumbered(CreateVariable(s, name, type))
  <1> DEFINE t == CreateVariable(s, name, type)
             d == Len(s)
             slot == s[d].next
  <1>1. /\ t \in Seq(VarScopes) /\ Len(t) = d /\ d \in Nat /\ d >= 1
        /\ \A k \in 1..d - 1 : t[k] = s[k]
        /\ t[d].next = slot + 1
        /\ \A n \in Names : t[d].vars[n] =
              IF n = name THEN Variable(slot, type) ELSE s[d].vars[n]
        /\ VarsOf(t[d]) = VarsOf(s[d]) \cup {name}
    <2>1. d \in Nat /\ d >= 1
      OBVIOUS
    <2>2. CreatedIn(s, t, name, type)
      BY CreateFacts
    <2> HIDE DEF t
    <2> QED
      BY <2>1, <2>2 DEF CreatedIn
  <1>2. \A k \in 1..d : s[k] \in VarScopes
    BY <1>1
  <1>3. \A k \in 1..d : s[k].next \in Nat
    BY <1>2 DEF VarScopes
  <1>4. \A k \in 1..d : \A n \in Names : s[k].vars[n].stack \in Nat
    BY <1>2 DEF VarScopes, Variables
  <1>5. t[d].vars[name].stack = slot
    BY <1>1 DEF Variable
  <1>6. \A n \in VarsOf(s[d]) : n # name => t[d].vars[n].stack = s[d].vars[n].stack
    BY <1>1 DEF VarsOf
  <1>7. \A k \in 1..d : VarsOf(s[k]) \subseteq Names
    BY DEF VarsOf
  <1> HIDE DEF t
  <1>8. ASSUME NEW k \in 1..Len(t), NEW l \in 1..Len(t), k <= l
        PROVE  t[k].next <= t[l].next
    <2>1. s[k].next <= s[l].next
      BY <1>1, <1>8 DEF SlotsNumbered
    <2>2. s[l].next <= t[l].next /\ (k # l => t[k].next = s[k].next)
      BY SMTT(40), <1>1, <1>3, <1>8
    <2> QED
      BY SMTT(40), <1>1, <1>3, <2>1, <2>2
  <1>9. ASSUME NEW k \in 1..Len(t), NEW n \in VarsOf(t[k])
        PROVE  /\ t[k].vars[n].stack < t[k].next
               /\ \A j \in 1..(k - 1) : t[j].next <= t[k].vars[n].stack
               /\ \A m \in VarsOf(t[k]) : t[k].vars[m].stack = t[k].vars[n].stack => m = n
    <2>1. \A j \in 1..(k - 1) : j \in 1..d /\ t[j] = s[j] /\ s[j].next <= s[k].next
      BY <1>1 DEF SlotsNumbered
    <2>2. CASE k # d
      <3>1. k \in 1..d /\ t[k] = s[k]
        BY <1>1, <2>2
      <3> QED
        BY <2>1, <3>1, <1>9 DEF SlotsNumbered
    <2>3. CASE k = d /\ n = name
      <3>1. t[k].vars[n].stack = slot /\ t[k].next = slot + 1 /\ slot \in Nat
        BY <1>1, <1>3, <1>5, <2>3
      <3>2. \A j \in 1..(k - 1) : t[j].next <= slot
        BY <2>1, <2>3
      <3>3. ASSUME NEW m \in VarsOf(t[k]), m # name PROVE t[k].vars[m].stack < slot
        <4>1. m \in VarsOf(s[d]) /\ d \in 1..Len(s)
          BY <1>1, <2>3, <3>3
        <4> QED
          BY <1>6, <2>3, <3>3, <4>1 DEF SlotsNumbered
      <3> QED
        BY <2>3, <3>1, <3>2, <3>3
    <2>4. CASE k = d /\ n # name
      <3>1. n \in VarsOf(s[d]) /\ d \in 1..Len(s)
        BY <1>1, <1>9, <2>4
      <3>2. t[d].vars[n].stack = s[d].vars[n].stack
        BY <1>6, <2>4, <3>1
      <3>3. /\ s[d].vars[n].stack < slot
            /\ \A j \in 1..(d - 1) : s[j].next <= s[d].vars[n].stack
            /\ \A m \in VarsOf(s[d]) : s[d].vars[m].stack = s[d].vars[n].stack => m = n
        BY <3>1 DEF SlotsNumbered
      <3>4. slot \in Nat /\ s[d].vars[n].stack \in Nat
        BY <1>3, <1>4, <1>7, <3>1
      <3>5. ASSUME NEW m \in VarsOf(t[d]), t[d].vars[m].stack = t[d].vars[n].stack
            PROVE  m = n
        <4>1. m # name
          BY <1>5, <3>2, <3>3, <3>4, <3>5
        <4>2. m \in VarsOf(s[d])
          BY <1>1, <3>5, <4>1
        <4> QED
          BY <1>6, <3>2, <3>3, <3>5, <4>1, <4>2
      <3>6. t[d].vars[n].stack < t[d].next
        BY <1>1, <3>2, <3>3, <3>4
      <3>7. \A j \in 1..(d - 1) : t[j].next <= t[d].vars[n].stack
        BY <2>1, <2>4, <3>2, <3>3
      <3> QED
        BY <2>4, <3>5, <3>6, <3>7
    <2> QED
      BY <2>2, <2>3, <2>4
  <1>10. SlotsNumbered(t)
    BY <1>8, <1>9 DEF SlotsNumbered
  <1> QED
    BY <1>10 DEF t

-----------------------------------------------------------------------------
(* The state, in the terms the steps need.                                 *)

\* While a body is walked, its scopes are open in all three passes.
LEMMA BodyFacts ==
    ASSUME SlotInv, stage \in {"func", "main"}
    PROVE  /\ types # <<>> /\ frameNames # <<>> /\ scope # <<>>
           /\ Len(types) \in Nat /\ Len(types) >= 1 /\ Len(frameNames) = Len(types)
           /\ Len(scope) \in Nat /\ Len(types) < Len(scope)
           /\ Base \in Nat /\ Base >= 1 /\ Base = Len(scope) - Len(types)
  <1>1. types # <<>>
    BY DEF SlotInv, BodyOpen
  <1>2. /\ Len(types) \in Nat /\ Len(frameNames) = Len(types)
        /\ Len(scope) \in Nat /\ Len(types) < Len(scope)
    BY <1>1, LenProperties DEF SlotInv, TypeOK
  <1>3. Len(types) >= 1
    BY <1>1, <1>2, EmptySeq DEF SlotInv, TypeOK
  <1>4. frameNames # <<>> /\ scope # <<>>
    BY <1>2, <1>3, EmptySeq
  <1>5. Base \in Nat /\ Base >= 1
    BY <1>2 DEF Base
  <1> QED
    BY <1>1, <1>2, <1>3, <1>4, <1>5 DEF Base

\* The checker's lookup yields a declared type or NoType.
LEMMA CheckedFacts ==
    ASSUME TypeOK, NEW name \in Names
    PROVE  CheckedType(name) \in Nat
  <1> DEFINE scopes == {k \in 1..Len(types) : types[k][name] # NoType}
             named  == {i \in 1..Len(params) : params[i].name = name}
  <1>1. types \in Seq([Names -> Nat]) /\ Len(types) \in Nat /\ Len(params) \in Nat
    BY LenProperties DEF TypeOK
  <1>2. CASE scopes # {}
    <2>1. Greatest(scopes) \in scopes
      BY <1>1, <1>2, GreatestOf
    <2>2. types[Greatest(scopes)] \in [Names -> Nat]
      BY <1>1, <2>1, ElementOfSeq
    <2>3. types[Greatest(scopes)][name] \in Nat
      BY <2>2
    <2> QED
      BY <1>2, <2>3 DEF CheckedType
  <1>3. CASE scopes = {} /\ named # {}
    <2> DEFINE first == CHOOSE i \in named : \A j \in named : i <= j
    <2>1. named \subseteq Nat
      BY <1>1
    <2>2. first \in named
      <3> HIDE DEF named
      <3> QED
        BY <1>3, <2>1, SmallestOf
    <2>3. first \in 1..Len(params)
      BY <2>2
    <2> HIDE DEF first
    <2>4. params[first] \in [name : Names, type : Nat \ {0}]
      BY ZenonT(60), <2>3, ElementOfSeq DEF TypeOK
    <2>5. params[first].type \in Nat
      BY <2>4
    <2> QED
      BY <1>3, <2>5 DEF CheckedType, first
  <1>4. CASE scopes = {} /\ named = {}
    BY <1>4 DEF CheckedType, NoType
  <1> QED
    BY <1>2, <1>3, <1>4

\* What both lookups yield is a record of a use.
LEMMA ResolveFacts ==
    ASSUME TypeOK, NEW s \in Seq(VarScopes), NEW used \in SUBSET Names
    PROVE  Resolve(s, used) \subseteq UseRecords
  <1>1. ASSUME NEW n \in used
        PROVE  Use(n, CheckedType(n), LookupType(s, n)) \in UseRecords
    BY CheckedFacts, LookupFacts DEF Use, UseRecords
  <1> QED
    BY <1>1 DEF Resolve

-----------------------------------------------------------------------------
(* SlotInv: the numbering and the leftovers survive every step.            *)

\* The leftovers are left alone by a step that changes neither names nor
\* slots below the innermost scope.
LEMMA LeftoversKept ==
    ASSUME LeftoversEmpty, Base' = Base,
           \A k \in 1..Base : /\ scope'[k].next = scope[k].next
                              /\ VarsOf(scope'[k]) = VarsOf(scope[k])
    PROVE  LeftoversEmpty'
  BY DEF LeftoversEmpty

\* A declaration with its initialisation, as one step on the scopes.
LEMMA DeclareFacts ==
    ASSUME NEW s \in Seq(VarScopes), s # <<>>, SlotsNumbered(s),
           NEW name \in Names, NEW type \in Nat \ {0}
    PROVE  LET s1 == CreateVariable(s, name, type)
               s2 == InitialiseVariable(s1, name)
           IN  /\ s1 \in Seq(VarScopes)
               /\ s2 \in Seq(VarScopes)
               /\ Len(s2) = Len(s)
               /\ SlotsNumbered(s2)
               /\ \A k \in 1..Len(s) - 1 : /\ s2[k].next = s[k].next
                                          /\ VarsOf(s2[k]) = VarsOf(s[k])
  <1> DEFINE s1 == CreateVariable(s, name, type)
             s2 == InitialiseVariable(s1, name)
  <1>1. /\ s1 \in Seq(VarScopes) /\ Len(s1) = Len(s)
        /\ \A k \in 1..Len(s) - 1 : s1[k] = s[k]
    BY CreateFacts DEF CreatedIn
  <1>2. SlotsNumbered(s1)
    BY CreateNumbered
  <1> HIDE DEF s1
  <1>3. /\ s2 \in Seq(VarScopes) /\ Len(s2) = Len(s1)
        /\ \A k \in 1..Len(s1) : s2[k].next = s1[k].next /\ VarsOf(s2[k]) = VarsOf(s1[k])
    BY ZenonT(60), <1>1, InitialiseFacts
  <1>4. SlotsNumbered(s2)
    BY <1>1, <1>2, InitialiseNumbered
  <1> HIDE DEF s2
  <1>5. \A k \in 1..Len(s) - 1 : s2[k].next = s[k].next /\ VarsOf(s2[k]) = VarsOf(s[k])
    <2>1. Len(s) \in Nat
      OBVIOUS
    <2> QED
      BY <1>1, <1>3, <2>1
  <1> QED
    BY <1>1, <1>3, <1>4, <1>5 DEF s1, s2

\* A parameter is declared at the top of its function's scope.
LEMMA DeclareParamSlots ==
    ASSUME SlotInv, DeclareParam
    PROVE  SlotInv'
  <1> DEFINE p  == params[moved + 1]
             s1 == CreateVariable(scope, p.name, p.type)
             s2 == InitialiseVariable(s1, p.name)
  <1>1. /\ stage = "func" /\ types # <<>> /\ frameNames # <<>> /\ scope # <<>>
        /\ Len(types) \in Nat /\ Len(types) >= 1 /\ Len(frameNames) = Len(types)
        /\ Len(scope) \in Nat /\ Len(types) < Len(scope)
        /\ Base \in Nat /\ Base = Len(scope) - Len(types)
    BY BodyFacts DEF DeclareParam
  <1>2. moved \in Nat /\ moved < Len(params) /\ Len(params) \in Nat
    BY LenProperties DEF SlotInv, TypeOK, DeclareParam
  <1>3. p \in [name : Names, type : Nat \ {0}]
    <2>1. moved + 1 \in 1..Len(params)
      BY <1>2
    <2> QED
      BY ZenonT(60), <2>1, ElementOfSeq DEF SlotInv, TypeOK
  <1>4. p.name \in Names /\ p.type \in Nat \ {0}
    BY <1>3
  <1>5. /\ scope' = s2 /\ moved' = moved + 1
        /\ frameNames' = [frameNames EXCEPT ![1] = @ \cup {p.name}]
        /\ uses' = {Use(p.name, p.type, LookupType(s2, p.name))}
        /\ stage' \in {stage, "panic"}
        /\ types' = types /\ params' = params /\ decls' = decls /\ funcs' = funcs
    BY DEF DeclareParam, Record
  <1> HIDE DEF p
  <1>6. /\ s2 \in Seq(VarScopes) /\ Len(s2) = Len(scope) /\ SlotsNumbered(s2)
        /\ \A k \in 1..Len(scope) - 1 : /\ s2[k].next = scope[k].next
                                       /\ VarsOf(s2[k]) = VarsOf(scope[k])
    BY <1>1, <1>4, DeclareFacts DEF SlotInv, TypeOK
  <1> HIDE DEF s1, s2
  <1>7. TypeOK'
    <2>1. frameNames' \in Seq(SUBSET Names) /\ Len(frameNames') = Len(frameNames)
      BY <1>1, <1>4, <1>5 DEF SlotInv, TypeOK
    <2>2. uses' \subseteq UseRecords
      BY <1>4, <1>5, <1>6, LookupFacts DEF Use, UseRecords
    <2>3. moved' \in 0..Len(params')
      BY <1>2, <1>5
    <2>4. stage' \in {"between", "func", "main", "done", "panic"}
      BY <1>5 DEF SlotInv, TypeOK
    <2> QED
      BY <1>5, <1>6, <2>1, <2>2, <2>3, <2>4 DEF SlotInv, TypeOK
  <1>8. BodyOpen'
    BY <1>1, <1>5 DEF BodyOpen
  <1>9. LeftoversEmpty'
    <2>1. Base' = Base
      BY <1>5, <1>6 DEF Base
    <2>2. \A k \in 1..Base : k \in 1..Len(scope) - 1
      BY <1>1
    <2> QED
      BY <1>5, <1>6, <2>1, <2>2, LeftoversKept DEF SlotInv
  <1> QED
    BY <1>5, <1>6, <1>7, <1>8, <1>9 DEF SlotInv

\* A declaration takes the next slot of the innermost scope.
LEMMA DeclStmtSlots ==
    ASSUME SlotInv, NEW name \in Names, NEW used \in SUBSET Names, DeclStmt(name, used)
    PROVE  SlotInv'
  <1> DEFINE s1 == CreateVariable(scope, name, decls + 1)
             s2 == InitialiseVariable(s1, name)
  <1>1. /\ types # <<>> /\ frameNames # <<>> /\ scope # <<>>
        /\ Len(types) \in Nat /\ Len(types) >= 1 /\ Len(frameNames) = Len(types)
        /\ Len(scope) \in Nat /\ Len(types) < Len(scope)
        /\ Base \in Nat /\ Base = Len(scope) - Len(types)
    BY BodyFacts DEF DeclStmt, InBody
  <1>2. decls \in Nat /\ decls + 1 \in Nat \ {0}
    BY DEF SlotInv, TypeOK
  <1>3. /\ scope' = s2
        /\ types' = [types EXCEPT ![Len(types)][name] = decls + 1]
        /\ frameNames' = [frameNames EXCEPT ![Len(frameNames)] = @ \cup {name}]
        /\ uses' = Resolve(s1, used) \cup {Use(name, decls + 1, LookupType(s2, name))}
        /\ stage' \in {stage, "panic"} /\ stage \in {"func", "main"}
        /\ params' = params /\ moved' = moved /\ decls' = decls + 1 /\ funcs' = funcs
    BY DEF DeclStmt, InBody, Record
  <1>4. /\ s1 \in Seq(VarScopes)
        /\ s2 \in Seq(VarScopes) /\ Len(s2) = Len(scope) /\ SlotsNumbered(s2)
        /\ \A k \in 1..Len(scope) - 1 : /\ s2[k].next = scope[k].next
                                       /\ VarsOf(s2[k]) = VarsOf(scope[k])
    BY <1>1, <1>2, DeclareFacts DEF SlotInv, TypeOK
  <1> HIDE DEF s1, s2
  <1>5. types' \in Seq([Names -> Nat]) /\ Len(types') = Len(types)
    BY <1>1, <1>2, <1>3 DEF SlotInv, TypeOK
  <1>6. TypeOK'
    <2>1. frameNames' \in Seq(SUBSET Names) /\ Len(frameNames') = Len(frameNames)
      BY <1>1, <1>3 DEF SlotInv, TypeOK
    <2>2. uses' \subseteq UseRecords
      <3>1. Resolve(s1, used) \subseteq UseRecords
        BY <1>4, ResolveFacts DEF SlotInv
      <3>2. Use(name, decls + 1, LookupType(s2, name)) \in UseRecords
        BY <1>2, <1>4, LookupFacts DEF Use, UseRecords
      <3> QED
        BY <1>3, <3>1, <3>2
    <2>3. stage' \in {"between", "func", "main", "done", "panic"}
      BY <1>3
    <2> QED
      BY <1>1, <1>2, <1>3, <1>4, <1>5, <2>1, <2>2, <2>3 DEF SlotInv, TypeOK
  <1>7. BodyOpen'
    <2>1. types' # <<>>
      BY <1>1, <1>5, EmptySeq
    <2> QED
      BY <1>3, <2>1 DEF BodyOpen, SlotInv
  <1>8. LeftoversEmpty'
    <2>1. Base' = Base
      BY <1>3, <1>4, <1>5 DEF Base
    <2>2. \A k \in 1..Base : k \in 1..Len(scope) - 1
      BY <1>1
    <2> QED
      BY <1>3, <1>4, <2>1, <2>2, LeftoversKept DEF SlotInv
  <1> QED
    BY <1>3, <1>4, <1>6, <1>7, <1>8 DEF SlotInv

\* An assignment renumbers nothing.
LEMMA AssignStmtSlots ==
    ASSUME SlotInv, NEW name \in Names, NEW used \in SUBSET Names, AssignStmt(name, used)
    PROVE  SlotInv'
  <1> DEFINE s1 == InitialiseVariable(scope, name)
  <1>1. /\ Len(types) \in Nat /\ Len(scope) \in Nat /\ Len(types) < Len(scope) /\ types # <<>>
        /\ Base \in Nat /\ Base = Len(scope) - Len(types)
    BY BodyFacts DEF AssignStmt, InBody
  <1>2. /\ scope' = s1
        /\ uses' = Resolve(scope, used) \cup Resolve(s1, {name})
        /\ stage' \in {stage, "panic"} /\ stage \in {"func", "main"}
        /\ types' = types /\ params' = params /\ moved' = moved /\ frameNames' = frameNames
        /\ decls' = decls /\ funcs' = funcs
    BY DEF AssignStmt, InBody, Record
  <1>3. /\ s1 \in Seq(VarScopes) /\ Len(s1) = Len(scope) /\ SlotsNumbered(s1)
        /\ \A k \in 1..Len(scope) : /\ s1[k].next = scope[k].next
                                   /\ VarsOf(s1[k]) = VarsOf(scope[k])
    BY InitialiseFacts, InitialiseNumbered DEF SlotInv, TypeOK
  <1> HIDE DEF s1
  <1>4. TypeOK'
    <2>1. uses' \subseteq UseRecords
      <3>1. Resolve(scope, used) \subseteq UseRecords
        BY ResolveFacts DEF SlotInv, TypeOK
      <3>2. Resolve(s1, {name}) \subseteq UseRecords
        BY <1>3, ResolveFacts DEF SlotInv
      <3> QED
        BY <1>2, <3>1, <3>2
    <2> QED
      BY <1>2, <1>3, <2>1 DEF SlotInv, TypeOK
  <1>5. BodyOpen'
    BY <1>1, <1>2 DEF BodyOpen, SlotInv
  <1>6. LeftoversEmpty'
    <2>1. Base' = Base
      BY <1>2, <1>3 DEF Base
    <2>2. \A k \in 1..Base : k \in 1..Len(scope)
      BY <1>1
    <2> QED
      BY <1>2, <1>3, <2>1, <2>2, LeftoversKept DEF SlotInv
  <1> QED
    BY <1>2, <1>3, <1>4, <1>5, <1>6 DEF SlotInv

\* A statement that only reads changes no scope.
LEMMA UseStmtSlots ==
    ASSUME SlotInv, NEW used \in SUBSET Names, UseStmt(used)
    PROVE  SlotInv'
  <1>1. /\ uses' = Resolve(scope, used)
        /\ stage' \in {stage, "panic"} /\ stage \in {"func", "main"}
        /\ types' = types /\ params' = params /\ moved' = moved /\ frameNames' = frameNames
        /\ scope' = scope /\ decls' = decls /\ funcs' = funcs
    BY DEF UseStmt, InBody, Record
  <1>2. uses' \subseteq UseRecords
    BY <1>1, ResolveFacts DEF SlotInv, TypeOK
  <1>3. TypeOK'
    BY <1>1, <1>2 DEF SlotInv, TypeOK
  <1>4. BodyOpen'
    BY <1>1, BodyFacts DEF BodyOpen, SlotInv
  <1>5. LeftoversEmpty'
    BY <1>1 DEF SlotInv, LeftoversEmpty, Base
  <1> QED
    BY <1>1, <1>3, <1>4, <1>5 DEF SlotInv

\* A block opens a scope in each pass.
LEMMA BlockBeginSlots ==
    ASSUME SlotInv, NEW used \in SUBSET Names, BlockBegin(used)
    PROVE  SlotInv'
  <1>1. /\ Len(types) \in Nat /\ Len(scope) \in Nat /\ Len(types) < Len(scope)
        /\ Len(frameNames) = Len(types)
        /\ Base \in Nat /\ Base = Len(scope) - Len(types)
    BY BodyFacts DEF BlockBegin, InBody
  <1>2. /\ uses' = Resolve(scope, used)
        /\ stage' \in {stage, "panic"} /\ stage \in {"func", "main"}
        /\ types' = Append(types, EmptyMap) /\ frameNames' = Append(frameNames, {})
        /\ scope' = PushVarScope(scope)
        /\ params' = params /\ moved' = moved /\ decls' = decls /\ funcs' = funcs
    BY DEF BlockBegin, InBody, Record
  <1>3. /\ scope' \in Seq(VarScopes) /\ Len(scope') = Len(scope) + 1
        /\ \A k \in 1..Len(scope) : scope'[k] = scope[k]
        /\ SlotsNumbered(scope')
    BY <1>2, PushFacts, PushNumbered DEF SlotInv, TypeOK
  <1>4. /\ types' \in Seq([Names -> Nat]) /\ Len(types') = Len(types) + 1
        /\ frameNames' \in Seq(SUBSET Names) /\ Len(frameNames') = Len(frameNames) + 1
    <2>1. EmptyMap \in [Names -> Nat]
      BY DEF EmptyMap, NoType
    <2> QED
      BY <1>2, <2>1, AppendProperties DEF SlotInv, TypeOK
  <1>5. TypeOK'
    <2>1. uses' \subseteq UseRecords
      BY <1>2, ResolveFacts DEF SlotInv, TypeOK
    <2> QED
      BY <1>1, <1>2, <1>3, <1>4, <2>1 DEF SlotInv, TypeOK
  <1>6. BodyOpen'
    <2>1. types' # <<>>
      BY <1>1, <1>4, EmptySeq
    <2> QED
      BY <1>2, <2>1 DEF BodyOpen, SlotInv
  <1>7. LeftoversEmpty'
    <2>1. Base' = Base
      BY <1>1, <1>3, <1>4 DEF Base
    <2>2. \A k \in 1..Base : k \in 1..Len(scope)
      BY <1>1
    <2> QED
      BY <1>3, <2>1, <2>2, LeftoversKept DEF SlotInv
  <1> QED
    BY <1>3, <1>5, <1>6, <1>7 DEF SlotInv

\* A block closes it in each pass.
LEMMA BlockEndSlots ==
    ASSUME SlotInv, BlockEnd
    PROVE  SlotInv'
  <1>1. /\ Len(types) \in Nat /\ Len(scope) \in Nat /\ Len(types) < Len(scope)
        /\ Len(types) > 1 /\ types # <<>> /\ frameNames # <<>> /\ scope # <<>>
        /\ Len(frameNames) = Len(types)
        /\ Base \in Nat /\ Base = Len(scope) - Len(types)
    BY BodyFacts DEF BlockEnd, InBody
  <1>2. /\ uses' = {} /\ stage' = stage /\ stage \in {"func", "main"}
        /\ types' = SubSeq(types, 1, Len(types) - 1)
        /\ frameNames' = SubSeq(frameNames, 1, Len(frameNames) - 1)
        /\ scope' = PopVarScope(scope)
        /\ params' = params /\ moved' = moved /\ decls' = decls /\ funcs' = funcs
    BY DEF BlockEnd, InBody
  <1>3. /\ scope' \in Seq(VarScopes) /\ Len(scope') = Len(scope) - 1
        /\ \A k \in 1..Len(scope) - 1 : scope'[k] = scope[k]
        /\ SlotsNumbered(scope')
    BY <1>1, <1>2, PopFacts, PopNumbered DEF SlotInv, TypeOK
  <1>4. /\ types' \in Seq([Names -> Nat]) /\ Len(types') = Len(types) - 1
        /\ frameNames' \in Seq(SUBSET Names) /\ Len(frameNames') = Len(frameNames) - 1
    BY <1>1, <1>2, DropLast DEF SlotInv, TypeOK
  <1>5. TypeOK'
    BY SMTT(40), <1>1, <1>2, <1>3, <1>4 DEF SlotInv, TypeOK
  <1>6. BodyOpen'
    <2>1. types' # <<>>
      BY <1>1, <1>4, EmptySeq
    <2> QED
      BY <1>2, <2>1 DEF BodyOpen, SlotInv
  <1>7. LeftoversEmpty'
    <2>1. Base' = Base
      BY <1>1, <1>3, <1>4 DEF Base
    <2>2. \A k \in 1..Base : k \in 1..Len(scope) - 1
      BY <1>1
    <2> QED
      BY <1>3, <2>1, <2>2, LeftoversKept DEF SlotInv
  <1> QED
    BY <1>3, <1>5, <1>6, <1>7 DEF SlotInv

\* Between functions the allocator's scopes are all leftovers, so the two
\* scopes of a function or of main start from slot 0.
LEMMA PushTwiceFacts ==
    ASSUME SlotInv, types = <<>>
    PROVE  LET t == PushVarScope(PushVarScope(scope)) IN
           /\ t \in Seq(VarScopes)
           /\ Len(t) = Len(scope) + 2 /\ Len(scope) \in Nat
           /\ SlotsNumbered(t)
           /\ \A k \in 1..Len(t) : VarsOf(t[k]) = {} /\ t[k].next = 0
  <1> DEFINE s1 == PushVarScope(scope)
             s2 == PushVarScope(s1)
  <1>1. /\ s1 \in Seq(VarScopes) /\ Len(s1) = Len(scope) + 1
        /\ \A k \in 1..Len(scope) : s1[k] = scope[k]
        /\ s1[Len(scope) + 1].next = NextSlot(scope)
        /\ VarsOf(s1[Len(scope) + 1]) = {}
        /\ SlotsNumbered(s1)
    BY PushFacts, PushNumbered DEF SlotInv, TypeOK
  <1> HIDE DEF s1
  <1>2. /\ s2 \in Seq(VarScopes) /\ Len(s2) = Len(s1) + 1
        /\ \A k \in 1..Len(s1) : s2[k] = s1[k]
        /\ s2[Len(s1) + 1].next = NextSlot(s1)
        /\ VarsOf(s2[Len(s1) + 1]) = {}
        /\ SlotsNumbered(s2)
    BY <1>1, PushFacts, PushNumbered
  <1> HIDE DEF s2
  <1>3. Len(scope) \in Nat /\ Len(types) = 0 /\ Base = Len(scope)
    BY LenProperties, EmptySeq DEF SlotInv, TypeOK, Base
  <1>4. \A k \in 1..Len(scope) : VarsOf(scope[k]) = {} /\ scope[k].next = 0
    BY <1>3 DEF SlotInv, LeftoversEmpty
  <1>5. NextSlot(scope) = 0
    <2>1. CASE scope # <<>>
      <3>1. Len(scope) \in 1..Len(scope)
        BY <1>3, <2>1, EmptySeq DEF SlotInv, TypeOK
      <3> QED
        BY <1>4, <2>1, <3>1 DEF NextSlot
    <2> QED
      BY <2>1 DEF NextSlot
  <1>6. \A k \in 1..Len(s1) : VarsOf(s1[k]) = {} /\ s1[k].next = 0
    BY SMTT(40), <1>1, <1>3, <1>4, <1>5
  <1>7. NextSlot(s1) = 0
    <2>1. Len(s1) \in 1..Len(s1) /\ s1 # <<>>
      BY <1>1, <1>3, EmptySeq
    <2> QED
      BY <1>6, <2>1 DEF NextSlot
  <1>8. \A k \in 1..Len(s2) : VarsOf(s2[k]) = {} /\ s2[k].next = 0
    BY <1>1, <1>2, <1>3, <1>6, <1>7
  <1> QED
    BY <1>1, <1>2, <1>3, <1>8 DEF s1, s2

\* A function starts with empty scopes and its parameters.
LEMMA BeginFunctionSlots ==
    ASSUME SlotInv, NEW names \in ParamNames, BeginFunction(names)
    PROVE  SlotInv'
  <1>1. types = <<>> /\ Len(types) = 0
    BY EmptySeq DEF SlotInv, BodyOpen, BeginFunction
  <1>2. /\ types' = <<EmptyMap>> /\ frameNames' = <<{}>> /\ moved' = 0
        /\ params' = [i \in 1..Len(names) |-> [name |-> names[i], type |-> decls + i]]
        /\ scope' = PushVarScope(PushVarScope(scope))
        /\ decls' = decls + Len(names) /\ funcs' = funcs + 1
        /\ stage' = "func" /\ uses' = {}
    BY DEF BeginFunction
  <1>3. /\ scope' \in Seq(VarScopes) /\ Len(scope') = Len(scope) + 2 /\ Len(scope) \in Nat
        /\ SlotsNumbered(scope')
        /\ \A k \in 1..Len(scope') : VarsOf(scope'[k]) = {} /\ scope'[k].next = 0
    BY <1>1, <1>2, PushTwiceFacts
  <1>4. PICK k \in 0..MaxParams : names \in [1..k -> Names]
    BY DEF ParamNames
  <1>5. k \in Nat /\ names \in Seq(Names) /\ Len(names) = k
    BY <1>4, NameBoundsAssumption
  <1>6. TypeOK'
    <2>1. EmptyMap \in [Names -> Nat]
      BY DEF EmptyMap, NoType
    <2>2. /\ types' \in Seq([Names -> Nat]) /\ Len(types') = 1
          /\ frameNames' \in Seq(SUBSET Names) /\ Len(frameNames') = 1
      BY <1>2, <2>1
    <2>3. params' \in Seq([name : Names, type : Nat \ {0}]) /\ Len(params') \in Nat
      <3>1. \A i \in 1..k : [name |-> names[i], type |-> decls + i]
                                \in [name : Names, type : Nat \ {0}]
        BY <1>4, <1>5 DEF SlotInv, TypeOK
      <3> QED
        BY <1>2, <1>5, <3>1
    <2>4. decls' \in Nat /\ funcs' \in Nat
      BY <1>2, <1>5 DEF SlotInv, TypeOK
    <2> QED
      BY <1>2, <1>3, <2>2, <2>3, <2>4 DEF TypeOK
  <1>7. Len(types') = 1 /\ types' # <<>>
    BY <1>2
  <1>8. BodyOpen'
    BY <1>2, <1>7 DEF BodyOpen
  <1>9. LeftoversEmpty'
    <2>1. \A j \in 1..Base' : j \in 1..Len(scope')
      BY <1>3, <1>7 DEF Base
    <2> QED
      BY <1>3, <2>1 DEF LeftoversEmpty
  <1> QED
    BY <1>3, <1>6, <1>8, <1>9 DEF SlotInv

\* main starts with empty scopes.
LEMMA BeginMainSlots ==
    ASSUME SlotInv, BeginMain
    PROVE  SlotInv'
  <1>1. types = <<>> /\ params = <<>>
    BY DEF SlotInv, BodyOpen, BeginMain
  <1>2. /\ types' = <<EmptyMap>> /\ frameNames' = <<{}>> /\ moved' = moved
        /\ params' = params /\ scope' = PushVarScope(PushVarScope(scope))
        /\ decls' = decls /\ funcs' = funcs /\ stage' = "main" /\ uses' = {}
    BY DEF BeginMain
  <1>3. /\ scope' \in Seq(VarScopes) /\ Len(scope') = Len(scope) + 2 /\ Len(scope) \in Nat
        /\ SlotsNumbered(scope')
        /\ \A k \in 1..Len(scope') : VarsOf(scope'[k]) = {} /\ scope'[k].next = 0
    BY <1>1, <1>2, PushTwiceFacts
  <1>4. TypeOK'
    <2>1. EmptyMap \in [Names -> Nat]
      BY DEF EmptyMap, NoType
    <2>2. /\ types' \in Seq([Names -> Nat]) /\ Len(types') = 1
          /\ frameNames' \in Seq(SUBSET Names) /\ Len(frameNames') = 1
      BY <1>2, <2>1
    <2> QED
      BY <1>2, <1>3, <2>2 DEF SlotInv, TypeOK
  <1>5. Len(types') = 1 /\ types' # <<>>
    BY <1>2
  <1>6. BodyOpen'
    BY <1>1, <1>2, <1>5 DEF BodyOpen
  <1>7. LeftoversEmpty'
    <2>1. \A j \in 1..Base' : j \in 1..Len(scope')
      BY <1>3, <1>5 DEF Base
    <2> QED
      BY <1>3, <2>1 DEF LeftoversEmpty
  <1> QED
    BY <1>3, <1>4, <1>6, <1>7 DEF SlotInv

\* A function or main ends with one scope of the allocator too many, and that
\* one is empty.
LEMMA EndBodySlots ==
    ASSUME SlotInv, EndFunction \/ EndMain
    PROVE  SlotInv'
  <1>1. /\ stage \in {"func", "main"} /\ Len(types) = 1
        /\ moved = Len(params)
        /\ types' = <<>> /\ frameNames' = <<>> /\ scope' = PopVarScope(scope)
        /\ uses' = {} /\ decls' = decls /\ funcs' = funcs
        /\ stage' \in {"between", "done"}
    BY DEF EndFunction, EndMain, InBody
  <1>2. /\ Len(scope) \in Nat /\ Len(types) < Len(scope) /\ scope # <<>>
        /\ Base = Len(scope) - 1
    BY <1>1, BodyFacts
  <1>3. params' = <<>> /\ moved' = 0
    <2>1. CASE EndFunction
      BY <2>1 DEF EndFunction
    <2>2. CASE EndMain
      BY <1>1, <2>2, EmptySeq DEF EndMain, SlotInv, BodyOpen
    <2> QED
      BY <2>1, <2>2
  <1>4. /\ scope' \in Seq(VarScopes) /\ Len(scope') = Len(scope) - 1
        /\ \A k \in 1..Len(scope) - 1 : scope'[k] = scope[k]
        /\ SlotsNumbered(scope')
    BY <1>1, <1>2, PopFacts, PopNumbered DEF SlotInv, TypeOK
  <1>5. Len(types') = 0 /\ Len(params') = 0 /\ Len(frameNames') = 0
    BY <1>1, <1>3
  <1>6. TypeOK'
    BY <1>1, <1>3, <1>4, <1>5 DEF SlotInv, TypeOK
  <1>7. BodyOpen'
    BY <1>1, <1>3 DEF BodyOpen
  <1>8. LeftoversEmpty'
    <2>1. Base' = Base
      BY <1>2, <1>4, <1>5 DEF Base
    <2>2. \A k \in 1..Base : k \in 1..Len(scope) - 1
      BY <1>2
    <2> QED
      BY <1>4, <2>1, <2>2, LeftoversKept DEF SlotInv
  <1> QED
    BY <1>4, <1>6, <1>7, <1>8 DEF SlotInv

\* The allocator's slots: what holds of them whatever the program.
THEOREM SlotInvariant == Spec => []SlotInv
  <1>1. Init => SlotInv
    <2> SUFFICES ASSUME Init PROVE SlotInv
      OBVIOUS
    <2>1. types = <<>> /\ params = <<>> /\ frameNames = <<>> /\ scope = <<>>
      BY DEF Init
    <2>2. Len(types) = 0 /\ Len(params) = 0 /\ Len(frameNames) = 0 /\ Len(scope) = 0
      BY <2>1
    <2>3. TypeOK
      BY <2>1, <2>2 DEF Init, TypeOK
    <2>4. BodyOpen
      BY <2>1 DEF Init, BodyOpen
    <2>5. LeftoversEmpty /\ SlotsNumbered(scope)
      BY <2>2 DEF LeftoversEmpty, Base, SlotsNumbered
    <2> QED
      BY <2>3, <2>4, <2>5 DEF SlotInv
  <1>2. SlotInv /\ [Next]_vars => SlotInv'
    <2> SUFFICES ASSUME SlotInv, [Next]_vars PROVE SlotInv'
      OBVIOUS
    <2>1. CASE \E names \in ParamNames : BeginFunction(names)
      BY <2>1, BeginFunctionSlots
    <2>2. CASE DeclareParam
      BY <2>2, DeclareParamSlots
    <2>3. CASE EndFunction \/ EndMain
      BY <2>3, EndBodySlots
    <2>4. CASE BeginMain
      BY <2>4, BeginMainSlots
    <2>5. CASE \E name \in Names, used \in SUBSET Names : DeclStmt(name, used)
      BY <2>5, DeclStmtSlots
    <2>6. CASE \E name \in Names, used \in SUBSET Names : AssignStmt(name, used)
      BY <2>6, AssignStmtSlots
    <2>7. CASE \E used \in SUBSET Names : UseStmt(used)
      BY <2>7, UseStmtSlots
    <2>8. CASE \E used \in SUBSET Names : BlockBegin(used)
      BY <2>8, BlockBeginSlots
    <2>9. CASE BlockEnd
      BY <2>9, BlockEndSlots
    <2>10. CASE UNCHANGED vars
      <3>1. TypeOK'
        BY <2>10 DEF vars, SlotInv, TypeOK
      <3>2. BodyOpen' /\ LeftoversEmpty'
        BY <2>10 DEF vars, SlotInv, BodyOpen, LeftoversEmpty, Base
      <3>3. SlotsNumbered(scope')
        BY <2>10 DEF vars, SlotInv
      <3> QED
        BY <3>1, <3>2, <3>3 DEF SlotInv
    <2> QED
      BY <2>1, <2>2, <2>3, <2>4, <2>5, <2>6, <2>7, <2>8, <2>9, <2>10 DEF Next
  <1> QED
    BY <1>1, <1>2, PTL DEF Spec

\* The types of the variables, and that the three scope stacks move together.
THEOREM NamesTypeCorrect == Spec => []TypeOK
  <1>1. SlotInv => TypeOK
    BY DEF SlotInv
  <1> QED
    BY <1>1, SlotInvariant, PTL

\* The scopes earlier functions left behind hold nothing.
THEOREM LeftoversStayEmpty == Spec => []LeftoversEmpty
  <1>1. SlotInv => LeftoversEmpty
    BY DEF SlotInv
  <1> QED
    BY <1>1, SlotInvariant, PTL

\* No two variables share a slot.
THEOREM SlotsStayDisjoint == Spec => []SlotsDisjoint
  <1>1. SlotInv => SlotsDisjoint
    <2> SUFFICES ASSUME SlotInv,
                        NEW k \in 1..Len(scope), NEW l \in 1..Len(scope),
                        NEW m \in VarsOf(scope[k]), NEW n \in VarsOf(scope[l]),
                        scope[k].vars[m].stack = scope[l].vars[n].stack
                 PROVE  k = l /\ m = n
      BY DEF SlotsDisjoint
    <2>1. \A i \in 1..Len(scope) : \A j \in VarsOf(scope[i]) :
              scope[i].vars[j].stack \in Nat /\ scope[i].next \in Nat
      <3> TAKE i \in 1..Len(scope)
      <3> TAKE j \in VarsOf(scope[i])
      <3>1. scope[i] \in VarScopes
        BY ElementOfSeq DEF SlotInv, TypeOK
      <3>2. j \in Names
        BY DEF VarsOf
      <3> QED
        BY <3>1, <3>2 DEF VarScopes, Variables
    <2>2. k = l => m = n
      BY DEF SlotInv, SlotsNumbered
    <2>3. ASSUME k < l PROVE FALSE
      <3>1. scope[k].vars[m].stack < scope[k].next
        BY DEF SlotInv, SlotsNumbered
      <3>2. scope[k].next <= scope[l].vars[n].stack
        BY <2>3 DEF SlotInv, SlotsNumbered
      <3> QED
        BY <2>1, <3>1, <3>2
    <2>4. ASSUME l < k PROVE FALSE
      <3>1. scope[l].vars[n].stack < scope[l].next
        BY DEF SlotInv, SlotsNumbered
      <3>2. scope[l].next <= scope[k].vars[m].stack
        BY <2>4 DEF SlotInv, SlotsNumbered
      <3> QED
        BY <2>1, <3>1, <3>2
    <2> QED
      BY <2>2, <2>3, <2>4
  <1> QED
    BY <1>1, SlotInvariant, PTL

-----------------------------------------------------------------------------
(* NameInv: the passes agree about names.                                  *)

\* Where all variables of the name are initialised and the innermost has the
\* index g, lookupVariable finds that one.
LEMMA LookupInnermost ==
    ASSUME NEW s \in Seq(VarScopes), NEW n \in Names,
           NEW g \in 1..Len(s), n \in VarsOf(s[g]), s[g].vars[n].initialised,
           \A k \in 1..Len(s) : n \in VarsOf(s[k]) => k <= g
    PROVE  LookupType(s, n) = s[g].vars[n].typeInfo
  <1>1. g \in Readable(s, n) /\ Readable(s, n) \subseteq 1..Len(s) /\ Len(s) \in Nat
    BY DEF Readable, Declaring
  <1>2. /\ Greatest(Readable(s, n)) \in Readable(s, n)
        /\ g <= Greatest(Readable(s, n))
    BY SMTT(40), <1>1, GreatestOf
  <1>3. Greatest(Readable(s, n)) \in 1..Len(s) /\ n \in VarsOf(s[Greatest(Readable(s, n))])
    BY <1>2 DEF Readable, Declaring
  <1>4. Greatest(Readable(s, n)) <= g
    BY <1>3
  <1>5. Greatest(Readable(s, n)) = g
    BY <1>1, <1>2, <1>3, <1>4
  <1> QED
    BY <1>1, <1>5 DEF LookupType

\* A variable that is declared but not initialised is passed over.
LEMMA CreateLookup ==
    ASSUME NEW s \in Seq(VarScopes), s # <<>>, NEW name \in Names,
           NEW type \in Nat \ {0}, name \notin VarsOf(s[Len(s)]), NEW n \in Names
    PROVE  LookupType(CreateVariable(s, name, type), n) = LookupType(s, n)
  <1> DEFINE t == CreateVariable(s, name, type)
             d == Len(s)
  <1>1. /\ t \in Seq(VarScopes) /\ Len(t) = Len(s)
        /\ \A k \in 1..Len(s) - 1 : t[k] = s[k]
        /\ \A m \in Names : t[Len(s)].vars[m] =
              IF m = name THEN Variable(s[Len(s)].next, type) ELSE s[Len(s)].vars[m]
        /\ VarsOf(t[Len(s)]) = VarsOf(s[Len(s)]) \cup {name}
    <2>1. CreatedIn(s, t, name, type)
      BY CreateFacts
    <2> HIDE DEF t
    <2> QED
      BY <2>1 DEF CreatedIn
  <1>2. d \in Nat /\ d \in 1..d
    <2>1. Len(s) \in Nat /\ Len(s) # 0
      BY LenProperties, EmptySeq
    <2> QED
      BY <2>1
  <1> HIDE DEF t
  <1>3. t[d].vars[name].initialised = FALSE
    BY <1>1 DEF Variable
  <1>4. \A m \in Names : m # name => t[d].vars[m] = s[d].vars[m]
    BY <1>1
  <1>5. ASSUME NEW k \in 1..d
        PROVE  /\ k \in Readable(t, n) <=> k \in Readable(s, n)
               /\ k \in Readable(s, n) => t[k].vars[n].typeInfo = s[k].vars[n].typeInfo
    <2>1. CASE k # d
      <3>1. t[k] = s[k]
        BY <1>1, <1>2, <2>1
      <3> QED
        BY <1>1, <3>1 DEF Readable, Declaring
    <2>2. CASE k = d /\ n # name
      <3>1. t[k].vars[n] = s[k].vars[n]
        BY <1>4, <2>2
      <3>2. n \in VarsOf(t[k]) <=> n \in VarsOf(s[k])
        BY <1>1, <2>2
      <3> QED
        BY <1>1, <3>1, <3>2 DEF Readable, Declaring
    <2>3. CASE k = d /\ n = name
      <3>1. k \notin Readable(t, n)
        BY <1>3, <2>3 DEF Readable
      <3>2. k \notin Readable(s, n)
        BY <2>3 DEF Readable, Declaring
      <3> QED
        BY <3>1, <3>2
    <2> QED
      BY <2>1, <2>2, <2>3
  <1>6. Readable(t, n) \subseteq 1..d /\ Readable(s, n) \subseteq 1..d
    BY <1>1 DEF Readable, Declaring
  <1>7. Readable(t, n) = Readable(s, n)
    BY <1>5, <1>6
  <1>8. CASE Readable(s, n) = {}
    BY <1>7, <1>8 DEF LookupType, t
  <1>9. CASE Readable(s, n) # {}
    <2>1. Greatest(Readable(s, n)) \in Readable(s, n)
      BY <1>2, <1>6, <1>9, GreatestOf
    <2>2. t[Greatest(Readable(s, n))].vars[n].typeInfo = s[Greatest(Readable(s, n))].vars[n].typeInfo
      BY <1>5, <1>6, <2>1
    <2> QED
      BY <1>7, <1>9, <2>2 DEF LookupType, t
  <1> QED
    BY <1>8, <1>9

\* t is s with the variable declared and initialised.
DeclaredIn(s, t, name, type) ==
    /\ Len(t) = Len(s)
    /\ t[Len(s)].next = s[Len(s)].next + 1
    /\ VarsOf(t[Len(s)]) = VarsOf(s[Len(s)]) \cup {name}
    /\ t[Len(s)].vars[name].typeInfo = type
    /\ t[Len(s)].vars[name].initialised
    /\ \A k \in 1..Len(s) - 1 : /\ t[k].next = s[k].next
                                 /\ VarsOf(t[k]) = VarsOf(s[k])
    /\ \A k \in 1..Len(s) : \A n \in Names :
          k # Len(s) \/ n # name =>
             /\ t[k].vars[n].typeInfo = s[k].vars[n].typeInfo
             /\ s[k].vars[n].initialised => t[k].vars[n].initialised

\* A declaration with its initialisation: the variable is found, the others
\* stay what they were.
LEMMA DeclareNames ==
    ASSUME NEW s \in Seq(VarScopes), s # <<>>,
           NEW name \in Names, NEW type \in Nat \ {0}
    PROVE  LET s1 == CreateVariable(s, name, type)
               s2 == InitialiseVariable(s1, name)
           IN  LookupType(s2, name) = type /\ DeclaredIn(s, s2, name, type)
  <1> DEFINE s1 == CreateVariable(s, name, type)
             s2 == InitialiseVariable(s1, name)
             d == Len(s)
  <1>1. /\ s1 \in Seq(VarScopes) /\ Len(s1) = Len(s)
        /\ \A k \in 1..Len(s) - 1 : s1[k] = s[k]
        /\ s1[Len(s)].next = s[Len(s)].next + 1
        /\ \A n \in Names : s1[Len(s)].vars[n] =
              IF n = name THEN Variable(s[Len(s)].next, type) ELSE s[Len(s)].vars[n]
        /\ VarsOf(s1[Len(s)]) = VarsOf(s[Len(s)]) \cup {name}
    <2>1. CreatedIn(s, s1, name, type)
      BY CreateFacts
    <2> HIDE DEF s1
    <2> QED
      BY <2>1 DEF CreatedIn
  <1>2. d \in Nat /\ d \in 1..d
    <2>1. Len(s) \in Nat /\ Len(s) # 0
      BY LenProperties, EmptySeq
    <2> QED
      BY <2>1
  <1> HIDE DEF s1
  <1>3. s1[d].vars[name].typeInfo = type
    BY <1>1 DEF Variable
  <1>4. /\ d \in Declaring(s1, name)
        /\ Greatest(Declaring(s1, name)) = d
    <2>1. Declaring(s1, name) \subseteq 1..d /\ d \in Declaring(s1, name)
      BY <1>1, <1>2 DEF Declaring
    <2>2. /\ Greatest(Declaring(s1, name)) \in Declaring(s1, name)
          /\ d <= Greatest(Declaring(s1, name))
      BY <1>2, <2>1, GreatestOf
    <2>3. Greatest(Declaring(s1, name)) \in 1..d
      BY <2>1, <2>2
    <2> QED
      BY <1>2, <2>1, <2>2, <2>3
  <1>5. /\ s2 \in Seq(VarScopes) /\ Len(s2) = Len(s1)
        /\ \A k \in 1..Len(s1) :
              /\ s2[k].next = s1[k].next
              /\ VarsOf(s2[k]) = VarsOf(s1[k])
              /\ \A n \in Names :
                    /\ s2[k].vars[n].typeInfo = s1[k].vars[n].typeInfo
                    /\ s1[k].vars[n].initialised => s2[k].vars[n].initialised
        /\ Declaring(s1, name) # {} =>
              s2[Greatest(Declaring(s1, name))].vars[name].initialised
    BY <1>1, InitialiseFacts
  <1> HIDE DEF s2
  <1>6. /\ s2[d].next = s[d].next + 1
        /\ VarsOf(s2[d]) = VarsOf(s[d]) \cup {name}
        /\ s2[d].vars[name].typeInfo = type
        /\ s2[d].vars[name].initialised
    BY <1>1, <1>2, <1>3, <1>4, <1>5
  <1>7. ASSUME NEW k \in 1..d, NEW n \in Names, k # d \/ n # name
        PROVE  /\ s2[k].vars[n].typeInfo = s[k].vars[n].typeInfo
               /\ s[k].vars[n].initialised => s2[k].vars[n].initialised
    <2>1. s1[k].vars[n] = s[k].vars[n]
      <3>1. CASE k # d
        <4>1. s1[k] = s[k]
          BY <1>1, <1>2, <3>1
        <4> QED
          BY <4>1
      <3>2. CASE k = d /\ n # name
        BY <1>1, <3>2
      <3> QED
        BY <1>7, <3>1, <3>2
    <2> QED
      BY <1>1, <1>5, <2>1
  <1>8. LookupType(s2, name) = type
    <2>1. d \in 1..Len(s2) /\ name \in VarsOf(s2[d])
      BY <1>1, <1>2, <1>5, <1>6
    <2>2. \A k \in 1..Len(s2) : k <= d
      BY <1>1, <1>2, <1>5
    <2> QED
      BY <1>5, <1>6, <2>1, <2>2, LookupInnermost
  <1>9. \A k \in 1..d - 1 : s2[k].next = s[k].next /\ VarsOf(s2[k]) = VarsOf(s[k])
    BY <1>1, <1>2, <1>5
  <1>10. DeclaredIn(s, s2, name, type)
    BY <1>1, <1>5, <1>6, <1>7, <1>9 DEF DeclaredIn
  <1> QED
    BY <1>8, <1>10 DEF s1, s2

\* The scopes s stand for what the checker knows.
Matching(s) ==
    /\ s \in Seq(VarScopes) /\ Len(s) = Len(scope)
    /\ \A k \in 1..Base : VarsOf(s[k]) = {}
    /\ \A k \in 1..Len(types) : \A n \in Names :
          types[k][n] # NoType => s[Base + k].vars[n].typeInfo = types[k][n]
    /\ \A k \in 1..Len(types) : \A n \in VarsOf(s[Base + k]) :
          /\ s[Base + k].vars[n].initialised
          /\ types[k][n] # NoType \/ (k = 1 /\ n \in MovedNames)
    /\ \A i \in 1..moved : s[Base + 1].vars[params[i].name].typeInfo = params[i].type

\* Then both lookups find the same declaration of a name the checker knows.
LEMMA LookupAgrees ==
    ASSUME SlotInv, InBody, NEW s, Matching(s), NEW n \in Names, CheckedType(n) # NoType
    PROVE  LookupType(s, n) = CheckedType(n)
  <1> DEFINE scopes == {k \in 1..Len(types) : types[k][n] # NoType}
             named  == {i \in 1..Len(params) : params[i].name = n}
             first  == CHOOSE i \in named : \A j \in named : i <= j
  <1>1. /\ Len(types) \in Nat /\ Len(types) >= 1 /\ Len(scope) \in Nat
        /\ Base \in Nat /\ Base = Len(scope) - Len(types)
        /\ moved = Len(params) /\ Len(params) \in Nat
    BY BodyFacts, LenProperties DEF InBody, SlotInv, TypeOK
  <1>2. s \in Seq(VarScopes) /\ Len(s) = Base + Len(types)
    BY <1>1 DEF Matching
  <1>3. ASSUME NEW k \in 1..Len(s), n \in VarsOf(s[k])
        PROVE  /\ k - Base \in 1..Len(types)
               /\ types[k - Base][n] # NoType \/ (k - Base = 1 /\ n \in MovedNames)
    <2>1. k \notin 1..Base
      BY <1>3 DEF Matching
    <2>2. k - Base \in 1..Len(types) /\ k = Base + (k - Base)
      BY <1>1, <1>2, <2>1
    <2> DEFINE j == k - Base
    <2>3. j \in 1..Len(types) /\ n \in VarsOf(s[Base + j])
      BY <1>3, <2>2
    <2> HIDE DEF j
    <2>4. types[j][n] # NoType \/ (j = 1 /\ n \in MovedNames)
      BY <2>3 DEF Matching
    <2> QED
      BY <2>3, <2>4 DEF j
  <1>4. CASE scopes # {}
    <2> DEFINE g == Greatest(scopes)
    <2>1. g \in scopes /\ \A k \in scopes : k <= g
      BY <1>1, <1>4, GreatestOf
    <2>2. CheckedType(n) = types[g][n]
      BY <1>4 DEF CheckedType
    <2>3. g \in 1..Len(types) /\ types[g][n] # NoType
      BY <2>1
    <2> HIDE DEF g
    <2>4. s[Base + g].vars[n].typeInfo = types[g][n]
      BY <2>3 DEF Matching
    <2>5. n \in VarsOf(s[Base + g])
      BY <2>3, <2>4 DEF VarsOf
    <2>6. s[Base + g].vars[n].initialised
      BY <2>3, <2>5 DEF Matching
    <2>7. Base + g \in 1..Len(s)
      BY <1>1, <1>2, <2>3
    <2>8. ASSUME NEW k \in 1..Len(s), n \in VarsOf(s[k]) PROVE k <= Base + g
      <3>1. k - Base \in 1..Len(types)
        BY <1>3, <2>8
      <3>2. CASE types[k - Base][n] # NoType
        BY <1>1, <2>1, <2>3, <3>1, <3>2
      <3>3. CASE k - Base = 1
        BY <1>1, <2>3, <3>3
      <3> QED
        BY <1>3, <2>8, <3>2, <3>3
    <2> QED
      BY <1>2, <2>2, <2>4, <2>5, <2>6, <2>7, <2>8, LookupInnermost
  <1>5. CASE scopes = {} /\ named # {}
    <2>1. first \in named
      <3>1. named \subseteq Nat
        BY <1>1
      <3> HIDE DEF named
      <3> QED
        BY <1>5, <3>1, SmallestOf
    <2>2. CheckedType(n) = params[first].type
      BY <1>5 DEF CheckedType
    <2>3. first \in 1..moved /\ params[first].name = n
      BY <1>1, <2>1
    <2> HIDE DEF first
    <2>4. s[Base + 1].vars[n].typeInfo = params[first].type
      BY <2>3 DEF Matching
    <2>5. n \in VarsOf(s[Base + 1])
      BY <2>2, <2>4 DEF VarsOf
    <2>6. s[Base + 1].vars[n].initialised
      BY <1>1, <2>5 DEF Matching
    <2>7. Base + 1 \in 1..Len(s)
      BY <1>1, <1>2
    <2>8. ASSUME NEW k \in 1..Len(s), n \in VarsOf(s[k]) PROVE k <= Base + 1
      <3>1. k - Base = 1
        BY <1>3, <1>5, <2>8
      <3> QED
        BY <1>1, <3>1
    <2> QED
      BY <1>2, <2>2, <2>4, <2>5, <2>6, <2>7, <2>8, LookupInnermost
  <1>6. CASE scopes = {} /\ named = {}
    BY <1>6 DEF CheckedType
  <1> QED
    BY <1>4, <1>5, <1>6

\* So names that are resolved in such scopes are resolved alike.
LEMMA ResolveAgrees ==
    ASSUME SlotInv, InBody, NEW s, Matching(s),
           NEW used \in SUBSET Names, \A n \in used : Known(n)
    PROVE  \A u \in Resolve(s, used) : u.allocated = u.checked /\ u.allocated # NoType
  <1>1. ASSUME NEW n \in used
        PROVE  LookupType(s, n) = CheckedType(n) /\ CheckedType(n) # NoType
    BY LookupAgrees DEF Known
  <1> QED
    BY <1>1 DEF Resolve, Use

\* The allocator's scopes do.
LEMMA ScopeMatching ==
    ASSUME NameInv, InBody
    PROVE  Matching(scope)
  <1>1. types # <<>> /\ Len(types) \in Nat
    BY BodyFacts DEF NameInv, InBody
  <1>2. scope \in Seq(VarScopes) /\ \A k \in 1..Base : VarsOf(scope[k]) = {}
    BY DEF NameInv, SlotInv, TypeOK, LeftoversEmpty
  <1>3. /\ \A k \in 1..Len(types) : \A n \in Names : types[k][n] # NoType =>
              scope[Base + k].vars[n].typeInfo = types[k][n]
        /\ \A k \in 1..Len(types) : \A n \in VarsOf(scope[Base + k]) :
              /\ scope[Base + k].vars[n].initialised
              /\ types[k][n] # NoType \/ (k = 1 /\ n \in MovedNames)
        /\ \A i \in 1..moved : scope[Base + 1].vars[params[i].name].typeInfo = params[i].type
    BY <1>1 DEF NameInv, ScopesMatch, ScopeMatches
  <1> QED
    BY <1>2, <1>3 DEF Matching

\* Where every name is found, nothing panics.
LEMMA NoPanic ==
    ASSUME NEW us, Record(us), \A u \in us : u.allocated = u.checked /\ u.allocated # NoType
    PROVE  UsesAgree' /\ stage' = stage
  BY DEF Record, UsesAgree

\* A scope of the three passes that a step leaves as it is still matches.
LEMMA ScopeKept ==
    ASSUME NEW k \in 1..Len(types), ScopeMatches(k), Base' = Base,
           types'[k] = types[k], frameNames'[k] = frameNames[k],
           MovedNames \subseteq MovedNames',
           scope'[Base + k].next = scope[Base + k].next,
           scope'[Base + k - 1].next = scope[Base + k - 1].next,
           VarsOf(scope'[Base + k]) = VarsOf(scope[Base + k]),
           \A n \in Names :
              /\ scope'[Base + k].vars[n].typeInfo = scope[Base + k].vars[n].typeInfo
              /\ scope[Base + k].vars[n].initialised => scope'[Base + k].vars[n].initialised
    PROVE  ScopeMatches(k)'
  <1>1. \A n \in Names : types'[k][n] # NoType =>
            scope'[Base' + k].vars[n].typeInfo = types'[k][n]
    BY DEF ScopeMatches
  <1>2. ASSUME NEW n \in VarsOf(scope'[Base' + k])
        PROVE  /\ scope'[Base' + k].vars[n].initialised
               /\ types'[k][n] # NoType \/ (k = 1 /\ n \in MovedNames')
    <2>1. n \in VarsOf(scope[Base + k]) /\ n \in Names
      BY <1>2 DEF VarsOf
    <2> QED
      BY <2>1 DEF ScopeMatches
  <1>3. frameNames'[k] = VarsOf(scope'[Base' + k])
    BY DEF ScopeMatches
  <1>4. scope'[Base' + k].next = scope'[Base' + k - 1].next + Cardinality(frameNames'[k])
    BY DEF ScopeMatches
  <1> QED
    BY <1>1, <1>2, <1>3, <1>4 DEF ScopeMatches

\* An assignment: both names and scopes stay what they are.
LEMMA AssignStmtNames ==
    ASSUME NameInv, NEW name \in Names, NEW used \in SUBSET Names, AssignStmt(name, used)
    PROVE  NameInv'
  <1> DEFINE s1 == InitialiseVariable(scope, name)
  <1>1. /\ Len(types) \in Nat /\ Len(scope) \in Nat /\ Len(types) < Len(scope) /\ types # <<>>
        /\ Base \in Nat /\ Base >= 1 /\ Base = Len(scope) - Len(types)
    BY BodyFacts DEF AssignStmt, InBody, NameInv
  <1>2. /\ scope' = s1 /\ InBody /\ Known(name) /\ \A n \in used : Known(n)
        /\ Record(Resolve(scope, used) \cup Resolve(s1, {name}))
        /\ types' = types /\ params' = params /\ moved' = moved /\ frameNames' = frameNames
    BY DEF AssignStmt
  <1>3. /\ s1 \in Seq(VarScopes) /\ Len(s1) = Len(scope)
        /\ \A k \in 1..Len(scope) :
              /\ s1[k].next = scope[k].next
              /\ VarsOf(s1[k]) = VarsOf(scope[k])
              /\ \A n \in Names :
                    /\ s1[k].vars[n].typeInfo = scope[k].vars[n].typeInfo
                    /\ scope[k].vars[n].initialised => s1[k].vars[n].initialised
    BY InitialiseFacts DEF NameInv, SlotInv, TypeOK
  <1> HIDE DEF s1
  <1>4. Base' = Base /\ MovedNames' = MovedNames
    BY <1>2, <1>3 DEF Base, MovedNames
  <1>5. ASSUME NEW k \in 1..Len(types) PROVE ScopeMatches(k)'
    <2>1. Base + k \in 1..Len(scope) /\ Base + k - 1 \in 1..Len(scope)
      BY <1>1
    <2>2. ScopeMatches(k)
      BY DEF NameInv, ScopesMatch
    <2> QED
      BY <1>2, <1>3, <1>4, <2>1, <2>2, ScopeKept
  <1>6. \A i \in 1..moved :
            scope'[Base' + 1].vars[params'[i].name].typeInfo = params'[i].type
    <2> SUFFICES ASSUME NEW i \in 1..moved
                 PROVE  s1[Base + 1].vars[params[i].name].typeInfo = params[i].type
      BY <1>2, <1>4
    <2>1. Base + 1 \in 1..Len(scope)
      BY <1>1
    <2>2. params[i].name \in Names
      <3>1. i \in 1..Len(params)
        BY <1>2, LenProperties DEF InBody, NameInv, SlotInv, TypeOK
      <3>2. params[i] \in [name : Names, type : Nat \ {0}]
        BY ZenonT(60), <3>1, ElementOfSeq DEF NameInv, SlotInv, TypeOK
      <3> QED
        BY <3>2
    <2>3. scope[Base + 1].vars[params[i].name].typeInfo = params[i].type
      BY <1>1 DEF NameInv, ScopesMatch
    <2> QED
      BY <1>3, <2>1, <2>2, <2>3
  <1>7. ScopesMatch'
    BY <1>2, <1>5, <1>6 DEF ScopesMatch
  <1>8. ParamsFirst'
    BY <1>2 DEF NameInv, ParamsFirst
  <1>9. Matching(scope)
    BY <1>2, ScopeMatching
  <1>10. Matching(s1)
    <2>1. \A k \in 1..Base : VarsOf(s1[k]) = {}
      <3>1. \A k \in 1..Base : k \in 1..Len(scope)
        BY <1>1
      <3> QED
        BY <1>3, <1>9, <3>1 DEF Matching
    <2>2. \A k \in 1..Len(types) : Base + k \in 1..Len(scope)
      BY <1>1
    <2>3. \A k \in 1..Len(types) : \A n \in Names :
              types[k][n] # NoType => s1[Base + k].vars[n].typeInfo = types[k][n]
      BY <1>3, <1>9, <2>2 DEF Matching
    <2>4. \A k \in 1..Len(types) : \A n \in VarsOf(s1[Base + k]) :
              /\ s1[Base + k].vars[n].initialised
              /\ types[k][n] # NoType \/ (k = 1 /\ n \in MovedNames)
      BY ZenonT(60), <1>3, <1>9, <2>2 DEF Matching, VarsOf
    <2>5. \A i \in 1..moved : s1[Base + 1].vars[params[i].name].typeInfo = params[i].type
      BY <1>2, <1>4, <1>6
    <2> QED
      BY <1>3, <2>1, <2>3, <2>4, <2>5 DEF Matching
  <1>11. UsesAgree' /\ stage' = stage
    <2>1. \A u \in Resolve(scope, used) : u.allocated = u.checked /\ u.allocated # NoType
      BY <1>2, <1>9, ResolveAgrees DEF NameInv
    <2>2. \A u \in Resolve(s1, {name}) : u.allocated = u.checked /\ u.allocated # NoType
      BY <1>2, <1>10, ResolveAgrees DEF NameInv
    <2> QED
      BY <1>2, <2>1, <2>2, NoPanic
  <1>12. SlotInv'
    BY AssignStmtSlots DEF NameInv
  <1> QED
    BY <1>7, <1>8, <1>11, <1>12 DEF NameInv, NeverNonExistent

\* A statement that only reads.
LEMMA UseStmtNames ==
    ASSUME NameInv, NEW used \in SUBSET Names, UseStmt(used)
    PROVE  NameInv'
  <1>1. /\ InBody /\ \A n \in used : Known(n)
        /\ Record(Resolve(scope, used))
        /\ types' = types /\ params' = params /\ moved' = moved /\ frameNames' = frameNames
        /\ scope' = scope
    BY DEF UseStmt
  <1>2. UsesAgree' /\ stage' = stage
    <2>1. \A u \in Resolve(scope, used) : u.allocated = u.checked /\ u.allocated # NoType
      BY <1>1, ScopeMatching, ResolveAgrees DEF NameInv
    <2> QED
      BY <1>1, <2>1, NoPanic
  <1>3. ParamsFirst'
    BY <1>1 DEF NameInv, ParamsFirst
  <1>4. ScopesMatch'
    <2>1. \A k \in 1..Len(types) : ScopeMatches(k)' = ScopeMatches(k)
      BY <1>1 DEF ScopeMatches, Base, MovedNames
    <2>2. Base' = Base
      BY <1>1 DEF Base
    <2> QED
      BY <1>1, <2>1, <2>2 DEF NameInv, ScopesMatch
  <1>5. SlotInv'
    BY UseStmtSlots DEF NameInv
  <1> QED
    BY <1>2, <1>3, <1>4, <1>5 DEF NameInv, NeverNonExistent

\* A scope with no variable that starts where the one before it stands.
LEMMA EmptyScopeMatches ==
    ASSUME NEW k \in Nat, types'[k] = EmptyMap, frameNames'[k] = {},
           VarsOf(scope'[Base' + k]) = {},
           scope'[Base' + k - 1].next \in Nat,
           scope'[Base' + k].next = scope'[Base' + k - 1].next
    PROVE  ScopeMatches(k)'
  <1>1. Cardinality({}) = 0
    BY FS_EmptySet
  <1>2. \A n \in Names : types'[k][n] = NoType
    BY DEF EmptyMap
  <1>3. scope'[Base' + k].next = scope'[Base' + k - 1].next + Cardinality(frameNames'[k])
    BY <1>1
  <1> QED
    BY <1>2, <1>3 DEF ScopeMatches

\* A block: its scopes are empty, the others stay.
LEMMA BlockBeginNames ==
    ASSUME NameInv, NEW used \in SUBSET Names, BlockBegin(used)
    PROVE  NameInv'
  <1>1. /\ Len(types) \in Nat /\ Len(scope) \in Nat /\ Len(types) < Len(scope)
        /\ Len(types) >= 1 /\ types # <<>> /\ scope # <<>> /\ Len(frameNames) = Len(types)
        /\ Base \in Nat /\ Base >= 1 /\ Base = Len(scope) - Len(types)
    BY BodyFacts DEF BlockBegin, InBody, NameInv
  <1>2. /\ InBody /\ \A n \in used : Known(n)
        /\ Record(Resolve(scope, used))
        /\ types' = Append(types, EmptyMap) /\ frameNames' = Append(frameNames, {})
        /\ scope' = PushVarScope(scope)
        /\ params' = params /\ moved' = moved
    BY DEF BlockBegin
  <1>3. /\ scope' \in Seq(VarScopes) /\ Len(scope') = Len(scope) + 1
        /\ \A k \in 1..Len(scope) : scope'[k] = scope[k]
        /\ scope'[Len(scope) + 1].next = NextSlot(scope)
        /\ VarsOf(scope'[Len(scope) + 1]) = {}
    BY <1>2, PushFacts DEF NameInv, SlotInv, TypeOK
  <1>4. /\ Len(types') = Len(types) + 1
        /\ \A k \in 1..Len(types) : types'[k] = types[k]
        /\ types'[Len(types) + 1] = EmptyMap
        /\ \A k \in 1..Len(types) : frameNames'[k] = frameNames[k]
        /\ frameNames'[Len(types) + 1] = {}
    <2>1. types \in Seq([Names -> Nat]) /\ frameNames \in Seq(SUBSET Names)
      BY DEF NameInv, SlotInv, TypeOK
    <2>2. EmptyMap \in [Names -> Nat]
      BY DEF EmptyMap, NoType
    <2> QED
      BY <1>1, <1>2, <2>1, <2>2, AppendProperties
  <1>5. Base' = Base /\ MovedNames' = MovedNames
    BY <1>1, <1>2, <1>3, <1>4 DEF Base, MovedNames
  <1>6. ASSUME NEW k \in 1..Len(types) PROVE ScopeMatches(k)'
    <2>1. Base + k \in 1..Len(scope) /\ Base + k - 1 \in 1..Len(scope)
      BY <1>1
    <2>2. ScopeMatches(k)
      BY DEF NameInv, ScopesMatch
    <2>3. scope'[Base + k] = scope[Base + k] /\ scope'[Base + k - 1] = scope[Base + k - 1]
      BY <1>3, <2>1
    <2> QED
      BY <1>4, <1>5, <2>2, <2>3, ScopeKept
  <1>7. ASSUME NEW d \in Nat, d = Len(types) + 1 PROVE ScopeMatches(d)'
    <2>1. Base' + d = Len(scope) + 1 /\ Base' + d - 1 = Len(scope)
      BY <1>1, <1>5, <1>7
    <2>2. Len(scope) \in 1..Len(scope) /\ scope[Len(scope)] \in VarScopes
      BY <1>1, ElementOfSeq DEF NameInv, SlotInv, TypeOK
    <2>3. /\ scope'[Len(scope)].next = scope[Len(scope)].next
          /\ scope[Len(scope)].next \in Nat
      BY <1>3, <2>2 DEF VarScopes
    <2>4. NextSlot(scope) = scope[Len(scope)].next
      BY <1>1 DEF NextSlot
    <2>5. types'[d] = EmptyMap /\ frameNames'[d] = {}
      BY <1>4, <1>7
    <2>6. /\ VarsOf(scope'[Base' + d]) = {}
          /\ scope'[Base' + d].next = scope'[Base' + d - 1].next
          /\ scope'[Base' + d - 1].next \in Nat
      BY <1>3, <2>1, <2>3, <2>4
    <2> QED
      BY <2>5, <2>6, EmptyScopeMatches
  <1>8. ScopesMatch'
    <2>1. ASSUME NEW k \in 1..Len(types') PROVE ScopeMatches(k)'
      <3>1. k \in 1..Len(types) \/ (k \in Nat /\ k = Len(types) + 1)
        BY <1>1, <1>4
      <3> QED
        BY <1>6, <1>7, <3>1
    <2>2. \A i \in 1..moved' :
              scope'[Base' + 1].vars[params'[i].name].typeInfo = params'[i].type
      <3>1. Base + 1 \in 1..Len(scope)
        BY <1>1
      <3>2. scope'[Base' + 1] = scope[Base + 1]
        BY <1>3, <1>5, <3>1
      <3> QED
        BY <1>1, <1>2, <3>2 DEF NameInv, ScopesMatch
    <2> QED
      BY <2>1, <2>2 DEF ScopesMatch
  <1>9. ParamsFirst'
    <2>1. types'[1] = types[1]
      BY <1>1, <1>4
    <2> QED
      BY <1>1, <1>2, <2>1 DEF NameInv, ParamsFirst, InBody
  <1>10. UsesAgree' /\ stage' = stage
    <2>1. \A u \in Resolve(scope, used) : u.allocated = u.checked /\ u.allocated # NoType
      BY <1>2, ScopeMatching, ResolveAgrees DEF NameInv
    <2> QED
      BY <1>2, <2>1, NoPanic
  <1>11. SlotInv'
    BY BlockBeginSlots DEF NameInv
  <1> QED
    BY <1>8, <1>9, <1>10, <1>11 DEF NameInv, NeverNonExistent

\* The end of a block leaves the scopes around it as they were.
LEMMA BlockEndNames ==
    ASSUME NameInv, BlockEnd
    PROVE  NameInv'
  <1>1. /\ Len(types) \in Nat /\ Len(scope) \in Nat /\ Len(types) < Len(scope)
        /\ Len(types) > 1 /\ types # <<>> /\ frameNames # <<>> /\ scope # <<>>
        /\ Len(frameNames) = Len(types)
        /\ Base \in Nat /\ Base >= 1 /\ Base = Len(scope) - Len(types)
    BY BodyFacts DEF BlockEnd, InBody, NameInv
  <1>2. /\ uses' = {} /\ stage' = stage /\ InBody
        /\ types' = SubSeq(types, 1, Len(types) - 1)
        /\ frameNames' = SubSeq(frameNames, 1, Len(frameNames) - 1)
        /\ scope' = PopVarScope(scope)
        /\ params' = params /\ moved' = moved
    BY DEF BlockEnd
  <1>3. /\ Len(scope') = Len(scope) - 1
        /\ \A k \in 1..Len(scope) - 1 : scope'[k] = scope[k]
    BY <1>1, <1>2, PopFacts DEF NameInv, SlotInv, TypeOK
  <1>4. /\ Len(types') = Len(types) - 1
        /\ \A k \in 1..Len(types) - 1 : types'[k] = types[k]
        /\ \A k \in 1..Len(types) - 1 : frameNames'[k] = frameNames[k]
    <2>1. types \in Seq([Names -> Nat]) /\ frameNames \in Seq(SUBSET Names)
      BY DEF NameInv, SlotInv, TypeOK
    <2> QED
      BY <1>1, <1>2, <2>1, DropLast
  <1>5. Base' = Base /\ MovedNames' = MovedNames
    BY <1>1, <1>2, <1>3, <1>4 DEF Base, MovedNames
  <1>6. ASSUME NEW k \in 1..Len(types) - 1 PROVE ScopeMatches(k)'
    <2>1. Base + k \in 1..Len(scope) - 1 /\ Base + k - 1 \in 1..Len(scope) - 1
      BY <1>1
    <2>2. k \in 1..Len(types) /\ ScopeMatches(k)
      BY <1>1 DEF NameInv, ScopesMatch
    <2>3. scope'[Base + k] = scope[Base + k] /\ scope'[Base + k - 1] = scope[Base + k - 1]
      BY <1>3, <2>1
    <2> QED
      BY <1>4, <1>5, <2>2, <2>3, ScopeKept
  <1>7. ScopesMatch'
    <2>1. ASSUME NEW k \in 1..Len(types') PROVE ScopeMatches(k)'
      BY <1>4, <1>6
    <2>2. \A i \in 1..moved' :
              scope'[Base' + 1].vars[params'[i].name].typeInfo = params'[i].type
      <3>1. Base + 1 \in 1..Len(scope) - 1
        BY <1>1
      <3>2. scope'[Base' + 1] = scope[Base + 1]
        BY <1>3, <1>5, <3>1
      <3> QED
        BY <1>1, <1>2, <3>2 DEF NameInv, ScopesMatch
    <2> QED
      BY <2>1, <2>2 DEF ScopesMatch
  <1>8. ParamsFirst'
    <2>1. types'[1] = types[1]
      BY <1>1, <1>4
    <2> QED
      BY <1>1, <1>2, <2>1 DEF NameInv, ParamsFirst, InBody
  <1>9. SlotInv'
    BY BlockEndSlots DEF NameInv
  <1> QED
    BY <1>2, <1>7, <1>8, <1>9 DEF NameInv, NeverNonExistent, UsesAgree

\* A function or main starts with empty scopes that match.
LEMMA BeginNames ==
    ASSUME SlotInv, types = <<>>, types' = <<EmptyMap>>, frameNames' = <<{}>>, moved' = 0,
           scope' = PushVarScope(PushVarScope(scope))
    PROVE  ScopesMatch'
  <1>1. /\ Len(scope') = Len(scope) + 2 /\ Len(scope) \in Nat
        /\ \A k \in 1..Len(scope') : VarsOf(scope'[k]) = {} /\ scope'[k].next = 0
    BY PushTwiceFacts
  <1>2. Len(types') = 1 /\ types'[1] = EmptyMap /\ frameNames'[1] = {}
    OBVIOUS
  <1>3. Base' = Len(scope) + 1
    BY <1>1, <1>2 DEF Base
  <1>4. ScopeMatches(1)'
    <2>1. Base' + 1 \in 1..Len(scope') /\ Base' + 1 - 1 \in 1..Len(scope')
      BY <1>1, <1>3
    <2> DEFINE d == 1
    <2>2. d \in Nat /\ types'[d] = EmptyMap /\ frameNames'[d] = {}
      BY <1>2
    <2>3. /\ VarsOf(scope'[Base' + d]) = {} /\ scope'[Base' + d].next = 0
          /\ scope'[Base' + d - 1].next = 0
      BY <1>1, <2>1
    <2> HIDE DEF d
    <2>4. ScopeMatches(d)'
      BY <2>2, <2>3, EmptyScopeMatches
    <2> QED
      BY <2>4 DEF d
  <1>5. \A k \in 1..Len(types') : k = 1
    BY <1>2
  <1>6. 1..moved' = {}
    OBVIOUS
  <1> QED
    BY <1>4, <1>5, <1>6 DEF ScopesMatch

\* A function: parameters that are not repeated.
LEMMA BeginFunctionNames ==
    ASSUME ~ParamShadowing, NameInv, NEW names \in ParamNames, BeginFunction(names)
    PROVE  NameInv'
  <1>1. types = <<>>
    BY DEF NameInv, SlotInv, BodyOpen, BeginFunction
  <1>2. /\ types' = <<EmptyMap>> /\ frameNames' = <<{}>> /\ moved' = 0
        /\ params' = [i \in 1..Len(names) |-> [name |-> names[i], type |-> decls + i]]
        /\ scope' = PushVarScope(PushVarScope(scope))
        /\ stage' = "func" /\ uses' = {}
        /\ \A i, j \in 1..Len(names) : names[i] = names[j] => i = j
    BY DEF BeginFunction
  <1>3. ScopesMatch'
    BY <1>1, <1>2, BeginNames DEF NameInv
  <1>4. ParamsFirst'
    <2>1. PICK k \in 0..MaxParams : names \in [1..k -> Names]
      BY DEF ParamNames
    <2>2. k \in Nat /\ names \in Seq(Names) /\ Len(names) = k
      BY <2>1, NameBoundsAssumption
    <2>3. /\ Len(params') = k
          /\ \A i \in 1..k : params'[i].name = names[i] /\ names[i] \in Names
      BY <1>2, <2>1, <2>2
    <2>4. Len(types') = 1 /\ types'[1] = EmptyMap
      BY <1>2
    <2>5. \A n \in Names : types'[1][n] = NoType
      BY <2>4 DEF EmptyMap
    <2>6. \A i, j \in 1..Len(params') : params'[i].name = params'[j].name => i = j
      BY <1>2, <2>2, <2>3
    <2>7. \A i \in 1..Len(params') : types'[1][params'[i].name] = NoType
      BY <2>3, <2>5
    <2> QED
      BY <2>4, <2>6, <2>7 DEF ParamsFirst
  <1>5. SlotInv'
    BY BeginFunctionSlots DEF NameInv
  <1> QED
    BY <1>2, <1>3, <1>4, <1>5 DEF NameInv, NeverNonExistent, UsesAgree

\* main has no parameters.
LEMMA BeginMainNames ==
    ASSUME NameInv, BeginMain
    PROVE  NameInv'
  <1>1. types = <<>> /\ params = <<>> /\ Len(params) = 0
    BY EmptySeq DEF NameInv, SlotInv, BodyOpen, BeginMain
  <1>2. moved = 0
    BY <1>1 DEF NameInv, SlotInv, TypeOK
  <1>3. /\ types' = <<EmptyMap>> /\ frameNames' = <<{}>> /\ moved' = 0 /\ params' = <<>>
        /\ scope' = PushVarScope(PushVarScope(scope))
        /\ stage' = "main" /\ uses' = {}
    BY <1>1, <1>2 DEF BeginMain
  <1>4. ScopesMatch'
    BY <1>1, <1>3, BeginNames DEF NameInv
  <1>5. ParamsFirst'
    BY <1>3 DEF ParamsFirst
  <1>6. SlotInv'
    BY BeginMainSlots DEF NameInv
  <1> QED
    BY <1>3, <1>4, <1>5, <1>6 DEF NameInv, NeverNonExistent, UsesAgree

\* After a body there is nothing to compare.
LEMMA EndBodyNames ==
    ASSUME NameInv, EndFunction \/ EndMain
    PROVE  NameInv'
  <1>1. /\ types' = <<>> /\ uses' = {} /\ stage' \in {"between", "done"}
    BY DEF EndFunction, EndMain
  <1>2. SlotInv'
    BY EndBodySlots DEF NameInv
  <1>3. params' = <<>> /\ moved' = 0
    <2>1. params' = <<>>
      BY <1>1, <1>2 DEF SlotInv, BodyOpen
    <2>2. Len(params') = 0
      BY <2>1
    <2> QED
      BY <1>2, <2>1, <2>2 DEF SlotInv, TypeOK
  <1>4. ParamsFirst'
    BY <1>1, <1>3 DEF ParamsFirst
  <1>5. ScopesMatch'
    BY <1>1 DEF ScopesMatch
  <1> QED
    BY <1>1, <1>2, <1>4, <1>5 DEF NameInv, NeverNonExistent, UsesAgree

\* One more variable in the innermost scope of all three passes.
LEMMA CountOneMore ==
    ASSUME NEW names \in SUBSET Names, NEW name \in Names, name \notin names
    PROVE  /\ Cardinality(names) \in Nat
           /\ Cardinality(names \cup {name}) = Cardinality(names) + 1
  <1>1. IsFiniteSet(names)
    BY NamesFinite, FS_Subset
  <1> QED
    BY <1>1, FS_CardinalityType, FS_AddElement

\* The first scope of a function has the parameters moved so far and what
\* its body has declared; a name that is neither is free.
LEMMA FreeName ==
    ASSUME NameInv, stage \in {"func", "main"}, NEW name \in Names,
           types[Len(types)][name] = NoType,
           Len(types) > 1 \/ name \notin MovedNames
    PROVE  /\ name \notin VarsOf(scope[Len(scope)])
           /\ name \notin frameNames[Len(types)]
  <1>1. /\ Len(types) \in Nat /\ Len(types) >= 1 /\ Len(scope) \in Nat
        /\ Base \in Nat /\ Base = Len(scope) - Len(types)
    BY BodyFacts DEF NameInv
  <1> DEFINE d == Len(types)
  <1>2. d \in 1..Len(types) /\ Base + d = Len(scope)
    BY <1>1
  <1>3. ScopeMatches(d)
    BY <1>2 DEF NameInv, ScopesMatch
  <1>4. types[d][name] = NoType /\ (d > 1 \/ name \notin MovedNames)
    OBVIOUS
  <1>5. ~ (d > 1 /\ d = 1)
    BY <1>1
  <1> HIDE DEF d
  <1>6. name \notin VarsOf(scope[Base + d]) /\ frameNames[d] = VarsOf(scope[Base + d])
    BY <1>3, <1>4, <1>5 DEF ScopeMatches
  <1> QED
    BY <1>2, <1>6 DEF d

\* The innermost scope after a declaration in all three passes.
LEMMA DeclaredScope ==
    ASSUME NameInv, stage \in {"func", "main"}, NEW name \in Names, NEW type \in Nat \ {0},
           NEW d \in Nat, d = Len(types),
           name \notin VarsOf(scope[Len(scope)]),
           scope' = InitialiseVariable(CreateVariable(scope, name, type), name),
           Len(types') = Len(types),
           frameNames'[d] = frameNames[d] \cup {name},
           MovedNames \subseteq MovedNames',
           \A n \in Names : n # name => types'[d][n] = types[d][n],
           types'[d][name] = type \/ (types'[d][name] = NoType /\ d = 1 /\ name \in MovedNames')
    PROVE  ScopeMatches(d)'
  <1>1. /\ Len(types) \in Nat /\ Len(types) >= 1 /\ Len(scope) \in Nat /\ scope # <<>>
        /\ Base \in Nat /\ Base >= 1 /\ Base = Len(scope) - Len(types)
    BY BodyFacts DEF NameInv
  <1>2. scope \in Seq(VarScopes)
    BY DEF NameInv, SlotInv, TypeOK
  <1>3. DeclaredIn(scope, scope', name, type)
    BY <1>1, <1>2, DeclareNames
  <1>4. /\ Len(scope') = Len(scope)
        /\ scope'[Len(scope)].next = scope[Len(scope)].next + 1
        /\ VarsOf(scope'[Len(scope)]) = VarsOf(scope[Len(scope)]) \cup {name}
        /\ scope'[Len(scope)].vars[name].typeInfo = type
        /\ scope'[Len(scope)].vars[name].initialised
        /\ \A k \in 1..Len(scope) - 1 : /\ scope'[k].next = scope[k].next
                                         /\ VarsOf(scope'[k]) = VarsOf(scope[k])
        /\ \A k \in 1..Len(scope) : \A n \in Names :
              k # Len(scope) \/ n # name =>
                 /\ scope'[k].vars[n].typeInfo = scope[k].vars[n].typeInfo
                 /\ scope[k].vars[n].initialised => scope'[k].vars[n].initialised
    BY <1>3 DEF DeclaredIn
  <1>5. /\ Base' = Base /\ Base + d = Len(scope) /\ Base + d - 1 \in 1..Len(scope) - 1
        /\ Len(scope) \in 1..Len(scope) /\ d \in 1..Len(types)
    BY <1>1, <1>4 DEF Base
  <1>6. ScopeMatches(d)
    BY <1>5 DEF NameInv, ScopesMatch
  <1>7. \A n \in Names : types'[d][n] # NoType =>
            scope'[Base' + d].vars[n].typeInfo = types'[d][n]
    <2> SUFFICES ASSUME NEW n \in Names, types'[d][n] # NoType
                 PROVE  scope'[Len(scope)].vars[n].typeInfo = types'[d][n]
      BY <1>5
    <2>1. CASE n = name
      BY <1>4, <2>1
    <2>2. CASE n # name
      <3>1. scope[Len(scope)].vars[n].typeInfo = types[d][n]
        BY <1>5, <1>6, <2>2 DEF ScopeMatches
      <3> QED
        BY <1>4, <1>5, <2>2, <3>1
    <2> QED
      BY <2>1, <2>2
  <1>8. ASSUME NEW n \in VarsOf(scope'[Base' + d])
        PROVE  /\ scope'[Base' + d].vars[n].initialised
               /\ types'[d][n] # NoType \/ (d = 1 /\ n \in MovedNames')
    <2>1. n \in Names
      BY <1>8 DEF VarsOf
    <2>2. CASE n = name
      BY <1>4, <1>5, <2>2 DEF NoType
    <2>3. CASE n # name
      <3>1. n \in VarsOf(scope[Base + d])
        BY ZenonT(60), <1>4, <1>5, <1>8, <2>3
      <3>2. /\ scope[Base + d].vars[n].initialised
            /\ types[d][n] # NoType \/ (d = 1 /\ n \in MovedNames)
        BY <1>6, <3>1 DEF ScopeMatches
      <3> QED
        BY <1>4, <1>5, <2>1, <2>3, <3>2
    <2> QED
      BY <2>2, <2>3
  <1>9. frameNames[d] = VarsOf(scope[Len(scope)])
    BY <1>5, <1>6 DEF ScopeMatches
  <1>10. frameNames'[d] = VarsOf(scope'[Base' + d])
    BY <1>4, <1>5, <1>9
  <1>11. scope'[Base' + d].next = scope'[Base' + d - 1].next + Cardinality(frameNames'[d])
    <2>1. scope[Len(scope)].next = scope[Base + d - 1].next + Cardinality(frameNames[d])
      BY <1>5, <1>6 DEF ScopeMatches
    <2>2. /\ Cardinality(frameNames[d]) \in Nat
          /\ Cardinality(frameNames'[d]) = Cardinality(frameNames[d]) + 1
      BY ZenonT(60), <1>9, CountOneMore DEF VarsOf
    <2>3. scope[Base + d - 1].next \in Nat
      <3>1. Base + d - 1 \in 1..Len(scope)
        BY <1>1, <1>5
      <3>2. scope[Base + d - 1] \in VarScopes
        BY <1>2, <3>1, ElementOfSeq
      <3> QED
        BY <3>2 DEF VarScopes
    <2>4. scope'[Base' + d].next = scope[Len(scope)].next + 1
      BY <1>4, <1>5
    <2>5. scope'[Base' + d - 1].next = scope[Base + d - 1].next
      BY <1>4, <1>5
    <2>6. scope[Len(scope)].next + 1 =
              scope[Base + d - 1].next + Cardinality(frameNames'[d])
      BY SMTT(40), <2>1, <2>2, <2>3
    <2> QED
      BY <2>4, <2>5, <2>6
  <1> QED
    BY <1>7, <1>8, <1>10, <1>11 DEF ScopeMatches

\* A parameter enters the first scope of allocator and translator.
LEMMA DeclareParamNames ==
    ASSUME NameInv, DeclareParam
    PROVE  NameInv'
  <1> DEFINE p == params[moved + 1]
  <1>1. /\ stage = "func" /\ Len(types) = 1 /\ types # <<>> /\ scope # <<>>
        /\ frameNames # <<>> /\ Len(frameNames) = 1
        /\ Len(scope) \in Nat /\ Base \in Nat /\ Base = Len(scope) - 1
        /\ moved < Len(params)
    BY BodyFacts DEF DeclareParam, NameInv, ParamsFirst
  <1>2. moved \in Nat /\ Len(params) \in Nat
    BY LenProperties DEF NameInv, SlotInv, TypeOK
  <1>3. \A i \in 1..(moved + 1) :
            /\ i \in 1..Len(params)
            /\ params[i].name \in Names /\ params[i].type \in Nat \ {0}
    <2> TAKE i \in 1..(moved + 1)
    <2>1. i \in 1..Len(params)
      BY <1>1, <1>2
    <2>2. params[i] \in [name : Names, type : Nat \ {0}]
      BY ZenonT(60), <2>1, ElementOfSeq DEF NameInv, SlotInv, TypeOK
    <2> QED
      BY <2>1, <2>2
  <1>4. p.name \in Names /\ p.type \in Nat \ {0} /\ moved + 1 \in 1..Len(params)
    BY <1>2, <1>3
  <1>5. \A i \in 1..moved : params[i].name # p.name
    <2> TAKE i \in 1..moved
    <2>1. i \in 1..Len(params) /\ i # moved + 1
      BY <1>1, <1>2
    <2> QED
      BY <1>4, <2>1 DEF NameInv, ParamsFirst
  <1>6. p.name \notin MovedNames
    BY <1>5 DEF MovedNames
  <1>7. types[1][p.name] = NoType
    BY <1>1, <1>4 DEF NameInv, ParamsFirst
  <1>8. /\ scope' = InitialiseVariable(CreateVariable(scope, p.name, p.type), p.name)
        /\ Record({Use(p.name, p.type, LookupType(scope', p.name))})
        /\ frameNames' = [frameNames EXCEPT ![1] = @ \cup {p.name}]
        /\ moved' = moved + 1 /\ types' = types /\ params' = params
    BY DEF DeclareParam
  <1>9. MovedNames \subseteq MovedNames' /\ p.name \in MovedNames'
    BY <1>2, <1>8 DEF MovedNames
  <1> HIDE DEF p
  <1>10. p.name \notin VarsOf(scope[Len(scope)])
    BY <1>1, <1>4, <1>6, <1>7, FreeName
  <1>11. frameNames'[1] = frameNames[1] \cup {p.name}
    <2>1. 1 \in DOMAIN frameNames
      BY <1>1 DEF NameInv, SlotInv, TypeOK
    <2> QED
      BY <1>8, <2>1
  <1>12. scope \in Seq(VarScopes)
    BY DEF NameInv, SlotInv, TypeOK
  <1>13. /\ LookupType(scope', p.name) = p.type
         /\ DeclaredIn(scope, scope', p.name, p.type)
    BY <1>1, <1>4, <1>8, <1>12, DeclareNames
  <1>14. ASSUME NEW d \in Nat, d = 1 PROVE ScopeMatches(d)'
    <2>1. /\ d = Len(types) /\ Len(types') = Len(types) /\ stage \in {"func", "main"}
          /\ frameNames'[d] = frameNames[d] \cup {p.name}
          /\ \A n \in Names : n # p.name => types'[d][n] = types[d][n]
          /\ types'[d][p.name] = NoType /\ d = 1 /\ p.name \in MovedNames'
      BY <1>1, <1>7, <1>8, <1>9, <1>11, <1>14
    <2>2. scope' = InitialiseVariable(CreateVariable(scope, p.name, p.type), p.name)
      BY <1>8
    <2> QED
      BY <1>4, <1>9, <1>10, <2>1, <2>2, DeclaredScope
  <1>15. Base' = Base /\ Base + 1 = Len(scope)
    <2>1. Len(scope') = Len(scope)
      BY <1>13 DEF DeclaredIn
    <2>2. Len(types') = Len(types)
      BY <1>8
    <2> QED
      BY <1>1, <2>1, <2>2 DEF Base
  <1>16. \A i \in 1..moved' :
            scope'[Base' + 1].vars[params'[i].name].typeInfo = params'[i].type
    <2> SUFFICES ASSUME NEW i \in 1..(moved + 1)
                 PROVE  scope'[Len(scope)].vars[params[i].name].typeInfo = params[i].type
      BY <1>8, <1>15
    <2>1. CASE i = moved + 1
      BY <1>13, <2>1 DEF DeclaredIn, p
    <2>2. CASE i # moved + 1
      <3>1. i \in 1..moved /\ params[i].name # p.name /\ params[i].name \in Names
        BY <1>2, <1>3, <1>5, <2>2
      <3>2. scope[Len(scope)].vars[params[i].name].typeInfo = params[i].type
        BY <1>1, <1>15, <3>1 DEF NameInv, ScopesMatch
      <3>3. Len(scope) \in 1..Len(scope)
        BY <1>1, <1>15
      <3>4. \A n \in Names : n # p.name =>
                scope'[Len(scope)].vars[n].typeInfo = scope[Len(scope)].vars[n].typeInfo
        BY <1>13, <3>3 DEF DeclaredIn
      <3> QED
        BY <3>1, <3>2, <3>4
    <2> QED
      BY <2>1, <2>2
  <1>17. ScopesMatch'
    <2>1. Len(types') = 1
      BY <1>1, <1>8
    <2>2. \A k \in 1..Len(types') : k \in Nat /\ k = 1
      BY <2>1
    <2> QED
      BY <1>14, <1>16, <2>2 DEF ScopesMatch
  <1>18. ParamsFirst'
    BY <1>1, <1>8 DEF NameInv, ParamsFirst
  <1>19. UsesAgree' /\ stage' = stage
    BY <1>4, <1>8, <1>13, NoPanic DEF Use, NoType
  <1>20. SlotInv'
    BY DeclareParamSlots DEF NameInv
  <1> QED
    BY <1>1, <1>17, <1>18, <1>19, <1>20 DEF NameInv, NeverNonExistent

\* A declaration enters the innermost scope of all three.
LEMMA DeclStmtNames ==
    ASSUME ~ParamShadowing, NameInv, NEW name \in Names, NEW used \in SUBSET Names,
           DeclStmt(name, used)
    PROVE  NameInv'
  <1> DEFINE s1 == CreateVariable(scope, name, decls + 1)
  <1>1. /\ types # <<>> /\ frameNames # <<>> /\ scope # <<>>
        /\ Len(types) \in Nat /\ Len(types) >= 1 /\ Len(frameNames) = Len(types)
        /\ Len(scope) \in Nat /\ Len(types) < Len(scope)
        /\ Base \in Nat /\ Base >= 1 /\ Base = Len(scope) - Len(types)
    BY BodyFacts DEF DeclStmt, InBody, NameInv
  <1>2. decls + 1 \in Nat \ {0}
    BY DEF NameInv, SlotInv, TypeOK
  <1>3. /\ InBody /\ stage \in {"func", "main"} /\ \A n \in used : Known(n)
        /\ moved = Len(params)
        /\ types[Len(types)][name] = NoType
        /\ Len(types) > 1 \/ \A i \in 1..Len(params) : params[i].name # name
        /\ types' = [types EXCEPT ![Len(types)][name] = decls + 1]
        /\ frameNames' = [frameNames EXCEPT ![Len(frameNames)] = @ \cup {name}]
        /\ scope' = InitialiseVariable(s1, name)
        /\ Record(Resolve(s1, used) \cup {Use(name, decls + 1, LookupType(scope', name))})
        /\ params' = params /\ moved' = moved
    BY DEF DeclStmt, InBody
  <1>4. Len(types) > 1 \/ name \notin MovedNames
    BY <1>3 DEF MovedNames
  <1>5. name \notin VarsOf(scope[Len(scope)])
    BY <1>3, <1>4, FreeName
  <1>6. scope \in Seq(VarScopes)
    BY DEF NameInv, SlotInv, TypeOK
  <1>7. /\ LookupType(scope', name) = decls + 1
        /\ DeclaredIn(scope, scope', name, decls + 1)
    BY <1>1, <1>2, <1>3, <1>6, DeclareNames
  <1>8. /\ Len(types') = Len(types)
        /\ \A k \in 1..Len(types) - 1 : types'[k] = types[k]
        /\ types'[Len(types)][name] = decls + 1
        /\ \A n \in Names : n # name => types'[Len(types)][n] = types[Len(types)][n]
    <2>1. types \in Seq([Names -> Nat]) /\ Len(types) \in 1..Len(types)
      BY <1>1 DEF NameInv, SlotInv, TypeOK
    <2>2. types[Len(types)] \in [Names -> Nat]
      BY <2>1, ElementOfSeq
    <2> DEFINE top == [types[Len(types)] EXCEPT ![name] = decls + 1]
    <2>3. top \in [Names -> Nat]
      BY <1>2, <2>2
    <2>4. types' = [types EXCEPT ![Len(types)] = top]
      BY <1>3
    <2>5. /\ top[name] = decls + 1
          /\ \A n \in Names : n # name => top[n] = types[Len(types)][n]
      BY <2>2
    <2> HIDE DEF top
    <2>6. /\ Len(types') = Len(types)
          /\ \A k \in 1..Len(types) - 1 : types'[k] = types[k]
          /\ types'[Len(types)] = top
      BY <1>1, <2>1, <2>3, <2>4, ReplaceLast
    <2> QED
      BY <2>5, <2>6
  <1>9. /\ \A k \in 1..Len(types) - 1 : frameNames'[k] = frameNames[k]
        /\ frameNames'[Len(types)] = frameNames[Len(types)] \cup {name}
    <2>1. frameNames \in Seq(SUBSET Names) /\ Len(frameNames) \in 1..Len(frameNames)
      BY <1>1 DEF NameInv, SlotInv, TypeOK
    <2> DEFINE S   == SUBSET Names
               top == frameNames[Len(frameNames)] \cup {name}
    <2>2. top \in S /\ frameNames \in Seq(S)
      BY <2>1, ElementOfSeq
    <2>3. frameNames' = [frameNames EXCEPT ![Len(frameNames)] = top]
      BY <1>3
    <2> HIDE DEF S, top
    <2>4. /\ \A k \in 1..Len(frameNames) - 1 : frameNames'[k] = frameNames[k]
          /\ frameNames'[Len(frameNames)] = top
      BY <1>1, <2>2, <2>3, ReplaceLast
    <2> QED
      BY <1>1, <2>4 DEF top
  <1>10. Base' = Base /\ MovedNames' = MovedNames
    <2>1. Len(scope') = Len(scope)
      BY <1>7 DEF DeclaredIn
    <2> QED
      BY <1>3, <1>8, <2>1 DEF Base, MovedNames
  <1>11. ASSUME NEW k \in 1..Len(types) - 1 PROVE ScopeMatches(k)'
    <2>1. /\ Base + k \in 1..Len(scope) - 1 /\ Base + k - 1 \in 1..Len(scope) - 1
          /\ Base + k \in 1..Len(scope) /\ Base + k # Len(scope)
      BY <1>1
    <2>2. k \in 1..Len(types) /\ ScopeMatches(k)
      BY <1>1 DEF NameInv, ScopesMatch
    <2>3. /\ scope'[Base + k].next = scope[Base + k].next
          /\ VarsOf(scope'[Base + k]) = VarsOf(scope[Base + k])
          /\ scope'[Base + k - 1].next = scope[Base + k - 1].next
      BY <1>7, <2>1 DEF DeclaredIn
    <2>4. \A n \in Names :
              /\ scope'[Base + k].vars[n].typeInfo = scope[Base + k].vars[n].typeInfo
              /\ scope[Base + k].vars[n].initialised => scope'[Base + k].vars[n].initialised
      BY <1>7, <2>1 DEF DeclaredIn
    <2>5. types'[k] = types[k] /\ frameNames'[k] = frameNames[k]
      BY <1>8, <1>9
    <2> QED
      BY <1>10, <2>2, <2>3, <2>4, <2>5, ScopeKept
  <1>12. ASSUME NEW d \in Nat, d = Len(types) PROVE ScopeMatches(d)'
    <2>1. /\ Len(types') = Len(types)
          /\ frameNames'[d] = frameNames[d] \cup {name}
          /\ \A n \in Names : n # name => types'[d][n] = types[d][n]
          /\ types'[d][name] = decls + 1
      BY <1>8, <1>9, <1>12
    <2>2. MovedNames \subseteq MovedNames'
      BY <1>10
    <2> QED
      BY <1>2, <1>3, <1>5, <1>12, <2>1, <2>2, DeclaredScope
  <1>13. ASSUME NEW i \in 1..moved
         PROVE  /\ i \in 1..Len(params) /\ params[i].name \in Names
                /\ Len(types) > 1 \/ params[i].name # name
    <2>1. i \in 1..Len(params)
      BY <1>3
    <2>2. params[i] \in [name : Names, type : Nat \ {0}]
      BY ZenonT(60), <2>1, ElementOfSeq DEF NameInv, SlotInv, TypeOK
    <2> QED
      BY <1>3, <2>1, <2>2
  <1>14. ScopesMatch'
    <2>1. ASSUME NEW k \in 1..Len(types') PROVE ScopeMatches(k)'
      <3>1. k \in 1..Len(types) - 1 \/ (k \in Nat /\ k = Len(types))
        BY <1>1, <1>8
      <3> QED
        BY <1>11, <1>12, <3>1
    <2>2. \A i \in 1..moved' :
              scope'[Base' + 1].vars[params'[i].name].typeInfo = params'[i].type
      <3> SUFFICES ASSUME NEW i \in 1..moved
                   PROVE  scope'[Base + 1].vars[params[i].name].typeInfo = params[i].type
        BY <1>3, <1>10
      <3>1. scope[Base + 1].vars[params[i].name].typeInfo = params[i].type
        BY <1>1 DEF NameInv, ScopesMatch
      <3>2. /\ Base + 1 \in 1..Len(scope)
            /\ Len(types) > 1 => Base + 1 # Len(scope)
        BY <1>1
      <3>3. Base + 1 # Len(scope) \/ params[i].name # name
        BY <1>13, <3>2
      <3> QED
        BY <1>7, <1>13, <3>1, <3>2, <3>3 DEF DeclaredIn
    <2> QED
      BY <2>1, <2>2 DEF ScopesMatch
  <1>15. ParamsFirst'
    <2>1. ASSUME NEW i \in 1..Len(params) PROVE types'[1][params[i].name] = NoType
      <3>1. types[1][params[i].name] = NoType
        BY <1>1 DEF NameInv, ParamsFirst
      <3>2. params[i].name \in Names /\ (Len(types) > 1 \/ params[i].name # name)
        BY <1>3, <1>13
      <3>3. CASE Len(types) > 1
        <4>1. 1 \in 1..Len(types) - 1
          BY <1>1, <3>3
        <4> QED
          BY <1>8, <3>1, <4>1
      <3>4. CASE Len(types) = 1
        <4>1. params[i].name # name /\ types[1][params[i].name] = NoType
          BY <3>1, <3>2, <3>4
        <4> QED
          BY <1>8, <3>2, <3>4, <4>1
      <3> QED
        BY <1>1, <3>3, <3>4
    <2>2. ~ (moved < Len(params))
      BY <1>3, LenProperties DEF NameInv, SlotInv, TypeOK
    <2> QED
      BY <1>3, <2>1, <2>2 DEF NameInv, ParamsFirst
  <1>16. UsesAgree' /\ stage' = stage
    <2>1. ASSUME NEW n \in used
          PROVE  LookupType(s1, n) = CheckedType(n) /\ CheckedType(n) # NoType
      <3>1. LookupType(s1, n) = LookupType(scope, n)
        BY <1>1, <1>2, <1>5, <1>6, CreateLookup
      <3>2. LookupType(scope, n) = CheckedType(n) /\ CheckedType(n) # NoType
        BY <1>3, ScopeMatching, LookupAgrees DEF NameInv, Known
      <3> QED
        BY <3>1, <3>2
    <2> HIDE DEF s1
    <2>2. \A u \in Resolve(s1, used) : u.allocated = u.checked /\ u.allocated # NoType
      BY <2>1 DEF Resolve, Use
    <2>3. \A u \in {Use(name, decls + 1, LookupType(scope', name))} :
              u.allocated = u.checked /\ u.allocated # NoType
      BY <1>2, <1>7 DEF Use, NoType
    <2> QED
      BY <1>3, <2>2, <2>3, NoPanic
  <1>17. SlotInv'
    BY DeclStmtSlots DEF NameInv
  <1> QED
    BY <1>14, <1>15, <1>16, <1>17 DEF NameInv, NeverNonExistent

\* When no function repeats a parameter's name in its own scope, the passes
\* agree about names in every program.
THEOREM NameInvariant == ~ParamShadowing => (Spec => []NameInv)
  <1> SUFFICES ASSUME ~ParamShadowing PROVE Spec => []NameInv
    OBVIOUS
  <1>1. Init /\ SlotInv => NameInv
    <2> SUFFICES ASSUME Init, SlotInv PROVE NameInv
      OBVIOUS
    <2>1. types = <<>> /\ params = <<>> /\ moved = 0 /\ uses = {} /\ stage = "between"
      BY DEF Init
    <2>2. Len(types) = 0 /\ Len(params) = 0
      BY <2>1
    <2> QED
      BY <2>1, <2>2 DEF NameInv, ParamsFirst, ScopesMatch, UsesAgree, NeverNonExistent
  <1>2. NameInv /\ [Next]_vars => NameInv'
    <2> SUFFICES ASSUME NameInv, [Next]_vars PROVE NameInv'
      OBVIOUS
    <2>1. CASE \E names \in ParamNames : BeginFunction(names)
      BY <2>1, BeginFunctionNames
    <2>2. CASE DeclareParam
      BY <2>2, DeclareParamNames
    <2>3. CASE EndFunction \/ EndMain
      BY <2>3, EndBodyNames
    <2>4. CASE BeginMain
      BY <2>4, BeginMainNames
    <2>5. CASE \E name \in Names, used \in SUBSET Names : DeclStmt(name, used)
      BY <2>5, DeclStmtNames
    <2>6. CASE \E name \in Names, used \in SUBSET Names : AssignStmt(name, used)
      BY <2>6, AssignStmtNames
    <2>7. CASE \E used \in SUBSET Names : UseStmt(used)
      BY <2>7, UseStmtNames
    <2>8. CASE \E used \in SUBSET Names : BlockBegin(used)
      BY <2>8, BlockBeginNames
    <2>9. CASE BlockEnd
      BY <2>9, BlockEndNames
    <2>10. CASE UNCHANGED vars
      <3>1. /\ types' = types /\ params' = params /\ moved' = moved
            /\ frameNames' = frameNames /\ scope' = scope /\ uses' = uses /\ stage' = stage
        BY <2>10 DEF vars
      <3>2. SlotInv'
        <4>1. TypeOK'
          BY <2>10 DEF vars, NameInv, SlotInv, TypeOK
        <4>2. BodyOpen' /\ LeftoversEmpty'
          BY <3>1 DEF NameInv, SlotInv, BodyOpen, LeftoversEmpty, Base
        <4>3. SlotsNumbered(scope')
          BY <3>1 DEF NameInv, SlotInv
        <4> QED
          BY <4>1, <4>2, <4>3 DEF SlotInv
      <3>3. Base' = Base /\ \A k \in 1..Len(types) : ScopeMatches(k)' = ScopeMatches(k)
        BY <3>1 DEF ScopeMatches, Base, MovedNames
      <3>4. ScopesMatch'
        BY <3>1, <3>3 DEF NameInv, ScopesMatch
      <3>5. ParamsFirst' /\ UsesAgree' /\ NeverNonExistent'
        BY <3>1 DEF NameInv, ParamsFirst, UsesAgree, NeverNonExistent
      <3> QED
        BY <3>2, <3>4, <3>5 DEF NameInv
    <2> QED
      BY <2>1, <2>2, <2>3, <2>4, <2>5, <2>6, <2>7, <2>8, <2>9, <2>10 DEF Next
  <1> QED
    BY <1>1, <1>2, SlotInvariant, PTL DEF Spec

\* What the checker and the allocator mean by a name is the same declaration.
THEOREM NamesAgree == ~ParamShadowing => (Spec => []UsesAgree)
  <1>1. NameInv => UsesAgree
    BY DEF NameInv
  <1> QED
    BY <1>1, NameInvariant, PTL

\* The allocator finds every name the checker has let pass.
THEOREM NamesFound == ~ParamShadowing => (Spec => []NeverNonExistent)
  <1>1. NameInv => NeverNonExistent
    BY DEF NameInv
  <1> QED
    BY <1>1, NameInvariant, PTL

\* The slots of a scope fit into the bytes reserved for it.
THEOREM FramesFit == ~ParamShadowing => (Spec => []SlotsFitFrame)
  <1>1. NameInv => SlotsFitFrame
    <2> SUFFICES ASSUME NameInv, NEW k \in 1..Len(frameNames)
                 PROVE  (scope[Base + k].next - scope[Base + k - 1].next) * RegWidth
                            <= AlignedSize(Cardinality(frameNames[k]))
      BY DEF SlotsFitFrame
    <2>1. k \in 1..Len(types)
      BY DEF NameInv, SlotInv, TypeOK
    <2>2. /\ frameNames[k] = VarsOf(scope[Base + k])
          /\ scope[Base + k].next = scope[Base + k - 1].next + Cardinality(frameNames[k])
      BY <2>1 DEF NameInv, ScopesMatch, ScopeMatches
    <2>3. IsFiniteSet(frameNames[k]) /\ Cardinality(frameNames[k]) \in Nat
      BY <2>2, NamesFinite, FS_Subset, FS_CardinalityType DEF VarsOf
    <2>4. scope[Base + k - 1].next \in Nat
      <3>1. /\ Len(types) \in Nat /\ Len(scope) \in Nat /\ types # <<>>
            /\ Len(types) < Len(scope)
        BY <2>1, LenProperties, EmptySeq DEF NameInv, SlotInv, TypeOK
      <3>2. Base + k - 1 \in 1..Len(scope)
        BY <2>1, <3>1 DEF Base
      <3>3. scope[Base + k - 1] \in VarScopes
        BY <3>2, ElementOfSeq DEF NameInv, SlotInv, TypeOK
      <3> QED
        BY <3>3 DEF VarScopes
    <2> DEFINE n == Cardinality(frameNames[k])
    <2>5. scope[Base + k].next - scope[Base + k - 1].next = n
      BY <2>2, <2>3, <2>4
    <2>6. n \in Nat
      BY <2>3
    <2> HIDE DEF n
    <2>7. n * RegWidth <= AlignedSize(n)
      BY <2>6 DEF AlignedSize, RegWidth
    <2> QED
      BY <2>5, <2>7 DEF n
  <1> QED
    BY <1>1, NameInvariant, PTL
=============================================================================
