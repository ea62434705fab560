----------------------------- MODULE Evaluation -----------------------------
(***************************************************************************)
(* What one instruction of the IF means, whatever registers it is compiled *)
(* to: it starts with the values of the variables and the heap that the    *)
(* program has at that point, and ends in one step with new ones, or with  *)
(* one of the runtime errors of its operands.  Operators are strict: both  *)
(* sides of && and || are evaluated, and the order is not fixed.           *)
(***************************************************************************)
EXTENDS Words, Sequences, FiniteSets, TLC

CONSTANTS
    Statements,  \* the instructions
    Inputs,      \* what variables and heap may be when one is executed
    Reply,       \* what a called function returns, or the user types
    ObjectSpan,  \* the distance between objects of the heap
    NotYet       \* no value

VARIABLES stmt, given, result

Errors == {"Overflow", "DivideByZero", "NegativeIndex", "IndexTooLarge", "NullReference"}

\* The value of an expression, or the errors that are possible instead.
Value(v)     == [errors |-> {}, value |-> v]
Failing(es)  == [errors |-> es, value |-> NotYet]
Checked(v)   == IF Fits(v) THEN Value(v) ELSE Failing({"Overflow"})
Boolean(b)   == Value(IF b THEN 1 ELSE 0)

Compared(op, a, b) ==
    CASE op = "<"  -> Boolean(a < b)  [] op = "<=" -> Boolean(a <= b)
      [] op = ">"  -> Boolean(a > b)  [] op = ">=" -> Boolean(a >= b)
      [] op = "==" -> Boolean(a = b)  [] op = "!=" -> Boolean(a # b)

Applied(op, type, a, b) ==
    CASE op \in {"+", "-", "*", "/"} /\ type = "float" -> Value(FloatResult(op, a, b))
      [] op = "+" -> Checked(a + b)
      [] op = "-" -> Checked(a - b)
      [] op = "*" -> Checked(a * b)
      [] op \in {"/", "%"} /\ b = 0 -> Failing({"DivideByZero"})
      [] op = "/" -> Checked(TruncatedQuotient(a, b))
      [] op = "%" -> Checked(TruncatedRemainder(a, b))
      [] op = "&&" -> Boolean(a = 1 /\ b = 1)
      [] op = "||" -> Boolean(a = 1 \/ b = 1)
      [] type = "float" -> Compared(op, FloatOf(a), FloatOf(b))
      [] OTHER -> Compared(op, a, b)

UnaryApplied(op, type, a, heap) ==
    CASE op = "!" -> Boolean(a = 0)
      [] op = "-" /\ type = "float" -> Value(FloatWord(-FloatOf(a)))
      [] op = "-" -> Checked(-a)
      [] op = "len" -> Value(heap[a])
      [] OTHER -> Value(a)

RECURSIVE Meaning(_, _), Address(_, _)

Meaning(e, g) ==
    CASE e.kind = "const" -> Value(e.value)
      [] e.kind = "var" -> Value(g.store[e.name])
      [] e.kind = "unary" ->
            LET a == Meaning(e.operand, g) IN
            IF a.errors # {} THEN a ELSE UnaryApplied(e.op, e.type, a.value, g.heap)
      [] e.kind = "binary" ->
            LET a == Meaning(e.left, g)
                b == Meaning(e.right, g)
            IN  IF a.errors \cup b.errors # {} THEN Failing(a.errors \cup b.errors)
                ELSE Applied(e.op, e.type, a.value, b.value)
      [] OTHER ->
            LET p == Address(e, g) IN
            IF p.errors # {} THEN p ELSE Value(g.heap[p.value])

\* Where an array element or a field is.
Address(e, g) ==
    IF e.kind = "field"
    THEN IF g.store[e.object] = 0 THEN Failing({"NullReference"})
         ELSE Value(g.store[e.object] + e.offset)
    ELSE LET a == Meaning(e.array, g)
             n == Meaning(e.index, g)
             wrong == {x \in Errors :
                         \/ x = "NullReference" /\ a.value = 0
                         \/ x = "NegativeIndex" /\ n.value < 0
                         \/ x = "IndexTooLarge" /\ a.value # 0 /\ n.value >= g.heap[a.value]}
         IN  IF a.errors \cup n.errors # {} THEN Failing(a.errors \cup n.errors)
             ELSE IF wrong # {} THEN Failing(wrong) ELSE Value(a.value + 4 + 4 * n.value)

\* The heap has room for one more object behind the others.
Fresh(heap) ==
    CHOOSE a \in {ObjectSpan * n : n \in 1..(Cardinality(DOMAIN heap) + 1)} :
        /\ \A b \in DOMAIN heap : b < a
        /\ a = ObjectSpan \/ \E b \in DOMAIN heap : a <= b + ObjectSpan

\* A right-hand side, which may also allocate an object or call a function;
\* the arguments a function gets can be seen.
RightSide(e, g) ==
    IF e.kind \notin {"new", "call"}
    THEN Meaning(e, g) @@ [heap |-> g.heap, shown |-> <<>>]
    ELSE LET args == [n \in 1..Len(e.args) |-> Meaning(e.args[n], g)]
             errors == UNION {args[n].errors : n \in 1..Len(e.args)}
             values == [n \in 1..Len(e.args) |-> args[n].value]
             object == Fresh(g.heap)
             words == IF e.base = 0 THEN values ELSE <<Len(values)>> \o values
         IN  IF errors # {} THEN Failing(errors) @@ [heap |-> g.heap, shown |-> <<>>]
             ELSE IF e.kind = "call" THEN Value(Reply) @@ [heap |-> g.heap, shown |-> values]
             ELSE Value(object) @@
                  [heap |-> [a \in {object + 4 * (n - 1) : n \in 1..Len(words)} |->
                               words[(a - object) \div 4 + 1]] @@ g.heap,
                   shown |-> <<>>]

-----------------------------------------------------------------------------
(* Results.                                                                *)

Done(store, heap, shown) == [status |-> "done", store |-> store, heap |-> heap, shown |-> shown]
Stopped(error)           == [status |-> error]

\* The value v is assigned to a place.
Assigned(lhs, v, store, heap, g, shown) ==
    IF lhs.kind = "var" THEN {Done([store EXCEPT ![lhs.name] = v], heap, shown)}
    ELSE LET p == Address(lhs, g) IN
         IF p.errors # {} THEN {Stopped(x) : x \in p.errors}
         ELSE {Done(store, [heap EXCEPT ![p.value] = v], shown)}

Outcomes(s, g) ==
    IF s.kind = "read" THEN Assigned(s.lhs, Reply, g.store, g.heap, g, <<>>)
    ELSE LET v == RightSide(s.expr, g) IN
         CASE s.kind = "move" ->
                (IF v.errors # {} THEN {Stopped(x) : x \in v.errors}
                 ELSE Assigned(s.lhs, v.value, g.store, v.heap, g, v.shown))
                \cup (IF v.errors = {} \/ s.lhs.kind = "var" THEN {}
                      ELSE {Stopped(x) : x \in Address(s.lhs, g).errors})
           [] v.errors # {} -> {Stopped(x) : x \in v.errors}
           [] s.kind = "free" /\ v.value = 0 -> {Stopped("NullReference")}
           [] s.kind = "eval" -> {Done(g.store, v.heap, v.shown)}
           [] OTHER -> {Done(g.store, g.heap, <<v.value>>)}

-----------------------------------------------------------------------------
Init ==
    /\ stmt \in Statements
    /\ given = NotYet
    /\ result = NotYet

Begin ==
    /\ given = NotYet
    /\ given' \in Inputs
    /\ UNCHANGED <<stmt, result>>

Execute ==
    /\ given # NotYet /\ result = NotYet
    /\ result' \in Outcomes(stmt, given)
    /\ UNCHANGED <<stmt, given>>

Spec == Init /\ [][Begin \/ Execute]_<<stmt, given, result>>
=============================================================================
