------------------------------- MODULE Words --------------------------------
(***************************************************************************)
(* The machine words of WACC programs and the arithmetic on them: signed   *)
(* integers of Width bits, 32 in the code, and floats, of which only the   *)
(* sign bit and a whole magnitude are modelled.  Addresses are multiples   *)
(* of 4 above all integers.                                                *)
(***************************************************************************)
EXTENDS Integers

CONSTANT Width  \* bits of a word

ASSUME WidthAssumption == Width \in Nat /\ Width > 1

Greatest == 2 ^ (Width - 1) - 1
Least    == -(2 ^ (Width - 1))
Fits(n)  == Least <= n /\ n <= Greatest

\* The low Width bits of n, as a signed number.
Wrapped(n) == ((n - Least) % (2 ^ Width)) + Least

Magnitude(n) == IF n < 0 THEN -n ELSE n

\* Division truncates towards zero, and the remainder has the dividend's sign.
TruncatedQuotient(a, b) ==
    LET q == Magnitude(a) \div Magnitude(b)
    IN  IF (a < 0) = (b < 0) THEN q ELSE -q
TruncatedRemainder(a, b) == a - b * TruncatedQuotient(a, b)

\* Floats as words: the highest bit is the sign.
FloatOf(w)   == IF w < 0 THEN Least - w ELSE w
FloatWord(v) == IF v < 0 THEN Least - v ELSE v

\* The float operations of the library, of which only that they saturate and
\* round towards zero is modelled.
Saturated(v) == CASE v > Greatest -> Greatest [] v < -Greatest -> -Greatest [] OTHER -> v
FloatResult(op, a, b) ==
    FloatWord(Saturated(CASE op = "+" -> FloatOf(a) + FloatOf(b)
                          [] op = "-" -> FloatOf(a) - FloatOf(b)
                          [] op = "*" -> FloatOf(a) * FloatOf(b)
                          [] op = "/" -> IF FloatOf(b) = 0 THEN Greatest
                                         ELSE TruncatedQuotient(FloatOf(a), FloatOf(b))))
=============================================================================
