------------------------------- MODULE RrdValues -------------------------------
(***************************************************************************)
(* The values an RRD file stores (rrd_value_t, a C double): exact          *)
(* fractions <<n, d>> in lowest terms, the unknown value (DNAN) and the    *)
(* two infinities.  Rounding is the only thing this leaves out.            *)
(***************************************************************************)
EXTENDS Integers, Folds

DNAN == <<0, 0>>
DINF == <<1, 0>>
NegDINF == <<-1, 0>>

\* The greatest common divisor of a and b is Gcd[b][a].
Gcd[b \in Nat] == [a \in Nat |-> IF b = 0 THEN a ELSE Gcd[a % b][b]]

\* The value n / d; zero by zero is unknown, as in IEEE arithmetic.
Ratio(n, d) ==
    LET abs == IF n < 0 THEN -n ELSE n
        g == IF abs = 0 /\ d = 0 THEN 1 ELSE Gcd[IF d < 0 THEN -d ELSE d][abs]
    IN  IF d < 0 THEN <<(-n) \div g, (-d) \div g>> ELSE <<n \div g, d \div g>>

Int2Value(n) == <<n, 1>>
isnan(x) == x = DNAN
IFDNAN(x, y) == IF isnan(x) THEN y ELSE x

\* Two infinities of the same sign stay what they are.
Plus(x, y) ==
    IF x = y /\ x[2] = 0 THEN x ELSE Ratio(x[1] * y[2] + y[1] * x[2], x[2] * y[2])
Scaled(x, n) == Ratio(x[1] * n, x[2])
Over(x, n) == IF isnan(x) THEN DNAN ELSE Ratio(x[1], x[2] * n)
Less(x, y) == x[1] * y[2] < y[1] * x[2] \/ (x = NegDINF /\ y = DINF)

\* The sum of f over a finite set of arguments with known values.
Total(f(_), S) ==
    MapThenFoldSet(Plus, Int2Value(0), f, LAMBDA T : CHOOSE s \in T : TRUE, S)
=============================================================================
