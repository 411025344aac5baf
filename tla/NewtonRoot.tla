----------------------------- MODULE NewtonRoot -----------------------------
(***************************************************************************)
(* The spread of a list of figures as internal/health/score.go and         *)
(* internal/writepattern/classifier.go compute it: both take the square    *)
(* root of the variance by twelve Newton steps from half of it, and divide *)
(* it by the mean.  Half of the variance depends on the unit the figures   *)
(* are in: "unit" says how many of the code's units one of the model's     *)
(* holds, an even number.  Double precision is abstracted to fixed point,  *)
(* fourteen binary digits after the point.                                 *)
(***************************************************************************)
EXTENDS Naturals, SequencesExt

Total(xs) == FoldSeq(+, 0, xs)

(* n*n*n times the variance of n figures.                                  *)
CubedVariance(xs) ==
    LET n == Len(xs)
        total == Total(xs)
        AbsDiff(a, b) == IF a > b THEN a - b ELSE b - a
    IN  FoldSeq(LAMBDA x, sum : sum + AbsDiff(n * x, total) * AbsDiff(n * x, total), 0, xs)

(* a / b in fixed point, by long division: a times 2^14 or 2^28 would not  *)
(* fit in 32 bits.  Each step of it yields seven binary digits.            *)
Digit == 2 ^ 7
One == Digit * Digit
FixedPoint(a, b, digits) ==
    FoldLeft(LAMBDA d, i : [quotient |-> Digit * d.quotient + (Digit * d.rest) \div b,
                            rest |-> (Digit * d.rest) % b],
             [quotient |-> a \div b, rest |-> a % b], [i \in 1..digits |-> i]).quotient

(* The root over the mean.  All that the loop holds is divided by the mean *)
(* here, which leaves its steps as they are: they go from half of the      *)
(* variance over the mean towards the root of variance / mean^2.  A step   *)
(* at most halves: from 2^14 and more they end at four or more, beyond     *)
(* every ratio the callers compare with, so such a start need not be exact.*)
Iterations == 12
Variation(xs, unit) ==
    LET n == Len(xs)
        total == Total(xs)
        cubed == CubedVariance(xs)
        square == FixedPoint(cubed, n * total * total, 4)
        overMean == FixedPoint(cubed, n * n * total, 2)
        start == IF overMean > (One * One) \div (unit \div 2) THEN One * One
                                                            ELSE overMean * (unit \div 2)
    IN  IF square = 0 THEN 0
        ELSE FoldLeft(LAMBDA z, i : IF z = 0 THEN 0 ELSE (z + square \div z) \div 2,
                      start, [i \in 1..Iterations |-> i])

(* Whether the coefficient of variation the code computes is at least      *)
(* num/den, or more than one.                                              *)
CVAtLeast(xs, unit, num, den) == Total(xs) > 0 /\ den * Variation(xs, unit) >= num * One

CVAboveOne(xs, unit) == Len(xs) >= 2 /\ Total(xs) > 0 /\ Variation(xs, unit) > One

-----------------------------------------------------------------------------
(* The coefficient of variation itself, squared so that no root is needed. *)
TrueCVAtLeast(xs, num, den) ==
    Total(xs) > 0 /\ den * den * CubedVariance(xs) >= num * num * Len(xs) * Total(xs) * Total(xs)

TrueCVAboveOne(xs) ==
    Total(xs) > 0 /\ CubedVariance(xs) > Len(xs) * Total(xs) * Total(xs)
=============================================================================
