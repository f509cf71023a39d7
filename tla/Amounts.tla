------------------------------ MODULE Amounts ------------------------------
(***************************************************************************)
(* Amount::from_f64 and to_f64, over binary floating point numbers with a  *)
(* mantissa of MantissaBits (53 in an f64) and integers of IntBits (128 in *)
(* an i128).                                                               *)
(*                                                                         *)
(* A finite number is counted in units of 2^-FractionBits, fine enough for *)
(* every number used here, and is Some(units); NaN and the infinities are  *)
(* None.  Operations round to the nearest number, ties to even.            *)
(***************************************************************************)
EXTENDS Transactions

CONSTANTS MantissaBits, FractionBits, IntBits,
          MaxExponent,  \* of two, by which a mantissa is multiplied
          Precision     \* decimal places of an amount

\* b to the n-th.
Power(b, n) ==
    LET power[i \in 0..n] == IF i = 0 THEN 1 ELSE b * power[i - 1]
    IN  power[n]

TwoTo == [n \in 0..(MantissaBits + MaxExponent) |-> Power(2, n)]

One == TwoTo[FractionBits]

Scale == Power(10, Precision)

\* An integer has more bits than a mantissa, every integer is below the largest
\* float, and the smallest decimal is not below the smallest float with a full
\* mantissa.
ASSUME FloatFormat ==
    /\ MantissaBits \in Nat /\ FractionBits \in Nat /\ IntBits \in Nat
    /\ MaxExponent \in Nat /\ Precision \in Nat
    /\ 4 <= MantissaBits /\ MantissaBits < IntBits
    /\ IntBits + FractionBits <= MantissaBits + MaxExponent
    /\ 10 * Scale * TwoTo[MantissaBits - 1] <= One

Magnitude(n) == IF n < 0 THEN -n ELSE n

Signed(n, magnitude) == IF n < 0 THEN -magnitude ELSE magnitude

\* The integer nearest to n / q, for n >= 0.
RoundDiv(n, q) ==
    LET down == n \div q
        twice == 2 * (n % q)
    IN  IF twice > q \/ (twice = q /\ down % 2 = 1) THEN down + 1 ELSE down

\* The floating point number nearest to n / q units, if they do not overflow.
Nearest(n, q) ==
    LET size == Magnitude(n)
        k == CHOOSE k \in 0..MaxExponent :
                 /\ size < q * TwoTo[MantissaBits + k]
                 /\ k = 0 \/ size >= q * TwoTo[MantissaBits + k - 1]
    IN  Signed(n, RoundDiv(size, q * TwoTo[k]) * TwoTo[k])

Trunc(units) == Signed(units, Magnitude(units) \div One)

MaxInt == TwoTo[IntBits - 1] - 1
MinInt == -TwoTo[IntBits - 1]

\* An integer `as f64`, in units.
AsFloat(m) == Nearest(m * One, 1)

\* A float without fraction `as i128`, which saturates.
AsInt(m) == IF m > MaxInt THEN MaxInt ELSE IF m < MinInt THEN MinInt ELSE m

InRange(m) == m * One >= AsFloat(MinInt) /\ m * One <= AsFloat(MaxInt)

\* Mutant of FromF64: the product is rounded and not truncated.
FromF64Rounded(number) ==
    {AsInt(m) : m \in {n \in {Signed(u, RoundDiv(Magnitude(Nearest(u * Scale, 1)), One)) :
                                   u \in number} : InRange(n)}}

\* Mutant of FromF64: the range is not checked, the cast saturates.
FromF64Saturated(number) == {AsInt(m) : m \in {Trunc(Nearest(u * Scale, 1)) : u \in number}}

\* None stands for Error::Math.
FromF64(number) ==
    {AsInt(m) : m \in {n \in {Trunc(Nearest(u * Scale, 1)) : u \in number} : InRange(n)}}

\* The errors of to_f64 need a precision of hundreds; there are none here.
ToF64(m) == Nearest(AsFloat(m), Scale)

\* What the csv reader makes of a decimal with one place more than an amount
\* has, given without its point: the nearest float.
Parsed(decimal) == Some(Nearest(decimal * One, 10 * Scale))
=============================================================================
