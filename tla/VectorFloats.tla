----------------------------- MODULE VectorFloats -----------------------------
(***************************************************************************)
(* Floating-point lanes.  The sorts are scaled: a lane of k bytes has      *)
(* Exponent[k] bits of exponent, so that the fraction of the first lane    *)
(* with a float is as narrow against the next as binary16 against          *)
(* binary32.  A number is exact until it is packed: m / den * 2^q.         *)
(***************************************************************************)
EXTENDS VectorLanes

CONSTANTS Exponent        \* the bits of the exponent of a lane of k bytes

FloatLanes == DOMAIN Exponent
Fraction(k) == Bits(k) - 1 - Exponent[k]
Precision(k) == Fraction(k) + 1
Bias(k) == 2 ^ (Exponent[k] - 1) - 1
LowestQ(k) == 1 - Bias(k) - Fraction(k)

----------------------------------------------------------------------------
\* Patterns.

Magnitude(x, k) == x % 2 ^ (Bits(k) - 1)
SignOf(x, k) == x \div 2 ^ (Bits(k) - 1)
InfinityOf(k) == Ones(Exponent[k]) * 2 ^ Fraction(k)
QuietBit(k) == 2 ^ (Fraction(k) - 1)
IsNan(x, k) == Magnitude(x, k) > InfinityOf(k)
IsInfinite(x, k) == Magnitude(x, k) = InfinityOf(k)
IsZero(x, k) == Magnitude(x, k) = 0
Signalling(x, k) == IsNan(x, k) /\ (x \div QuietBit(k)) % 2 = 0
Quieted(x, k) == x | QuietBit(k)
DefaultNan(sign, k) == sign * 2 ^ (Bits(k) - 1) + InfinityOf(k) + QuietBit(k)
NoNumber == -3            \* the result is a NaN

Finite(sign, m, q) == [kind |-> "finite", sign |-> sign, m |-> m, den |-> 1, q |-> q]
Infinite(sign) == [Finite(sign, 1, 0) EXCEPT !.kind = "infinite"]
Nan == [Finite(0, 0, 0) EXCEPT !.kind = "nan"]
Value(x, k) ==
    LET exponent == Magnitude(x, k) \div 2 ^ Fraction(k)
        fraction == x % 2 ^ Fraction(k)
    IN  IF IsNan(x, k) THEN Nan
        ELSE IF IsInfinite(x, k) THEN Infinite(SignOf(x, k))
        ELSE Finite(SignOf(x, k), fraction + (IF exponent = 0 THEN 0 ELSE 2 ^ Fraction(k)),
                    LowestQ(k) + Highest(exponent, 1) - 1)

----------------------------------------------------------------------------
\* Rounding.

RoundQuotient(num, den, sign, mode) ==
    LET d == num \div den
        r == num % den
        up == CASE mode = "even" -> 2 * r > den \/ (2 * r = den /\ d % 2 = 1)
                [] mode = "away" -> 2 * r >= den
                [] mode = "zero" -> FALSE
                [] mode = "up" -> sign = 0 /\ r > 0
                [] mode = "down" -> sign = 1 /\ r > 0
    IN  IF up THEN d + 1 ELSE d
\* v / 2^e, rounded to an integer.
RoundAt(v, e, mode) ==
    IF v.q >= e THEN RoundQuotient(v.m * 2 ^ (v.q - e), v.den, v.sign, mode)
    ELSE RoundQuotient(v.m, v.den * 2 ^ Lowest(e - v.q, 30), v.sign, mode)
\* v / 2^e has no more than so many bits.
Fits(v, e, bits) ==
    LET n == bits + e - v.q IN
    CASE n > 30 -> TRUE
      [] n \in 0..30 -> v.m \div v.den < 2 ^ n
      [] n < 0 -> n > -15 /\ v.m * 2 ^ (-n) < v.den
\* The pattern of a number in a lane of k bytes.
Pack(v, mode, k) ==
    LET sign == v.sign * 2 ^ (Bits(k) - 1)
        e == CHOOSE x \in LowestQ(k)..(LowestQ(k) + 40) :
                Fits(v, x, Precision(k)) /\ (x = LowestQ(k) \/ ~Fits(v, x - 1, Precision(k)))
        pattern == (e - LowestQ(k)) * 2 ^ Fraction(k) + RoundAt(v, e, mode)
        largest == \/ mode = "zero" \/ (mode = "up" /\ v.sign = 1) \/ (mode = "down" /\ v.sign = 0)
    IN  CASE v.kind = "nan" -> NoNumber
          [] v.kind = "infinite" -> sign + InfinityOf(k)
          [] v.kind = "finite" /\ v.m = 0 -> sign
          [] OTHER -> sign + (IF pattern < InfinityOf(k) THEN pattern
                              ELSE InfinityOf(k) - (IF largest THEN 1 ELSE 0))
\* A number rounded to so many significant bits, whatever its exponent.
ToPrecision(v, precision) ==
    IF v.kind # "finite" \/ v.m < 2 ^ precision THEN v
    ELSE LET e == CHOOSE x \in v.q..(v.q + 30) :
                    Fits(v, x, precision) /\ ~Fits(v, x - 1, precision)
         IN  Finite(v.sign, RoundAt(v, e, "even"), e)

----------------------------------------------------------------------------
\* Exact arithmetic.

Negated(v) == [v EXCEPT !.sign = 1 - v.sign]
Sum(v, u) ==
    LET q == Lowest(v.q, u.q)
        n(t) == (IF t.sign = 1 THEN -1 ELSE 1) * t.m * 2 ^ (t.q - q)
        total == n(v) + n(u)
    IN  CASE v.kind = "nan" \/ u.kind = "nan" -> Nan
          [] v.kind = "infinite" /\ u.kind = "infinite" -> IF v.sign = u.sign THEN v ELSE Nan
          [] v.kind = "infinite" /\ u.kind = "finite" -> v
          [] v.kind = "finite" /\ u.kind = "infinite" -> u
          [] OTHER -> IF total = 0 THEN Finite(v.sign * u.sign, 0, q)
                      ELSE Finite(IF total < 0 THEN 1 ELSE 0, Highest(total, -total), q)
Product(v, u) ==
    LET sign == (v.sign + u.sign) % 2 IN
    CASE v.kind = "nan" \/ u.kind = "nan" -> Nan
      [] v.kind = "finite" /\ u.kind = "finite" -> Finite(sign, v.m * u.m, v.q + u.q)
      [] OTHER -> IF v.m = 0 \/ u.m = 0 THEN Nan ELSE Infinite(sign)
Quotient(v, u) ==
    LET sign == (v.sign + u.sign) % 2 IN
    CASE v.kind = "nan" \/ u.kind = "nan" \/ (v.kind = "infinite" /\ u.kind = "infinite") -> Nan
      [] v.kind = "infinite" /\ u.kind = "finite" -> Infinite(sign)
      [] v.kind = "finite" /\ u.kind = "infinite" -> Finite(sign, 0, 0)
      [] OTHER -> IF u.m # 0 THEN [Finite(sign, v.m, v.q - u.q) EXCEPT !.den = u.m]
                  ELSE IF v.m = 0 THEN Nan ELSE Infinite(sign)
\* Enough of the square root to round it: its floor, and whether that is all.
Root(v) ==
    LET even == IF v.q % 2 = 0 THEN v ELSE [v EXCEPT !.m = 2 * v.m, !.q = v.q - 1]
        n == even.m * 4 ^ 8
        r == CHOOSE x \in 0..(2 ^ 14) : x * x <= n /\ (x + 1) * (x + 1) > n
    IN  CASE v.kind = "nan" \/ (v.sign = 1 /\ v.m # 0) -> Nan
          [] v.kind = "infinite" \/ v.m = 0 -> v
          [] OTHER -> Finite(0, 2 * r + (IF r * r = n THEN 0 ELSE 1), even.q \div 2 - 9)
Below(v, u) ==
    LET q == Lowest(v.q, u.q)
        n(t) == (IF t.sign = 1 THEN -1 ELSE 1) *
                (IF t.kind = "infinite" THEN 2 ^ 30 ELSE t.m * 2 ^ (t.q - q))
    IN  "nan" \notin {v.kind, u.kind} /\ n(v) < n(u)
Same(v, u) == "nan" \notin {v.kind, u.kind} /\ ~Below(v, u) /\ ~Below(u, v)

Arith(f, v, u) ==
    CASE f = "fadd" -> Sum(v, u)          [] f = "fsub" -> Sum(v, Negated(u))
      [] f = "fmul" -> Product(v, u)      [] f = "fdiv" -> Quotient(v, u)
      [] f = "fsqrt" -> Root(v)
FloatOf(n) == Finite(IF n < 0 THEN 1 ELSE 0, Highest(n, -n), 0)
Fp(f, a, b, k) == Pack(Arith(f, Value(a, k), Value(b, k)), "even", k)
Less(a, b, k) == Below(Value(a, k), Value(b, k))
Equal(a, b, k) == Same(Value(a, k), Value(b, k))

----------------------------------------------------------------------------
\* Float lanes, as they are lowered.  The pattern of a NaN that was computed
\* is free.

Pinned(x) == IF x = NoNumber THEN Unk ELSE x
FpLane(f, a, b, k) ==
    CASE f = "fmax" -> IF Less(b, a, k) THEN a ELSE b
      [] f = "fmin" -> IF Less(a, b, k) THEN a ELSE b
      [] OTHER -> Pinned(Fp(f, a, b, k))
MultiplyExtendedLane(a, b, k) ==
    LET two == (Bias(k) + 1) * 2 ^ Fraction(k)
        sign == ((SignOf(a, k) + SignOf(b, k)) % 2) * 2 ^ (Bits(k) - 1)
    IN  IF (IsInfinite(a, k) /\ IsZero(b, k)) \/ (IsZero(a, k) /\ IsInfinite(b, k))
        THEN two + sign ELSE Pinned(Fp("fmul", a, b, k))
\* A NaN of the operands goes through, a signalling one first and quieted; of
\* two zeros max takes the positive one and min the negative one.
PropagatingMaxMin(f, number_wins, a, b, k) ==
    LET first == IF f = "fmax" THEN Less(b, a, k) ELSE Less(a, b, k)
        second == IF f = "fmax" THEN Less(a, b, k) ELSE Less(b, a, k)
        numeric == CASE first -> a [] second -> b
                     [] OTHER -> IF f = "fmax" THEN a & b ELSE a | b
    IN  CASE Signalling(a, k) -> Quieted(a, k)
          [] ~Signalling(a, k) /\ Signalling(b, k) -> Quieted(b, k)
          [] OTHER ->
                CASE IsNan(a, k) -> IF number_wins /\ ~IsNan(b, k) THEN b ELSE a
                  [] ~IsNan(a, k) /\ IsNan(b, k) -> IF number_wins THEN a ELSE b
                  [] OTHER -> numeric
FloatCompareLane(kind, a, b, k) ==
    LET hit == CASE kind.f = "eq" -> Equal(a, b, k)
                 [] kind.f = "gt" -> Less(b, a, k)
                 [] kind.f = "ge" -> Less(b, a, k) \/ Equal(b, a, k)
    IN  IF hit THEN Ones(Bits(k)) ELSE 0
\* A product and what it is combined with, in the next format, rounded there
\* and once more to the lane.
FusedStep(f, acc, a, b, k, precision) ==
    LET wide(v) == ToPrecision(v, precision)
        product == wide(Product(Value(a, k), Value(b, k)))
        special == (IsInfinite(a, k) /\ IsZero(b, k)) \/ (IsZero(a, k) /\ IsInfinite(b, k))
        value == CASE f = "fmla" -> wide(Sum(Value(acc, k), product))
                   [] f = "fmls" -> wide(Sum(Value(acc, k), Negated(product)))
                   [] f = "frecps" -> wide(Sum(FloatOf(2), Negated(product)))
                   [] f = "frsqrts" -> wide(Quotient(wide(Sum(FloatOf(3), Negated(product))), FloatOf(2)))
    IN  IF special /\ f \in {"frecps", "frsqrts"}
        THEN Pack(IF f = "frecps" THEN FloatOf(2) ELSE Quotient(FloatOf(3), FloatOf(2)), "even", k)
        ELSE Pinned(Pack(value, "even", k))
FusedLane(f, acc, a, b, k) == FusedStep(f, acc, a, b, k, Precision(2 * k))
\* Without fusing, the product is rounded to the lane first.
AccumulateLane(f, acc, a, b, k) ==
    LET product == Fp("fmul", a, b, k)
    IN  IF product = NoNumber THEN Unk
        ELSE Pinned(Fp(IF f = "fmls" THEN "fsub" ELSE "fadd", acc, product, k))

----------------------------------------------------------------------------
\* Conversions.  What fp.to_sbv says of a number that does not fit is free.

IntegralOf(v, mode) == (IF v.sign = 1 THEN -1 ELSE 1) * RoundAt(v, 0, mode)
FpToSbv(v, mode, w) ==
    IF v.kind # "finite" THEN Unk
    ELSE LET n == IntegralOf(v, mode) IN
         IF n < Least(TRUE, w) \/ n > Greatest(TRUE, w) THEN Unk ELSE Pattern(n, w)
\* clamp_unsigned_float_to_int, over a conversion with a bit to spare.
UnsignedFloatToInt(v, mode, w) ==
    IF v.kind = "nan" \/ Below(v, FloatOf(0)) THEN 0
    ELSE LET n == FpToSbv(v, mode, w + 1) IN IF n = Unk THEN Unk ELSE Pattern(n, w)
FloatToInt(v, signed, mode, w) ==
    IF signed THEN FpToSbv(v, mode, w) ELSE UnsignedFloatToInt(v, mode, w)
\* The processors saturate, and take a NaN for zero.
ArmFloatToInt(v, signed, mode, w) ==
    CASE v.kind = "nan" -> 0
      [] v.kind = "infinite" -> Pattern(IF v.sign = 1 THEN Least(signed, w) ELSE Greatest(signed, w), w)
      [] v.kind = "finite" -> Within(IntegralOf(v, mode), signed, w)
FpToFp(x, from, to, mode) == Pinned(Pack(Value(x, from), mode, to))

----------------------------------------------------------------------------
\* What the processors do with the NaNs among the operands.

X86Nan(a, b, k) ==
    CASE IsNan(a, k) -> Quieted(a, k)
      [] ~IsNan(a, k) /\ IsNan(b, k) -> Quieted(b, k)
      [] OTHER -> DefaultNan(1, k)
ArmNan(xs, k) ==
    LET first(P(_)) == CHOOSE i \in DOMAIN xs : P(xs[i]) /\ \A j \in 1..(i - 1) : ~P(xs[j])
    IN  CASE \E i \in DOMAIN xs : Signalling(xs[i], k) ->
                Quieted(xs[first(LAMBDA x : Signalling(x, k))], k)
          [] ~(\E i \in DOMAIN xs : Signalling(xs[i], k)) /\ \E i \in DOMAIN xs : IsNan(xs[i], k) ->
                xs[first(LAMBDA x : IsNan(x, k))]
          [] OTHER -> DefaultNan(0, k)
OrNan(x, nan) == IF x = NoNumber THEN nan ELSE x
=============================================================================
