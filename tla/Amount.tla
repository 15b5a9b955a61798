------------------------------- MODULE Amount -------------------------------
(***************************************************************************)
(* csdb::Amount (src/include/csdb/amount.h): a fixed-point number of a     *)
(* signed integral part and an unsigned fraction, counted in 1/F.  A result*)
(* outside the integral type is undefined behaviour in C++, so the callers *)
(* of these operators keep InRange.                                        *)
(***************************************************************************)
EXTENDS Math128, Sequences

CONSTANTS
  Places,          \* decimal digits of a fraction, 18 in the code
  Digits,          \* decimal digits of a double, 15
  MinInt, MaxInt   \* the range of the integral part, that of int32_t

F == Power(10, Places)   \* AMOUNT_MAX_FRACTION

ASSUME AmountAssumption ==
  /\ Places \in Nat \ {0} /\ 2 * F < Word /\ Digits \in 0 .. Places
  /\ MaxInt \in Nat \ {0} /\ MaxInt + 1 < Word /\ MinInt = -MaxInt - 1

Amt(integral, fraction) == [integral |-> integral, fraction |-> fraction]
Zero == Amt(0, 0)

\* What an amount stands for, in units of 1/F.
Units(a) == a.integral * F + a.fraction

InRange(units) == MinInt * F <= units /\ units < (MaxInt + 1) * F

\* The encoding that the class describes (amount.h:30-38).
Canonical(a) == a.integral \in Int /\ a.fraction \in 0 .. F - 1

\* The amount of that encoding.
Encode(units) == Amt(units \div F, units % F)

-----------------------------------------------------------------------------
(* Construction.                                                             *)

\* Amount(const uint128_t&, bool): whole units, or units of 1/F^2.
OfUnits(value) ==
  LET parts == Div(value, F)
  IN  IF WideValue(value) = 0 THEN Zero ELSE Amt(parts.quotient.lo, parts.remainder)

OfSquare(value) ==
  LET parts == Div(Div(value, F).quotient, F)
  IN  IF WideValue(value) = 0 THEN Zero ELSE Amt(parts.quotient.lo, parts.remainder)

\* Amount(integral, numerator, denominator): the fraction before its check.
FractionOf(numerator, denominator) ==
  Div(PlusWord(Mul(numerator, F), denominator \div 2), denominator).quotient

\* _check_fraction, which throws otherwise.
IsFraction(x) == x.hi = 0 /\ x.lo < F

\* Amount(double), which throws unless CanHold.  A double stands for the number
\* num / den, and what the code does to it in floating point is done exactly.
\* (Of MinInt itself the code computes MinInt - 1 on the way.)
CanHold(v) == MinInt * v.den <= v.num /\ v.num <= MaxInt * v.den

FromDouble(v) ==
  LET integral == IF v.num < 0 THEN -((-v.num) \div v.den) - 1 ELSE v.num \div v.den
      frac == v.num - integral * v.den
      digits == (2 * frac * Power(10, Digits) + v.den) \div (2 * v.den)
      fraction == digits * Power(10, Places - Digits)
  IN  IF fraction >= F THEN Amt(integral + 1, fraction - F) ELSE Amt(integral, fraction)

\* A literal with the suffix _c, given by its digits before and after the point.
Literal(whole, digits) ==
  LET upTo[i \in 0 .. Len(whole)] ==
        IF i = 0 THEN 0 ELSE upTo[i - 1] + whole[i] * Power(10, Len(whole) - i)
      part[i \in 0 .. Len(digits)] ==
        IF i = 0 THEN 0 ELSE part[i - 1] + digits[i] * (F \div Power(10, i))
  IN  Amt(upTo[Len(whole)], part[Len(digits)])

-----------------------------------------------------------------------------
(* Reading: comparison, rounding, text.                                      *)

Equal(a, b) == a.integral = b.integral /\ a.fraction = b.fraction

Less(a, b) ==
  \/ a.integral < b.integral
  \/ a.integral = b.integral /\ a.fraction < b.fraction

Greater(a, b) ==
  \/ a.integral > b.integral
  \/ a.integral = b.integral /\ a.fraction > b.fraction

Round(a) == IF a.fraction < F \div 2 THEN a.integral ELSE a.integral + 1

\* Mutant: the sign is taken off, and the fraction is left as it is stored.
Magnitude_StoredFraction(a) ==
  IF a.integral < 0 /\ a.fraction # 0 THEN Amt(-1 - a.integral, a.fraction)
                                      ELSE a

\* What to_string prints after the sign that it writes itself.
Magnitude(a) ==
  IF a.integral < 0 /\ a.fraction # 0 THEN Amt(-1 - a.integral, F - a.fraction)
                                      ELSE a

\* to_string: sign, integral part and decimals, of which trailing zeros go
\* as long as min_decimal_places stay.  printf gives a fraction of F one
\* digit more than the others.
AmountToString(a, decimals) ==
  LET size == Magnitude(a)
      width == IF size.fraction < F THEN Places ELSE Places + 1
      digit(i) == (size.fraction \div Power(10, width - i)) % 10
      keep == width - Places + (IF decimals < Places THEN decimals ELSE Places)
      last == CHOOSE n \in keep .. width :
                /\ \A i \in n + 1 .. width : digit(i) = 0
                /\ n = keep \/ digit(n) # 0
  IN  [minus |-> a.integral < 0,
       whole |-> IF size.integral < 0 THEN -size.integral ELSE size.integral,
       digits |-> [i \in 1 .. last |-> digit(i)]]

-----------------------------------------------------------------------------
(* Arithmetic.                                                               *)

Negated(a) ==
  IF a.fraction = 0 THEN Amt(-a.integral, 0)
                    ELSE Amt(-a.integral - 1, F - a.fraction)

\* operator +.
Plus(a, b) ==
  IF F <= a.fraction + b.fraction
    THEN Amt(a.integral + b.integral + 1, a.fraction + b.fraction - F)
    ELSE Amt(a.integral + b.integral, a.fraction + b.fraction)

\* operators + and += of an int32_t; - and -= add its opposite.
PlusInt(a, n) == Amt(a.integral + n, a.fraction)

\* int32_t - Amount.
IntMinus(n, a) == PlusInt(Negated(a), n)

\* Mutant: the carry is not taken out of the fraction.
PlusAssign_KeepsCarry(a, b) ==
  LET fraction == a.fraction + b.fraction
  IN  IF fraction > F THEN Amt(a.integral + b.integral + 1, fraction)
                      ELSE Amt(a.integral + b.integral, fraction)

\* operator +=, which carries only when the fraction is above F.
PlusAssign(a, b) ==
  LET fraction == a.fraction + b.fraction
  IN  IF fraction > F THEN Amt(a.integral + b.integral + 1, fraction - F)
                      ELSE Amt(a.integral + b.integral, fraction)

\* operator -.
Minus(a, b) ==
  IF a.fraction < b.fraction
    THEN Amt(a.integral - b.integral - 1, a.fraction + F - b.fraction)
    ELSE Amt(a.integral - b.integral, a.fraction - b.fraction)

\* operator -=.
MinusAssign(a, b) ==
  IF b.fraction > a.fraction
    THEN Amt(a.integral - b.integral - 1, a.fraction + (F - b.fraction))
    ELSE Amt(a.integral - b.integral, a.fraction - b.fraction)

\* operator * of amounts that are not negative, and of any.
TimesPositive(a, b) ==
  Plus(Plus(Plus(Amt(a.integral * b.integral, 0), OfUnits(Mul(a.fraction, b.integral))),
            OfUnits(Mul(b.fraction, a.integral))),
       OfSquare(Mul(a.fraction, b.fraction)))

Times(a, b) ==
  LET size(x) == IF x.integral < 0 THEN Negated(x) ELSE x
      product == TimesPositive(size(a), size(b))
  IN  IF a.integral < 0 /\ b.integral < 0 THEN Negated(Negated(product))
      ELSE IF a.integral < 0 \/ b.integral < 0 THEN Negated(product)
      ELSE product

\* operator * by an int32_t, which leaves the sign of the amount alone.
TimesInt(a, n) ==
  LET times(m) == Plus(Amt(a.integral * m, 0), OfUnits(Mul(a.fraction, m)))
  IN  IF n < 0 THEN Negated(times(-n)) ELSE times(n)

\* Mutant: the fraction of the dividend is dropped.
DividedPositive_Whole(a, n) == OfUnits(Div(Mul(a.integral, F), n).quotient)

\* operator / by an int32_t: the two parts are divided on their own.
DividedPositive(a, n) ==
  Plus(OfUnits(Div(Mul(a.integral, F), n).quotient), Amt(0, a.fraction \div n))

Divided(a, n) ==
  LET by(m) == IF m = 1 THEN a
               ELSE IF a.integral < 0 THEN Negated(DividedPositive(Negated(a), m))
               ELSE DividedPositive(a, m)
  IN  IF n < 0 THEN Negated(by(-n)) ELSE by(n)
=============================================================================
