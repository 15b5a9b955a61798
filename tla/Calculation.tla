----------------------------- MODULE Calculation -----------------------------
(* A long calculation with Amount objects, as wallets and clients make them:  *)
(* one amount goes through any sequence of operators (amount.h:195-468).      *)
EXTENDS Amount

CONSTANTS
  Operand,    \* the amounts on the right-hand side
  Factor,     \* the int32_t on the right-hand side
  Double,     \* the double on the right-hand side: records of num and den
  EdgeWord    \* words from which 128-bit numbers are made

ASSUME CalculationAssumption ==
  /\ Operand \subseteq [integral : MinInt .. MaxInt, fraction : 0 .. F - 1]
  /\ Factor \subseteq MinInt .. MaxInt
  /\ Double \subseteq [num : Int, den : Nat \ {0}]
  /\ EdgeWord \subseteq 0 .. Word - 1

VARIABLES
  acc,     \* the amount
  exact    \* ghost: what it should stand for, in units of 1/F

calculationVars == <<acc, exact>>

Abs(x) == IF x < 0 THEN -x ELSE x
Sign(x) == IF x < 0 THEN -1 ELSE 1

\* Exact products are cut towards zero to 1/F.
Product(x, y) == Sign(x) * Sign(y) * ((Abs(x) * Abs(y)) \div F)

\* The closest number of units to n / d, the larger of two.
Nearest(n, d) == (2 * n * F + d) \div (2 * d)

\* The closest number of units that has Digits decimals.
Rounded(v) ==
  ((2 * v.num * Power(10, Digits) + v.den) \div (2 * v.den)) * Power(10, Places - Digits)

CalculationInit == acc \in Operand /\ exact = Units(acc)

\* A result that fits the type; the sizes of both factors do too.
Becomes(amount, units) ==
  /\ InRange(units) /\ InRange(-units)
  /\ acc' = amount
  /\ exact' = units

AddAssign(b) == Becomes(PlusAssign(acc, b), exact + Units(b))
SubAssign(b) == Becomes(MinusAssign(acc, b), exact - Units(b))
Add(b) == Becomes(Plus(acc, b), exact + Units(b))
Sub(b) == Becomes(Minus(acc, b), exact - Units(b))
Multiply(b) == Becomes(Times(acc, b), Product(exact, Units(b)))
Negate == Becomes(Negated(acc), -exact)
AddInt(n) == Becomes(PlusInt(acc, n), exact + n * F)
SubFromInt(n) == Becomes(IntMinus(n, acc), n * F - exact)
MultiplyInt(n) == Becomes(TimesInt(acc, n), exact * n)

\* A quotient, which QuotientClose judges, goes on as what it is.
Divide(n) == n # 0 /\ Becomes(Divided(acc, n), Units(Divided(acc, n)))

\* A new amount made of a fraction, unless the constructor throws.
Construct(n, numerator, denominator) ==
  LET fraction == FractionOf(numerator, denominator)
  IN  /\ denominator # 0
      /\ IsFraction(fraction)
      /\ Becomes(Amt(n, fraction.lo), n * F + Nearest(numerator, denominator))

FromNumber(v) == CanHold(v) /\ Becomes(FromDouble(v), Rounded(v))

\* A double on the right-hand side becomes an amount first.
Right == Operand \cup {FromDouble(v) : v \in {d \in Double : CanHold(d)}}

CalculationNext ==
  \/ \E b \in Right : AddAssign(b) \/ SubAssign(b) \/ Add(b) \/ Sub(b) \/ Multiply(b)
  \/ \E v \in Double : FromNumber(v)
  \/ Negate
  \/ \E n \in Factor : AddInt(n) \/ SubFromInt(n) \/ MultiplyInt(n) \/ Divide(n)
  \/ \E n \in Factor, p, q \in EdgeWord : Construct(n, p, q)

CalculationSpec == CalculationInit /\ [][CalculationNext]_calculationVars

-----------------------------------------------------------------------------
(* No sequence of operators loses or invents a unit (amount.h:195-391).      *)
Exact == Units(acc) = exact

(* The quotient is off by less than two units, towards zero                  *)
(* (amount.h:393-405).                                                       *)
QuotientClose ==
  \A n \in Factor \ {0} :
    LET quotient == Units(Divided(acc, n))
        error == Abs(n) * Abs(quotient) - Abs(exact)
    IN  /\ -2 * Abs(n) < error /\ error <= 0
        /\ quotient # 0 => Sign(quotient) = Sign(n) * Sign(exact)

(* Comparison and rounding go by the value, as long as the fraction is less  *)
(* than one; and the text of the amount, read as a literal with its sign, is *)
(* the amount, whatever number of decimals is asked for                      *)
(* (amount.h:221-264, 413-441, amount.cpp:39-60).                            *)
ReadingsAgree ==
  Canonical(acc) =>
    /\ Abs(Round(acc) * F - exact) * 2 <= F
    /\ \A b \in Operand : /\ Less(acc, b) = (exact < Units(b))
                          /\ Greater(acc, b) = (exact > Units(b))
                          /\ Equal(acc, b) = (exact = Units(b))
    /\ \A decimals \in 0 .. Places + 1 :
         LET text == AmountToString(acc, decimals)
             read == Literal(<<text.whole \div 10, text.whole % 10>>, text.digits)
         IN  IF text.minus THEN Negated(read) = acc ELSE read = acc

(* 128-bit sums, products and quotients are the exact ones                   *)
(* (math128ce.h:61-136).                                                     *)
Exact128 ==
  \A n, d \in EdgeWord :
    LET x == Mul(Abs(exact) % Word, n)
        parts == Div(x, d)
    IN  /\ WideValue(x) = (Abs(exact) % Word) * n
        /\ WideValue(PlusWord(x, d)) = (WideValue(x) + d) % (Word * Word)
        /\ WideValue(PlusWide(x, Wide(d, n))) = (WideValue(x) + d + n * Word) % (Word * Word)
        /\ d # 0 => /\ WideValue(parts.quotient) * d + parts.remainder = WideValue(x)
                    /\ parts.remainder \in 0 .. d - 1

(* The integral part is the largest integer that the amount does not fall    *)
(* below, and the fraction is what is missing (amount.h:30-31).              *)
IsCanonical == Canonical(acc)
=============================================================================
