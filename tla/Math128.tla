------------------------------ MODULE Math128 ------------------------------
(***************************************************************************)
(* uint128_t (src/include/csdb/internal/math128ce.h): a number of two      *)
(* machine words, made of operations on words and on half-words.  A half-  *)
(* word has 32 bits in the code and HalfBits here; words wrap.             *)
(***************************************************************************)
EXTENDS Integers, Powers

CONSTANT HalfBits

ASSUME HalfBitsAssumption == HalfBits \in Nat \ {0}

HalfWord == Power(2, HalfBits)
Word == HalfWord * HalfWord
WordBits == 2 * HalfBits

Wide(lo, hi) == [lo |-> lo % Word, hi |-> hi % Word]

\* The number that the two words stand for.
WideValue(x) == x.hi * Word + x.lo

\* operator + of a word, and of another number.
PlusWord(x, n) ==
  IF Word - 1 - x.lo < n THEN Wide(x.lo - (Word - n), x.hi + 1)
                         ELSE Wide(x.lo + n, x.hi)

PlusWide(x, y) ==
  IF Word - 1 - x.lo < y.lo THEN Wide(x.lo - (Word - y.lo), x.hi + y.hi + 1)
                            ELSE Wide(x.lo + y.lo, x.hi + y.hi)

\* mul2: the four products of half-words are put together.
MulParts(ac, ad, bc, bd) ==
  PlusWord(PlusWord(Wide(bd, ac + (ad \div HalfWord) + (bc \div HalfWord)),
                    (ad * HalfWord) % Word),
           (bc * HalfWord) % Word)

\* mul and mul1.
Mul(x, y) ==
  LET a == x \div HalfWord   b == x % HalfWord
      c == y \div HalfWord   d == y % HalfWord
  IN  MulParts(a * c, a * d, b * c, b * d)

\* Mutant: the remainder that has outgrown a word is treated as any other.
DivStep_NoCarry(previous, lo, divisor, shift) ==
  LET bit == Power(2, shift)
      dividend == ((previous.remainder * 2) + ((lo \div bit) % 2)) % Word
      quotient(add) == Wide(previous.quotient.lo + add, previous.quotient.hi)
  IN  [quotient |-> quotient(IF dividend < divisor THEN 0 ELSE bit),
       remainder |-> dividend % divisor]

\* div2 and div3: one bit of the low word is brought down.
DivStep(previous, lo, divisor, shift) ==
  LET bit == Power(2, shift)
      dividend == ((previous.remainder * 2) + ((lo \div bit) % 2)) % Word
      quotient(add) == Wide(previous.quotient.lo + add, previous.quotient.hi)
  IN  IF previous.remainder < Word \div 2
        THEN [quotient |-> quotient(IF dividend < divisor THEN 0 ELSE bit),
              remainder |-> dividend % divisor]
        ELSE [quotient |-> quotient(bit),
              remainder |-> (Word - 1 - divisor + dividend + 1) % Word]

\* div and div1, for a divisor that is not zero (zero throws).
Div(x, divisor) ==
  LET after[steps \in 0 .. WordBits] ==
        IF steps = 0
          THEN [quotient |-> Wide(0, x.hi \div divisor), remainder |-> x.hi % divisor]
          ELSE DivStep(after[steps - 1], x.lo, divisor, WordBits - steps)
  IN  IF divisor = 1 THEN [quotient |-> x, remainder |-> 0] ELSE after[WordBits]
=============================================================================
