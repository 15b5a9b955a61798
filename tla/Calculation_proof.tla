-------------------------- MODULE Calculation_proof --------------------------
(***************************************************************************)
(* Proofs about Calculation, from the arithmetic of words up: sums,        *)
(* products and quotients of uint128_t are exact for every size of a word. *)
(***************************************************************************)
EXTENDS Calculation, Induction_proof

-----------------------------------------------------------------------------
(* Words.                                                                    *)

WordNumber == 0 .. Word - 1
WideNumber == [lo : WordNumber, hi : WordNumber]

LEMMA WordType ==
  /\ HalfWord \in Nat \ {0, 1} /\ Word \in Nat \ {0, 1}
  /\ Word = HalfWord * HalfWord
  /\ WordBits \in Nat \ {0} /\ Word = Power(2, WordBits)
<1>1. HalfBits \in Nat \ {0}
  BY HalfBitsAssumption
<1>2. HalfWord \in Nat \ {0}
  BY <1>1, PowerPositive DEF HalfWord
<1>3. Power(2, HalfBits + HalfBits) = Power(2, HalfBits) * Power(2, HalfBits)
  BY <1>1, PowerSum
<1>4. HalfWord # 1
  <2>1. Power(2, (HalfBits - 1) + 1) = 2 * Power(2, HalfBits - 1) /\ Power(2, HalfBits - 1) \in Int
    BY <1>1, PowerRecursion
  <2>2. (HalfBits - 1) + 1 = HalfBits
    BY <1>1
  <2> QED BY <2>1, <2>2 DEF HalfWord
<1>5. \A h \in Nat \ {0, 1} : h * h \in Nat \ {0, 1}
  OBVIOUS
<1>6. HalfBits + HalfBits = WordBits /\ WordBits \in Nat \ {0}
  BY <1>1 DEF WordBits
<1> QED BY <1>2, <1>3, <1>4, <1>5, <1>6 DEF Word, HalfWord

\* Every wide number is made by Wide of its value and the other way round.
LEMMA WideOf ==
  ASSUME NEW lo \in Int, NEW hi \in Int
  PROVE  /\ Wide(lo, hi) \in WideNumber
         /\ lo \in WordNumber => Wide(lo, hi).lo = lo
         /\ hi \in WordNumber => Wide(lo, hi).hi = hi
<1>1. lo % Word \in WordNumber /\ hi % Word \in WordNumber
  BY WordType, DivModParts DEF WordNumber
<1>2. lo \in WordNumber => lo % Word = lo
  BY WordType, ModSmall DEF WordNumber
<1>3. hi \in WordNumber => hi % Word = hi
  BY WordType, ModSmall DEF WordNumber
<1> QED BY <1>1, <1>2, <1>3 DEF Wide, WideNumber

\* The value of two words is below Word * Word.
LEMMA WideRange ==
  ASSUME NEW x \in WideNumber
  PROVE  WideValue(x) \in 0 .. Word * Word - 1 /\ x.lo \in WordNumber /\ x.hi \in WordNumber
<1>1. x.lo \in WordNumber /\ x.hi \in WordNumber
  BY DEF WideNumber
<1>2. \A w \in Nat \ {0} : \A l, h \in 0 .. w - 1 : h * w + l \in 0 .. w * w - 1
  <2> SUFFICES ASSUME NEW w \in Nat \ {0}, NEW l \in 0 .. w - 1, NEW h \in 0 .. w - 1
               PROVE  h * w + l \in 0 .. w * w - 1
    OBVIOUS
  <2>1. h * w \in Nat /\ h * w <= (w - 1) * w
    BY MulNat, MulMono
  <2>2. (w - 1) * w = w * w - w /\ w * w \in Nat
    OBVIOUS
  <2> QED BY <2>1, <2>2
<1> QED BY <1>1, <1>2, WordType DEF WordNumber, WideValue

\* The number that stays when the high word wraps.
LEMMA WideWraps ==
  ASSUME NEW lo \in WordNumber, NEW hi \in Int
  PROVE  WideValue(Wide(lo, hi)) = (hi * Word + lo) % (Word * Word)
<1>1. Wide(lo, hi).lo = lo /\ Wide(lo, hi).hi = hi % Word
  BY WordType, ModSmall DEF Wide, WordNumber
<1>2. ASSUME NEW w \in Nat \ {0}, NEW l \in 0 .. w - 1
      PROVE  (hi % w) * w + l = (hi * w + l) % (w * w)
  <2> DEFINE q == hi \div w
             r == hi % w
  <2>1. hi = q * w + r /\ q \in Int /\ r \in 0 .. w - 1
    BY DivModParts
  <2> HIDE DEF q, r
  <2>2. hi * w + l = q * (w * w) + (r * w + l)
    BY <2>1
  <2>3. r * w <= (w - 1) * w /\ r * w \in Nat
    BY <2>1, MulNat, MulMono
  <2>4. (w - 1) * w = w * w - w /\ w * w \in Nat \ {0}
    OBVIOUS
  <2>5. r * w + l \in 0 .. w * w - 1
    BY <2>3, <2>4
  <2>6. \A d \in Nat \ {0} : \A p \in 0 .. d - 1 : (q * d + p) % d = p
    BY <2>1, DivMod
  <2>7. (q * (w * w) + (r * w + l)) % (w * w) = r * w + l
    BY <2>4, <2>5, <2>6
  <2> QED BY <2>2, <2>7 DEF r
<1> QED BY <1>1, <1>2, WordType DEF WordNumber, WideValue

\* operator + of a word.
LEMMA PlusWordExact ==
  ASSUME NEW x \in WideNumber, NEW n \in WordNumber
  PROVE  /\ PlusWord(x, n) \in WideNumber
         /\ WideValue(PlusWord(x, n)) = (WideValue(x) + n) % (Word * Word)
<1>1. x.lo \in WordNumber /\ x.hi \in WordNumber /\ Word \in Nat \ {0}
  BY WideRange, WordType
<1>2. CASE Word - 1 - x.lo < n
  <2>1. x.lo - (Word - n) \in WordNumber /\ x.hi + 1 \in Int
    BY <1>1, <1>2 DEF WordNumber
  <2>2. PlusWord(x, n) = Wide(x.lo - (Word - n), x.hi + 1)
    BY <1>2 DEF PlusWord
  <2>3. (x.hi + 1) * Word + (x.lo - (Word - n)) = WideValue(x) + n
    BY <1>1 DEF WordNumber, WideValue
  <2>4. WideValue(Wide(x.lo - (Word - n), x.hi + 1)) = ((x.hi + 1) * Word + (x.lo - (Word - n))) % (Word * Word)
    BY <2>1, WideWraps
  <2>5. Wide(x.lo - (Word - n), x.hi + 1) \in WideNumber
    BY <1>1, <2>1, WideOf DEF WordNumber
  <2> QED BY <2>2, <2>3, <2>4, <2>5
<1>3. CASE ~(Word - 1 - x.lo < n)
  <2>1. x.lo + n \in WordNumber /\ x.hi \in Int
    BY <1>1, <1>3 DEF WordNumber
  <2>2. PlusWord(x, n) = Wide(x.lo + n, x.hi)
    BY <1>3 DEF PlusWord
  <2>3. x.hi * Word + (x.lo + n) = WideValue(x) + n
    BY <1>1 DEF WordNumber, WideValue
  <2>4. WideValue(Wide(x.lo + n, x.hi)) = (x.hi * Word + (x.lo + n)) % (Word * Word)
    BY <2>1, WideWraps
  <2>5. Wide(x.lo + n, x.hi) \in WideNumber
    BY <1>1, <2>1, WideOf DEF WordNumber
  <2> QED BY <2>2, <2>3, <2>4, <2>5
<1> QED BY <1>2, <1>3

\* operator + of another number.
LEMMA PlusWideExact ==
  ASSUME NEW x \in WideNumber, NEW y \in WideNumber
  PROVE  /\ PlusWide(x, y) \in WideNumber
         /\ WideValue(PlusWide(x, y)) = (WideValue(x) + WideValue(y)) % (Word * Word)
<1>1. /\ x.lo \in WordNumber /\ x.hi \in WordNumber /\ Word \in Nat \ {0}
      /\ y.lo \in WordNumber /\ y.hi \in WordNumber
  BY WideRange, WordType
<1>2. CASE Word - 1 - x.lo < y.lo
  <2>1. x.lo - (Word - y.lo) \in WordNumber /\ x.hi + y.hi + 1 \in Int
    BY <1>1, <1>2 DEF WordNumber
  <2>2. PlusWide(x, y) = Wide(x.lo - (Word - y.lo), x.hi + y.hi + 1)
    BY <1>2 DEF PlusWide
  <2>3. (x.hi + y.hi + 1) * Word + (x.lo - (Word - y.lo)) = WideValue(x) + WideValue(y)
    BY <1>1 DEF WordNumber, WideValue
  <2>4. WideValue(Wide(x.lo - (Word - y.lo), x.hi + y.hi + 1)) = ((x.hi + y.hi + 1) * Word + (x.lo - (Word - y.lo))) % (Word * Word)
    BY <2>1, WideWraps
  <2>5. Wide(x.lo - (Word - y.lo), x.hi + y.hi + 1) \in WideNumber
    BY <1>1, <2>1, WideOf DEF WordNumber
  <2> QED BY <2>2, <2>3, <2>4, <2>5
<1>3. CASE ~(Word - 1 - x.lo < y.lo)
  <2>1. x.lo + y.lo \in WordNumber /\ x.hi + y.hi \in Int
    BY <1>1, <1>3 DEF WordNumber
  <2>2. PlusWide(x, y) = Wide(x.lo + y.lo, x.hi + y.hi)
    BY <1>3 DEF PlusWide
  <2>3. (x.hi + y.hi) * Word + (x.lo + y.lo) = WideValue(x) + WideValue(y)
    BY <1>1 DEF WordNumber, WideValue
  <2>4. WideValue(Wide(x.lo + y.lo, x.hi + y.hi)) = ((x.hi + y.hi) * Word + (x.lo + y.lo)) % (Word * Word)
    BY <2>1, WideWraps
  <2>5. Wide(x.lo + y.lo, x.hi + y.hi) \in WideNumber
    BY <1>1, <2>1, WideOf DEF WordNumber
  <2> QED BY <2>2, <2>3, <2>4, <2>5
<1> QED BY <1>2, <1>3

\* Half a word of a product of half-words moves to the high word.
LEMMA ScaledMod ==
  ASSUME NEW h \in Nat \ {0}, NEW p \in Nat
  PROVE  /\ (p * h) % (h * h) \in 0 .. h * h - 1
         /\ p * h = (p \div h) * (h * h) + ((p * h) % (h * h))
<1> DEFINE q == p \div h
           r == p % h
<1>1. p = q * h + r /\ q \in Int /\ r \in 0 .. h - 1
  BY DivModParts
<1> HIDE DEF q, r
<1>2. p * h = q * (h * h) + r * h
  BY <1>1
<1>3. r * h \in Nat /\ r * h <= (h - 1) * h
  BY <1>1, MulNat, MulMono
<1>4. (h - 1) * h = h * h - h /\ h * h \in Nat \ {0}
  OBVIOUS
<1>5. r * h \in 0 .. h * h - 1
  BY <1>3, <1>4
<1>6. \A d \in Nat \ {0} : \A s \in 0 .. d - 1 : (q * d + s) % d = s
  BY <1>1, DivMod
<1>7. (q * (h * h) + r * h) % (h * h) = r * h
  BY <1>4, <1>5, <1>6
<1> QED BY <1>2, <1>5, <1>7 DEF q

\* Two numbers of one word have a product of two.
LEMMA ProductRange ==
  ASSUME NEW x \in WordNumber, NEW y \in WordNumber
  PROVE  x * y \in 0 .. Word * Word - 1
<1>1. Word \in Nat \ {0} /\ x \in Nat /\ y \in Nat /\ x <= Word - 1 /\ y <= Word - 1
  BY WordType DEF WordNumber
<1>2. x * y \in Nat /\ x * y <= (Word - 1) * (Word - 1)
  BY <1>1, MulNat, MulMono
<1>3. (Word - 1) * (Word - 1) = Word * Word - 2 * Word + 1
  BY <1>1
<1>4. Word * Word \in Nat
  BY <1>1
<1> QED BY <1>1, <1>2, <1>3, <1>4

\* mul: the product of two words is exact.
LEMMA MulExact ==
  ASSUME NEW x \in WordNumber, NEW y \in WordNumber
  PROVE  Mul(x, y) \in WideNumber /\ WideValue(Mul(x, y)) = x * y
<1> DEFINE H == HalfWord
           a == x \div H
           b == x % H
           c == y \div H
           d == y % H
           ad == a * d
           bc == b * c
           bd == b * d
           u == (ad * H) % Word
           v == (bc * H) % Word
           high == a * c + (ad \div H) + (bc \div H)
           first == Wide(bd, high)
           second == PlusWord(first, u)
<1>1. H \in Nat \ {0} /\ Word = H * H /\ Word \in Nat \ {0} /\ x \in Nat /\ y \in Nat
  BY WordType DEF WordNumber
<1>2. x < H * H /\ y < H * H
  BY <1>1 DEF WordNumber
<1> HIDE DEF H
<1>3. x = a * H + b /\ a \in Nat /\ b \in 0 .. H - 1
  <2>1. x = (x \div H) * H + (x % H) /\ x % H \in 0 .. H - 1
    BY <1>1, DivModParts
  <2>2. x \div H \in Nat
    BY <1>1, DivNat
  <2> QED BY <2>1, <2>2
<1>4. y = c * H + d /\ c \in Nat /\ d \in 0 .. H - 1
  <2>1. y = (y \div H) * H + (y % H) /\ y % H \in 0 .. H - 1
    BY <1>1, DivModParts
  <2>2. y \div H \in Nat
    BY <1>1, DivNat
  <2> QED BY <2>1, <2>2
<1> HIDE DEF a, b, c, d
<1>5. ad \in Nat /\ bc \in Nat /\ bd \in Nat /\ a * c \in Nat
  BY <1>3, <1>4, MulNat
<1>6. x * y = (a * c) * Word + ad * H + bc * H + bd
  <2>1. (a * H + b) * (c * H + d) = (a * c) * (H * H) + (a * d) * H + (b * c) * H + b * d
    BY <1>1, <1>3, <1>4
  <2> QED BY <1>1, <1>3, <1>4, <2>1
<1>7. bd \in WordNumber
  <2>1. bd <= (H - 1) * (H - 1)
    BY <1>1, <1>3, <1>4, MulMono
  <2>2. (H - 1) * (H - 1) = H * H - 2 * H + 1
    BY <1>1
  <2> QED BY <1>1, <1>5, <2>1, <2>2 DEF WordNumber
<1> HIDE DEF ad, bc, bd
<1>8. u \in WordNumber /\ ad * H = (ad \div H) * Word + u /\ ad \div H \in Nat
  BY <1>1, <1>5, ScaledMod, DivNat DEF WordNumber
<1>9. v \in WordNumber /\ bc * H = (bc \div H) * Word + v /\ bc \div H \in Nat
  BY <1>1, <1>5, ScaledMod, DivNat DEF WordNumber
<1>10. high \in Nat
  BY <1>5, <1>8, <1>9
<1>11. x * y = high * Word + bd + u + v
  <2> DEFINE m == ad \div H
             n == bc \div H
             k == a * c
  <2>1. x * y = k * Word + (m * Word + u) + (n * Word + v) + bd
    BY <1>6, <1>8, <1>9
  <2>2. high = k + m + n /\ k \in Nat /\ m \in Nat /\ n \in Nat
    BY <1>5, <1>8, <1>9
  <2> HIDE DEF m, n, k, u, v, high
  <2>3. (k + m + n) * Word = k * Word + m * Word + n * Word
    BY <1>1, <2>2
  <2> QED BY <1>1, <1>5, <1>8, <1>9, <2>1, <2>2, <2>3 DEF WordNumber
<1> HIDE DEF u, v, high
<1>12. high * Word \in Nat /\ Word * Word \in Nat \ {0}
  BY <1>1, <1>10, MulNat
<1>13. x * y \in 0 .. Word * Word - 1
  BY ProductRange
<1>14. /\ high * Word + bd \in 0 .. Word * Word - 1
       /\ high * Word + bd + u \in 0 .. Word * Word - 1
  BY <1>7, <1>8, <1>9, <1>11, <1>12, <1>13, WordType DEF WordNumber
<1>15. first \in WideNumber /\ WideValue(first) = (high * Word + bd) % (Word * Word)
  BY <1>5, <1>7, <1>10, WideWraps, WideOf
<1>16. \A n \in 0 .. Word * Word - 1 : n % (Word * Word) = n
  BY <1>12, ModSmall
<1>17. WideValue(first) = high * Word + bd
  BY <1>14, <1>15, <1>16
<1> HIDE DEF first
<1>18. second \in WideNumber /\ WideValue(second) = (WideValue(first) + u) % (Word * Word)
  BY <1>8, <1>15, PlusWordExact
<1>19. WideValue(second) = high * Word + bd + u
  BY <1>14, <1>16, <1>17, <1>18
<1> HIDE DEF second
<1>20. /\ PlusWord(second, v) \in WideNumber
       /\ WideValue(PlusWord(second, v)) = (WideValue(second) + v) % (Word * Word)
  BY <1>9, <1>18, PlusWordExact
<1>21. WideValue(PlusWord(second, v)) = x * y
  BY <1>11, <1>13, <1>16, <1>19, <1>20
<1>22. Mul(x, y) = PlusWord(second, v)
  BY DEF Mul, MulParts, second, first, high, u, v, ad, bc, bd, a, b, c, d, H
<1> QED BY <1>20, <1>21, <1>22

-----------------------------------------------------------------------------
(* Long division.                                                            *)

DivState == [quotient : WideNumber, remainder : WordNumber]

LEMMA DivStepType ==
  ASSUME NEW st \in DivState, NEW lo \in WordNumber, NEW d \in WordNumber \ {0},
         NEW shift \in Nat
  PROVE  DivStep(st, lo, d, shift) \in DivState
<1> DEFINE bit == Power(2, shift)
           dividend == ((st.remainder * 2) + ((lo \div bit) % 2)) % Word
<1>1. bit \in Nat \ {0}
  BY PowerPositive
<1>2. st.quotient \in WideNumber /\ st.remainder \in WordNumber
  BY DEF DivState
<1>3. st.quotient.lo \in WordNumber /\ st.quotient.hi \in WordNumber
  BY <1>2, WideRange
<1>4. Word \in Nat \ {0} /\ d \in Nat \ {0} /\ d < Word
  BY WordType DEF WordNumber
<1>5. \A add \in Int : Wide(st.quotient.lo + add, st.quotient.hi) \in WideNumber
  BY <1>3, WideOf DEF WordNumber
<1>6. dividend \in WordNumber
  <2>1. lo \div bit \in Int
    BY <1>1 DEF WordNumber
  <2>2. (st.remainder * 2) + ((lo \div bit) % 2) \in Int
    BY <1>2, <2>1 DEF WordNumber
  <2> QED BY <1>4, <2>2 DEF WordNumber
<1> HIDE DEF bit, dividend
<1>7. dividend % d \in WordNumber
  BY <1>4, <1>6 DEF WordNumber
<1>8. (Word - 1 - d + dividend + 1) % Word \in WordNumber
  BY <1>4, <1>6 DEF WordNumber
<1>9. Wide(st.quotient.lo + bit, st.quotient.hi) \in WideNumber
  BY <1>1, <1>5
<1>10. Wide(st.quotient.lo + 0, st.quotient.hi) \in WideNumber
  BY <1>5
<1>11. DivStep(st, lo, d, shift)
         = IF st.remainder < Word \div 2
             THEN [quotient |-> Wide(st.quotient.lo + (IF dividend < d THEN 0 ELSE bit), st.quotient.hi),
                   remainder |-> dividend % d]
             ELSE [quotient |-> Wide(st.quotient.lo + bit, st.quotient.hi),
                   remainder |-> (Word - 1 - d + dividend + 1) % Word]
  BY DEF DivStep, dividend, bit
<1> QED BY <1>7, <1>8, <1>9, <1>10, <1>11 DEF DivState

\* After s bits of the low word: what was brought down is divided.
Divided128(s, st, x, d) ==
  /\ st.quotient.hi = x.hi \div d
  /\ st.remainder \in 0 .. d - 1
  /\ \E q \in Nat :
       /\ st.quotient.lo = q * Power(2, WordBits - s)
       /\ q * d + st.remainder = (x.hi % d) * Power(2, s) + (x.lo \div Power(2, WordBits - s))

\* One bit more of a number.
LEMMA NextBit ==
  ASSUME NEW x \in Nat, NEW p \in Nat \ {0}
  PROVE  /\ x \div p = 2 * (x \div (2 * p)) + ((x \div p) % 2)
         /\ (x \div p) % 2 \in {0, 1}
<1>1. x \div p \in Nat
  BY DivNat
<1>2. (x \div p) \div 2 = x \div (2 * p)
  <2> DEFINE y == x \div p
             r == x % p
             z == y \div 2
             t == y % 2
  <2>1. x = y * p + r /\ r \in 0 .. p - 1 /\ y \in Int
    BY DivModParts
  <2>2. y = z * 2 + t /\ t \in 0 .. 1 /\ z \in Int
    BY <1>1
  <2> HIDE DEF y, r, z, t
  <2>3. x = z * (2 * p) + (t * p + r)
    BY <2>1, <2>2
  <2>4. t * p + r \in 0 .. 2 * p - 1
    <3>1. CASE t = 0
      BY <3>1, <2>1
    <3>2. CASE t = 1
      BY <3>2, <2>1
    <3> QED BY <2>2, <3>1, <3>2
  <2>5. \A d \in Nat \ {0} : \A s \in 0 .. d - 1 : (z * d + s) \div d = z
    BY <2>2, DivMod
  <2>6. 2 * p \in Nat \ {0}
    OBVIOUS
  <2>7. (z * (2 * p) + (t * p + r)) \div (2 * p) = z
    BY <2>4, <2>5, <2>6
  <2> QED BY <2>3, <2>7 DEF z, y
<1> DEFINE y == x \div p
<1>3. y = 2 * (y \div 2) + (y % 2) /\ y % 2 \in {0, 1}
  BY <1>1
<1> QED BY <1>2, <1>3

\* The remainder of a step, with the bit that is lost when it has outgrown a word.
StepRemains(w, d, h, r, b, y) ==
  /\ r < h /\ y < d => y % d = 2 * r + b /\ 2 * r + b \in 0 .. d - 1
  /\ r < h /\ ~(y < d) => y % d = 2 * r + b - d /\ 2 * r + b - d \in 0 .. d - 1
  /\ ~(r < h) => /\ (w - 1 - d + y + 1) % w = 2 * r + b - d
                 /\ 2 * r + b - d \in 0 .. d - 1

LEMMA StepRemainder ==
  ASSUME NEW w \in Nat \ {0}, NEW d \in 1 .. w - 1, NEW r \in 0 .. d - 1, NEW b \in {0, 1},
         NEW h \in Nat, w = 2 * h
  PROVE  StepRemains(w, d, h, r, b, (r * 2 + b) % w)
<1> DEFINE y == (r * 2 + b) % w
<1>1. CASE r < h
  <2>1. r * 2 + b \in 0 .. w - 1
    BY <1>1
  <2>2. y = 2 * r + b
    BY <2>1, ModSmall
  <2>3. y < d => y % d = y
    BY <2>2, ModSmall
  <2>4. ASSUME ~(y < d) PROVE y % d = y - d /\ y - d \in 0 .. d - 1
    <3>1. y - d \in 0 .. d - 1 /\ y = 1 * d + (y - d)
      BY <2>2, <2>4
    <3>2. \A k \in 0 .. d - 1 : (1 * d + k) % d = k
      BY DivMod
    <3>3. y \in Int
      BY <2>2
    <3> HIDE DEF y
    <3> QED BY <3>1, <3>2, <3>3
  <2> HIDE DEF y
  <2>5. ~(r < h) => FALSE
    BY <1>1
  <2>6. y < d => 2 * r + b \in 0 .. d - 1
    BY <2>2
  <2>7. StepRemains(w, d, h, r, b, y)
    BY <2>2, <2>3, <2>4, <2>5, <2>6 DEF StepRemains
  <2> QED BY <2>7 DEF y
<1>2. CASE ~(r < h)
  <2>1. r * 2 + b = 1 * w + (r * 2 + b - w) /\ r * 2 + b - w \in 0 .. w - 1
    BY <1>2
  <2>2. y = r * 2 + b - w
    BY <2>1, DivMod
  <2>3. w - 1 - d + y + 1 = 2 * r + b - d /\ 2 * r + b - d \in 0 .. d - 1
    BY <1>2, <2>2
  <2>4. \A k \in 0 .. w - 1 : k % w = k
    BY ModSmall
  <2> HIDE DEF y
  <2>5. (w - 1 - d + y + 1) % w = 2 * r + b - d
    <3>1. 2 * r + b - d \in 0 .. w - 1
      BY <2>3
    <3> QED BY <2>3, <2>4, <3>1
  <2>6. StepRemains(w, d, h, r, b, y)
    BY <1>2, <2>3, <2>5 DEF StepRemains
  <2> QED BY <2>6 DEF y
<1> QED BY <1>1, <1>2

LEMMA DivStepExact ==
  ASSUME NEW x \in WideNumber, NEW d \in WordNumber \ {0}, NEW s \in 0 .. WordBits - 1,
         NEW st \in DivState, Divided128(s, st, x, d)
  PROVE  Divided128(s + 1, DivStep(st, x.lo, d, WordBits - (s + 1)), x, d)
<1> DEFINE shift == WordBits - (s + 1)
           P == Power(2, shift)
           K == Power(2, s)
           R == x.hi % d
           b == (x.lo \div P) % 2
           r == st.remainder
           m == x.lo \div (2 * P)
           next == DivStep(st, x.lo, d, shift)
<1>1. WordBits \in Nat \ {0} /\ Word \in Nat \ {0} /\ d \in 1 .. Word - 1
  BY WordType DEF WordNumber
<1>2. shift \in Nat /\ s \in Nat /\ WordBits - s = shift + 1 /\ s + (shift + 1) = WordBits
  BY <1>1
<1> HIDE DEF shift
<1>3. P \in Nat \ {0} /\ K \in Nat \ {0}
  BY <1>2, PowerPositive
<1>4. Power(2, WordBits - s) = 2 * P
  <2>1. Power(2, shift + 1) = 2 * Power(2, shift)
    BY <1>2, PowerRecursion
  <2> QED BY <1>2, <2>1
<1>5. Power(2, s + 1) = 2 * K
  BY <1>2, PowerRecursion
<1>6. Word = K * (2 * P)
  <2>1. Power(2, s + (shift + 1)) = Power(2, s) * Power(2, shift + 1)
    BY <1>2, PowerSum
  <2> QED BY <1>2, <1>4, <2>1, WordType
<1> HIDE DEF P, K
<1>7. x.lo \in 0 .. Word - 1 /\ x.hi \in 0 .. Word - 1 /\ st.quotient \in WideNumber
  BY WideRange DEF DivState, WordNumber
<1>8. R \in 0 .. d - 1
  <2>1. \A n \in Int : n % d \in 0 .. d - 1
    BY <1>1
  <2> QED BY <1>7, <2>1
<1>9. x.lo \div P = 2 * m + b /\ b \in {0, 1}
  <2>1. \A n \in Nat : n \div P = 2 * (n \div (2 * P)) + ((n \div P) % 2) /\ (n \div P) % 2 \in {0, 1}
    BY <1>3, NextBit
  <2> QED BY <1>7, <2>1
<1>10. m \in 0 .. K - 1
  <2>1. 2 * P \in Nat \ {0}
    BY <1>3
  <2>2. \A n \in Nat : n \div (2 * P) \in Nat
    BY <2>1, DivNat
  <2>3. \A n \in Nat : n < K * (2 * P) => n \div (2 * P) < K
    BY <1>3, <2>1, DivLess
  <2>4. x.lo \in Nat /\ x.lo < K * (2 * P)
    BY <1>1, <1>6, <1>7
  <2>5. m \in Nat
    BY <2>2, <2>4
  <2>6. m < K
    BY <2>3, <2>4
  <2> QED BY <1>3, <2>5, <2>6
<1> HIDE DEF R, b, m
<1>11. PICK q \in Nat : st.quotient.lo = q * (2 * P) /\ q * d + r = R * K + m
  BY <1>4 DEF Divided128, R, m, K
<1>12. r \in 0 .. d - 1 /\ st.quotient.hi = x.hi \div d
  BY DEF Divided128
<1> HIDE DEF r
<1>13. q <= K - 1
  <2>1. R * K <= (d - 1) * K
    BY <1>1, <1>3, <1>8, MulMono
  <2>2. (d - 1) * K = d * K - K
    BY <1>1, <1>3
  <2>3. q * d < d * K
    BY <1>1, <1>3, <1>8, <1>10, <1>11, <1>12, <2>1, <2>2
  <2>4. q >= K => K * d <= q * d
    BY <1>1, <1>3, MulMono
  <2>6. K * d = d * K /\ q * d \in Int /\ d * K \in Int
    BY <1>1, <1>3
  <2>5. ~(q >= K)
    BY <2>3, <2>4, <2>6
  <2> QED BY <1>3, <2>5
<1>14. (2 * q + 1) * P \in Nat /\ (2 * q + 1) * P < Word /\ (2 * q) * P \in 0 .. Word - 1
  <2>1. 2 * q + 1 <= 2 * K - 1
    BY <1>3, <1>13
  <2>2. (2 * q + 1) * P <= (2 * K - 1) * P /\ (2 * q + 1) * P \in Nat
    BY <1>3, <2>1, MulMono, MulNat
  <2>3. (2 * K - 1) * P = Word - P
    BY <1>3, <1>6
  <2>4. (2 * q + 1) * P = (2 * q) * P + P /\ (2 * q) * P \in Nat
    BY <1>3, MulNat
  <2> QED BY <1>1, <1>3, <2>2, <2>3, <2>4
<1>15. R * (2 * K) + (2 * m + b) = (2 * q) * d + (2 * r + b)
  <2>1. R * (2 * K) = 2 * (R * K) /\ (2 * q) * d = 2 * (q * d) /\ R * K \in Int /\ q * d \in Int
    BY <1>1, <1>3, <1>8
  <2> QED BY <1>9, <1>10, <1>11, <1>12, <2>1
<1>16. (2 * q + 1) * d = (2 * q) * d + d /\ (2 * q) * d \in Nat
  BY <1>1, MulNat
<1> DEFINE y == (r * 2 + b) % Word
           h == K * P
<1>17. h \in Nat /\ Word = 2 * h /\ Word \div 2 = h
  <2>1. h \in Nat
    BY <1>3, MulNat
  <2>2. Word = 2 * h
    BY <1>3, <1>6
  <2> HIDE DEF h
  <2> QED BY <2>1, <2>2
<1> HIDE DEF h
<1>18. StepRemains(Word, d, h, r, b, y)
  BY <1>1, <1>9, <1>12, <1>17, StepRemainder
<1>28. /\ r < h /\ y < d => y % d = 2 * r + b /\ 2 * r + b \in 0 .. d - 1
       /\ r < h /\ ~(y < d) => y % d = 2 * r + b - d /\ 2 * r + b - d \in 0 .. d - 1
       /\ ~(r < h) => /\ (Word - 1 - d + y + 1) % Word = 2 * r + b - d
                      /\ 2 * r + b - d \in 0 .. d - 1
  BY <1>18 DEF StepRemains
<1>19. next = IF r < h
                THEN [quotient |-> Wide(st.quotient.lo + (IF y < d THEN 0 ELSE P), st.quotient.hi),
                      remainder |-> y % d]
                ELSE [quotient |-> Wide(st.quotient.lo + P, st.quotient.hi),
                      remainder |-> (Word - 1 - d + y + 1) % Word]
  BY <1>17 DEF DivStep, y, r, b, P
<1> HIDE DEF y, next
<1>20. /\ st.quotient.lo + 0 = (2 * q) * P
       /\ st.quotient.lo + P = (2 * q + 1) * P
       /\ (2 * q) * P \in WordNumber /\ (2 * q + 1) * P \in WordNumber
  <2>1. q * (2 * P) = (2 * q) * P /\ (2 * q + 1) * P = (2 * q) * P + P
    BY <1>3
  <2>2. (2 * q) * P \in Int
    BY <1>3
  <2>3. st.quotient.lo = (2 * q) * P
    BY <1>11, <2>1
  <2>4. (2 * q) * P \in WordNumber /\ (2 * q + 1) * P \in WordNumber
    BY <1>1, <1>14 DEF WordNumber
  <2> HIDE DEF WordNumber
  <2> QED BY <1>3, <2>1, <2>2, <2>3, <2>4
<1>21. st.quotient.hi \in WordNumber
  BY <1>7, WideRange
<1>22. /\ Wide((2 * q) * P, st.quotient.hi).lo = (2 * q) * P
       /\ Wide((2 * q) * P, st.quotient.hi).hi = st.quotient.hi
       /\ Wide((2 * q + 1) * P, st.quotient.hi).lo = (2 * q + 1) * P
       /\ Wide((2 * q + 1) * P, st.quotient.hi).hi = st.quotient.hi
  <2>1. \A l, k \in WordNumber : Wide(l, k).lo = l /\ Wide(l, k).hi = k
    BY WideOf DEF WordNumber
  <2> QED BY <1>20, <1>21, <2>1
<1>23. \/ /\ next.quotient.lo = (2 * q) * P
          /\ next.remainder = 2 * r + b
       \/ /\ next.quotient.lo = (2 * q + 1) * P
          /\ next.remainder = 2 * r + b - d
  BY <1>28, <1>19, <1>20, <1>22
<1>24. next.quotient.hi = x.hi \div d /\ next.remainder \in 0 .. d - 1
  BY <1>12, <1>28, <1>19, <1>20, <1>22
<1>25. PICK p \in Nat : /\ next.quotient.lo = p * P
                        /\ p * d + next.remainder = R * (2 * K) + (2 * m + b)
  <2>1. CASE next.quotient.lo = (2 * q) * P /\ next.remainder = 2 * r + b
    <3>1. 2 * q \in Nat /\ (2 * q) * d + next.remainder = R * (2 * K) + (2 * m + b)
      BY <1>15, <2>1
    <3> QED BY <2>1, <3>1
  <2>2. CASE next.quotient.lo = (2 * q + 1) * P /\ next.remainder = 2 * r + b - d
    <3> DEFINE z == (2 * q) * d
    <3>1. z \in Int /\ (2 * q + 1) * d = z + d /\ R * (2 * K) + (2 * m + b) = z + (2 * r + b)
      BY <1>15, <1>16
    <3>2. (2 * q + 1) * d + next.remainder = R * (2 * K) + (2 * m + b)
      <4> HIDE DEF z
      <4> QED BY <1>1, <1>9, <1>12, <2>2, <3>1
    <3>3. 2 * q + 1 \in Nat
      OBVIOUS
    <3> QED BY <2>2, <3>2, <3>3
  <2> QED BY <1>23, <2>1, <2>2
<1>26. WordBits - (s + 1) = shift
  BY DEF shift
<1>27. /\ next.quotient.lo = p * Power(2, WordBits - (s + 1))
       /\ p * d + next.remainder
            = (x.hi % d) * Power(2, s + 1) + (x.lo \div Power(2, WordBits - (s + 1)))
  BY <1>5, <1>9, <1>25, <1>26 DEF P, R
<1> QED BY <1>24, <1>26, <1>27 DEF Divided128, next

\* div: quotient and remainder are the exact ones.
LEMMA DivExact ==
  ASSUME NEW x \in WideNumber, NEW d \in WordNumber \ {0}
  PROVE  /\ Div(x, d) \in DivState
         /\ Div(x, d).remainder \in 0 .. d - 1
         /\ WideValue(Div(x, d).quotient) * d + Div(x, d).remainder = WideValue(x)
<1>1. /\ WordBits \in Nat \ {0} /\ Word \in Nat \ {0} /\ d \in Nat \ {0} /\ d < Word
      /\ x.lo \in 0 .. Word - 1 /\ x.hi \in 0 .. Word - 1
  BY WordType, WideRange DEF WordNumber
<1>2. CASE d = 1
  <2>1. Div(x, d) = [quotient |-> x, remainder |-> 0]
    BY <1>2 DEF Div
  <2>2. WideValue(x) \in Int
    BY WideRange
  <2> QED BY <1>1, <1>2, <2>1, <2>2 DEF DivState, WordNumber
<1>3. CASE d # 1
  <2> DEFINE start == [quotient |-> Wide(0, x.hi \div d), remainder |-> x.hi % d]
             g == [p \in Nat \X DivState |->
                     DivStep(p[2], x.lo, d, IF p[1] <= WordBits THEN WordBits - p[1] ELSE 0)]
             Eq(f) == f = [steps \in 0 .. WordBits |->
                             IF steps = 0 THEN start
                             ELSE DivStep(f[steps - 1], x.lo, d, WordBits - steps)]
             after == CHOOSE f : Eq(f)
  <2>1. x.hi \div d \in WordNumber /\ x.hi % d \in 0 .. d - 1 /\ x.hi % d \in WordNumber
    <3>1. \A n \in Nat : n \div d \in Nat /\ n \div d <= n /\ n % d \in 0 .. d - 1
      BY <1>1, DivBounds
    <3>2. x.hi \in Nat
      BY <1>1
    <3>3. x.hi \div d \in Nat /\ x.hi \div d <= x.hi /\ x.hi % d \in 0 .. d - 1
      BY <3>1, <3>2
    <3> QED BY <1>1, <3>3 DEF WordNumber
  <2>2. start \in DivState
    <3>1. Wide(0, x.hi \div d) \in WideNumber
      BY <2>1, WideOf DEF WordNumber
    <3> QED BY <2>1, <3>1 DEF DivState
  <2>3. g \in [Nat \X DivState -> DivState]
    <3>1. ASSUME NEW p \in Nat \X DivState
          PROVE  DivStep(p[2], x.lo, d, IF p[1] <= WordBits THEN WordBits - p[1] ELSE 0) \in DivState
      <4> DEFINE shift == IF p[1] <= WordBits THEN WordBits - p[1] ELSE 0
      <4>1. shift \in Nat /\ p[2] \in DivState /\ x.lo \in WordNumber
        BY <1>1 DEF WordNumber
      <4> HIDE DEF shift
      <4>2. DivStep(p[2], x.lo, d, shift) \in DivState
        BY <4>1, DivStepType
      <4> QED BY <4>2 DEF shift
    <3> QED BY <3>1
  <2>4. PICK f \in [0 .. WordBits -> DivState] : IteratesUpTo(WordBits, f, start, g)
    <3> HIDE DEF start, g
    <3> QED BY <1>1, <2>2, <2>3, IterationUpTo
  <2>5. Eq(f)
    <3>1. ASSUME NEW n \in 0 .. WordBits, n # 0
          PROVE  g[<<n, f[n - 1]>>] = DivStep(f[n - 1], x.lo, d, WordBits - n)
      <4>1. n \in Nat /\ n - 1 \in 0 .. WordBits /\ n <= WordBits
        BY <1>1, <3>1
      <4>2. <<n, f[n - 1]>> \in Nat \X DivState
        BY <4>1
      <4> QED BY <4>1, <4>2
    <3> HIDE DEF start, g
    <3> QED BY <2>4, <3>1 DEF IteratesUpTo
  <2>6. Eq(after)
    <3> HIDE DEF Eq
    <3> QED BY <2>5
  <2>7. Div(x, d) = after[WordBits]
    BY <1>3 DEF Div
  <2>8. /\ after[0] = start
        /\ \A n \in 1 .. WordBits : after[n] = DivStep(after[n - 1], x.lo, d, WordBits - n)
    <3> HIDE DEF after, start
    <3> QED BY <1>1, <2>6
  <2> HIDE DEF after, Eq
  <2> DEFINE S == {n \in Nat : n <= WordBits => after[n] \in DivState /\ Divided128(n, after[n], x, d)}
  <2>9. 0 \in S
    <3>1. start.quotient.lo = 0 /\ start.quotient.hi = x.hi \div d /\ start.remainder = x.hi % d
      BY <1>1, <2>1, WideOf DEF WordNumber
    <3>2. Power(2, 0) = 1 /\ Power(2, WordBits - 0) = Word
      <4>1. Power(2, 0) = 1 /\ WordBits - 0 = WordBits
        BY <1>1, PowerRecursion
      <4> QED BY <4>1, WordType
    <3>3. x.lo \div Word = 0
      BY <1>1, ModSmall
    <3>4. 0 * d + (x.hi % d) = (x.hi % d) * 1 + 0 /\ 0 * Word = 0
      BY <1>1, <2>1
    <3> HIDE DEF start
    <3>5. Divided128(0, start, x, d)
      BY <2>1, <3>1, <3>2, <3>3, <3>4 DEF Divided128
    <3> QED BY <2>2, <2>8, <3>5
  <2>10. \A n \in Nat : n \in S => n + 1 \in S
    <3> SUFFICES ASSUME NEW n \in Nat, n \in S, n + 1 <= WordBits
                 PROVE  after[n + 1] \in DivState /\ Divided128(n + 1, after[n + 1], x, d)
      OBVIOUS
    <3>1. after[n] \in DivState /\ Divided128(n, after[n], x, d)
      BY <1>1
    <3>2. n \in 0 .. WordBits - 1 /\ n + 1 \in 1 .. WordBits /\ (n + 1) - 1 = n /\ WordBits - (n + 1) \in Nat
      BY <1>1
    <3>3. after[n + 1] = DivStep(after[n], x.lo, d, WordBits - (n + 1))
      BY <2>8, <3>2
    <3>4. DivStep(after[n], x.lo, d, WordBits - (n + 1)) \in DivState
      BY <1>1, <3>1, <3>2, DivStepType DEF WordNumber
    <3>5. Divided128(n + 1, DivStep(after[n], x.lo, d, WordBits - (n + 1)), x, d)
      BY <3>1, <3>2, DivStepExact
    <3> QED BY <3>3, <3>4, <3>5
  <2>11. Nat \subseteq S
    <3> HIDE DEF S
    <3> QED BY <2>9, <2>10, Induct
  <2>12. after[WordBits] \in DivState /\ Divided128(WordBits, after[WordBits], x, d)
    BY <1>1, <2>11
  <2> DEFINE st == after[WordBits]
  <2>13. Power(2, WordBits - WordBits) = 1 /\ Power(2, WordBits) = Word
    <3>1. WordBits - WordBits = 0 /\ Power(2, 0) = 1
      BY <1>1, PowerRecursion
    <3> QED BY <3>1, WordType
  <2> HIDE DEF st
  <2>14. PICK q \in Nat : /\ st.quotient.lo = q * 1
                          /\ q * d + st.remainder = (x.hi % d) * Word + (x.lo \div 1)
    BY <2>12, <2>13 DEF Divided128, st
  <2>15. st.remainder \in 0 .. d - 1 /\ st.quotient.hi = x.hi \div d
    BY <2>12 DEF Divided128, st
  <2>16. x.lo \div 1 = x.lo /\ q * 1 = q
    BY <1>1
  <2> DEFINE h == x.hi \div d
             r == x.hi % d
  <2>17. x.hi = h * d + r /\ h \in Nat /\ r \in Nat
    <3>1. \A n \in Int : n = (n \div d) * d + (n % d)
      BY <1>1, DivModParts
    <3>2. x.hi \in Int /\ h \in Nat /\ r \in Nat
      BY <1>1, <2>1 DEF WordNumber
    <3> QED BY <3>1, <3>2
  <2> HIDE DEF h, r
  <2>18. (h * Word + q) * d + st.remainder = (h * d + r) * Word + x.lo
    <3>1. (h * Word + q) * d = (h * d) * Word + q * d /\ (h * d + r) * Word = (h * d) * Word + r * Word
      BY <1>1, <2>17
    <3>2. (h * d) * Word \in Int /\ q * d \in Int /\ r * Word \in Int
      BY <1>1, <2>17
    <3>3. q * d + st.remainder = r * Word + x.lo
      BY <2>14, <2>16 DEF r
    <3> DEFINE u == (h * d) * Word
               v == q * d
               z == r * Word
    <3>4. (h * Word + q) * d = u + v /\ (h * d + r) * Word = u + z /\ v + st.remainder = z + x.lo
      BY <3>1, <3>3
    <3>5. u \in Int /\ v \in Int /\ z \in Int /\ st.remainder \in Int /\ x.lo \in Int
      BY <1>1, <2>15, <3>2
    <3> HIDE DEF u, v, z
    <3> QED BY <3>4, <3>5
  <2>19. WideValue(st.quotient) = h * Word + q
    BY <2>14, <2>15, <2>16 DEF WideValue, h
  <2>20. WideValue(x) = (h * d + r) * Word + x.lo
    BY <2>17 DEF WideValue
  <2> QED BY <2>7, <2>12, <2>15, <2>18, <2>19, <2>20 DEF st
<1> QED BY <1>2, <1>3

-----------------------------------------------------------------------------
(* Amounts: each operator as units of 1/F.                                   *)

\* The amounts that operators meet.  += and the like can leave a fraction of F.
AnyAmount == [integral : Int, fraction : 0 .. F]
\* Those that fit the type, and those of the encoding that the class describes.
FitAmount == [integral : MinInt .. MaxInt, fraction : 0 .. F]
CanonicalAmount == [integral : Int, fraction : 0 .. F - 1]

LEMMA FType ==
  /\ F \in Nat \ {0} /\ F \in WordNumber /\ F % 2 = 0
  /\ MaxInt \in Nat \ {0} /\ MinInt = -MaxInt - 1 /\ MaxInt + 1 \in WordNumber
<1>1. F \in Nat \ {0}
  BY AmountAssumption, PowerPositive DEF F
<1>2. F % 2 = 0
  <2>1. (Places - 1) + 1 = Places /\ Places - 1 \in Nat
    BY AmountAssumption
  <2>2. Power(10, (Places - 1) + 1) = 10 * Power(10, Places - 1) /\ Power(10, Places - 1) \in Int
    <3>1. \A n \in Nat : Power(10, n + 1) = 10 * Power(10, n) /\ Power(10, n) \in Int
      BY PowerRecursion
    <3> QED BY <2>1, <3>1
  <2>3. \A n \in Int : (10 * n) % 2 = 0
    OBVIOUS
  <2> QED BY <2>1, <2>2, <2>3 DEF F
<1> QED BY <1>1, <1>2, AmountAssumption, WordType DEF WordNumber

LEMMA UnitsType ==
  ASSUME NEW a \in AnyAmount
  PROVE  /\ a.integral \in Int /\ a.fraction \in 0 .. F /\ a.integral * F \in Int
         /\ Units(a) = a.integral * F + a.fraction /\ Units(a) \in Int
  BY FType DEF AnyAmount, Units

LEMMA AmtUnits ==
  ASSUME NEW i \in Int, NEW f \in 0 .. F
  PROVE  /\ Amt(i, f) \in AnyAmount /\ Amt(i, f).integral = i /\ Amt(i, f).fraction = f
         /\ Units(Amt(i, f)) = i * F + f
         /\ f < F => Amt(i, f) \in CanonicalAmount
  BY FType DEF AnyAmount, CanonicalAmount, Amt, Units

LEMMA CanonicalIsAny ==
  ASSUME NEW a \in CanonicalAmount
  PROVE  a \in AnyAmount /\ a.fraction < F
  BY FType DEF CanonicalAmount, AnyAmount

\* Negation, whose result is canonical.
LEMMA NegatedUnits ==
  ASSUME NEW a \in AnyAmount
  PROVE  Negated(a) \in CanonicalAmount /\ Units(Negated(a)) = -Units(a)
<1>1. a.integral \in Int /\ a.fraction \in 0 .. F /\ Units(a) = a.integral * F + a.fraction
  BY UnitsType
<1>2. CASE a.fraction = 0
  <2>1. Negated(a) = Amt(-a.integral, 0)
    BY <1>2 DEF Negated
  <2>2. (-a.integral) * F = -(a.integral * F)
    BY <1>1, FType
  <2>3. Units(Amt(-a.integral, 0)) = (-a.integral) * F + 0 /\ Amt(-a.integral, 0) \in CanonicalAmount
    <3>1. -a.integral \in Int /\ 0 \in 0 .. F /\ 0 < F
      BY <1>1, FType
    <3> QED BY <3>1, AmtUnits
  <2> QED BY <1>1, <1>2, <2>1, <2>2, <2>3, FType
<1>3. CASE a.fraction # 0
  <2>1. Negated(a) = Amt(-a.integral - 1, F - a.fraction)
    BY <1>3 DEF Negated
  <2>2. (-a.integral - 1) * F = -(a.integral * F) - F /\ a.integral * F \in Int
    BY <1>1, FType
  <2>3. /\ Units(Amt(-a.integral - 1, F - a.fraction)) = (-a.integral - 1) * F + (F - a.fraction)
        /\ Amt(-a.integral - 1, F - a.fraction) \in CanonicalAmount
    <3>1. -a.integral - 1 \in Int /\ F - a.fraction \in 0 .. F /\ F - a.fraction < F
      BY <1>1, <1>3, FType
    <3> QED BY <3>1, AmtUnits
  <2> QED BY <1>1, <2>1, <2>2, <2>3, FType
<1> QED BY <1>2, <1>3

\* operator + and +=, the right-hand side being canonical.
LEMMA PlusUnits ==
  ASSUME NEW a \in AnyAmount, NEW b \in CanonicalAmount
  PROVE  /\ Plus(a, b) \in CanonicalAmount /\ Units(Plus(a, b)) = Units(a) + Units(b)
         /\ PlusAssign(a, b) \in AnyAmount /\ Units(PlusAssign(a, b)) = Units(a) + Units(b)
<1> DEFINE i == a.integral + b.integral
           f == a.fraction + b.fraction
<1>1. /\ a.integral \in Int /\ a.fraction \in 0 .. F /\ Units(a) = a.integral * F + a.fraction
      /\ b.integral \in Int /\ b.fraction \in 0 .. F - 1 /\ Units(b) = b.integral * F + b.fraction
  BY UnitsType, CanonicalIsAny DEF CanonicalAmount
<1>2. i * F + f = Units(a) + Units(b) /\ (i + 1) * F + (f - F) = i * F + f /\ i \in Int /\ f \in 0 .. 2 * F - 1
  BY <1>1, FType
<1>3. Plus(a, b) = IF F <= f THEN Amt(i + 1, f - F) ELSE Amt(i, f)
  BY <1>1, FType DEF Plus
<1>4. PlusAssign(a, b) = IF f > F THEN Amt(i + 1, f - F) ELSE Amt(i, f)
  BY DEF PlusAssign
<1> HIDE DEF i, f
<1>5. F <= f => Amt(i + 1, f - F) \in CanonicalAmount /\ Units(Amt(i + 1, f - F)) = (i + 1) * F + (f - F)
  BY <1>2, FType, AmtUnits
<1>6. f <= F => Amt(i, f) \in AnyAmount /\ Units(Amt(i, f)) = i * F + f
  BY <1>2, FType, AmtUnits
<1>7. f < F => Amt(i, f) \in CanonicalAmount
  BY <1>2, FType, AmtUnits
<1>8. /\ F <= f \/ f < F
      /\ f > F \/ f <= F
      /\ f > F => F <= f
      /\ f < F => f <= F
  BY <1>2, FType
<1> QED BY <1>2, <1>3, <1>4, <1>5, <1>6, <1>7, <1>8, CanonicalIsAny

\* operator - and -=.
LEMMA MinusUnits ==
  ASSUME NEW a \in AnyAmount, NEW b \in CanonicalAmount
  PROVE  /\ Minus(a, b) \in AnyAmount /\ Units(Minus(a, b)) = Units(a) - Units(b)
         /\ MinusAssign(a, b) = Minus(a, b)
<1> DEFINE i == a.integral - b.integral
           f == a.fraction - b.fraction
<1>1. /\ a.integral \in Int /\ a.fraction \in 0 .. F /\ Units(a) = a.integral * F + a.fraction
      /\ b.integral \in Int /\ b.fraction \in 0 .. F - 1 /\ Units(b) = b.integral * F + b.fraction
  BY UnitsType, CanonicalIsAny DEF CanonicalAmount
<1>2. i * F + f = Units(a) - Units(b) /\ (i - 1) * F + (f + F) = i * F + f /\ i \in Int /\ f \in -(F - 1) .. F
  BY <1>1, FType
<1>3. /\ a.fraction + F - b.fraction = f + F
      /\ a.fraction + (F - b.fraction) = f + F
      /\ a.integral - b.integral - 1 = i - 1
      /\ a.fraction < b.fraction <=> f < 0
      /\ b.fraction > a.fraction <=> f < 0
  BY <1>1, FType
<1>4. Minus(a, b) = IF f < 0 THEN Amt(i - 1, f + F) ELSE Amt(i, f)
  BY <1>3 DEF Minus
<1>5. MinusAssign(a, b) = IF f < 0 THEN Amt(i - 1, f + F) ELSE Amt(i, f)
  BY <1>3 DEF MinusAssign
<1> HIDE DEF i, f
<1>6. f < 0 => Amt(i - 1, f + F) \in AnyAmount /\ Units(Amt(i - 1, f + F)) = (i - 1) * F + (f + F)
  BY <1>2, FType, AmtUnits
<1>7. ~(f < 0) => Amt(i, f) \in AnyAmount /\ Units(Amt(i, f)) = i * F + f
  BY <1>2, FType, AmtUnits
<1> QED BY <1>2, <1>4, <1>5, <1>6, <1>7

\* An integer added, or taken from.
LEMMA PlusIntUnits ==
  ASSUME NEW a \in AnyAmount, NEW n \in Int
  PROVE  /\ PlusInt(a, n) \in AnyAmount /\ Units(PlusInt(a, n)) = Units(a) + n * F
         /\ IntMinus(n, a) \in AnyAmount /\ Units(IntMinus(n, a)) = n * F - Units(a)
<1>1. ASSUME NEW b \in AnyAmount
      PROVE  PlusInt(b, n) \in AnyAmount /\ Units(PlusInt(b, n)) = Units(b) + n * F
  <2>1. b.integral \in Int /\ b.fraction \in 0 .. F /\ Units(b) = b.integral * F + b.fraction
    BY UnitsType
  <2>2. (b.integral + n) * F = b.integral * F + n * F /\ b.integral * F \in Int /\ n * F \in Int
    <3>1. \A x, y \in Int : (x + y) * F = x * F + y * F /\ x * F \in Int
      BY FType
    <3> QED BY <2>1, <3>1
  <2>3. /\ Amt(b.integral + n, b.fraction) \in AnyAmount
        /\ Units(Amt(b.integral + n, b.fraction)) = (b.integral + n) * F + b.fraction
    BY <2>1, AmtUnits
  <2> QED BY <2>1, <2>2, <2>3, FType DEF PlusInt
<1>2. Negated(a) \in AnyAmount /\ Units(Negated(a)) = -Units(a)
  BY NegatedUnits, CanonicalIsAny
<1>3. Units(a) \in Int /\ n * F \in Int
  BY UnitsType, FType
<1> QED BY <1>1, <1>2, <1>3 DEF IntMinus

\* A number below a word is its low word.
LEMMA LowWord ==
  ASSUME NEW x \in WideNumber, WideValue(x) < Word
  PROVE  x.hi = 0 /\ x.lo = WideValue(x)
<1>1. x.lo \in 0 .. Word - 1 /\ x.hi \in 0 .. Word - 1 /\ Word \in Nat \ {0}
  BY WideRange, WordType DEF WordNumber
<1>2. x.hi >= 1 => x.hi * Word >= Word
  BY <1>1
<1>3. x.hi = 0
  BY <1>1, <1>2 DEF WideValue
<1> QED BY <1>1, <1>3 DEF WideValue

\* A quotient as a number.
LEMMA QuotientExact ==
  ASSUME NEW x \in WideNumber, NEW d \in WordNumber \ {0}
  PROVE  /\ Div(x, d).quotient \in WideNumber /\ WideValue(Div(x, d).quotient) = WideValue(x) \div d
         /\ Div(x, d).remainder = WideValue(x) % d
<1> DEFINE q == Div(x, d).quotient
           r == Div(x, d).remainder
<1>1. d \in Nat \ {0}
  BY DEF WordNumber
<1>2. q \in WideNumber /\ r \in 0 .. d - 1 /\ WideValue(q) * d + r = WideValue(x)
  BY DivExact DEF DivState
<1>3. WideValue(q) \in Nat
  BY <1>2, WideRange
<1> HIDE DEF q, r
<1>4. WideValue(x) \div d = WideValue(q) /\ WideValue(x) % d = r
  <2>1. \A n \in Nat : \A k \in 0 .. d - 1 : (n * d + k) \div d = n /\ (n * d + k) % d = k
    BY <1>1, DivMod
  <2> QED BY <1>2, <1>3, <2>1
<1> QED BY <1>2, <1>4 DEF q, r

\* The low word of a quotient, when that is all there is of it.
LEMMA ShortQuotient ==
  ASSUME NEW x \in WideNumber, NEW d \in WordNumber \ {0}, WideValue(x) < Word * d
  PROVE  /\ Div(x, d).quotient.lo = WideValue(x) \div d
         /\ Div(x, d).remainder = WideValue(x) % d
<1> DEFINE q == Div(x, d).quotient
<1>1. d \in Nat \ {0} /\ Word \in Nat \ {0} /\ WideValue(x) \in Nat
  BY WordType, WideRange DEF WordNumber
<1>2. /\ q \in WideNumber /\ WideValue(q) = WideValue(x) \div d
      /\ Div(x, d).remainder = WideValue(x) % d
  BY QuotientExact
<1>3. WideValue(x) \div d < Word
  BY <1>1, DivLess
<1> HIDE DEF q
<1>4. q.lo = WideValue(q)
  BY <1>2, <1>3, LowWord
<1> QED BY <1>2, <1>4 DEF q

\* Amount(const uint128_t&): units of 1/F as an amount.
LEMMA OfUnitsExact ==
  ASSUME NEW x \in WideNumber, WideValue(x) < Word * F
  PROVE  /\ OfUnits(x) \in CanonicalAmount /\ Units(OfUnits(x)) = WideValue(x)
         /\ OfUnits(x).integral >= 0
<1>1. F \in WordNumber \ {0} /\ F \in Nat \ {0} /\ WideValue(x) \in Nat
  BY FType, WideRange
<1>2. CASE WideValue(x) = 0
  <2>1. OfUnits(x) = Amt(0, 0)
    BY <1>2 DEF OfUnits, Zero
  <2>2. 0 \in 0 .. F /\ 0 < F /\ 0 * F + 0 = 0
    BY <1>1
  <2> QED BY <1>2, <2>1, <2>2, AmtUnits
<1>3. CASE WideValue(x) # 0
  <2> DEFINE q == WideValue(x) \div F
             r == WideValue(x) % F
  <2>1. OfUnits(x) = Amt(q, r)
    <3>1. Div(x, F).quotient.lo = q /\ Div(x, F).remainder = r
      BY <1>1, ShortQuotient
    <3> QED BY <1>3, <3>1 DEF OfUnits
  <2>2. WideValue(x) = q * F + r /\ q \in Nat /\ r \in 0 .. F - 1
    BY <1>1, DivParts
  <2> HIDE DEF q, r
  <2>3. Amt(q, r) \in CanonicalAmount /\ Units(Amt(q, r)) = q * F + r /\ Amt(q, r).integral = q
    BY <1>1, <2>2, AmtUnits
  <2> QED BY <2>1, <2>2, <2>3
<1> QED BY <1>2, <1>3

\* Units of 1/F^2, of which a whole number of units is kept.
LEMMA OfSquareExact ==
  ASSUME NEW x \in WideNumber, WideValue(x) <= F * F
  PROVE  /\ OfSquare(x) \in CanonicalAmount /\ Units(OfSquare(x)) = WideValue(x) \div F
         /\ OfSquare(x).integral >= 0
<1>1. F \in WordNumber \ {0} /\ F \in Nat \ {0} /\ WideValue(x) \in Nat /\ Word \in Nat /\ F < Word
  BY FType, WideRange, WordType DEF WordNumber
<1>2. CASE WideValue(x) = 0
  <2>1. OfSquare(x) = Amt(0, 0)
    BY <1>2 DEF OfSquare, Zero
  <2>2. 0 \in 0 .. F /\ 0 < F /\ 0 * F + 0 = 0 /\ 0 \div F = 0
    BY <1>1
  <2> QED BY <1>2, <2>1, <2>2, AmtUnits
<1>3. CASE WideValue(x) # 0
  <2> DEFINE y == Div(x, F).quotient
  <2>1. WideValue(x) < Word * F
    <3>1. F * F < Word * F /\ F * F \in Int /\ Word * F \in Int
      BY <1>1
    <3> QED BY <1>1, <3>1
  <2>2. y \in WideNumber /\ WideValue(y) = WideValue(x) \div F
    BY <1>1, QuotientExact
  <2> HIDE DEF y
  <2>3. WideValue(y) < Word * F
    <3>1. WideValue(y) <= WideValue(x) /\ WideValue(y) \in Nat
      BY <1>1, <2>2, DivBounds
    <3>2. Word * F \in Int
      BY <1>1
    <3> QED BY <1>1, <2>1, <3>1, <3>2
  <2> DEFINE q == WideValue(y) \div F
             r == WideValue(y) % F
  <2>4. OfSquare(x) = Amt(q, r)
    <3>1. Div(y, F).quotient.lo = q /\ Div(y, F).remainder = r
      BY <1>1, <2>2, <2>3, ShortQuotient
    <3> QED BY <1>3, <3>1 DEF OfSquare, y
  <2>5. WideValue(y) = q * F + r /\ q \in Nat /\ r \in 0 .. F - 1
    <3>1. WideValue(y) \in Nat
      BY <2>2, WideRange
    <3> QED BY <1>1, <3>1, DivParts
  <2> HIDE DEF q, r
  <2>6. Amt(q, r) \in CanonicalAmount /\ Units(Amt(q, r)) = q * F + r /\ Amt(q, r).integral = q
    <3>1. q \in Int /\ r \in 0 .. F /\ r < F
      BY <1>1, <2>5
    <3> QED BY <3>1, AmtUnits
  <2> QED BY <2>2, <2>4, <2>5, <2>6
<1> QED BY <1>2, <1>3

\* A fraction times an integer.
LEMMA FractionTimes ==
  ASSUME NEW f \in 0 .. F, NEW n \in WordNumber
  PROVE  /\ OfUnits(Mul(f, n)) \in CanonicalAmount /\ Units(OfUnits(Mul(f, n))) = f * n
<1>1. f \in WordNumber /\ F \in Nat \ {0} /\ Word \in Nat \ {0} /\ n \in Nat /\ n <= Word - 1
  BY FType, WordType DEF WordNumber
<1>2. Mul(f, n) \in WideNumber /\ WideValue(Mul(f, n)) = f * n
  BY <1>1, MulExact
<1>3. f * n < Word * F
  <2>1. f * n <= F * (Word - 1)
    BY <1>1, MulMono
  <2>2. F * (Word - 1) = Word * F - F /\ Word * F \in Int /\ f * n \in Int
    BY <1>1
  <2> QED BY <1>1, <2>1, <2>2
<1> QED BY <1>2, <1>3, OfUnitsExact

\* The product of two numbers with a fraction, cut to 1/w.
LEMMA ProductParts ==
  ASSUME NEW w \in Nat \ {0}, NEW i \in Nat, NEW f \in Nat, NEW j \in Nat, NEW g \in Nat
  PROVE  ((i * w + f) * (j * w + g)) \div w = ((i * j) * w + f * j + g * i) + ((f * g) \div w)
<1> DEFINE s == (i * j) * w + f * j + g * i
           k == (f * g) \div w
           l == (f * g) % w
<1>1. f * g = k * w + l /\ k \in Nat /\ l \in 0 .. w - 1
  <2>1. f * g \in Nat
    BY MulNat
  <2> QED BY <2>1, DivParts
<1>2. s \in Nat
  BY MulNat
<1> HIDE DEF k, l
<1>3. (i * w + f) * (j * w + g) = s * w + f * g
  OBVIOUS
<1> HIDE DEF s
<1>4. (i * w + f) * (j * w + g) = (s + k) * w + l
  BY <1>1, <1>2, <1>3
<1>5. ((s + k) * w + l) \div w = s + k
  <2>1. s + k \in Int
    BY <1>1, <1>2
  <2> QED BY <1>1, <2>1, DivMod
<1> QED BY <1>4, <1>5 DEF s, k

\* operator * of amounts that are not negative.
LEMMA TimesPositiveUnits ==
  ASSUME NEW a \in AnyAmount, NEW b \in AnyAmount,
         a.integral \in WordNumber, b.integral \in WordNumber
  PROVE  /\ TimesPositive(a, b) \in CanonicalAmount
         /\ Units(TimesPositive(a, b)) = (Units(a) * Units(b)) \div F
<1> DEFINE first == Amt(a.integral * b.integral, 0)
           second == OfUnits(Mul(a.fraction, b.integral))
           third == OfUnits(Mul(b.fraction, a.integral))
           fourth == OfSquare(Mul(a.fraction, b.fraction))
<1>1. /\ a.integral \in Nat /\ a.fraction \in 0 .. F /\ Units(a) = a.integral * F + a.fraction
      /\ b.integral \in Nat /\ b.fraction \in 0 .. F /\ Units(b) = b.integral * F + b.fraction
  BY UnitsType DEF WordNumber
<1>2. F \in Nat \ {0} /\ F \in WordNumber
  BY FType
<1>3. first \in AnyAmount /\ Units(first) = (a.integral * b.integral) * F
  <2>1. a.integral * b.integral \in Int /\ (a.integral * b.integral) * F \in Int
    BY <1>1, <1>2
  <2>2. 0 \in 0 .. F
    BY <1>2
  <2> QED BY <2>1, <2>2, AmtUnits
<1>4. second \in CanonicalAmount /\ Units(second) = a.fraction * b.integral
  BY <1>1, FractionTimes
<1>5. third \in CanonicalAmount /\ Units(third) = b.fraction * a.integral
  BY <1>1, FractionTimes
<1>6. fourth \in CanonicalAmount /\ Units(fourth) = (a.fraction * b.fraction) \div F
  <2>1. a.fraction \in WordNumber /\ b.fraction \in WordNumber
    BY <1>1, <1>2, WordType DEF WordNumber
  <2>2. Mul(a.fraction, b.fraction) \in WideNumber /\ WideValue(Mul(a.fraction, b.fraction)) = a.fraction * b.fraction
    BY <2>1, MulExact
  <2>3. a.fraction * b.fraction <= F * F
    BY <1>1, <1>2, MulMono
  <2> QED BY <2>2, <2>3, OfSquareExact
<1> HIDE DEF first, second, third, fourth
<1> DEFINE two == Plus(first, second)
           three == Plus(two, third)
<1>7. two \in CanonicalAmount /\ Units(two) = Units(first) + Units(second)
  BY <1>3, <1>4, PlusUnits
<1> HIDE DEF two
<1>8. three \in CanonicalAmount /\ Units(three) = Units(two) + Units(third)
  BY <1>5, <1>7, CanonicalIsAny, PlusUnits
<1> HIDE DEF three
<1>9. Plus(three, fourth) \in CanonicalAmount /\ Units(Plus(three, fourth)) = Units(three) + Units(fourth)
  BY <1>6, <1>8, CanonicalIsAny, PlusUnits
<1>10. (Units(a) * Units(b)) \div F
         = ((a.integral * b.integral) * F + a.fraction * b.integral + b.fraction * a.integral)
             + ((a.fraction * b.fraction) \div F)
  <2>2. a.fraction \in Nat /\ b.fraction \in Nat
    BY <1>1, <1>2
  <2> DEFINE i == a.integral
             f == a.fraction
             j == b.integral
             g == b.fraction
  <2>3. i \in Nat /\ f \in Nat /\ j \in Nat /\ g \in Nat
    BY <1>1, <2>2
  <2>4. Units(a) = i * F + f /\ Units(b) = j * F + g
    BY <1>1
  <2> HIDE DEF i, f, j, g
  <2>5. ((i * F + f) * (j * F + g)) \div F = ((i * j) * F + f * j + g * i) + ((f * g) \div F)
    BY <1>2, <2>3, ProductParts
  <2>6. (Units(a) * Units(b)) \div F = ((i * j) * F + f * j + g * i) + ((f * g) \div F)
    BY <2>4, <2>5
  <2> QED BY <2>6 DEF i, f, j, g
<1>11. TimesPositive(a, b) = Plus(three, fourth)
  BY DEF TimesPositive, three, two, first, second, third, fourth
<1> QED BY <1>3, <1>4, <1>5, <1>6, <1>7, <1>8, <1>9, <1>10, <1>11

\* What is left of an amount without its sign.
LEMMA SizeUnits ==
  ASSUME NEW a \in FitAmount
  PROVE  LET size == IF a.integral < 0 THEN Negated(a) ELSE a
         IN  /\ a \in AnyAmount
             /\ size \in AnyAmount /\ size.integral \in 0 .. MaxInt + 1 /\ size.integral \in WordNumber
             /\ Units(size) = Abs(Units(a)) /\ Units(size) \in Nat
             /\ a.integral < 0 => Units(a) <= 0
             /\ ~(a.integral < 0) => Units(a) >= 0
<1>1. a.integral \in MinInt .. MaxInt /\ a.fraction \in 0 .. F /\ a \in AnyAmount
  BY FType DEF FitAmount, AnyAmount
<1>2. Units(a) = a.integral * F + a.fraction /\ a.integral * F \in Int
  BY <1>1, UnitsType
<1>3. F \in Nat \ {0} /\ MaxInt \in Nat /\ MinInt = -MaxInt - 1 /\ 0 .. MaxInt + 1 \subseteq WordNumber
  BY FType, WordType DEF WordNumber
<1>4. CASE a.integral < 0
  <2>1. a.integral * F <= -F
    <3>1. \A n \in Nat \ {0} : F <= n * F
      BY <1>3
    <3>2. -a.integral \in Nat \ {0} /\ (-a.integral) * F = -(a.integral * F)
      BY <1>1, <1>3, <1>4
    <3>3. F <= (-a.integral) * F
      BY <3>1, <3>2
    <3> QED BY <1>2, <1>3, <3>2, <3>3
  <2>2. Units(a) <= 0 /\ Units(a) \in Int
    BY <1>1, <1>2, <1>3, <2>1
  <2>3. Negated(a) \in AnyAmount /\ Units(Negated(a)) = -Units(a)
    BY <1>1, NegatedUnits, CanonicalIsAny
  <2>4. Negated(a).integral \in 0 .. MaxInt + 1
    BY <1>1, <1>3, <1>4 DEF Negated, Amt
  <2>5. Abs(Units(a)) = -Units(a)
    BY <2>2 DEF Abs
  <2> QED BY <1>1, <1>3, <1>4, <2>2, <2>3, <2>4, <2>5
<1>5. CASE ~(a.integral < 0)
  <2>1. a.integral \in Nat /\ a.integral * F \in Nat
    BY <1>1, <1>3, <1>5
  <2>2. Units(a) \in Nat
    BY <1>1, <1>2, <1>3, <2>1
  <2>3. Abs(Units(a)) = Units(a)
    BY <2>2 DEF Abs
  <2>4. a.integral \in 0 .. MaxInt + 1
    BY <1>1, <1>3, <2>1
  <2> QED BY <1>1, <1>3, <1>5, <2>2, <2>3, <2>4
<1> QED BY <1>4, <1>5

\* operator *.
LEMMA TimesUnits ==
  ASSUME NEW a \in FitAmount, NEW b \in FitAmount
  PROVE  Times(a, b) \in CanonicalAmount /\ Units(Times(a, b)) = Product(Units(a), Units(b))
<1> DEFINE sizeA == IF a.integral < 0 THEN Negated(a) ELSE a
           sizeB == IF b.integral < 0 THEN Negated(b) ELSE b
           product == TimesPositive(sizeA, sizeB)
           x == Units(a)
           y == Units(b)
           p == (Abs(x) * Abs(y)) \div F
<1>1. /\ sizeA \in AnyAmount /\ sizeA.integral \in WordNumber /\ Units(sizeA) = Abs(x)
      /\ sizeB \in AnyAmount /\ sizeB.integral \in WordNumber /\ Units(sizeB) = Abs(y)
  BY SizeUnits
<1>2. product \in CanonicalAmount /\ Units(product) = p
  <2> HIDE DEF sizeA, sizeB
  <2> QED BY <1>1, TimesPositiveUnits
<1>3. Times(a, b) = IF a.integral < 0 /\ b.integral < 0 THEN Negated(Negated(product))
                    ELSE IF a.integral < 0 \/ b.integral < 0 THEN Negated(product)
                    ELSE product
  BY DEF Times
<1> HIDE DEF product
<1>4. /\ Negated(product) \in CanonicalAmount /\ Units(Negated(product)) = -p
      /\ Negated(Negated(product)) \in CanonicalAmount /\ Units(Negated(Negated(product))) = -(-p)
  <2>1. Negated(product) \in CanonicalAmount /\ Units(Negated(product)) = -p
    BY <1>2, CanonicalIsAny, NegatedUnits
  <2> QED BY <2>1, CanonicalIsAny, NegatedUnits
<1>5. x \in Int /\ y \in Int /\ F \in Nat \ {0}
  <2>1. a \in AnyAmount /\ b \in AnyAmount
    BY SizeUnits
  <2> QED BY <2>1, UnitsType, FType
<1>6. /\ a.integral < 0 => x <= 0
      /\ ~(a.integral < 0) => x >= 0
      /\ b.integral < 0 => y <= 0
      /\ ~(b.integral < 0) => y >= 0
  BY SizeUnits
<1> HIDE DEF x, y
<1>7. p \in Nat /\ (x = 0 \/ y = 0 => p = 0)
  <2>1. Abs(x) \in Nat /\ Abs(y) \in Nat
    BY <1>5 DEF Abs
  <2>2. Abs(x) * Abs(y) \in Nat
    BY <2>1, MulNat
  <2>3. p \in Nat
    BY <1>5, <2>2, DivNat
  <2>4. x = 0 \/ y = 0 => Abs(x) * Abs(y) = 0
    <3>1. Abs(0) = 0
      BY DEF Abs
    <3> QED BY <2>1, <3>1
  <2>5. 0 \div F = 0
    BY <1>5
  <2> QED BY <2>3, <2>4, <2>5
<1>8. Product(x, y) = Sign(x) * Sign(y) * p
  BY DEF Product
<1> HIDE DEF p
<1>9. CASE a.integral < 0 /\ b.integral < 0
  <2>1. Product(x, y) = p
    BY <1>5, <1>6, <1>7, <1>8, <1>9 DEF Sign
  <2> QED BY <1>3, <1>4, <1>7, <1>9, <2>1 DEF x, y
<1>10. CASE ~(a.integral < 0) /\ ~(b.integral < 0)
  <2>1. Product(x, y) = p
    BY <1>5, <1>6, <1>7, <1>8, <1>10 DEF Sign
  <2> QED BY <1>2, <1>3, <1>10, <2>1 DEF x, y
<1>11. CASE a.integral < 0 <=> ~(b.integral < 0)
  <2>1. Product(x, y) = -p
    BY <1>5, <1>6, <1>7, <1>8, <1>11 DEF Sign
  <2> QED BY <1>3, <1>4, <1>11, <2>1 DEF x, y
<1> QED BY <1>9, <1>10, <1>11

\* operator * by an int32_t.
LEMMA TimesIntUnits ==
  ASSUME NEW a \in FitAmount, NEW n \in MinInt .. MaxInt
  PROVE  TimesInt(a, n) \in CanonicalAmount /\ Units(TimesInt(a, n)) = Units(a) * n
<1> DEFINE times(m) == Plus(Amt(a.integral * m, 0), OfUnits(Mul(a.fraction, m)))
<1>1. /\ a.integral \in Int /\ a.fraction \in 0 .. F /\ F \in Nat \ {0}
      /\ Units(a) = a.integral * F + a.fraction
  <2>1. a \in AnyAmount
    BY SizeUnits
  <2> QED BY <2>1, UnitsType, FType
<1>2. ASSUME NEW m \in 0 .. MaxInt + 1
      PROVE  times(m) \in CanonicalAmount /\ Units(times(m)) = Units(a) * m
  <2>1. m \in WordNumber /\ m \in Nat
    BY FType, WordType DEF WordNumber
  <2>2. OfUnits(Mul(a.fraction, m)) \in CanonicalAmount /\ Units(OfUnits(Mul(a.fraction, m))) = a.fraction * m
    BY <1>1, <2>1, FractionTimes
  <2>3. /\ Amt(a.integral * m, 0) \in AnyAmount
        /\ Units(Amt(a.integral * m, 0)) = (a.integral * m) * F
    <3>1. a.integral * m \in Int /\ 0 \in 0 .. F /\ (a.integral * m) * F \in Int
      BY <1>1, <2>1
    <3> QED BY <3>1, AmtUnits
  <2>4. (a.integral * m) * F + a.fraction * m = Units(a) * m
    BY <1>1, <2>1
  <2> QED BY <2>2, <2>3, <2>4, PlusUnits
<1>3. TimesInt(a, n) = IF n < 0 THEN Negated(times(-n)) ELSE times(n)
  BY DEF TimesInt
<1>4. MaxInt \in Nat /\ MinInt = -MaxInt - 1
  BY FType
<1> HIDE DEF times
<1>5. CASE n < 0
  <2>1. -n \in 0 .. MaxInt + 1
    BY <1>4, <1>5
  <2>2. times(-n) \in CanonicalAmount /\ Units(times(-n)) = Units(a) * (-n)
    BY <1>2, <2>1
  <2>3. Negated(times(-n)) \in CanonicalAmount /\ Units(Negated(times(-n))) = -(Units(a) * (-n))
    BY <2>2, CanonicalIsAny, NegatedUnits
  <2>4. -(Units(a) * (-n)) = Units(a) * n
    <3>1. Units(a) \in Int
      BY <1>1
    <3> QED BY <1>4, <3>1
  <2> QED BY <1>3, <1>5, <2>3, <2>4
<1>6. CASE ~(n < 0)
  <2>1. n \in 0 .. MaxInt + 1
    BY <1>4, <1>6
  <2> QED BY <1>2, <1>3, <1>6, <2>1
<1> QED BY <1>5, <1>6

\* operator / by an int32_t that is greater than one, of an amount that is not negative.
LEMMA DividedPositiveUnits ==
  ASSUME NEW a \in AnyAmount, a.integral \in WordNumber, NEW m \in WordNumber, m >= 2
  PROVE  /\ DividedPositive(a, m) \in CanonicalAmount
         /\ Units(DividedPositive(a, m)) \in Nat
         /\ m * Units(DividedPositive(a, m)) <= Units(a)
         /\ Units(a) - 2 * m < m * Units(DividedPositive(a, m))
<1> DEFINE i == a.integral
           f == a.fraction
           u == (i * F) \div m
           v == f \div m
           whole == Mul(i, F)
<1>1. i \in Nat /\ f \in 0 .. F /\ Units(a) = i * F + f /\ i \in WordNumber
  BY UnitsType DEF WordNumber
<1>2. F \in Nat \ {0} /\ F \in WordNumber /\ m \in Nat \ {0} /\ m \in WordNumber \ {0} /\ Word \in Nat \ {0}
  BY FType, WordType DEF WordNumber
<1> HIDE DEF i, f
<1>3. whole \in WideNumber /\ WideValue(whole) = i * F
  BY <1>1, <1>2, MulExact
<1>4. i * F \in Nat /\ i * F < Word * F
  <2>1. i * F <= (Word - 1) * F /\ i * F \in Nat
    BY <1>1, <1>2, MulMono, MulNat DEF WordNumber
  <2>2. (Word - 1) * F = Word * F - F /\ Word * F \in Int
    BY <1>2
  <2> QED BY <1>2, <2>1, <2>2
<1>5. u \in Nat /\ u <= i * F /\ m * u <= i * F /\ i * F < m * u + m
  <2>1. i * F = u * m + ((i * F) % m) /\ u \in Nat /\ (i * F) % m \in 0 .. m - 1
    BY <1>2, <1>4, DivParts
  <2>2. u <= i * F
    BY <1>2, <1>4, DivBounds
  <2>3. u * m = m * u /\ u * m \in Int
    BY <1>2, <2>1
  <2> DEFINE t == i * F
             k == u * m
  <2>4. t = k + (t % m) /\ t % m \in 0 .. m - 1 /\ k \in Int
    BY <2>1, <2>3
  <2> HIDE DEF t, k, u
  <2>5. k <= t /\ t < k + m
    BY <1>2, <2>4
  <2> QED BY <2>1, <2>2, <2>3, <2>5 DEF t, k
<1>6. v \in Nat /\ v <= f /\ m * v <= f /\ f < m * v + m /\ v < F
  <2>1. f = v * m + (f % m) /\ v \in Nat /\ f % m \in 0 .. m - 1
    <3>1. f \in Nat
      BY <1>1, <1>2
    <3> QED BY <1>2, <3>1, DivParts
  <2>2. v <= f
    <3>1. f \in Nat
      BY <1>1, <1>2
    <3> QED BY <1>2, <3>1, DivBounds
  <2>3. v * m = m * v /\ v * m \in Int
    BY <1>2, <2>1
  <2>4. v * 2 <= v * m
    BY <1>2, <2>1, MulMono
  <2> QED BY <1>1, <1>2, <2>1, <2>2, <2>3, <2>4
<1> HIDE DEF u, v, whole
<1>7. Div(whole, m).quotient \in WideNumber /\ WideValue(Div(whole, m).quotient) = u
  BY <1>2, <1>3, QuotientExact DEF u
<1>8. u < Word * F
  <2>1. Word * F \in Int
    BY <1>2
  <2> QED BY <1>4, <1>5, <2>1
<1> DEFINE first == OfUnits(Div(whole, m).quotient)
           second == Amt(0, v)
<1>9. first \in CanonicalAmount /\ Units(first) = u
  BY <1>7, <1>8, OfUnitsExact
<1>10. second \in CanonicalAmount /\ Units(second) = v
  <2>1. v \in 0 .. F /\ v < F /\ 0 * F + v = v
    BY <1>2, <1>6
  <2> QED BY <2>1, AmtUnits
<1>11. DividedPositive(a, m) = Plus(first, second)
  BY DEF DividedPositive, v, i, f, whole
<1> HIDE DEF first, second
<1>12. Plus(first, second) \in CanonicalAmount /\ Units(Plus(first, second)) = u + v
  BY <1>9, <1>10, CanonicalIsAny, PlusUnits
<1>13. m * (u + v) = m * u + m * v /\ m * u \in Nat /\ m * v \in Nat
  BY <1>2, <1>5, <1>6
<1>14. m * (u + v) <= i * F + f /\ (i * F + f) - 2 * m < m * (u + v)
  <2> DEFINE t == i * F
             k == m * u
             l == m * v
  <2>1. /\ t \in Nat /\ k \in Nat /\ l \in Nat /\ f \in Int /\ m \in Nat
        /\ k <= t /\ t < k + m /\ l <= f /\ f < l + m /\ m * (u + v) = k + l
    BY <1>1, <1>2, <1>4, <1>5, <1>6, <1>13
  <2> HIDE DEF t, k, l
  <2>2. k + l <= t + f /\ (t + f) - 2 * m < k + l
    BY <2>1
  <2> QED BY <2>1, <2>2 DEF t
<1>15. Units(DividedPositive(a, m)) = u + v /\ u + v \in Nat
  BY <1>5, <1>6, <1>11, <1>12
<1>16. m * Units(DividedPositive(a, m)) <= Units(a) /\ Units(a) - 2 * m < m * Units(DividedPositive(a, m))
  <2>1. \A z, x : z = u + v /\ x = i * F + f => m * z <= x /\ x - 2 * m < m * z
    BY <1>14, Zenon
  <2>2. Units(a) = i * F + f
    BY <1>1
  <2> QED BY <1>15, <2>1, <2>2, Zenon
<1> QED BY <1>11, <1>12, <1>15, <1>16

\* How far q may be from the quotient of x and n.
CloseQuotient(q, x, n) ==
  LET error == Abs(n) * Abs(q) - Abs(x)
  IN  /\ -2 * Abs(n) < error /\ error <= 0
      /\ q # 0 => Sign(q) = Sign(n) * Sign(x)

\* operator / by an int32_t.
LEMMA DividedUnits ==
  ASSUME NEW a \in FitAmount, NEW n \in (MinInt .. MaxInt) \ {0}
  PROVE  Divided(a, n) \in AnyAmount /\ CloseQuotient(Units(Divided(a, n)), Units(a), n)
<1> DEFINE by(m) == IF m = 1 THEN a
                    ELSE IF a.integral < 0 THEN Negated(DividedPositive(Negated(a), m))
                    ELSE DividedPositive(a, m)
           size == IF a.integral < 0 THEN Negated(a) ELSE a
           x == Units(a)
<1>1. /\ a \in AnyAmount
      /\ size \in AnyAmount /\ size.integral \in WordNumber
      /\ Units(size) = Abs(x) /\ Abs(x) \in Nat
      /\ a.integral < 0 => x <= 0
      /\ ~(a.integral < 0) => x >= 0
  BY SizeUnits
<1>2. x \in Int /\ MaxInt \in Nat /\ MinInt = -MaxInt - 1
  BY <1>1, UnitsType, FType
<1> HIDE DEF x
<1>3. ASSUME NEW m \in 1 .. MaxInt + 1
      PROVE  /\ by(m) \in AnyAmount
             /\ m * Abs(Units(by(m))) <= Abs(x)
             /\ Abs(x) - 2 * m < m * Abs(Units(by(m)))
             /\ Units(by(m)) # 0 => (Units(by(m)) < 0 <=> x < 0)
  <2>1. CASE m = 1
    <3>1. by(m) = a /\ Units(by(m)) = x
      BY <2>1 DEF x
    <3>2. 1 * Abs(x) = Abs(x) /\ Abs(x) - 2 < Abs(x)
      BY <1>1
    <3> QED BY <1>1, <2>1, <3>1, <3>2
  <2>2. CASE m # 1
    <3> DEFINE part == DividedPositive(size, m)
    <3>1. m \in WordNumber /\ m >= 2 /\ m \in Nat
      BY <2>2, FType, WordType DEF WordNumber
    <3> HIDE DEF size
    <3>2. /\ part \in CanonicalAmount /\ Units(part) \in Nat
          /\ m * Units(part) <= Abs(x) /\ Abs(x) - 2 * m < m * Units(part)
      BY <1>1, <3>1, DividedPositiveUnits
    <3>3. x = 0 => Units(part) = 0
      <4>1. Abs(0) = 0
        BY DEF Abs
      <4>2. Units(part) # 0 => m * Units(part) >= 1
        BY <3>1, <3>2
      <4>3. m * Units(part) \in Int
        BY <3>1, <3>2
      <4> QED BY <3>2, <4>1, <4>2, <4>3
    <3>4. by(m) = IF a.integral < 0 THEN Negated(part) ELSE part
      BY <2>2 DEF size
    <3> HIDE DEF part, by
    <3>5. Negated(part) \in CanonicalAmount /\ Units(Negated(part)) = -Units(part)
      BY <3>2, CanonicalIsAny, NegatedUnits
    <3>6. CASE a.integral < 0
      <4>1. by(m) \in AnyAmount /\ Units(by(m)) = -Units(part)
        BY <3>4, <3>5, <3>6, CanonicalIsAny
      <4>2. Abs(-Units(part)) = Units(part)
        BY <3>2 DEF Abs
      <4>3. Units(by(m)) # 0 => (Units(by(m)) < 0 <=> x < 0)
        BY <1>1, <1>2, <3>2, <3>3, <3>6, <4>1
      <4> QED BY <3>2, <4>1, <4>2, <4>3
    <3>7. CASE ~(a.integral < 0)
      <4>1. by(m) \in AnyAmount /\ Units(by(m)) = Units(part)
        BY <3>2, <3>4, <3>7, CanonicalIsAny
      <4>2. Abs(Units(part)) = Units(part)
        BY <3>2 DEF Abs
      <4>3. Units(by(m)) # 0 => (Units(by(m)) < 0 <=> x < 0)
        BY <1>1, <1>2, <3>2, <3>3, <3>7, <4>1
      <4> QED BY <3>2, <4>1, <4>2, <4>3
    <3> QED BY <3>6, <3>7
  <2> QED BY <2>1, <2>2
<1>4. Divided(a, n) = IF n < 0 THEN Negated(by(-n)) ELSE by(n)
  BY DEF Divided
<1> HIDE DEF by
<1> DEFINE m == Abs(n)
<1>5. m \in 1 .. MaxInt + 1 /\ m \in Nat /\ n \in Int
  BY <1>2 DEF Abs
<1>6. Divided(a, n) = IF n < 0 THEN Negated(by(m)) ELSE by(m)
  BY <1>2, <1>4 DEF Abs
<1> HIDE DEF m
<1> DEFINE q == Units(by(m))
<1>7. by(m) \in AnyAmount /\ q \in Int
  BY <1>3, <1>5, UnitsType
<1>8. m * Abs(q) <= Abs(x) /\ Abs(x) - 2 * m < m * Abs(q) /\ (q # 0 => (q < 0 <=> x < 0))
  BY <1>3, <1>5
<1>9. Negated(by(m)) \in AnyAmount /\ Units(Negated(by(m))) = -q
  BY <1>7, NegatedUnits, CanonicalIsAny
<1> HIDE DEF q
<1>10. Abs(q) \in Nat /\ Abs(-q) = Abs(q) /\ m * Abs(q) \in Int
  <2>1. Abs(q) \in Nat /\ Abs(-q) = Abs(q)
    BY <1>7 DEF Abs
  <2> QED BY <1>5, <2>1
<1>11. -2 * m < m * Abs(q) - Abs(x) /\ m * Abs(q) - Abs(x) <= 0
  BY <1>1, <1>5, <1>8, <1>10
<1>12. CASE n < 0
  <2>1. Divided(a, n) \in AnyAmount /\ Units(Divided(a, n)) = -q
    BY <1>6, <1>9, <1>12
  <2>2. -q # 0 => Sign(-q) = Sign(n) * Sign(x)
    BY <1>2, <1>5, <1>7, <1>8, <1>12 DEF Sign
  <2>3. CloseQuotient(-q, x, n)
    <3>1. -2 * Abs(n) < Abs(n) * Abs(-q) - Abs(x) /\ Abs(n) * Abs(-q) - Abs(x) <= 0
      BY <1>10, <1>11 DEF m
    <3> QED BY <2>2, <3>1 DEF CloseQuotient
  <2> QED BY <2>1, <2>3 DEF x
<1>13. CASE ~(n < 0)
  <2>1. Divided(a, n) \in AnyAmount /\ Units(Divided(a, n)) = q
    BY <1>6, <1>7, <1>13 DEF q
  <2>2. q # 0 => Sign(q) = Sign(n) * Sign(x)
    BY <1>2, <1>5, <1>7, <1>8, <1>13 DEF Sign
  <2>3. CloseQuotient(q, x, n)
    <3>1. -2 * Abs(n) < Abs(n) * Abs(q) - Abs(x) /\ Abs(n) * Abs(q) - Abs(x) <= 0
      BY <1>10, <1>11 DEF m
    <3> QED BY <2>2, <3>1 DEF CloseQuotient
  <2> QED BY <2>1, <2>3 DEF x
<1> QED BY <1>12, <1>13 DEF x

-----------------------------------------------------------------------------
(* Amounts made of fractions and of doubles.                                 *)

\* Half of the divisor added before a division rounds to the closest number.
LEMMA HalfUp ==
  ASSUME NEW x \in Nat, NEW d \in Nat \ {0}
  PROVE  (x + (d \div 2)) \div d = (2 * x + d) \div (2 * d)
<1> DEFINE h == d \div 2
           e == d % 2
           q == (x + h) \div d
           r == (x + h) % d
<1>1. d = 2 * h + e /\ h \in Nat /\ e \in {0, 1}
  OBVIOUS
<1> HIDE DEF h, e
<1>2. x + h = q * d + r /\ q \in Nat /\ r \in 0 .. d - 1
  <2>1. x + h \in Nat
    BY <1>1
  <2> QED BY <2>1, DivParts
<1> HIDE DEF q, r
<1>3. 2 * x + d = q * (2 * d) + (2 * r + e)
  <2>1. q * (2 * d) = 2 * (q * d) /\ q * d \in Int
    BY <1>2
  <2> QED BY <1>1, <1>2, <2>1
<1>4. 2 * r + e \in 0 .. 2 * d - 1 /\ 2 * d \in Nat \ {0}
  BY <1>1, <1>2
<1>5. (q * (2 * d) + (2 * r + e)) \div (2 * d) = q
  <2>1. \A w \in Nat \ {0} : \A k \in 0 .. w - 1 : (q * w + k) \div w = q
    BY <1>2, DivMod
  <2> QED BY <1>4, <2>1
<1> QED BY <1>3, <1>5 DEF q, h

\* Amount(integral, numerator, denominator).
LEMMA ConstructUnits ==
  ASSUME NEW n \in Int, NEW p \in WordNumber, NEW d \in WordNumber \ {0},
         IsFraction(FractionOf(p, d))
  PROVE  /\ Amt(n, FractionOf(p, d).lo) \in CanonicalAmount
         /\ Units(Amt(n, FractionOf(p, d).lo)) = n * F + Nearest(p, d)
<1> DEFINE h == d \div 2
           x == Mul(p, F)
           y == PlusWord(x, h)
           f == FractionOf(p, d)
<1>1. /\ F \in WordNumber /\ F \in Nat \ {0} /\ p \in Nat /\ d \in Nat \ {0} /\ d < Word
      /\ Word \in Nat \ {0} /\ p <= Word - 1 /\ F <= Word - 1
  BY FType, WordType DEF WordNumber
<1>2. x \in WideNumber /\ WideValue(x) = p * F
  BY <1>1, MulExact
<1>3. h \in WordNumber /\ h \in Nat
  BY <1>1 DEF WordNumber
<1> HIDE DEF h, x
<1>4. y \in WideNumber /\ WideValue(y) = (p * F + h) % (Word * Word)
  BY <1>2, <1>3, PlusWordExact
<1>5. p * F + h \in 0 .. Word * Word - 1
  <2>1. p * F \in Nat /\ p * F <= (Word - 1) * (Word - 1)
    BY <1>1, MulNat, MulMono
  <2>2. (Word - 1) * (Word - 1) = Word * Word - 2 * Word + 1 /\ Word * Word \in Int
    BY <1>1
  <2>3. h <= Word - 1
    BY <1>3 DEF WordNumber
  <2> QED BY <1>1, <1>3, <2>1, <2>2, <2>3
<1>6. WideValue(y) = p * F + h
  <2>1. Word * Word \in Nat \ {0}
    BY <1>1
  <2>2. \A k \in 0 .. Word * Word - 1 : k % (Word * Word) = k
    BY <2>1, ModSmall
  <2> QED BY <1>4, <1>5, <2>2
<1>7. f = Div(y, d).quotient
  BY DEF FractionOf, y, x, h
<1> HIDE DEF y
<1>8. f \in WideNumber /\ WideValue(f) = (p * F + h) \div d
  BY <1>4, <1>6, <1>7, QuotientExact
<1>9. f.hi = 0 /\ f.lo < F /\ f.lo \in Nat
  BY <1>8, WideRange DEF IsFraction, WordNumber
<1>10. f.lo = (p * F + h) \div d
  <2>1. WideValue(f) = f.lo
    BY <1>1, <1>9 DEF WideValue
  <2> QED BY <1>8, <2>1
<1>11. (p * F + h) \div d = Nearest(p, d)
  <2>1. p * F \in Nat
    BY <1>1, MulNat
  <2>2. (p * F + h) \div d = (2 * (p * F) + d) \div (2 * d)
    BY <1>1, <2>1, HalfUp DEF h
  <2>3. 2 * (p * F) = 2 * p * F
    BY <1>1
  <2> QED BY <2>2, <2>3 DEF Nearest
<1> HIDE DEF f
<1>12. Amt(n, f.lo) \in CanonicalAmount /\ Units(Amt(n, f.lo)) = n * F + f.lo
  <2>1. f.lo \in 0 .. F /\ f.lo < F
    BY <1>1, <1>9
  <2> QED BY <2>1, AmtUnits
<1> QED BY <1>10, <1>11, <1>12 DEF f

\* The integral part and what is left of a number: the code borrows from the
\* integral part of every negative number.
LEMMA Borrow ==
  ASSUME NEW n \in Int, NEW d \in Nat \ {0}
  PROVE  LET i == IF n < 0 THEN -((-n) \div d) - 1 ELSE n \div d
         IN  i \in Int /\ n - i * d \in 0 .. d /\ n = i * d + (n - i * d)
<1>1. CASE n < 0
  <2> DEFINE q == (-n) \div d
             r == (-n) % d
  <2>1. -n = q * d + r /\ q \in Nat /\ r \in 0 .. d - 1
    <3>1. -n \in Nat
      BY <1>1
    <3> QED BY <3>1, DivParts
  <2> HIDE DEF q, r
  <2>2. (-q - 1) * d = -(q * d) - d /\ q * d \in Int
    BY <2>1
  <2>3. -q - 1 \in Int /\ n - (-q - 1) * d \in 0 .. d
    BY <2>1, <2>2
  <2>4. n = (-q - 1) * d + (n - (-q - 1) * d)
    BY <2>1, <2>2
  <2> QED BY <1>1, <2>3, <2>4 DEF q
<1>2. CASE ~(n < 0)
  <2> DEFINE q == n \div d
             r == n % d
  <2>1. n = q * d + r /\ q \in Nat /\ r \in 0 .. d - 1
    <3>1. n \in Nat
      BY <1>2
    <3> QED BY <3>1, DivParts
  <2> HIDE DEF q, r
  <2>2. q * d \in Int
    BY <2>1
  <2>3. n - q * d \in 0 .. d /\ n = q * d + (n - q * d)
    BY <2>1, <2>2
  <2> QED BY <1>2, <2>1, <2>3 DEF q
<1> QED BY <1>1, <1>2

LEMMA DivShift ==
  ASSUME NEW d \in Nat \ {0}, NEW k \in Int, NEW y \in Nat
  PROVE  (k * d + y) \div d = k + (y \div d)
<1> DEFINE q == y \div d
           r == y % d
<1>1. y = q * d + r /\ q \in Nat /\ r \in 0 .. d - 1
  BY DivParts
<1> HIDE DEF q, r
<1>2. k * d + y = (k + q) * d + r /\ k + q \in Int
  BY <1>1
<1>3. ((k + q) * d + r) \div d = k + q
  BY <1>1, <1>2, DivMod
<1> QED BY <1>2, <1>3 DEF q

\* Amount(double), of a double that CanHold admits.
LEMMA FromDoubleUnits ==
  ASSUME NEW v \in [num : Int, den : Nat \ {0}], CanHold(v)
  PROVE  /\ FromDouble(v) \in CanonicalAmount /\ FromDouble(v).integral \in MinInt .. MaxInt
         /\ Units(FromDouble(v)) = Rounded(v)
<1> DEFINE n == v.num
           d == v.den
           i == IF n < 0 THEN -((-n) \div d) - 1 ELSE n \div d
           frac == n - i * d
           T == Power(10, Digits)
           P == Power(10, Places - Digits)
           digits == (2 * frac * T + d) \div (2 * d)
           fraction == digits * P
<1>1. n \in Int /\ d \in Nat \ {0} /\ MinInt * d <= n /\ n <= MaxInt * d
  BY DEF CanHold
<1>2. MinInt \in Int /\ MaxInt \in Int /\ F \in Nat \ {0}
  BY FType
<1>3. T \in Nat \ {0} /\ P \in Nat \ {0} /\ T * P = F
  <2>1. Digits \in Nat /\ Places - Digits \in Nat /\ Digits + (Places - Digits) = Places
    BY AmountAssumption
  <2>2. T \in Nat \ {0} /\ P \in Nat \ {0}
    BY <2>1, PowerPositive
  <2>3. Power(10, Digits + (Places - Digits)) = T * P
    BY <2>1, PowerSum
  <2> QED BY <2>1, <2>2, <2>3 DEF F
<1>4. FromDouble(v) = IF fraction >= F THEN Amt(i + 1, fraction - F) ELSE Amt(i, fraction)
  BY DEF FromDouble
<1>5. Rounded(v) = ((2 * n * T + d) \div (2 * d)) * P
  BY DEF Rounded
<1> HIDE DEF n, d, T, P
<1>6. i \in Int /\ frac \in 0 .. d /\ n = i * d + frac
  BY <1>1, Borrow
<1> HIDE DEF i, frac
<1>7. 2 * d \in Nat \ {0} /\ (2 * frac) * T + d \in Nat
  <2>1. (2 * frac) * T \in Nat
    BY <1>3, <1>6, MulNat
  <2> QED BY <1>1, <2>1
<1>8. digits \in 0 .. T
  <2>1. (2 * frac) * T <= (2 * d) * T /\ (2 * frac) * T \in Nat
    BY <1>1, <1>3, <1>6, MulMono, MulNat
  <2>2. (T + 1) * (2 * d) = (2 * d) * T + 2 * d /\ (2 * d) * T \in Int
    BY <1>1, <1>3
  <2>3. (2 * frac) * T + d < (T + 1) * (2 * d)
    BY <1>1, <2>1, <2>2
  <2>4. digits \in Nat
    BY <1>7, DivNat
  <2>5. digits < T + 1
    <3>1. T + 1 \in Nat
      BY <1>3
    <3> QED BY <1>7, <2>3, <3>1, DivLess
  <2> QED BY <1>3, <2>4, <2>5
<1>9. frac = d => digits = T
  <2> SUFFICES ASSUME frac = d PROVE digits = T
    OBVIOUS
  <2>1. (2 * d) * T + d = T * (2 * d) + d /\ d \in 0 .. 2 * d - 1
    BY <1>1, <1>3
  <2>2. (T * (2 * d) + d) \div (2 * d) = T
    <3>1. \A w \in Nat \ {0} : \A k \in 0 .. w - 1 : (T * w + k) \div w = T
      BY <1>3, DivMod
    <3> QED BY <1>7, <2>1, <3>1
  <2> QED BY <2>1, <2>2
<1>10. frac = 0 => digits = 0
  <2> SUFFICES ASSUME frac = 0 PROVE digits = 0
    OBVIOUS
  <2>1. (2 * 0) * T + d = d /\ d \in 0 .. 2 * d - 1
    BY <1>1, <1>3
  <2>2. d \div (2 * d) = 0
    BY <1>7, <2>1, ModSmall
  <2> QED BY <2>1, <2>2
<1>11. (2 * n * T + d) \div (2 * d) = i * T + digits
  <2>1. 2 * n * T + d = (i * T) * (2 * d) + ((2 * frac) * T + d)
    <3>1. frac \in Int
      BY <1>1, <1>6
    <3> QED BY <1>1, <1>3, <1>6, <3>1
  <2>2. i * T \in Int
    BY <1>3, <1>6
  <2>3. \A k \in Int, y \in Nat : (k * (2 * d) + y) \div (2 * d) = k + (y \div (2 * d))
    BY <1>7, DivShift
  <2>4. ((i * T) * (2 * d) + ((2 * frac) * T + d)) \div (2 * d) = i * T + (((2 * frac) * T + d) \div (2 * d))
    BY <1>7, <2>2, <2>3, Zenon
  <2> QED BY <2>1, <2>4
<1> HIDE DEF digits
<1>12. fraction \in 0 .. F /\ (fraction = F <=> digits = T)
  <2>1. digits * P <= T * P /\ digits * P \in Nat
    BY <1>3, <1>8, MulMono, MulNat
  <2>2. digits < T => digits * P < T * P
    BY <1>3, <1>8
  <2> QED BY <1>2, <1>3, <1>8, <2>1, <2>2
<1>13. Rounded(v) = i * F + fraction
  <2>1. (i * T + digits) * P = i * (T * P) + digits * P
    BY <1>3, <1>6, <1>8
  <2> QED BY <1>3, <1>5, <1>11, <2>1
<1>14. i + 1 >= MinInt /\ (i + 1 = MinInt => frac = d)
  <2>1. i * d + frac >= MinInt * d
    BY <1>1, <1>6
  <2>2. (i + 1) * d = i * d + d /\ i * d \in Int /\ MinInt * d \in Int
    BY <1>1, <1>2, <1>6
  <2>3. (i + 1) * d >= MinInt * d
    BY <1>1, <1>6, <2>1, <2>2
  <2>4. i + 1 < MinInt => (i + 1) * d < MinInt * d
    BY <1>1, <1>2, <1>6
  <2>5. i + 1 >= MinInt
    <3>1. (i + 1) * d \in Int /\ i + 1 \in Int
      BY <1>1, <1>6
    <3>2. ~(i + 1 < MinInt)
      BY <2>2, <2>3, <2>4, <3>1
    <3> QED BY <1>2, <3>1, <3>2
  <2>6. i + 1 = MinInt => frac = d
    BY <1>1, <1>6, <2>1, <2>2
  <2> QED BY <2>5, <2>6
<1>15. i <= MaxInt /\ (i = MaxInt => frac = 0)
  <2>1. i * d + frac <= MaxInt * d /\ i * d \in Int /\ MaxInt * d \in Int
    BY <1>1, <1>2, <1>6
  <2>2. i * d <= MaxInt * d
    BY <1>1, <1>6, <2>1
  <2>3. i > MaxInt => i * d > MaxInt * d
    BY <1>1, <1>2, <1>6
  <2>4. i <= MaxInt
    BY <1>2, <1>6, <2>1, <2>2, <2>3
  <2>5. i = MaxInt => frac = 0
    BY <1>1, <1>6, <2>1
  <2> QED BY <2>4, <2>5
<1> HIDE DEF fraction
<1>16. CASE fraction >= F
  <2>1. fraction = F /\ fraction - F = 0
    BY <1>2, <1>12, <1>16
  <2>2. FromDouble(v) = Amt(i + 1, 0)
    BY <1>4, <1>16, <2>1
  <2>3. /\ Amt(i + 1, 0) \in CanonicalAmount /\ Units(Amt(i + 1, 0)) = (i + 1) * F + 0
        /\ Amt(i + 1, 0).integral = i + 1
    <3>1. i + 1 \in Int /\ 0 \in 0 .. F /\ 0 < F
      BY <1>2, <1>6
    <3> QED BY <3>1, AmtUnits
  <2>4. (i + 1) * F + 0 = i * F + F
    BY <1>2, <1>6
  <2>5. digits = T /\ T # 0
    BY <1>3, <1>12, <2>1
  <2>6. i # MaxInt
    BY <1>10, <1>15, <2>5
  <2>7. i + 1 \in MinInt .. MaxInt
    BY <1>2, <1>6, <1>14, <1>15, <2>6
  <2> QED BY <1>13, <2>1, <2>2, <2>3, <2>4, <2>7
<1>17. CASE ~(fraction >= F)
  <2>1. fraction < F
    BY <1>2, <1>12, <1>17
  <2>2. FromDouble(v) = Amt(i, fraction)
    BY <1>4, <1>17
  <2>3. /\ Amt(i, fraction) \in CanonicalAmount /\ Units(Amt(i, fraction)) = i * F + fraction
        /\ Amt(i, fraction).integral = i
    BY <1>6, <1>12, <2>1, AmtUnits
  <2>4. digits # T
    BY <1>2, <1>12, <2>1
  <2>5. i \in MinInt .. MaxInt
    BY <1>2, <1>6, <1>9, <1>14, <1>15, <2>4
  <2> QED BY <1>13, <2>2, <2>3, <2>5
<1> QED BY <1>16, <1>17

-----------------------------------------------------------------------------
(* A calculation.                                                            *)

\* The amount fits its type and is what was calculated.
CalculationInv == acc \in FitAmount /\ exact = Units(acc)

\* A result that is right, and within the range, keeps the invariant.
LEMMA ResultFits ==
  ASSUME NEW r \in AnyAmount, NEW units, units = Units(r), Becomes(r, units)
  PROVE  CalculationInv'
<1>1. /\ r.integral \in Int /\ r.fraction \in 0 .. F /\ r.integral * F \in Int
      /\ Units(r) = r.integral * F + r.fraction
  BY UnitsType
<1>2. F \in Nat \ {0} /\ MaxInt \in Nat /\ MinInt = -MaxInt - 1
  BY FType
<1>3. MinInt * F <= units /\ units < (MaxInt + 1) * F /\ -units < (MaxInt + 1) * F
  BY DEF Becomes, InRange
<1> DEFINE i == r.integral
           f == r.fraction
           m == (MaxInt + 1) * F
<1>4. i * F + f < m /\ -(i * F + f) < m /\ m \in Int
  BY <1>1, <1>2, <1>3
<1>5. i <= MaxInt
  <2>1. i * F < m
    BY <1>1, <1>2, <1>4
  <2>2. i >= MaxInt + 1 => i * F >= m
    BY <1>1, <1>2
  <2>3. ~(i >= MaxInt + 1)
    <3> HIDE DEF m
    <3> QED BY <1>1, <1>4, <2>1, <2>2
  <2> QED BY <1>1, <1>2, <2>3
<1>6. i >= MinInt
  <2>1. (i + 1) * F = i * F + F /\ (-(MaxInt + 1)) * F = -m
    BY <1>1, <1>2
  <2>2. (i + 1) * F > -m
    BY <1>1, <1>2, <1>4, <2>1
  <2>3. i + 1 <= -(MaxInt + 1) => (i + 1) * F <= (-(MaxInt + 1)) * F
    BY <1>1, <1>2
  <2>4. (i + 1) * F \in Int
    BY <1>1, <1>2
  <2>5. ~(i + 1 <= -(MaxInt + 1))
    BY <1>4, <2>1, <2>2, <2>3, <2>4
  <2> QED BY <1>1, <1>2, <2>5
<1>7. r \in FitAmount
  BY <1>1, <1>2, <1>5, <1>6 DEF AnyAmount, FitAmount
<1>8. acc' = r /\ exact' = Units(r)
  BY DEF Becomes
<1>9. Units(acc)' = Units(acc')
  BY DEF Units
<1> QED BY <1>7, <1>8, <1>9 DEF CalculationInv

LEMMA OperandFits ==
  ASSUME NEW b \in Right
  PROVE  b \in CanonicalAmount /\ b \in FitAmount /\ b \in AnyAmount
<1>1. F \in Nat \ {0} /\ MinInt \in Int /\ MaxInt \in Int
  BY FType
<1>2. CASE b \in Operand
  <2>1. b \in [integral : MinInt .. MaxInt, fraction : 0 .. F - 1]
    BY <1>2, CalculationAssumption
  <2> QED BY <1>1, <2>1 DEF CanonicalAmount, FitAmount, AnyAmount
<1>3. CASE b \notin Operand
  <2>1. PICK v \in Double : CanHold(v) /\ b = FromDouble(v)
    BY <1>3 DEF Right
  <2>2. v \in [num : Int, den : Nat \ {0}]
    BY CalculationAssumption
  <2>3. b \in CanonicalAmount /\ b.integral \in MinInt .. MaxInt
    BY <2>1, <2>2, FromDoubleUnits
  <2> QED BY <1>1, <2>3 DEF CanonicalAmount, FitAmount, AnyAmount
<1> QED BY <1>2, <1>3

LEMMA CalculationInvInit == CalculationInit => CalculationInv
<1> SUFFICES ASSUME CalculationInit PROVE CalculationInv
  OBVIOUS
<1>1. acc \in Right
  BY DEF CalculationInit, Right
<1> QED BY <1>1, OperandFits DEF CalculationInit, CalculationInv

LEMMA CalculationInvStep ==
  CalculationInv /\ [CalculationNext]_calculationVars => CalculationInv'
<1> SUFFICES ASSUME CalculationInv, [CalculationNext]_calculationVars PROVE CalculationInv'
  OBVIOUS
<1>1. acc \in FitAmount /\ exact = Units(acc) /\ acc \in AnyAmount /\ exact \in Int
  BY SizeUnits, UnitsType DEF CalculationInv
<1>2. ASSUME NEW b \in Right, AddAssign(b) PROVE CalculationInv'
  <2>1. PlusAssign(acc, b) \in AnyAmount /\ Units(PlusAssign(acc, b)) = exact + Units(b)
    BY <1>1, OperandFits, PlusUnits
  <2> QED BY <1>2, <2>1, ResultFits DEF AddAssign
<1>3. ASSUME NEW b \in Right, SubAssign(b) PROVE CalculationInv'
  <2>1. MinusAssign(acc, b) \in AnyAmount /\ Units(MinusAssign(acc, b)) = exact - Units(b)
    BY <1>1, OperandFits, MinusUnits
  <2> QED BY <1>3, <2>1, ResultFits DEF SubAssign
<1>4. ASSUME NEW b \in Right, Add(b) PROVE CalculationInv'
  <2>1. Plus(acc, b) \in AnyAmount /\ Units(Plus(acc, b)) = exact + Units(b)
    BY <1>1, OperandFits, PlusUnits, CanonicalIsAny
  <2> QED BY <1>4, <2>1, ResultFits DEF Add
<1>5. ASSUME NEW b \in Right, Sub(b) PROVE CalculationInv'
  <2>1. Minus(acc, b) \in AnyAmount /\ Units(Minus(acc, b)) = exact - Units(b)
    BY <1>1, OperandFits, MinusUnits
  <2> QED BY <1>5, <2>1, ResultFits DEF Sub
<1>6. ASSUME NEW b \in Right, Multiply(b) PROVE CalculationInv'
  <2>1. Times(acc, b) \in AnyAmount /\ Units(Times(acc, b)) = Product(exact, Units(b))
    BY <1>1, OperandFits, TimesUnits, CanonicalIsAny
  <2> QED BY <1>6, <2>1, ResultFits DEF Multiply
<1>7. ASSUME NEW v \in Double, FromNumber(v) PROVE CalculationInv'
  <2>1. CanHold(v) /\ Becomes(FromDouble(v), Rounded(v))
    BY <1>7 DEF FromNumber
  <2>2. v \in [num : Int, den : Nat \ {0}]
    BY CalculationAssumption
  <2>3. FromDouble(v) \in AnyAmount /\ Units(FromDouble(v)) = Rounded(v)
    BY <2>1, <2>2, FromDoubleUnits, CanonicalIsAny
  <2> QED BY <2>1, <2>3, ResultFits
<1>8. ASSUME Negate PROVE CalculationInv'
  <2>1. Negated(acc) \in AnyAmount /\ Units(Negated(acc)) = -exact
    BY <1>1, NegatedUnits, CanonicalIsAny
  <2> QED BY <1>8, <2>1, ResultFits DEF Negate
<1>9. ASSUME NEW n \in Factor, AddInt(n) \/ SubFromInt(n) PROVE CalculationInv'
  <2>1. n \in Int
    BY CalculationAssumption, FType
  <2>2. /\ PlusInt(acc, n) \in AnyAmount /\ Units(PlusInt(acc, n)) = exact + n * F
        /\ IntMinus(n, acc) \in AnyAmount /\ Units(IntMinus(n, acc)) = n * F - exact
    BY <1>1, <2>1, PlusIntUnits
  <2>3. CASE AddInt(n)
    BY <2>2, <2>3, ResultFits DEF AddInt
  <2>4. CASE SubFromInt(n)
    BY <2>2, <2>4, ResultFits DEF SubFromInt
  <2> QED BY <1>9, <2>3, <2>4
<1>10. ASSUME NEW n \in Factor, MultiplyInt(n) PROVE CalculationInv'
  <2>1. n \in MinInt .. MaxInt
    BY CalculationAssumption
  <2>2. TimesInt(acc, n) \in AnyAmount /\ Units(TimesInt(acc, n)) = exact * n
    BY <1>1, <2>1, TimesIntUnits, CanonicalIsAny
  <2> QED BY <1>10, <2>2, ResultFits DEF MultiplyInt
<1>11. ASSUME NEW n \in Factor, Divide(n) PROVE CalculationInv'
  <2>1. n \in (MinInt .. MaxInt) \ {0}
    BY <1>11, CalculationAssumption DEF Divide
  <2>2. Divided(acc, n) \in AnyAmount
    BY <1>1, <2>1, DividedUnits
  <2> QED BY <1>11, <2>2, ResultFits DEF Divide
<1>12. ASSUME NEW n \in Factor, NEW p \in EdgeWord, NEW q \in EdgeWord, Construct(n, p, q)
       PROVE  CalculationInv'
  <2> DEFINE fraction == FractionOf(p, q)
  <2>1. /\ q # 0 /\ IsFraction(fraction)
        /\ Becomes(Amt(n, fraction.lo), n * F + Nearest(p, q))
    BY <1>12 DEF Construct
  <2>2. n \in Int /\ p \in WordNumber /\ q \in WordNumber \ {0}
    BY <2>1, CalculationAssumption, FType DEF WordNumber
  <2>3. Amt(n, fraction.lo) \in CanonicalAmount /\ Units(Amt(n, fraction.lo)) = n * F + Nearest(p, q)
    BY <2>1, <2>2, ConstructUnits
  <2> QED BY <2>1, <2>3, CanonicalIsAny, ResultFits
<1>13. CASE UNCHANGED calculationVars
  BY <1>1, <1>13 DEF calculationVars, CalculationInv, Units
<1> QED
  BY <1>2, <1>3, <1>4, <1>5, <1>6, <1>7, <1>8, <1>9, <1>10, <1>11, <1>12, <1>13
  DEF CalculationNext

LEMMA CalculationInvariant == CalculationSpec => []CalculationInv
<1> QED BY CalculationInvInit, CalculationInvStep, PTL DEF CalculationSpec

\* No sequence of operators loses or invents a unit, for any number of decimal
\* places, any size of a word and any operands (amount.h:195-391).
THEOREM CalculationExact == CalculationSpec => []Exact
<1>1. CalculationInv => Exact
  BY DEF CalculationInv, Exact
<1> QED BY <1>1, CalculationInvariant, PTL

\* The error of a division is below two units, towards zero (amount.h:393-405).
THEOREM CalculationQuotients == CalculationSpec => []QuotientClose
<1>1. ASSUME CalculationInv PROVE QuotientClose
  <2> SUFFICES ASSUME NEW n \in Factor \ {0}
               PROVE  CloseQuotient(Units(Divided(acc, n)), exact, n)
    BY DEF QuotientClose, CloseQuotient
  <2>1. n \in (MinInt .. MaxInt) \ {0}
    BY CalculationAssumption
  <2> QED BY <1>1, <2>1, DividedUnits DEF CalculationInv
<1> QED BY <1>1, CalculationInvariant, PTL

\* 128-bit sums, products and quotients are the exact ones, for any size of a
\* word (math128ce.h:61-136).
THEOREM CalculationExact128 == CalculationSpec => []Exact128
<1>1. ASSUME CalculationInv PROVE Exact128
  <2> SUFFICES ASSUME NEW n \in EdgeWord, NEW d \in EdgeWord
               PROVE  LET x == Mul(Abs(exact) % Word, n)
                          parts == Div(x, d)
                      IN  /\ WideValue(x) = (Abs(exact) % Word) * n
                          /\ WideValue(PlusWord(x, d)) = (WideValue(x) + d) % (Word * Word)
                          /\ WideValue(PlusWide(x, Wide(d, n)))
                               = (WideValue(x) + d + n * Word) % (Word * Word)
                          /\ d # 0 => /\ WideValue(parts.quotient) * d + parts.remainder = WideValue(x)
                                      /\ parts.remainder \in 0 .. d - 1
    BY DEF Exact128
  <2> DEFINE m == Abs(exact) % Word
             x == Mul(m, n)
  <2>1. n \in WordNumber /\ d \in WordNumber
    BY CalculationAssumption DEF WordNumber
  <2>2. m \in WordNumber
    <3>1. exact \in Int
      BY <1>1, SizeUnits, UnitsType DEF CalculationInv
    <3>2. Abs(exact) \in Int
      BY <3>1 DEF Abs
    <3> QED BY <3>2, WordType DEF WordNumber
  <2> HIDE DEF m
  <2>3. x \in WideNumber /\ WideValue(x) = m * n
    BY <2>1, <2>2, MulExact
  <2> HIDE DEF x
  <2>4. WideValue(PlusWord(x, d)) = (WideValue(x) + d) % (Word * Word)
    BY <2>1, <2>3, PlusWordExact
  <2>5. Wide(d, n) \in WideNumber /\ WideValue(Wide(d, n)) = d + n * Word
    <3>1. Wide(d, n) \in WideNumber /\ Wide(d, n).lo = d /\ Wide(d, n).hi = n
      BY <2>1, WideOf DEF WordNumber
    <3>2. n * Word + d = d + n * Word
      BY <2>1, WordType DEF WordNumber
    <3> QED BY <3>1, <3>2 DEF WideValue
  <2>6. WideValue(PlusWide(x, Wide(d, n))) = (WideValue(x) + d + n * Word) % (Word * Word)
    <3>1. WideValue(PlusWide(x, Wide(d, n))) = (WideValue(x) + WideValue(Wide(d, n))) % (Word * Word)
      BY <2>3, <2>5, PlusWideExact
    <3>2. WideValue(x) + WideValue(Wide(d, n)) = WideValue(x) + d + n * Word
      BY <2>1, <2>3, <2>5, WideRange, WordType DEF WordNumber
    <3> QED BY <3>1, <3>2
  <2>7. d # 0 => /\ WideValue(Div(x, d).quotient) * d + Div(x, d).remainder = WideValue(x)
                 /\ Div(x, d).remainder \in 0 .. d - 1
    BY <2>1, <2>3, DivExact
  <2> QED BY <2>3, <2>4, <2>6, <2>7 DEF x, m
<1> QED BY <1>1, CalculationInvariant, PTL

-----------------------------------------------------------------------------
(* Readings: the digits of a number, and sums of them.                       *)

\* Sums of the numbers up to each place.
LEMMA SumUpTo ==
  ASSUME NEW N \in Nat, NEW a \in [1 .. N -> Int]
  PROVE  \E s \in [0 .. N -> Int] :
           s = [i \in 0 .. N |-> IF i = 0 THEN 0 ELSE s[i - 1] + a[i]]
<1> DEFINE g == [p \in Nat \X Int |-> p[2] + (IF p[1] \in 1 .. N THEN a[p[1]] ELSE 0)]
<1>1. g \in [Nat \X Int -> Int]
  OBVIOUS
<1>2. PICK s \in [0 .. N -> Int] : IteratesUpTo(N, s, 0, g)
  <2> HIDE DEF g
  <2>1. \A e \in Int : \E s \in [0 .. N -> Int] : IteratesUpTo(N, s, e, g)
    BY <1>1, IterationUpTo, Zenon
  <2>2. 0 \in Int
    OBVIOUS
  <2> QED BY <2>1, <2>2, Zenon
<1>3. \A i \in 0 .. N : i # 0 => g[<<i, s[i - 1]>>] = s[i - 1] + a[i]
  <2> SUFFICES ASSUME NEW i \in 0 .. N, i # 0
               PROVE  g[<<i, s[i - 1]>>] = s[i - 1] + a[i]
    OBVIOUS
  <2>1. i \in 1 .. N /\ s[i - 1] \in Int /\ <<i, s[i - 1]>> \in Nat \X Int
    OBVIOUS
  <2> QED BY <2>1
<1>4. s = [i \in 0 .. N |-> IF i = 0 THEN 0 ELSE s[i - 1] + a[i]]
  <2> HIDE DEF g
  <2> QED BY <1>2, <1>3 DEF IteratesUpTo
<1> QED BY <1>4

\* What the digits of a number up to the i-th of n stand for.
Leading(f, n, i) == (f \div Power(10, n - i)) * Power(10, n - i)
Digit(f, n, i) == (f \div Power(10, n - i)) % 10

LEMMA TenPower ==
  ASSUME NEW n \in Nat
  PROVE  Power(10, n) \in Nat \ {0}
<1>1. \A b \in Nat \ {0} : Power(b, n) \in Nat \ {0}
  BY PowerPositive
<1> QED BY <1>1

LEMMA DivDiv ==
  ASSUME NEW f \in Nat, NEW p \in Nat \ {0}
  PROVE  f \div (10 * p) = (f \div p) \div 10
<1> DEFINE q == f \div p
           r == f % p
           u == q \div 10
           v == q % 10
<1>1. f = q * p + r /\ q \in Nat /\ r \in 0 .. p - 1
  BY DivParts
<1>2. q = u * 10 + v /\ u \in Nat /\ v \in 0 .. 9
  BY <1>1, DivParts
<1> HIDE DEF q, r, u, v
<1>3. v * p \in Nat /\ v * p <= 9 * p
  BY <1>2
<1>4. v * p + r \in 0 .. 10 * p - 1
  BY <1>1, <1>3
<1>5. q * p = (u * 10) * p + v * p
  BY <1>1, <1>2
<1>6. (u * 10) * p = u * (10 * p)
  BY <1>2
<1>7. f = u * (10 * p) + (v * p + r)
  BY <1>1, <1>2, <1>3, <1>5, <1>6
<1>8. \A d \in Nat \ {0} : \A s \in 0 .. d - 1 : (u * d + s) \div d = u
  BY <1>2, DivMod
<1>9. 10 * p \in Nat \ {0}
  OBVIOUS
<1>10. (u * (10 * p) + (v * p + r)) \div (10 * p) = u
  BY <1>4, <1>8, <1>9
<1> QED BY <1>7, <1>10 DEF u, q

\* One digit more.
LEMMA NextDigit ==
  ASSUME NEW n \in Nat, NEW f \in Nat, NEW i \in 0 .. n - 1
  PROVE  /\ Leading(f, n, i + 1) = Leading(f, n, i) + Digit(f, n, i + 1) * Power(10, n - (i + 1))
         /\ Leading(f, n, i) \in Nat /\ Digit(f, n, i + 1) \in 0 .. 9
<1> DEFINE p == Power(10, n - (i + 1))
           q == f \div p
<1>1. n - (i + 1) \in Nat /\ (n - (i + 1)) + 1 = n - i
  OBVIOUS
<1>2. p \in Nat \ {0}
  BY <1>1, TenPower
<1>3. Power(10, n - i) = 10 * p
  <2>1. \A b \in Int : Power(b, (n - (i + 1)) + 1) = b * Power(b, n - (i + 1))
    BY <1>1, PowerRecursion
  <2> QED BY <1>1, <2>1
<1> HIDE DEF p
<1>4. q \in Nat /\ q = (q \div 10) * 10 + (q % 10) /\ q \div 10 \in Nat /\ q % 10 \in 0 .. 9
  <2>1. q \in Nat
    BY <1>2, DivNat
  <2> HIDE DEF q
  <2> QED BY <2>1, DivParts
<1>5. f \div (10 * p) = q \div 10
  BY <1>2, DivDiv
<1> HIDE DEF q
<1>6. Leading(f, n, i) = (q \div 10) * (10 * p)
  BY <1>3, <1>5 DEF Leading
<1>7. Leading(f, n, i + 1) = q * p /\ Digit(f, n, i + 1) = q % 10
  BY DEF Leading, Digit, p, q
<1>8. \A u, v \in Nat : (u * 10 + v) * p = u * (10 * p) + v * p /\ u * (10 * p) \in Nat
  BY <1>2
<1>9. q * p = (q \div 10) * (10 * p) + (q % 10) * p /\ (q \div 10) * (10 * p) \in Nat
  BY <1>4, <1>8
<1> QED BY <1>4, <1>6, <1>7, <1>9 DEF p

\* None of them, and all of them.
LEMMA AllDigits ==
  ASSUME NEW n \in Nat, NEW f \in 0 .. Power(10, n) - 1
  PROVE  Leading(f, n, 0) = 0 /\ Leading(f, n, n) = f
<1>1. Power(10, n) \in Nat \ {0} /\ f \in Nat
  BY TenPower
<1>2. f \div Power(10, n) = 0
  BY <1>1, ModSmall
<1>3. Power(10, 0) = 1
  BY PowerRecursion
<1>4. Leading(f, n, 0) = 0
  BY <1>1, <1>2 DEF Leading
<1>5. Leading(f, n, n) = f
  <2>1. n - n = 0 /\ f \div 1 = f
    BY <1>1
  <2> QED BY <1>3, <2>1, <1>1 DEF Leading
<1> QED BY <1>4, <1>5

\* Zeros at the end stand for nothing.
LEMMA TrailingZeros ==
  ASSUME NEW n \in Nat, NEW f \in 0 .. Power(10, n) - 1, NEW last \in 0 .. n,
         \A i \in last + 1 .. n : Digit(f, n, i) = 0
  PROVE  Leading(f, n, last) = f
<1> DEFINE S == {k \in Nat : last + k <= n => Leading(f, n, last + k) = Leading(f, n, last)}
<1>1. 0 \in S
  OBVIOUS
<1>2. \A k \in Nat : k \in S => k + 1 \in S
  <2> SUFFICES ASSUME NEW k \in Nat, k \in S, last + (k + 1) <= n
               PROVE  Leading(f, n, last + (k + 1)) = Leading(f, n, last)
    OBVIOUS
  <2>1. Leading(f, n, last + k) = Leading(f, n, last)
    OBVIOUS
  <2>2. /\ last + k \in 0 .. n - 1 /\ last + (k + 1) = (last + k) + 1
        /\ (last + k) + 1 \in last + 1 .. n /\ n - ((last + k) + 1) \in Nat /\ f \in Nat
    BY TenPower
  <2>3. /\ Leading(f, n, (last + k) + 1)
             = Leading(f, n, last + k) + Digit(f, n, (last + k) + 1) * Power(10, n - ((last + k) + 1))
        /\ Leading(f, n, last + k) \in Nat
    BY <2>2, NextDigit
  <2>4. Digit(f, n, (last + k) + 1) = 0 /\ Power(10, n - ((last + k) + 1)) \in Nat
    BY <2>2, TenPower
  <2>5. \A x \in Nat : 0 * x = 0
    OBVIOUS
  <2> QED BY <2>1, <2>2, <2>3, <2>4, <2>5
<1>3. Nat \subseteq S
  <2> HIDE DEF S
  <2> QED BY <1>1, <1>2, Induct
<1>4. n - last \in Nat /\ last + (n - last) = n
  OBVIOUS
<1>5. Leading(f, n, n) = Leading(f, n, last)
  BY <1>3, <1>4
<1> QED BY <1>5, AllDigits

\* The fraction that a literal reads: one digit after the other, each a tenth of the one before.
ReadsDigits(digits, n, part) ==
  part = [i \in 0 .. n |-> IF i = 0 THEN 0 ELSE part[i - 1] + digits[i] * (F \div Power(10, i))]

LEMMA ReadFraction ==
  ASSUME NEW f \in 0 .. F - 1, NEW last \in 0 .. Places, NEW digits,
         digits = [i \in 1 .. last |-> Digit(f, Places, i)],
         \A i \in last + 1 .. Places : Digit(f, Places, i) = 0
  PROVE  (CHOOSE part : ReadsDigits(digits, last, part))[last] = f
<1> DEFINE a == [i \in 1 .. last |-> digits[i] * (F \div Power(10, i))]
           part == CHOOSE s : ReadsDigits(digits, last, s)
<1>1. /\ Places \in Nat \ {0} /\ F = Power(10, Places) /\ F \in Nat \ {0}
      /\ last \in Nat /\ f \in Nat
  BY AmountAssumption, FType DEF F
<1>2. \A i \in 1 .. last : F \div Power(10, i) = Power(10, Places - i)
  <2> SUFFICES ASSUME NEW i \in 1 .. last PROVE F \div Power(10, i) = Power(10, Places - i)
    OBVIOUS
  <2> DEFINE p == Power(10, i)
             q == Power(10, Places - i)
  <2>1. i \in Nat /\ Places - i \in Nat /\ (Places - i) + i = Places
    BY <1>1
  <2>2. p \in Nat \ {0} /\ q \in Nat \ {0}
    BY <2>1, TenPower
  <2>3. Power(10, (Places - i) + i) = q * p
    <3>1. \A b \in Nat \ {0} : Power(b, (Places - i) + i) = Power(b, Places - i) * Power(b, i)
      BY <2>1, PowerSum
    <3> QED BY <3>1
  <2> HIDE DEF p, q
  <2>4. (q * p + 0) \div p = q
    <3>1. 0 \in 0 .. p - 1
      BY <2>2
    <3> QED BY <2>2, <3>1, DivMod
  <2>5. q * p \in Int /\ F = q * p
    BY <1>1, <2>1, <2>2, <2>3
  <2> QED BY <2>4, <2>5 DEF p, q
<1>3. \A i \in 1 .. last : /\ digits[i] = Digit(f, Places, i)
                           /\ i - 1 \in 0 .. Places - 1 /\ (i - 1) + 1 = i /\ Places - i \in Nat
  BY <1>1
<1>4. \A i \in 1 .. last : a[i] = Digit(f, Places, i) * Power(10, Places - i)
  BY <1>2, <1>3
<1>5. \A i \in 1 .. last : /\ Leading(f, Places, i) = Leading(f, Places, i - 1) + a[i]
                           /\ a[i] \in Int
  <2> SUFFICES ASSUME NEW i \in 1 .. last
               PROVE  Leading(f, Places, i) = Leading(f, Places, i - 1) + a[i] /\ a[i] \in Int
    OBVIOUS
  <2>1. \A j \in 0 .. Places - 1 :
          /\ Leading(f, Places, j + 1)
               = Leading(f, Places, j) + Digit(f, Places, j + 1) * Power(10, Places - (j + 1))
          /\ Leading(f, Places, j) \in Nat /\ Digit(f, Places, j + 1) \in 0 .. 9
    BY <1>1, NextDigit
  <2>2. /\ Leading(f, Places, i)
             = Leading(f, Places, i - 1) + Digit(f, Places, i) * Power(10, Places - i)
        /\ Digit(f, Places, i) \in 0 .. 9
    <3>1. i - 1 \in 0 .. Places - 1 /\ (i - 1) + 1 = i
      BY <1>3
    <3> QED BY <2>1, <3>1
  <2>3. Power(10, Places - i) \in Nat
    BY <1>3, TenPower
  <2>4. \A x, y \in Nat : x * y \in Int
    OBVIOUS
  <2> HIDE DEF a
  <2> QED BY <1>4, <2>2, <2>3, <2>4
<1>6. a \in [1 .. last -> Int]
  <2>1. a = [i \in 1 .. last |-> a[i]]
    OBVIOUS
  <2> HIDE DEF a
  <2> QED BY <1>5, <2>1
<1>7. \E s : ReadsDigits(digits, last, s)
  <2>1. PICK s \in [0 .. last -> Int] : s = [i \in 0 .. last |-> IF i = 0 THEN 0 ELSE s[i - 1] + a[i]]
    <3> HIDE DEF a
    <3> QED BY <1>1, <1>6, SumUpTo
  <2>2. \A i \in 0 .. last : i # 0 => a[i] = digits[i] * (F \div Power(10, i))
    OBVIOUS
  <2> HIDE DEF a
  <2>3. ReadsDigits(digits, last, s)
    BY <2>1, <2>2 DEF ReadsDigits
  <2> QED BY <2>3
<1>8. ReadsDigits(digits, last, part)
  BY <1>7
<1> HIDE DEF part
<1>9. part[0] = 0 /\ \A i \in 1 .. last : part[i] = part[i - 1] + a[i]
  <2>1. \A i \in 0 .. last : part[i] = IF i = 0 THEN 0 ELSE part[i - 1] + digits[i] * (F \div Power(10, i))
    BY <1>8, <1>1 DEF ReadsDigits
  <2>2. 0 \in 0 .. last
    BY <1>1
  <2>3. \A i \in 1 .. last : i \in 0 .. last /\ i # 0
    BY <1>1
  <2> QED BY <2>1, <2>2, <2>3
<1> HIDE DEF a
<1> DEFINE S == {k \in Nat : k <= last => part[k] = Leading(f, Places, k)}
<1>10. 0 \in S
  BY <1>1, <1>9, AllDigits
<1>11. \A k \in Nat : k \in S => k + 1 \in S
  <2> SUFFICES ASSUME NEW k \in Nat, k \in S, k + 1 <= last
               PROVE  part[k + 1] = Leading(f, Places, k + 1)
    OBVIOUS
  <2>1. k + 1 \in 1 .. last /\ (k + 1) - 1 = k
    BY <1>1
  <2>2. part[k] = Leading(f, Places, k)
    BY <1>1, <2>1
  <2>3. part[k + 1] = part[k] + a[k + 1]
    BY <1>9, <2>1
  <2>4. Leading(f, Places, k + 1) = Leading(f, Places, k) + a[k + 1]
    BY <1>5, <2>1
  <2> QED BY <2>2, <2>3, <2>4
<1>12. Nat \subseteq S
  <2> HIDE DEF S
  <2> QED BY <1>10, <1>11, Induct
<1>13. part[last] = Leading(f, Places, last)
  BY <1>1, <1>12
<1>14. Leading(f, Places, last) = f
  BY <1>1, TrailingZeros
<1> QED BY <1>13, <1>14 DEF part

\* The integral part that a literal reads from what is written before the point.
LEMMA ReadWhole ==
  ASSUME NEW w \in Nat, NEW whole, whole = <<w \div 10, w % 10>>,
         NEW upTo, upTo = (CHOOSE s : s = [i \in 0 .. 2 |->
           IF i = 0 THEN 0 ELSE s[i - 1] + whole[i] * Power(10, 2 - i)])
  PROVE  upTo[2] = w
<1> DEFINE x == w \div 10
           y == w % 10
           h == [i \in 0 .. 2 |-> IF i = 0 THEN 0 ELSE IF i = 1 THEN x * 10 ELSE x * 10 + y]
           Eq(s) == s = [i \in 0 .. 2 |->
             IF i = 0 THEN 0 ELSE s[i - 1] + whole[i] * Power(10, 2 - i)]
<1>1. w = x * 10 + y /\ x \in Nat /\ y \in 0 .. 9
  BY DivParts
<1>2. Power(10, 0) = 1 /\ Power(10, 1) = 10
  <2>1. \A b \in Int : Power(b, 0) = 1 /\ Power(b, 0 + 1) = b * Power(b, 0)
    BY PowerRecursion
  <2> QED BY <2>1
<1>3. whole[1] = x /\ whole[2] = y
  OBVIOUS
<1> HIDE DEF x, y
<1>4. whole[1] * Power(10, 2 - 1) = x * 10 /\ whole[2] * Power(10, 2 - 2) = y
  <2>1. 2 - 1 = 1 /\ 2 - 2 = 0
    OBVIOUS
  <2> QED BY <1>1, <1>2, <1>3, <2>1
<1>5. \A i \in 0 .. 2 :
        h[i] = IF i = 0 THEN 0 ELSE h[i - 1] + whole[i] * Power(10, 2 - i)
  <2> SUFFICES ASSUME NEW i \in 0 .. 2
               PROVE  h[i] = IF i = 0 THEN 0 ELSE h[i - 1] + whole[i] * Power(10, 2 - i)
    OBVIOUS
  <2>1. h[0] = 0 /\ h[1] = x * 10 /\ h[2] = x * 10 + y
    OBVIOUS
  <2> HIDE DEF h
  <2>2. CASE i = 0
    BY <2>1, <2>2
  <2>3. CASE i = 1
    <3>1. h[1] = h[1 - 1] + whole[1] * Power(10, 2 - 1)
      BY <1>1, <1>4, <2>1
    <3> QED BY <2>3, <3>1
  <2>4. CASE i = 2
    <3>1. h[2] = h[2 - 1] + whole[2] * Power(10, 2 - 2)
      BY <1>1, <1>4, <2>1
    <3> QED BY <2>4, <3>1
  <2> QED BY <2>2, <2>3, <2>4
<1>6. Eq(h)
  <2>1. h = [i \in 0 .. 2 |-> h[i]]
    OBVIOUS
  <2> HIDE DEF h
  <2> QED BY <1>5, <2>1
<1>7. Eq(upTo)
  <2> HIDE DEF h
  <2> QED BY <1>6
<1>8. \A i \in 0 .. 2 :
        upTo[i] = IF i = 0 THEN 0 ELSE upTo[i - 1] + whole[i] * Power(10, 2 - i)
  BY <1>7
<1>9. upTo[0] = 0 /\ upTo[1] = upTo[0] + x * 10 /\ upTo[2] = upTo[1] + y
  <2>1. upTo[1] = upTo[1 - 1] + whole[1] * Power(10, 2 - 1)
    BY <1>8
  <2>2. upTo[2] = upTo[2 - 1] + whole[2] * Power(10, 2 - 2)
    BY <1>8
  <2> QED BY <1>4, <1>8, <2>1, <2>2
<1> QED BY <1>1, <1>9

\* The decimals that to_string keeps: as many as are asked for, and no zeros after them.
Keeps(f, keep, last) ==
  /\ last \in keep .. Places
  /\ \A i \in last + 1 .. Places : Digit(f, Places, i) = 0
  /\ last = keep \/ Digit(f, Places, last) # 0

LEMMA SomeAreKept ==
  ASSUME NEW f, NEW keep \in 0 .. Places
  PROVE  \E last \in keep .. Places : Keeps(f, keep, last)
<1> DEFINE T == {k \in keep .. Places : \A i \in k + 1 .. Places : Digit(f, Places, i) = 0}
<1>1. Places \in Nat
  BY AmountAssumption
<1>2. Places \in T
  BY <1>1
<1>3. T \in SUBSET Nat
  BY <1>1
<1>4. PICK m \in T : \A k \in T : m <= k
  <2> HIDE DEF T
  <2> QED BY <1>2, <1>3, LeastNumber
<1>5. m = keep \/ Digit(f, Places, m) # 0
  <2> SUFFICES ASSUME m # keep, Digit(f, Places, m) = 0 PROVE FALSE
    OBVIOUS
  <2>1. m - 1 \in keep .. Places /\ \A i \in (m - 1) + 1 .. Places : i = m \/ i \in m + 1 .. Places
    BY <1>1
  <2>2. m - 1 \in T
    BY <2>1
  <2>3. m <= m - 1
    BY <1>4, <2>2
  <2> QED BY <1>1, <2>3
<1> QED BY <1>5 DEF Keeps

\* What a text of an amount says.
IsText(a, text) ==
  /\ text.minus = (a.integral < 0)
  /\ text.whole = IF Magnitude(a).integral < 0 THEN -Magnitude(a).integral
                                               ELSE Magnitude(a).integral
  /\ \E last \in 0 .. Places :
       /\ text.digits = [i \in 1 .. last |-> Digit(Magnitude(a).fraction, Places, i)]
       /\ \A i \in last + 1 .. Places : Digit(Magnitude(a).fraction, Places, i) = 0

LEMMA TextOf ==
  ASSUME NEW a \in CanonicalAmount, NEW decimals \in 0 .. Places + 1
  PROVE  /\ IsText(a, AmountToString(a, decimals))
         /\ Magnitude(a).fraction \in 0 .. F - 1 /\ Magnitude(a).integral \in Int
<1> DEFINE text == AmountToString(a, decimals)
           size == Magnitude(a)
           f == size.fraction
           keep == IF decimals < Places THEN decimals ELSE Places
           last == CHOOSE n \in keep .. Places :
                     /\ \A i \in n + 1 .. Places : Digit(f, Places, i) = 0
                     /\ n = keep \/ Digit(f, Places, n) # 0
<1>1. Places \in Nat \ {0} /\ F \in Nat \ {0} /\ a.integral \in Int /\ a.fraction \in 0 .. F - 1
  BY AmountAssumption, FType DEF CanonicalAmount
<1>2. f \in 0 .. F - 1 /\ size.integral \in Int
  <2>1. CASE a.integral < 0 /\ a.fraction # 0
    <3>1. size = Amt(-1 - a.integral, F - a.fraction)
      BY <2>1 DEF Magnitude
    <3>2. size.integral = -1 - a.integral /\ f = F - a.fraction
      BY <3>1 DEF Amt
    <3> HIDE DEF size, f
    <3> QED BY <1>1, <2>1, <3>2
  <2>2. CASE ~(a.integral < 0 /\ a.fraction # 0)
    <3>1. size = a
      BY <2>2 DEF Magnitude
    <3> QED BY <1>1, <3>1
  <2> QED BY <2>1, <2>2
<1>3. keep \in 0 .. Places
  BY <1>1
<1>4. /\ text.minus = (a.integral < 0)
      /\ text.whole = IF size.integral < 0 THEN -size.integral ELSE size.integral
      /\ text.digits = [i \in 1 .. last |-> Digit(f, Places, i)]
  <2> DEFINE width == IF f < F THEN Places ELSE Places + 1
             kept == width - Places + (IF decimals < Places THEN decimals ELSE Places)
             Chosen(w, k) == CHOOSE n \in k .. w :
                               /\ \A i \in n + 1 .. w : (f \div Power(10, w - i)) % 10 = 0
                               /\ n = k \/ (f \div Power(10, w - n)) % 10 # 0
             Text(w, k) == [minus |-> a.integral < 0,
                            whole |-> IF size.integral < 0 THEN -size.integral ELSE size.integral,
                            digits |-> [i \in 1 .. Chosen(w, k) |-> (f \div Power(10, w - i)) % 10]]
  <2>1. text = Text(width, kept)
    BY DEF AmountToString
  <2>2. width = Places /\ kept = keep
    BY <1>1, <1>2
  <2>3. text = Text(Places, keep)
    <3> HIDE DEF Text, width, kept, keep
    <3> QED BY <2>1, <2>2
  <2>4. Chosen(Places, keep) = last
    BY DEF Digit
  <2>5. Text(Places, keep) = [minus |-> a.integral < 0,
                              whole |-> IF size.integral < 0 THEN -size.integral ELSE size.integral,
                              digits |-> [i \in 1 .. Chosen(Places, keep) |-> Digit(f, Places, i)]]
    <3> HIDE DEF Chosen, keep
    <3> QED BY DEF Digit
  <2> HIDE DEF Chosen, Text, keep, last
  <2> QED BY <2>3, <2>4, <2>5
<1>5. \E n \in keep .. Places : Keeps(f, keep, n)
  <2> HIDE DEF keep, f
  <2> QED BY <1>3, SomeAreKept
<1>6. last \in keep .. Places /\ \A i \in last + 1 .. Places : Digit(f, Places, i) = 0
  <2> HIDE DEF keep, f
  <2> QED BY <1>5 DEF Keeps
<1>7. last \in 0 .. Places
  <2> HIDE DEF last, keep
  <2> QED BY <1>1, <1>3, <1>6
<1> HIDE DEF last, text
<1>8. IsText(a, text)
  BY <1>4, <1>6, <1>7 DEF IsText
<1> QED BY <1>2, <1>8 DEF text

\* A literal that is written like this is read as that amount.
LEMMA LiteralOf ==
  ASSUME NEW w \in Nat, NEW f \in 0 .. F - 1, NEW last \in 0 .. Places, NEW digits,
         digits = [i \in 1 .. last |-> Digit(f, Places, i)],
         \A i \in last + 1 .. Places : Digit(f, Places, i) = 0
  PROVE  Literal(<<w \div 10, w % 10>>, digits) = Amt(w, f)
<1> DEFINE whole == <<w \div 10, w % 10>>
           Whole(n) == (CHOOSE s : s = [i \in 0 .. n |->
             IF i = 0 THEN 0 ELSE s[i - 1] + whole[i] * Power(10, n - i)])[n]
           Part(n) == (CHOOSE s : s = [i \in 0 .. n |->
             IF i = 0 THEN 0 ELSE s[i - 1] + digits[i] * (F \div Power(10, i))])[n]
<1>1. Literal(whole, digits) = Amt(Whole(Len(whole)), Part(Len(digits)))
  BY DEF Literal
<1>2. Len(whole) = 2
  OBVIOUS
<1>3. Len(digits) = last
  <2>1. last \in Nat
    BY AmountAssumption
  <2> QED BY <2>1
<1>4. Whole(2) = w
  <2>1. \A u : u = (CHOOSE s : s = [i \in 0 .. 2 |->
                 IF i = 0 THEN 0 ELSE s[i - 1] + whole[i] * Power(10, 2 - i)]) => u[2] = w
    BY ReadWhole
  <2> QED BY <2>1
<1>5. Part(last) = f
  <2>1. (CHOOSE part : ReadsDigits(digits, last, part))[last] = f
    BY ReadFraction
  <2> QED BY <2>1 DEF ReadsDigits
<1> HIDE DEF whole, Whole, Part
<1>6. Literal(whole, digits) = Amt(w, f)
  BY <1>1, <1>2, <1>3, <1>4, <1>5
<1> QED BY <1>6 DEF whole

\* A text, read with its sign, is the amount.
LEMMA TextIsRead ==
  ASSUME NEW a \in CanonicalAmount, NEW decimals \in 0 .. Places + 1
  PROVE  LET text == AmountToString(a, decimals)
             read == Literal(<<text.whole \div 10, text.whole % 10>>, text.digits)
         IN  IF text.minus THEN Negated(read) = a ELSE read = a
<1> DEFINE text == AmountToString(a, decimals)
           read == Literal(<<text.whole \div 10, text.whole % 10>>, text.digits)
           size == Magnitude(a)
           f == size.fraction
<1>1. /\ text.minus = (a.integral < 0)
      /\ text.whole = IF size.integral < 0 THEN -size.integral ELSE size.integral
      /\ f \in 0 .. F - 1 /\ size.integral \in Int
      /\ \E last \in 0 .. Places :
           /\ text.digits = [i \in 1 .. last |-> Digit(f, Places, i)]
           /\ \A i \in last + 1 .. Places : Digit(f, Places, i) = 0
  BY TextOf DEF IsText
<1>2. /\ F \in Nat \ {0} /\ a.integral \in Int /\ a.fraction \in 0 .. F - 1
      /\ a = Amt(a.integral, a.fraction)
  BY FType DEF CanonicalAmount, Amt
<1> HIDE DEF text
<1>3. PICK last \in 0 .. Places :
        /\ text.digits = [i \in 1 .. last |-> Digit(f, Places, i)]
        /\ \A i \in last + 1 .. Places : Digit(f, Places, i) = 0
  BY <1>1
<1>4. text.whole \in Nat
  <2> HIDE DEF size
  <2> QED BY <1>1
<1>5. read = Amt(text.whole, f)
  <2> DEFINE w == text.whole
             digits == text.digits
  <2>1. w \in Nat /\ digits = [i \in 1 .. last |-> Digit(f, Places, i)] /\ f \in 0 .. F - 1
    BY <1>1, <1>3, <1>4
  <2> HIDE DEF w, digits, f
  <2>2. Literal(<<w \div 10, w % 10>>, digits) = Amt(w, f)
    BY <1>3, <2>1, LiteralOf
  <2> QED BY <2>2 DEF w, digits
<1> HIDE DEF read
<1>6. CASE a.integral < 0 /\ a.fraction # 0
  <2>1. size = Amt(-1 - a.integral, F - a.fraction)
    BY <1>6 DEF Magnitude
  <2>2. size.integral = -1 - a.integral /\ f = F - a.fraction
    BY <2>1 DEF Amt
  <2> HIDE DEF size, f
  <2>3. text.minus /\ text.whole = -1 - a.integral
    <3>1. text.minus
      BY <1>1, <1>6
    <3>2. ~(size.integral < 0)
      BY <1>2, <1>6, <2>2
    <3> QED BY <1>1, <2>2, <3>1, <3>2
  <2>4. read.fraction = F - a.fraction /\ read.integral = -1 - a.integral
    BY <1>5, <2>2, <2>3 DEF Amt
  <2>5. /\ F - a.fraction # 0 /\ -(-1 - a.integral) - 1 = a.integral
        /\ F - (F - a.fraction) = a.fraction
    BY <1>2, <1>6
  <2>6. Negated(read) = Amt(-(-1 - a.integral) - 1, F - (F - a.fraction))
    BY <2>4, <2>5 DEF Negated
  <2>7. Negated(read) = a
    BY <1>2, <2>5, <2>6
  <2> QED BY <2>3, <2>7 DEF read, text
<1>7. CASE a.integral < 0 /\ a.fraction = 0
  <2>1. size = a /\ f = 0
    BY <1>7 DEF Magnitude
  <2> HIDE DEF size, f
  <2>2. text.minus /\ text.whole = -a.integral
    BY <1>1, <1>2, <1>7, <2>1
  <2>3. read.fraction = 0 /\ read.integral = -a.integral
    BY <1>5, <2>1, <2>2 DEF Amt
  <2>4. Negated(read) = Amt(-(-a.integral), 0) /\ -(-a.integral) = a.integral
    BY <1>2, <2>3 DEF Negated
  <2>5. Negated(read) = a
    BY <1>2, <1>7, <2>4
  <2> QED BY <2>2, <2>5 DEF read, text
<1>8. CASE ~(a.integral < 0)
  <2>1. size = a /\ f = a.fraction
    BY <1>8 DEF Magnitude
  <2> HIDE DEF size, f
  <2>2. ~text.minus /\ text.whole = a.integral
    BY <1>1, <1>2, <1>8, <2>1
  <2>3. read = a
    BY <1>2, <1>5, <2>1, <2>2
  <2> QED BY <2>2, <2>3 DEF read, text
<1> QED BY <1>6, <1>7, <1>8

\* The order of amounts is that of their units.
LEMMA OrderOfUnits ==
  ASSUME NEW a \in CanonicalAmount, NEW b \in CanonicalAmount
  PROVE  /\ Less(a, b) <=> Units(a) < Units(b)
         /\ Greater(a, b) <=> Units(a) > Units(b)
         /\ Equal(a, b) <=> Units(a) = Units(b)
<1> DEFINE i == a.integral
           f == a.fraction
           j == b.integral
           g == b.fraction
<1>1. /\ F \in Nat \ {0} /\ i \in Int /\ j \in Int /\ f \in 0 .. F - 1 /\ g \in 0 .. F - 1
      /\ Units(a) = i * F + f /\ Units(b) = j * F + g
  BY FType DEF CanonicalAmount, Units
<1> HIDE DEF i, f, j, g
<1>2. i * F \in Int /\ j * F \in Int
  BY <1>1
<1>3. i < j => i * F + F <= j * F
  <2>1. \A x, y \in Int : x <= y => x * F <= y * F
    BY <1>1
  <2>2. (i + 1) * F = i * F + F
    BY <1>1
  <2>3. i < j => i + 1 <= j /\ i + 1 \in Int
    BY <1>1
  <2>4. i < j => (i + 1) * F <= j * F
    BY <1>1, <2>1, <2>3
  <2> QED BY <2>2, <2>4
<1>4. j < i => j * F + F <= i * F
  <2>1. \A x, y \in Int : x <= y => x * F <= y * F
    BY <1>1
  <2>2. (j + 1) * F = j * F + F
    BY <1>1
  <2>3. j < i => j + 1 <= i /\ j + 1 \in Int
    BY <1>1
  <2>4. j < i => (j + 1) * F <= i * F
    BY <1>1, <2>1, <2>3
  <2> QED BY <2>2, <2>4
<1>5. i = j => i * F = j * F
  OBVIOUS
<1> DEFINE u == i * F
           v == j * F
<1>6. /\ u \in Int /\ v \in Int /\ Units(a) = u + f /\ Units(b) = v + g
      /\ i < j => u + F <= v
      /\ j < i => v + F <= u
      /\ i = j => u = v
  BY <1>1, <1>2, <1>3, <1>4, <1>5
<1> HIDE DEF u, v
<1>7. Less(a, b) <=> (i < j \/ (i = j /\ f < g))
  BY DEF Less, i, j, f, g
<1>8. Greater(a, b) <=> (i > j \/ (i = j /\ f > g))
  BY DEF Greater, i, j, f, g
<1>9. Equal(a, b) <=> (i = j /\ f = g)
  BY DEF Equal, i, j, f, g
<1>10. i < j \/ i = j \/ i > j
  BY <1>1
<1>11. i > j <=> j < i
  BY <1>1
<1> QED BY <1>1, <1>6, <1>7, <1>8, <1>9, <1>10, <1>11

\* round answers the closest integer, the larger of two.
LEMMA RoundIsClose ==
  ASSUME NEW a \in CanonicalAmount
  PROVE  Abs(Round(a) * F - Units(a)) * 2 <= F
<1> DEFINE i == a.integral
           f == a.fraction
           half == F \div 2
<1>1. F \in Nat \ {0} /\ i \in Int /\ f \in 0 .. F - 1 /\ Units(a) = i * F + f
  BY FType DEF CanonicalAmount, Units
<1>2. F = 2 * half /\ half \in Nat
  <2>1. Places - 1 \in Nat /\ (Places - 1) + 1 = Places
    BY AmountAssumption
  <2>2. F = 10 * Power(10, Places - 1)
    <3>1. \A b \in Int : Power(b, (Places - 1) + 1) = b * Power(b, Places - 1)
      BY <2>1, PowerRecursion
    <3> QED BY <2>1, <3>1 DEF F
  <2>3. Power(10, Places - 1) \in Nat
    BY <2>1, TenPower
  <2> QED BY <2>2, <2>3
<1>3. (i + 1) * F = i * F + F /\ i * F \in Int
  BY <1>1
<1> DEFINE u == i * F
<1>4. CASE f < half
  <2>1. Round(a) = i
    BY <1>4 DEF Round
  <2>2. i * F - Units(a) = -f
    BY <1>1, <1>3
  <2>3. Abs(-f) = f
    BY <1>1 DEF Abs
  <2> QED BY <1>1, <1>2, <1>4, <2>1, <2>2, <2>3
<1>5. CASE ~(f < half)
  <2>1. Round(a) = i + 1
    BY <1>5 DEF Round
  <2>2. (i + 1) * F - Units(a) = F - f
    BY <1>1, <1>3
  <2>3. Abs(F - f) = F - f
    BY <1>1 DEF Abs
  <2> QED BY <1>1, <1>2, <1>5, <2>1, <2>2, <2>3
<1> QED BY <1>4, <1>5

(* Comparison, rounding and the text go by the value that the amount stands   *)
(* for, in every calculation (amount.h:221-264, 413-441, amount.cpp:39-60).   *)
THEOREM CalculationReadings == CalculationSpec => []ReadingsAgree
<1>1. CalculationInv => ReadingsAgree
  <2> SUFFICES ASSUME CalculationInv, Canonical(acc)
               PROVE  /\ Abs(Round(acc) * F - exact) * 2 <= F
                      /\ \A b \in Operand : /\ Less(acc, b) = (exact < Units(b))
                                            /\ Greater(acc, b) = (exact > Units(b))
                                            /\ Equal(acc, b) = (exact = Units(b))
                      /\ \A decimals \in 0 .. Places + 1 :
                           LET text == AmountToString(acc, decimals)
                               read == Literal(<<text.whole \div 10, text.whole % 10>>, text.digits)
                           IN  IF text.minus THEN Negated(read) = acc ELSE read = acc
    BY DEF ReadingsAgree
  <2>1. acc \in CanonicalAmount /\ exact = Units(acc)
    BY DEF CalculationInv, Canonical, CanonicalAmount, FitAmount
  <2>2. Abs(Round(acc) * F - exact) * 2 <= F
    BY <2>1, RoundIsClose
  <2>3. ASSUME NEW b \in Operand
        PROVE  /\ Less(acc, b) = (exact < Units(b))
               /\ Greater(acc, b) = (exact > Units(b))
               /\ Equal(acc, b) = (exact = Units(b))
    <3>1. b \in CanonicalAmount
      BY OperandFits DEF Right
    <3>2. /\ Less(acc, b) <=> exact < Units(b)
          /\ Greater(acc, b) <=> exact > Units(b)
          /\ Equal(acc, b) <=> exact = Units(b)
      BY <2>1, <3>1, OrderOfUnits
    <3>3. Less(acc, b) \in BOOLEAN /\ Greater(acc, b) \in BOOLEAN /\ Equal(acc, b) \in BOOLEAN
      BY DEF Less, Greater, Equal
    <3> QED BY <3>2, <3>3
  <2>4. ASSUME NEW decimals \in 0 .. Places + 1
        PROVE  LET text == AmountToString(acc, decimals)
                   read == Literal(<<text.whole \div 10, text.whole % 10>>, text.digits)
               IN  IF text.minus THEN Negated(read) = acc ELSE read = acc
    BY <2>1, TextIsRead
  <2> QED BY <2>2, <2>3, <2>4
<1> QED BY <1>1, CalculationInvariant, PTL
=============================================================================
