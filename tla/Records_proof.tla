---------------------------- MODULE Records_proof ----------------------------
(***************************************************************************)
(* What is written is read back: every register from the bytes that encode *)
(* it, and from there every string, amount, user field, map, transaction   *)
(* and block, whatever bytes follow; and bytes of which an end is missing  *)
(* are refused.  For registers of any even number of bits per byte and any *)
(* values of the parts of the objects.                                     *)
(***************************************************************************)
EXTENDS Records, Induction_proof, SequenceTheorems

-----------------------------------------------------------------------------
(* Powers of two.                                                            *)

LEMMA PowerGrows ==
  ASSUME NEW m \in Nat, NEW n \in Nat, m <= n
  PROVE  Power(2, m) <= Power(2, n)
<1>1. n - m \in Nat /\ m + (n - m) = n
  OBVIOUS
<1>2. Power(2, n) = Power(2, m) * Power(2, n - m)
  BY <1>1, PowerSum
<1>3. Power(2, m) \in Nat \ {0} /\ Power(2, n - m) \in Nat \ {0}
  BY <1>1, PowerPositive
<1>4. \A p, q \in Nat \ {0} : p <= p * q
  OBVIOUS
<1> QED BY <1>2, <1>3, <1>4

\* A power of two, but for the first, is twice the one before.
LEMMA PowerHalves ==
  ASSUME NEW n \in Nat \ {0}
  PROVE  Power(2, n) = 2 * Power(2, n - 1) /\ Power(2, n - 1) \in Nat \ {0}
<1>1. n - 1 \in Nat /\ (n - 1) + 1 = n
  OBVIOUS
<1> QED BY <1>1, PowerRecursion, PowerPositive

LEMMA PowerOfPower ==
  ASSUME NEW m \in Nat, NEW n \in Nat
  PROVE  Power(Power(2, m), n) = Power(2, m * n)
<1> DEFINE b == Power(2, m)
           S == {i \in Nat : Power(b, i) = Power(2, m * i)}
<1>1. b \in Nat \ {0}
  BY PowerPositive
<1>2. 0 \in S
  <2>1. m * 0 = 0
    OBVIOUS
  <2>2. Power(b, 0) = 1 /\ Power(2, 0) = 1
    <3> HIDE DEF b
    <3> QED BY <1>1, PowerRecursion
  <2> QED BY <2>1, <2>2
<1>3. \A i \in Nat : i \in S => i + 1 \in S
  <2> SUFFICES ASSUME NEW i \in Nat, Power(b, i) = Power(2, m * i)
               PROVE  Power(b, i + 1) = Power(2, m * (i + 1))
    OBVIOUS
  <2>1. Power(b, i + 1) = b * Power(b, i)
    <3> HIDE DEF b
    <3> QED BY <1>1, PowerRecursion
  <2>2. m * (i + 1) = m + m * i /\ m * i \in Nat
    OBVIOUS
  <2>3. Power(2, m + m * i) = Power(2, m) * Power(2, m * i)
    BY <2>2, PowerSum
  <2> QED BY <2>1, <2>2, <2>3
<1>4. Nat \subseteq S
  <2> HIDE DEF S
  <2> QED BY <1>2, <1>3, Induct
<1> QED BY <1>4

LEMMA ByteType ==
  /\ ByteBits \in Nat /\ ByteBits >= 4 /\ ByteBits * ByteBits \in Nat
  /\ Byte \in Nat \ {0} /\ Register \in Nat \ {0}
  /\ Byte = Power(2, ByteBits) /\ Register = Power(2, ByteBits * ByteBits)
  /\ Byte = 2 * (Byte \div 2) /\ Register = 2 * (Register \div 2)
  /\ Byte \div 2 = Power(2, ByteBits - 1) /\ Register \div 2 = Power(2, ByteBits * ByteBits - 1)
<1>1. ByteBits \in Nat \ {0} /\ ByteBits >= 4
  BY CodecAssumption
<1>2. ByteBits * ByteBits \in Nat \ {0}
  <2>1. \A p, q \in Nat \ {0} : p * q \in Nat \ {0}
    OBVIOUS
  <2> QED BY <1>1, <2>1
<1>3. Byte \in Nat \ {0} /\ Byte = Power(2, ByteBits)
  BY <1>1, PowerPositive DEF Byte
<1>4. Register = Power(2, ByteBits * ByteBits) /\ Register \in Nat \ {0}
  BY <1>1, <1>2, <1>3, PowerOfPower, PowerPositive DEF Register
<1>5. Byte = 2 * Power(2, ByteBits - 1) /\ Power(2, ByteBits - 1) \in Nat \ {0}
  BY <1>1, <1>3, PowerHalves
<1>6. /\ Register = 2 * Power(2, ByteBits * ByteBits - 1)
      /\ Power(2, ByteBits * ByteBits - 1) \in Nat \ {0}
  BY <1>2, <1>4, PowerHalves
<1>7. \A p \in Nat : (2 * p) \div 2 = p
  OBVIOUS
<1>8. Byte \div 2 = Power(2, ByteBits - 1)
  BY <1>5, <1>7
<1>9. Register \div 2 = Power(2, ByteBits * ByteBits - 1)
  BY <1>6, <1>7
<1> QED BY <1>1, <1>2, <1>3, <1>4, <1>5, <1>6, <1>8, <1>9

-----------------------------------------------------------------------------
(* Bytes of numbers.                                                         *)

\* One digit more.
LEMMA NextDigit ==
  ASSUME NEW d \in Nat \ {0}, NEW b \in Nat \ {0}, NEW r \in Nat
  PROVE  r % (d * b) = (r % d) + ((r \div d) % b) * d
<1> DEFINE q == r \div d
           s == r % d
           t == q \div b
           u == q % b
<1>1. r = q * d + s /\ q \in Nat /\ s \in 0 .. d - 1
  BY DivParts
<1>2. q = t * b + u /\ t \in Nat /\ u \in 0 .. b - 1
  <2> HIDE DEF q
  <2> QED BY <1>1, DivParts
<1> HIDE DEF q, s, t, u
<1>3. u * d + s \in 0 .. d * b - 1
  <2>1. u * d \in Nat /\ u * d <= (b - 1) * d
    BY <1>2, MulNat, MulMono
  <2>2. (b - 1) * d = d * b - d
    OBVIOUS
  <2> QED BY <1>1, <2>1, <2>2
<1>4. r = t * (d * b) + (u * d + s)
  <2>1. (t * b + u) * d = t * (d * b) + u * d
    BY <1>2
  <2> QED BY <1>1, <1>2, <2>1
<1>5. d * b \in Nat \ {0}
  OBVIOUS
<1>6. r % (d * b) = u * d + s
  <2> DEFINE e == d * b
             v == u * d + s
  <2>1. e \in Nat \ {0} /\ v \in 0 .. e - 1 /\ t \in Int /\ r = t * e + v
    BY <1>2, <1>3, <1>4, <1>5
  <2> HIDE DEF e, v
  <2>2. r % e = v
    BY <2>1, DivMod
  <2> QED BY <2>2 DEF e, v
<1>7. u * d + s = s + u * d
  BY <1>1, <1>2
<1> QED BY <1>6, <1>7 DEF q, s, t, u

\* The value of bytes, as a sum that grows byte by byte.
Adds(bytes, f) ==
  /\ f[0] = 0
  /\ \A i \in 1 .. Len(bytes) : f[i] = f[i - 1] + bytes[i] * Power(Byte, i - 1)

LEMMA FromBytesGrows ==
  ASSUME NEW bytes \in Seq(Nat)
  PROVE  \E f \in [0 .. Len(bytes) -> Nat] : Adds(bytes, f) /\ FromBytes(bytes) = f[Len(bytes)]
<1> DEFINE n == Len(bytes)
           digit == [i \in Nat |-> IF i \in 1 .. n THEN bytes[i] * Power(Byte, i - 1) ELSE 0]
           g == [p \in Nat \X Nat |-> p[2] + digit[p[1]]]
           Eq(f) == f = [i \in 0 .. n |-> IF i = 0 THEN 0 ELSE f[i - 1] + bytes[i] * Power(Byte, i - 1)]
           upTo == CHOOSE f : Eq(f)
<1>1. \A i \in Nat : digit[i] \in Nat
  <2> SUFFICES ASSUME NEW i \in 1 .. n PROVE bytes[i] * Power(Byte, i - 1) \in Nat
    OBVIOUS
  <2>1. Power(Byte, i - 1) \in Nat /\ bytes[i] \in Nat
    <3>1. i - 1 \in Nat /\ bytes[i] \in Nat
      OBVIOUS
    <3>2. Byte \in Nat \ {0}
      BY ByteType
    <3>3. Power(Byte, i - 1) \in Nat \ {0}
      BY <3>1, <3>2, PowerPositive
    <3> QED BY <3>1, <3>3
  <2> QED BY <2>1, MulNat
<1>2. g \in [Nat \X Nat -> Nat]
  <2>1. \A p \in Nat \X Nat : p[1] \in Nat /\ p[2] \in Nat
    OBVIOUS
  <2> HIDE DEF digit
  <2> QED BY <1>1, <2>1
<1>3. n \in Nat
  OBVIOUS
<1>4. PICK f \in [0 .. n -> Nat] : IteratesUpTo(n, f, 0, g)
  <2> HIDE DEF g, n
  <2> QED BY <1>2, <1>3, IterationUpTo
<1>5. Eq(f)
  <2>1. \A i \in 0 .. n : i # 0 => g[<<i, f[i - 1]>>] = f[i - 1] + bytes[i] * Power(Byte, i - 1)
    <3> SUFFICES ASSUME NEW i \in 1 .. n
                 PROVE  g[<<i, f[i - 1]>>] = f[i - 1] + bytes[i] * Power(Byte, i - 1)
      <4> HIDE DEF g, n
      <4> QED BY <1>3
    <3>1. i \in Nat /\ f[i - 1] \in Nat
      OBVIOUS
    <3>2. digit[i] = bytes[i] * Power(Byte, i - 1)
      OBVIOUS
    <3>3. g[<<i, f[i - 1]>>] = f[i - 1] + digit[i]
      <4> HIDE DEF digit
      <4> QED BY <3>1
    <3> QED BY <3>2, <3>3
  <2> HIDE DEF g
  <2> QED BY <1>4, <2>1 DEF IteratesUpTo
<1>6. Eq(upTo)
  <2> HIDE DEF Eq
  <2> QED BY <1>5
<1>7. FromBytes(bytes) = upTo[n]
  BY DEF FromBytes
<1>8. upTo[0] = 0 /\ \A i \in 1 .. n : upTo[i] = upTo[i - 1] + bytes[i] * Power(Byte, i - 1)
  <2>1. \A i \in 0 .. n :
          upTo[i] = IF i = 0 THEN 0 ELSE upTo[i - 1] + bytes[i] * Power(Byte, i - 1)
    <3> HIDE DEF upTo, n
    <3> QED BY <1>6, Zenon
  <2>2. 0 \in 0 .. n /\ \A i \in 1 .. n : i \in 0 .. n /\ i # 0
    OBVIOUS
  <2> HIDE DEF upTo, n
  <2> QED BY <2>1, <2>2, Zenon
<1>9. \A i \in Nat : i <= n => upTo[i] \in Nat
  <2> DEFINE S == {i \in Nat : i <= n => upTo[i] \in Nat}
  <2> HIDE DEF upTo
  <2>1. 0 \in S
    BY <1>8
  <2>2. \A i \in Nat : i \in S => i + 1 \in S
    <3> SUFFICES ASSUME NEW i \in Nat, i + 1 <= n, upTo[i] \in Nat PROVE upTo[i + 1] \in Nat
      OBVIOUS
    <3>1. i + 1 \in 1 .. n /\ (i + 1) - 1 = i
      OBVIOUS
    <3>2. upTo[i + 1] = upTo[i] + bytes[i + 1] * Power(Byte, (i + 1) - 1)
      BY <1>8, <3>1
    <3>3. bytes[i + 1] * Power(Byte, (i + 1) - 1) \in Nat
      BY <1>1, <3>1
    <3> QED BY <3>2, <3>3
  <2>3. Nat \subseteq S
    <3> HIDE DEF S
    <3> QED BY <2>1, <2>2, Induct
  <2> QED BY <2>3
<1>10. DOMAIN upTo = 0 .. n /\ upTo = [i \in 0 .. n |-> upTo[i]]
  <2> HIDE DEF upTo
  <2> QED BY <1>6
<1>11. upTo \in [0 .. n -> Nat]
  <2> HIDE DEF upTo
  <2> QED BY <1>9, <1>10
<1>12. Adds(bytes, upTo)
  <2> HIDE DEF upTo
  <2> QED BY <1>8 DEF Adds
<1> HIDE DEF upTo
<1> QED BY <1>7, <1>11, <1>12

\* The low bytes of a number stand for it modulo their power.
LEMMA LowBytesStand ==
  ASSUME NEW r \in Nat, NEW n \in Nat
  PROVE  /\ LowBytes(r, n) \in ByteString /\ Len(LowBytes(r, n)) = n
         /\ \A i \in 1 .. n : LowBytes(r, n)[i] = (r \div Power(Byte, i - 1)) % Byte
         /\ FromBytes(LowBytes(r, n)) = r % Power(Byte, n)
<1> DEFINE bytes == LowBytes(r, n)
<1>1. \A i \in 1 .. n : /\ Power(Byte, i - 1) \in Nat \ {0}
                        /\ (r \div Power(Byte, i - 1)) % Byte \in 0 .. Byte - 1
  <2> SUFFICES ASSUME NEW i \in 1 .. n
               PROVE  /\ Power(Byte, i - 1) \in Nat \ {0}
                      /\ (r \div Power(Byte, i - 1)) % Byte \in 0 .. Byte - 1
    OBVIOUS
  <2>1. Power(Byte, i - 1) \in Nat \ {0}
    <3>1. i - 1 \in Nat
      OBVIOUS
    <3> QED BY <3>1, ByteType, PowerPositive
  <2>2. r \div Power(Byte, i - 1) \in Nat
    BY <2>1, DivNat
  <2> QED BY <2>1, <2>2, ByteType, DivBounds
<1>2. bytes \in ByteString /\ Len(bytes) = n
  BY <1>1 DEF LowBytes, ByteString
<1>3. \A i \in 1 .. n : bytes[i] = (r \div Power(Byte, i - 1)) % Byte
  BY DEF LowBytes
<1>4. bytes \in Seq(Nat)
  BY <1>2, ByteType DEF ByteString
<1> HIDE DEF bytes
<1>5. PICK f \in [0 .. n -> Nat] : Adds(bytes, f) /\ FromBytes(bytes) = f[n]
  BY <1>2, <1>4, FromBytesGrows
<1> DEFINE S == {i \in Nat : i <= n => f[i] = r % Power(Byte, i)}
<1>6. 0 \in S
  <2>1. Power(Byte, 0) = 1 /\ r % 1 = 0
    BY ByteType, PowerRecursion
  <2> QED BY <1>5, <2>1 DEF Adds
<1>7. \A i \in Nat : i \in S => i + 1 \in S
  <2> SUFFICES ASSUME NEW i \in Nat, i + 1 <= n, f[i] = r % Power(Byte, i)
               PROVE  f[i + 1] = r % Power(Byte, i + 1)
    OBVIOUS
  <2> DEFINE d == Power(Byte, i)
  <2>1. i + 1 \in 1 .. n /\ (i + 1) - 1 = i
    OBVIOUS
  <2>2. f[i + 1] = f[i] + bytes[i + 1] * d
    BY <1>2, <1>5, <2>1 DEF Adds
  <2>3. bytes[i + 1] = (r \div d) % Byte
    BY <1>3, <2>1
  <2>4. Power(Byte, i + 1) = Byte * d /\ d \in Nat \ {0}
    <3>1. Byte \in Int /\ Byte \in Nat \ {0}
      BY ByteType
    <3> QED BY <3>1, PowerRecursion, PowerPositive
  <2> HIDE DEF d
  <2>5. r % (d * Byte) = (r % d) + ((r \div d) % Byte) * d
    BY <2>4, ByteType, NextDigit
  <2>6. Byte * d = d * Byte
    BY <2>4, ByteType
  <2> QED BY <2>2, <2>3, <2>4, <2>5, <2>6 DEF d
<1>8. Nat \subseteq S
  <2> HIDE DEF S
  <2> QED BY <1>6, <1>7, Induct
<1>9. FromBytes(bytes) = r % Power(Byte, n)
  BY <1>5, <1>8
<1> QED BY <1>2, <1>3, <1>9 DEF bytes

-----------------------------------------------------------------------------
(* Registers and the encoding of integers.                                   *)

RegisterNumber == 0 .. Register - 1
SignedNumber == -(Register \div 2) .. Register \div 2 - 1

\* A register and a signed number stand for each other.
LEMMA SignedStands ==
  /\ \A r \in RegisterNumber : Signed(r) \in SignedNumber /\ ToRegister(Signed(r)) = r
  /\ \A n \in SignedNumber : ToRegister(n) \in RegisterNumber /\ Signed(ToRegister(n)) = n
  /\ \A n \in RegisterNumber : ToRegister(n) = n
<1> DEFINE H == Register \div 2
<1>1. Register \in Nat \ {0} /\ Register = 2 * H /\ H \in Nat
  BY ByteType
<1> HIDE DEF H
<1>2. \A n \in RegisterNumber : ToRegister(n) = n
  BY <1>1, ModSmall DEF RegisterNumber, ToRegister
<1>3. \A r \in Int : r \in -Register .. -1 => r % Register = r + Register
  <2> SUFFICES ASSUME NEW r \in -Register .. -1 PROVE r % Register = r + Register
    OBVIOUS
  <2>1. r + Register \in 0 .. Register - 1 /\ r = (-1) * Register + (r + Register)
    BY <1>1
  <2> DEFINE v == r + Register
  <2> HIDE DEF v
  <2>2. v \in 0 .. Register - 1 /\ r = (-1) * Register + v
    BY <2>1 DEF v
  <2>3. r % Register = v
    BY <1>1, <2>2, DivMod
  <2> QED BY <2>3 DEF v
<1>4. \A r \in RegisterNumber : Signed(r) \in SignedNumber /\ ToRegister(Signed(r)) = r
  <2> SUFFICES ASSUME NEW r \in RegisterNumber
               PROVE  Signed(r) \in SignedNumber /\ ToRegister(Signed(r)) = r
    OBVIOUS
  <2>1. CASE r < H
    BY <1>1, <1>2, <2>1 DEF Signed, SignedNumber, RegisterNumber, H
  <2>2. CASE ~(r < H)
    <3>1. Signed(r) = r - Register /\ Signed(r) \in SignedNumber
      BY <1>1, <2>2 DEF Signed, SignedNumber, RegisterNumber, H
    <3>2. r - Register \in -Register .. -1 /\ (r - Register) + Register = r
      BY <1>1 DEF RegisterNumber
    <3> QED BY <1>3, <3>1, <3>2 DEF ToRegister
  <2> QED BY <2>1, <2>2
<1>5. \A n \in SignedNumber : ToRegister(n) \in RegisterNumber /\ Signed(ToRegister(n)) = n
  <2> SUFFICES ASSUME NEW n \in SignedNumber
               PROVE  ToRegister(n) \in RegisterNumber /\ Signed(ToRegister(n)) = n
    OBVIOUS
  <2>0. n \in Int /\ -H <= n /\ n < H
    BY <1>1 DEF SignedNumber, H
  <2>1. CASE n < 0
    <3>1. ToRegister(n) = n + Register
      BY <1>1, <1>3, <2>0, <2>1 DEF ToRegister
    <3> QED BY <1>1, <2>0, <2>1, <3>1 DEF Signed, RegisterNumber, H
  <2>2. CASE ~(n < 0)
    <3>1. n \in RegisterNumber
      BY <1>1, <2>0, <2>2 DEF RegisterNumber
    <3> QED BY <1>1, <1>2, <2>0, <3>1 DEF Signed, RegisterNumber, H
  <2> QED BY <2>1, <2>2
<1> QED BY <1>2, <1>4, <1>5

\* A number fits its significant bits.
LEMMA SignificantBitsFit ==
  ASSUME NEW r \in RegisterNumber
  PROVE  /\ SignificantBits(r) \in ByteBits - 1 .. ByteBits * ByteBits
         /\ -(Power(2, SignificantBits(r) - 1)) <= Signed(r)
         /\ Signed(r) < Power(2, SignificantBits(r) - 1)
<1> DEFINE low == ByteBits - 1
           high == ByteBits * ByteBits
           Fits(n) == Signed(r) \in -(Power(2, n - 1)) .. Power(2, n - 1) - 1
           T == {n \in low .. high : Fits(n)}
<1>1. low \in Nat /\ high \in Nat /\ low <= high /\ low >= 3
  <2>1. ByteBits \in Nat /\ ByteBits >= 4 /\ ByteBits * ByteBits \in Nat
    BY ByteType
  <2>2. \A b \in Nat : b >= 4 => b <= b * b
    OBVIOUS
  <2> QED BY <2>1, <2>2
<1>2. Signed(r) \in Int
  BY SignedStands, ByteType DEF SignedNumber
<1> HIDE DEF low
<1>3. high \in T
  <2>1. Signed(r) \in SignedNumber
    BY SignedStands
  <2>2. Register \div 2 = Power(2, high - 1)
    BY ByteType
  <2>3. Fits(high)
    BY <2>1, <2>2 DEF SignedNumber
  <2> HIDE DEF Fits, high
  <2> QED BY <1>1, <2>3
<1>4. PICK n \in T : \A k \in T : n <= k
  <2>1. T \in SUBSET Nat /\ T # {}
    <3> HIDE DEF Fits, high
    <3> QED BY <1>1, <1>3
  <2> HIDE DEF T
  <2> QED BY <2>1, LeastNumber
<1>5. n > low => ~Fits(n - 1)
  <2> HIDE DEF Fits, high
  <2> QED BY <1>1, <1>4
<1> DEFINE Is(m) == Fits(m) /\ (m > low => ~Fits(m - 1))
<1>6. \A m \in low .. high : Is(m) <=>
        /\ Signed(r) \in -(Power(2, m - 1)) .. Power(2, m - 1) - 1
        /\ m > ByteBits - 1 => Signed(r) \notin -(Power(2, m - 2)) .. Power(2, m - 2) - 1
  <2>1. \A m \in low .. high : (m - 1) - 1 = m - 2
    BY <1>1
  <2> HIDE DEF high
  <2> QED BY <2>1 DEF low
<1>7. SignificantBits(r) = CHOOSE m \in low .. high : Is(m)
  <2> HIDE DEF Is
  <2> QED BY <1>6 DEF SignificantBits, low
<1>8. n \in low .. high /\ Is(n)
  <2> HIDE DEF Fits, high
  <2> QED BY <1>4, <1>5
<1>9. SignificantBits(r) \in low .. high /\ Is(SignificantBits(r))
  <2> HIDE DEF Is, high
  <2> QED BY <1>7, <1>8, Zenon
<1>10. SignificantBits(r) - 1 \in Nat
  <2> HIDE DEF Is, high
  <2> QED BY <1>1, <1>9
<1>11. Power(2, SignificantBits(r) - 1) \in Int
  BY <1>10, PowerPositive
<1>12. Fits(SignificantBits(r))
  BY <1>9
<1> QED BY <1>2, <1>9, <1>11, <1>12 DEF low

\* Of ones at the low end, fewer are ones too.
LEMMA FewerOnes ==
  ASSUME NEW x \in Nat, NEW n \in Nat, NEW j \in 0 .. n,
         x % Power(2, n) = Power(2, n) - 1
  PROVE  x % Power(2, j) = Power(2, j) - 1
<1> DEFINE c == Power(2, n - j)
           d == Power(2, j)
<1>1. n - j \in Nat /\ j \in Nat /\ j + (n - j) = n
  OBVIOUS
<1>2. Power(2, n) = d * c /\ c \in Nat \ {0} /\ d \in Nat \ {0}
  <2>1. Power(2, j + (n - j)) = Power(2, j) * Power(2, n - j)
    BY <1>1, PowerSum
  <2>2. c \in Nat \ {0} /\ d \in Nat \ {0}
    BY <1>1, PowerPositive
  <2> QED BY <1>1, <2>1, <2>2
<1> HIDE DEF c, d
<1>3. PICK q \in Nat : x = q * (d * c) + (d * c - 1)
  <2>1. d * c \in Nat \ {0}
    BY <1>2
  <2>2. x = (x \div (d * c)) * (d * c) + (x % (d * c)) /\ x \div (d * c) \in Nat
    BY <2>1, DivParts
  <2> QED BY <1>2, <2>2
<1>4. x = (q * c + (c - 1)) * d + (d - 1)
  <2>1. (q * c + (c - 1)) * d = q * (d * c) + (d * c - d)
    BY <1>2
  <2>2. q * (d * c) \in Int /\ d * c \in Int
    BY <1>2
  <2> QED BY <1>2, <1>3, <2>1, <2>2
<1>5. q * c + (c - 1) \in Int /\ d - 1 \in 0 .. d - 1
  BY <1>2
<1> DEFINE y == q * c + (c - 1)
<1>6. y \in Int /\ x = y * d + (d - 1)
  BY <1>4, <1>5
<1> HIDE DEF y
<1>7. x % d = d - 1
  BY <1>2, <1>5, <1>6, DivMod
<1> QED BY <1>7 DEF d

\* The ones at the low end of a byte are counted.
LEMMA TrailingOnesAre ==
  ASSUME NEW x \in Nat, NEW k \in 0 .. ByteBits,
         x % Power(2, k) = Power(2, k) - 1,
         k < ByteBits => x % Power(2, k + 1) # Power(2, k + 1) - 1
  PROVE  TrailingOnes(x) = k
<1> DEFINE Ones(n) == x % Power(2, n) = Power(2, n) - 1
           Is(n) == Ones(n) /\ (n < ByteBits => ~Ones(n + 1))
<1>0. ByteBits \in Nat
  BY ByteType
<1>1. Is(k)
  OBVIOUS
<1>2. \A n \in Nat : \A j \in 0 .. n : Ones(n) => Ones(j)
  BY FewerOnes
<1> HIDE DEF Ones
<1>3. \A n \in 0 .. ByteBits : Is(n) => n = k
  <2> SUFFICES ASSUME NEW n \in 0 .. ByteBits, Is(n) PROVE n = k
    OBVIOUS
  <2>1. ~(n < k)
    <3> SUFFICES ASSUME n < k PROVE FALSE
      OBVIOUS
    <3>1. n + 1 \in 0 .. k /\ n < ByteBits /\ k \in Nat
      BY <1>0
    <3> QED BY <1>1, <1>2, <3>1
  <2>2. ~(k < n)
    <3> SUFFICES ASSUME k < n PROVE FALSE
      OBVIOUS
    <3>1. k + 1 \in 0 .. n /\ k < ByteBits /\ n \in Nat
      BY <1>0
    <3> QED BY <1>1, <1>2, <3>1
  <2> QED BY <1>0, <2>1, <2>2
<1>4. TrailingOnes(x) = CHOOSE n \in 0 .. ByteBits : Is(n)
  BY DEF TrailingOnes, Ones
<1> HIDE DEF Is
<1> QED BY <1>1, <1>3, <1>4

\* The first byte of a number that k bytes follow: the rest of its division by
\* a power of two, above k ones.
LEMMA ShortFirst ==
  ASSUME NEW r \in Nat, NEW k \in 0 .. ByteBits - 1
  PROVE  LET p == Power(2, ByteBits - 1 - k)
             first == (r * Power(2, k + 1) + Power(2, k) - 1) % Byte
         IN  /\ first \in 0 .. Byte - 1
             /\ first = (r % p) * Power(2, k + 1) + (Power(2, k) - 1)
             /\ first \div Power(2, k + 1) = r % p
             /\ TrailingOnes(first) = k
<1> DEFINE p == Power(2, ByteBits - 1 - k)
           e == Power(2, k + 1)
           d == Power(2, k)
           first == (r * e + d - 1) % Byte
           q == r \div p
           lo == r % p
           v == lo * e + (d - 1)
<1>1. /\ ByteBits \in Nat /\ k \in Nat /\ ByteBits - 1 - k \in Nat /\ k + 1 \in Nat
      /\ (ByteBits - 1 - k) + (k + 1) = ByteBits
      /\ Byte \in Nat \ {0} /\ Byte = Power(2, ByteBits)
  BY ByteType
<1>2. p \in Nat \ {0} /\ e \in Nat \ {0} /\ d \in Nat \ {0}
  BY <1>1, PowerPositive
<1>3. e = 2 * d
  <2>1. (k + 1) - 1 = k /\ k + 1 \in Nat \ {0}
    OBVIOUS
  <2> QED BY <2>1, PowerHalves
<1>4. Byte = p * e
  <2>1. Power(2, (ByteBits - 1 - k) + (k + 1)) = Power(2, ByteBits - 1 - k) * Power(2, k + 1)
    BY <1>1, PowerSum
  <2> QED BY <1>1, <2>1
<1> HIDE DEF p, e, d
<1>5. r = q * p + lo /\ q \in Nat /\ lo \in 0 .. p - 1
  BY <1>2, DivParts
<1> HIDE DEF q, lo
<1>6. v \in 0 .. Byte - 1
  <2>1. lo * e \in Nat /\ lo * e <= (p - 1) * e
    BY <1>2, <1>5, MulNat, MulMono
  <2>2. (p - 1) * e = p * e - e
    BY <1>2
  <2>3. p * e \in Int
    BY <1>2
  <2> QED BY <1>2, <1>3, <1>4, <2>1, <2>2, <2>3
<1>7. r * e + d - 1 = q * Byte + v
  <2>1. (q * p + lo) * e = q * (p * e) + lo * e
    BY <1>2, <1>5
  <2>2. lo * e \in Int /\ q * Byte \in Int
    BY <1>1, <1>2, <1>5
  <2> QED BY <1>2, <1>4, <1>5, <2>1, <2>2
<1>8. first = v
  <2> HIDE DEF v
  <2>1. (q * Byte + v) % Byte = v
    BY <1>1, <1>5, <1>6, DivMod
  <2> QED BY <1>7, <2>1
<1>9. v \div e = lo /\ v % e = d - 1
  <2> DEFINE w == d - 1
  <2>1. w \in 0 .. e - 1 /\ lo \in Int /\ v = lo * e + w
    BY <1>2, <1>3, <1>5
  <2> HIDE DEF w, v
  <2>2. v \div e = lo /\ v % e = w
    BY <1>2, <2>1, DivMod
  <2> QED BY <2>2 DEF w
<1>10. v % d = d - 1
  <2>1. v = (2 * lo) * d + (d - 1)
    <3>1. lo * (2 * d) = (2 * lo) * d
      BY <1>2, <1>5
    <3> QED BY <1>3, <3>1
  <2>2. 2 * lo \in Int /\ d - 1 \in 0 .. d - 1
    BY <1>2, <1>5
  <2> HIDE DEF v
  <2> QED BY <1>2, <2>1, <2>2, DivMod
<1>11. TrailingOnes(v) = k
  <2>1. v \in Nat /\ k \in 0 .. ByteBits
    BY <1>1, <1>6
  <2>2. v % Power(2, k) = Power(2, k) - 1
    BY <1>10 DEF d
  <2>3. v % Power(2, k + 1) # Power(2, k + 1) - 1
    <3>1. d - 1 # e - 1
      BY <1>2, <1>3
    <3> HIDE DEF v
    <3> QED BY <1>9, <3>1 DEF e
  <2> HIDE DEF v
  <2> QED BY <2>1, <2>2, <2>3, TrailingOnesAre
<1> HIDE DEF v, first
<1>12. first \in 0 .. Byte - 1 /\ first \div e = lo /\ TrailingOnes(first) = k
  BY <1>6, <1>8, <1>9, <1>11
<1>13. first = lo * e + (d - 1)
  BY <1>8 DEF v
<1> QED BY <1>12, <1>13 DEF first, p, e, d, lo

\* A number of m bits: its value modulo 2^m, and its sign.
LEMMA SignOfBits ==
  ASSUME NEW r \in RegisterNumber, NEW m \in 1 .. ByteBits * ByteBits,
         -(Power(2, m - 1)) <= Signed(r), Signed(r) < Power(2, m - 1)
  PROVE  LET v == r % Power(2, m)
         IN  r = IF v < Power(2, m - 1) THEN v ELSE v + Register - Power(2, m)
<1> DEFINE g == Power(2, m)
           h == Power(2, m - 1)
           c == Power(2, ByteBits * ByteBits - m)
           v == r % g
           s == Signed(r)
           b == ByteBits * ByteBits
<1>1. b \in Nat /\ m \in Nat \ {0} /\ b - m \in Nat /\ m + (b - m) = b /\ m - 1 \in Nat
  BY ByteType
<1>2. g = 2 * h /\ h \in Nat \ {0} /\ g \in Nat \ {0}
  BY <1>1, PowerHalves, PowerPositive
<1>3. Register = g * c /\ c \in Nat \ {0} /\ Register \in Nat \ {0}
  <2> HIDE DEF b
  <2>1. Power(2, m + (b - m)) = Power(2, m) * Power(2, b - m)
    BY <1>1, PowerSum
  <2>2. Register = Power(2, b)
    BY ByteType DEF b
  <2>3. Power(2, b - m) \in Nat \ {0} /\ Register \in Nat \ {0}
    BY <1>1, PowerPositive, ByteType
  <2> QED BY <1>1, <2>1, <2>2, <2>3 DEF b
<1>4. s \in Int /\ -h <= s /\ s < h /\ (s < 0 => r = Register + s) /\ (s >= 0 => r = s)
  BY <1>2, <1>3 DEF Signed, RegisterNumber
<1> HIDE DEF g, h, c, s, b
<1>5. CASE s >= 0
  <2>1. r \in 0 .. g - 1 /\ r < h
    BY <1>2, <1>4, <1>5
  <2>2. v = r
    BY <1>2, <2>1, ModSmall
  <2> QED BY <2>1, <2>2 DEF g, h
<1>6. CASE s < 0
  <2> DEFINE w == g + s
  <2>1. w \in 0 .. g - 1 /\ w >= h
    BY <1>2, <1>4, <1>6
  <2>2. r = (c - 1) * g + w /\ c - 1 \in Int
    <3>1. (c - 1) * g = g * c - g
      BY <1>2, <1>3
    <3>2. g * c \in Int
      BY <1>2, <1>3
    <3> QED BY <1>2, <1>3, <1>4, <1>6, <3>1, <3>2
  <2>3. v = w
    <3> HIDE DEF w
    <3> DEFINE t == c - 1
    <3>1. t \in Int /\ r = t * g + w
      BY <2>2
    <3> HIDE DEF t
    <3> QED BY <1>2, <2>1, <3>1, DivMod
  <2>4. v + Register - g = r
    BY <1>2, <1>3, <1>4, <1>6, <2>3
  <2>5. ~(v < h)
    BY <1>2, <1>4, <2>1, <2>3
  <2> QED BY <2>4, <2>5 DEF g, h
<1> QED BY <1>4, <1>5, <1>6

\* The byte on top of the low ones says on which side of the middle a number is.
LEMMA TopByte ==
  ASSUME NEW r \in Nat, NEW k \in 0 .. ByteBits - 1
  PROVE  LET m == (k + 1) * (ByteBits - 1)
             p == Power(2, ByteBits - 1 - k)
             low == LowBytes(r \div p, k)
             value == FromBytes(low) * p + (r % p)
         IN  /\ m \in 1 .. ByteBits * ByteBits
             /\ value = r % Power(2, m)
             /\ k = 0 => (2 * (r % p) < Byte \div 2 <=> value < Power(2, m - 1))
             /\ k > 0 => (low[k] < Byte \div 2 <=> value < Power(2, m - 1))
<1> DEFINE B == ByteBits
           m == (k + 1) * (B - 1)
           p == Power(2, B - 1 - k)
           q == r \div p
           lo == r % p
           low == LowBytes(q, k)
           value == FromBytes(low) * p + lo
           half == Byte \div 2
           g == Power(Byte, k)
           h == Power(2, m - 1)
<1>1. /\ B \in Nat /\ B >= 4 /\ k \in Nat /\ k <= B - 1 /\ B - 1 - k \in Nat
      /\ Byte \in Nat \ {0} /\ Byte = Power(2, B) /\ Byte = 2 * half
      /\ half = Power(2, B - 1)
  BY ByteType
<1>2. m = (B - 1 - k) + B * k /\ B * k \in Nat /\ m \in 1 .. B * B /\ m \in Nat /\ m - 1 \in Nat
  <2> HIDE DEF B
  <2>1. (k + 1) * (B - 1) = (B - 1 - k) + B * k /\ B * k \in Nat
    BY <1>1
  <2>2. k * B <= (B - 1) * B
    BY <1>1, MulMono
  <2>3. (B - 1) * B = B * B - B /\ B * B \in Nat /\ k * B = B * k
    BY <1>1
  <2> DEFINE bk == B * k
             bb == B * B
  <2>4. bk \in Nat /\ bb \in Nat /\ m = (B - 1 - k) + bk /\ bk <= bb - B
    BY <2>1, <2>2, <2>3
  <2> HIDE DEF bk, bb, m
  <2>5. m \in 1 .. bb
    <3>1. k = 0 => bk = 0
      BY <1>1 DEF bk
    <3>2. k > 0 => bk >= B
      <4> SUFFICES ASSUME k > 0 PROVE bk >= B
        OBVIOUS
      <4>1. B * 1 <= B * k
        BY <1>1, MulMono
      <4> QED BY <1>1, <4>1 DEF bk
    <3> QED BY <1>1, <2>4, <3>1, <3>2
  <2>6. m = (B - 1 - k) + B * k
    BY <2>4 DEF bk
  <2> QED BY <2>4, <2>5, <2>6 DEF bk, bb
<1> HIDE DEF B, m, half
<1>3. p \in Nat \ {0} /\ h \in Nat \ {0} /\ g \in Nat \ {0}
  <2>1. p \in Nat \ {0}
    BY <1>1, PowerPositive
  <2>2. h \in Nat \ {0}
    BY <1>2, PowerPositive
  <2>3. g \in Nat \ {0}
    BY <1>1, PowerPositive
  <2> QED BY <2>1, <2>2, <2>3
<1>4. Power(2, m) = p * g
  <2>1. Power(2, (B - 1 - k) + B * k) = Power(2, B - 1 - k) * Power(2, B * k)
    BY <1>1, <1>2, PowerSum
  <2>2. g = Power(2, B * k)
    BY <1>1, PowerOfPower
  <2> QED BY <1>2, <2>1, <2>2
<1> HIDE DEF p, g, h
<1>5. r = q * p + lo /\ q \in Nat /\ lo \in 0 .. p - 1
  BY <1>3, DivParts
<1>6. FromBytes(low) = q % g
  <2> HIDE DEF q
  <2> QED BY <1>1, <1>5, LowBytesStand DEF g
<1>7. value = r % Power(2, m)
  <2>1. r % (p * g) = (r % p) + ((r \div p) % g) * p
    BY <1>3, NextDigit
  <2>2. (q % g) * p \in Int
    <3> HIDE DEF q
    <3>1. q % g \in Int
      BY <1>3, <1>5, DivModParts
    <3> QED BY <1>3, <3>1
  <2> QED BY <1>4, <1>5, <1>6, <2>1, <2>2
<1> HIDE DEF q, lo, low
<1>8. k = 0 => (2 * lo < half <=> value < h)
  <2> SUFFICES ASSUME k = 0 PROVE 2 * lo < half <=> value < h
    OBVIOUS
  <2>1. q % g = 0
    <3>1. g = 1
      BY <1>1, PowerRecursion DEF g
    <3> QED BY <1>5, <3>1
  <2>2. value = lo
    BY <1>3, <1>5, <1>6, <2>1
  <2>3. m = B - 1
    BY <1>1, <1>2
  <2>4. half = 2 * Power(2, m - 1)
    <3>1. B - 1 \in Nat \ {0}
      BY <1>1
    <3> QED BY <1>1, <2>3, <3>1, PowerHalves
  <2> QED BY <1>3, <1>5, <2>2, <2>4 DEF h
<1>9. k > 0 => (low[k] < half <=> value < h)
  <2> SUFFICES ASSUME k > 0 PROVE low[k] < half <=> value < h
    OBVIOUS
  <2> DEFINE e == Power(Byte, k - 1)
             top == (q \div e) % Byte
             below == q % e
             ep == e * p
             z == below * p + lo
  <2>1. k - 1 \in Nat /\ (k - 1) + 1 = k /\ k \in 1 .. k
    BY <1>1
  <2>2. e \in Nat \ {0}
    BY <1>1, <2>1, PowerPositive
  <2>3. g = e * Byte
    <3>1. Power(Byte, (k - 1) + 1) = Byte * Power(Byte, k - 1)
      BY <1>1, <2>1, PowerRecursion
    <3>2. Byte * e = e * Byte
      BY <1>1, <2>2
    <3> QED BY <2>1, <3>1, <3>2 DEF g
  <2>4. low[k] = top
    BY <1>1, <1>5, <2>1, LowBytesStand DEF low
  <2>5. h = half * ep
    <3> DEFINE a == B - 1
               b == B * (k - 1)
               c == B - 1 - k
    <3>1. a \in Nat /\ b \in Nat /\ c \in Nat
      BY <1>1, <2>1
    <3>2. m - 1 = a + (b + c)
      <4>1. B * (k - 1) = B * k - B
        BY <1>1
      <4> QED BY <1>1, <1>2, <4>1
    <3>3. e = Power(2, b)
      BY <1>1, <2>1, PowerOfPower
    <3>4. p = Power(2, c)
      BY DEF p
    <3>5. half = Power(2, a)
      BY <1>1
    <3> HIDE DEF a, b, c
    <3>6. Power(2, b + c) = Power(2, b) * Power(2, c) /\ b + c \in Nat
      BY <3>1, PowerSum
    <3>7. Power(2, a + (b + c)) = Power(2, a) * Power(2, b + c)
      BY <3>1, <3>6, PowerSum
    <3> HIDE DEF e
    <3> QED BY <3>2, <3>3, <3>4, <3>5, <3>6, <3>7 DEF h
  <2> HIDE DEF e
  <2>6. q % (e * Byte) = below + top * e
    BY <1>1, <1>5, <2>2, NextDigit
  <2>7. below \in 0 .. e - 1 /\ top \in 0 .. Byte - 1
    <3>1. q \div e \in Nat
      BY <1>5, <2>2, DivNat
    <3> QED BY <1>1, <1>5, <2>2, <3>1, DivBounds
  <2> HIDE DEF below, top
  <2>8. ep \in Nat \ {0}
    BY <1>3, <2>2
  <2>9. z \in 0 .. ep - 1
    <3>1. below * p \in Nat /\ below * p <= (e - 1) * p
      BY <1>3, <2>2, <2>7, MulNat, MulMono
    <3>2. (e - 1) * p = e * p - p /\ e * p \in Int
      BY <1>3, <2>2
    <3> QED BY <1>3, <1>5, <3>1, <3>2
  <2>10. value = top * ep + z
    <3>1. (below + top * e) * p = below * p + top * (e * p)
      BY <1>3, <2>2, <2>7
    <3>2. below * p \in Int /\ top * (e * p) \in Int
      BY <1>3, <2>2, <2>7
    <3> QED BY <1>5, <1>6, <2>3, <2>6, <3>1, <3>2
  <2> HIDE DEF ep, z, value
  <2>11. half \in Nat
    BY <1>1, DivNat DEF half
  <2>12. top < half => top * ep <= half * ep - ep
    <3> SUFFICES ASSUME top < half PROVE top * ep <= half * ep - ep
      OBVIOUS
    <3>1. half - 1 \in Nat /\ top <= half - 1 /\ top \in Nat
      BY <2>7, <2>11
    <3>2. top * ep <= (half - 1) * ep
      BY <2>8, <3>1, MulMono
    <3>3. (half - 1) * ep = half * ep - ep
      BY <2>8, <2>11
    <3> QED BY <3>2, <3>3
  <2>13. ~(top < half) => half * ep <= top * ep
    <3> SUFFICES ASSUME ~(top < half) PROVE half * ep <= top * ep
      OBVIOUS
    <3>1. half <= top /\ top \in Nat
      BY <2>7, <2>11
    <3> QED BY <2>8, <2>11, <3>1, MulMono
  <2>14. half * ep \in Nat /\ top * ep \in Nat
    BY <2>7, <2>8, <2>11, MulNat
  <2> QED BY <2>4, <2>5, <2>8, <2>9, <2>10, <2>12, <2>13, <2>14
<1> QED BY <1>2, <1>7, <1>8, <1>9 DEF value, low, q, lo, p, m, h, half, B

\* What data begins with.
LEMMA Prefixed ==
  ASSUME NEW S, NEW x \in Seq(S), NEW t \in Seq(S)
  PROVE  /\ x \o t \in Seq(S) /\ Len(x \o t) = Len(x) + Len(t)
         /\ \A i \in 1 .. Len(x) : (x \o t)[i] = x[i]
         /\ \A m, n \in Nat : m >= 1 /\ n <= Len(x) => SubSeq(x \o t, m, n) = SubSeq(x, m, n)
         /\ SubSeq(x \o t, Len(x) + 1, Len(x \o t)) = t
<1>1. /\ x \o t \in Seq(S) /\ Len(x \o t) = Len(x) + Len(t)
      /\ \A i \in 1 .. Len(x) : (x \o t)[i] = x[i]
      /\ \A i \in 1 .. Len(t) : (x \o t)[Len(x) + i] = t[i]
      /\ Len(x) \in Nat /\ Len(t) \in Nat
  OBVIOUS
<1>2. ASSUME NEW m \in Nat, NEW n \in Nat, m >= 1, n <= Len(x)
      PROVE  SubSeq(x \o t, m, n) = SubSeq(x, m, n)
  <2> DEFINE a == SubSeq(x \o t, m, n)
             b == SubSeq(x, m, n)
  <2>1. \A i \in m .. n : (x \o t)[i] = x[i] /\ i \in 1 .. Len(x) /\ i \in 1 .. Len(x \o t)
    BY <1>1, <1>2
  <2>2. a \in Seq(S) /\ b \in Seq(S)
    <3>1. \A i \in m .. n : x[i] \in S
      BY <2>1
    <3> QED BY <1>1, <2>1, <3>1
  <2>3. Len(a) = (IF m <= n THEN n - m + 1 ELSE 0) /\ Len(b) = Len(a)
    BY <1>1, <1>2, <2>1
  <2>4. \A i \in 1 .. Len(a) : a[i] = b[i]
    <3> SUFFICES ASSUME NEW i \in 1 .. Len(a) PROVE a[i] = b[i]
      OBVIOUS
    <3>1. m + i - 1 \in m .. n
      BY <2>3
    <3>2. a[i] = (x \o t)[m + i - 1] /\ b[i] = x[m + i - 1]
      BY <1>1, <1>2, <2>3
    <3> QED BY <2>1, <3>1, <3>2
  <2> HIDE DEF a, b
  <2>5. a = b
    BY <2>2, <2>3, <2>4, SeqEqual
  <2> QED BY <2>5 DEF a, b
<1>3. SubSeq(x \o t, Len(x) + 1, Len(x \o t)) = t
  <2> DEFINE c == SubSeq(x \o t, Len(x) + 1, Len(x \o t))
  <2>1. c \in Seq(S) /\ Len(c) = Len(t)
    BY <1>1
  <2>2. \A i \in 1 .. Len(t) : c[i] = t[i]
    BY <1>1
  <2> HIDE DEF c
  <2> QED BY <2>1, <2>2, SeqEqual DEF c
<1> QED BY <1>1, <1>2, <1>3

\* A number is encoded in one byte and those that it counts.
Coded(r, k) ==
  /\ Encode64(r) \in ByteString /\ Len(Encode64(r)) = k + 1
  /\ TrailingOnes(Encode64(r)[1]) = k
  /\ \A t \in ByteString : Decode64(Encode64(r) \o t) = r

\* When the first byte has bits of the number.
LEMMA ShortCoded ==
  ASSUME NEW r \in RegisterNumber, SignificantBits(r) <= (ByteBits - 1) * ByteBits
  PROVE  \E k \in 0 .. ByteBits - 1 : Coded(r, k)
<1> DEFINE B == ByteBits
           bits == SignificantBits(r)
           k == (bits - 1) \div (B - 1)
           m == (k + 1) * (B - 1)
           p == Power(2, B - 1 - k)
           first == (r * Power(2, k + 1) + Power(2, k) - 1) % Byte
           low == LowBytes(r \div p, k)
           value == FromBytes(low) * p + (r % p)
           x == <<first>> \o low
<1>1. B \in Nat /\ B >= 4 /\ r \in Nat /\ Byte \in Nat \ {0}
  BY ByteType DEF RegisterNumber
<1>2. bits \in Nat /\ bits >= B - 1 /\ -(Power(2, bits - 1)) <= Signed(r) /\ Signed(r) < Power(2, bits - 1)
  <2>1. bits \in B - 1 .. B * B /\ -(Power(2, bits - 1)) <= Signed(r) /\ Signed(r) < Power(2, bits - 1)
    BY SignificantBitsFit
  <2>2. B * B \in Nat
    BY ByteType
  <2> HIDE DEF bits, B
  <2> QED BY <1>1, <2>1, <2>2
<1>3. k \in 0 .. B - 1 /\ bits <= m
  <2> HIDE DEF B, bits
  <2> DEFINE d == B - 1
             y == bits - 1
             rest == y % d
  <2>1. d \in Nat \ {0} /\ y \in Nat /\ y < d * B
    BY <1>1, <1>2 DEF B, bits
  <2> HIDE DEF d, y
  <2>2. d * B = B * d
    BY <1>1, <2>1
  <2>3. y \div d \in Nat /\ y \div d < B
    BY <1>1, <2>1, <2>2, DivLess, DivNat
  <2>4. y = (y \div d) * d + rest /\ rest \in 0 .. d - 1
    BY <2>1, DivParts
  <2>5. k = y \div d
    BY DEF y, d
  <2> HIDE DEF k, rest
  <2>6. (k + 1) * d = k * d + d /\ k * d \in Int
    BY <2>1, <2>3, <2>5
  <2>7. y < (k + 1) * d
    BY <2>1, <2>3, <2>4, <2>5, <2>6
  <2>8. m = (k + 1) * d
    BY DEF d
  <2> HIDE DEF m
  <2>9. m \in Int
    BY <2>1, <2>3, <2>5, <2>8
  <2>10. y < m
    BY <2>7, <2>8
  <2> QED BY <1>1, <1>2, <2>3, <2>5, <2>9, <2>10 DEF y
<1>4. /\ first \in 0 .. Byte - 1
      /\ first = (r % p) * Power(2, k + 1) + (Power(2, k) - 1)
      /\ first \div Power(2, k + 1) = r % p
      /\ TrailingOnes(first) = k
  <2> HIDE DEF k
  <2> QED BY <1>1, <1>3, ShortFirst
<1>5. /\ m \in 1 .. B * B
      /\ value = r % Power(2, m)
      /\ k = 0 => (2 * (r % p) < Byte \div 2 <=> value < Power(2, m - 1))
      /\ k > 0 => (low[k] < Byte \div 2 <=> value < Power(2, m - 1))
  <2> HIDE DEF k
  <2> QED BY <1>1, <1>3, TopByte
<1>6. low \in ByteString /\ Len(low) = k
  <2> HIDE DEF k
  <2>1. p \in Nat \ {0}
    BY <1>1, <1>3, PowerPositive
  <2>2. r \div p \in Nat
    BY <1>1, <2>1, DivNat
  <2> QED BY <1>3, <2>2, LowBytesStand
<1>7. Encode64(r) = x
  <2> HIDE DEF k
  <2> QED BY DEF Encode64, k
<1>8. -(Power(2, m - 1)) <= Signed(r) /\ Signed(r) < Power(2, m - 1)
  <2> HIDE DEF m, k, B, bits
  <2>0. bits \in Nat /\ m \in Nat /\ bits <= m /\ bits >= 3
    BY <1>1, <1>2, <1>3, <1>5
  <2>1. bits - 1 \in Nat /\ m - 1 \in Nat /\ bits - 1 <= m - 1
    BY <2>0
  <2>2. Power(2, bits - 1) <= Power(2, m - 1)
    BY <2>1, PowerGrows
  <2>3. Power(2, bits - 1) \in Int /\ Power(2, m - 1) \in Int
    BY <2>1, PowerPositive
  <2>4. Signed(r) \in Int
    BY SignedStands, ByteType DEF SignedNumber
  <2> QED BY <1>2, <2>2, <2>3, <2>4
<1>9. r = IF value < Power(2, m - 1) THEN value ELSE value + Register - Power(2, m)
  <2> HIDE DEF value, m
  <2> QED BY <1>5, <1>8, SignOfBits
<1> HIDE DEF k, first, low
<1>10. x \in ByteString /\ Len(x) = k + 1 /\ x[1] = first /\ SubSeq(x, 2, k + 1) = low
  <2>1. <<first>> \in ByteString /\ Len(<<first>>) = 1
    BY <1>4 DEF ByteString
  <2>2. SubSeq(<<first>> \o low, Len(<<first>>) + 1, Len(<<first>> \o low)) = low
    BY <1>6, <2>1, Prefixed DEF ByteString
  <2>3. Len(x) = 1 + k /\ x \in ByteString /\ x[1] = first
    BY <1>4, <1>6, <2>1 DEF ByteString
  <2>4. 1 + k = k + 1 /\ 1 + 1 = 2
    BY <1>3
  <2> QED BY <2>1, <2>2, <2>3, <2>4
<1>11. k > 0 => x[k + 1] = low[k]
  BY <1>3, <1>4, <1>6 DEF ByteString
<1>12. k = 0 => first = 2 * (r % p)
  <2> SUFFICES ASSUME k = 0 PROVE first = 2 * (r % p)
    OBVIOUS
  <2>1. Power(2, 0) = 1 /\ Power(2, 0 + 1) = 2 * 1 /\ 0 + 1 = 1
    BY PowerRecursion
  <2>2. r % p \in Int
    <3>1. p \in Nat \ {0}
      BY <1>1, <1>3, PowerPositive
    <3> HIDE DEF p
    <3> QED BY <1>1, <3>1, DivBounds
  <2> HIDE DEF p
  <2> QED BY <1>4, <2>1, <2>2
<1>13. ASSUME NEW t \in ByteString PROVE Decode64(x \o t) = r
  <2> DEFINE input == x \o t
  <2>0. k \in Nat /\ k + 1 \in Nat /\ 2 \in Nat /\ k + 1 \in 1 .. Len(x) /\ 1 \in 1 .. Len(x)
    BY <1>3, <1>10
  <2>1. /\ input[1] = first /\ input[k + 1] = x[k + 1]
        /\ SubSeq(input, 2, k + 1) = SubSeq(x, 2, k + 1)
    <3> HIDE DEF x
    <3>1. \A i \in 1 .. Len(x) : (x \o t)[i] = x[i]
      BY <1>10, Prefixed DEF ByteString
    <3>2. \A i, j \in Nat : i >= 1 /\ j <= Len(x) => SubSeq(x \o t, i, j) = SubSeq(x, i, j)
      BY <1>10, Prefixed DEF ByteString
    <3>3. SubSeq(x \o t, 2, k + 1) = SubSeq(x, 2, k + 1)
      BY <1>10, <2>0, <3>2
    <3> QED BY <1>10, <2>0, <3>1, <3>3
  <2>2. TrailingOnes(input[1]) = k /\ k # B
    BY <1>1, <1>3, <1>4, <2>1
  <2>3. input[k + 1] < Byte \div 2 <=> value < Power(2, m - 1)
    <3>1. CASE k = 0
      <4>1. input[k + 1] = first
        BY <2>1, <3>1
      <4> HIDE DEF input, value, m, p
      <4> QED BY <1>5, <1>12, <3>1, <4>1
    <3>2. CASE k > 0
      <4> HIDE DEF input, value, m, p, x
      <4> QED BY <1>5, <1>11, <2>1, <3>2
    <3> HIDE DEF input, value, m, p
    <3> QED BY <2>0, <3>1, <3>2
  <2>4. FromBytes(SubSeq(input, 2, k + 1)) * Power(2, B - 1 - k) + input[1] \div Power(2, k + 1) = value
    <3> HIDE DEF x
    <3>1. SubSeq(input, 2, k + 1) = low /\ input[1] \div Power(2, k + 1) = r % p
      BY <1>4, <1>10, <2>1
    <3> HIDE DEF input
    <3> QED BY <3>1
  <2> HIDE DEF input, value
  <2>5. Decode64(input) =
          IF k = B THEN FromBytes(SubSeq(input, 2, k + 1))
          ELSE IF input[k + 1] < Byte \div 2 THEN value
          ELSE value + Register - Power(2, (k + 1) * (B - 1))
    BY <2>2, <2>4 DEF Decode64
  <2>6. Decode64(input) = r
    BY <1>9, <2>2, <2>3, <2>5
  <2> QED BY <2>6 DEF input
<1>14. Coded(r, k)
  <2> HIDE DEF x
  <2> QED BY <1>4, <1>7, <1>10, <1>13 DEF Coded
<1> QED BY <1>3, <1>14

\* When it has none.
LEMMA LongCoded ==
  ASSUME NEW r \in RegisterNumber, ~(SignificantBits(r) <= (ByteBits - 1) * ByteBits)
  PROVE  Coded(r, ByteBits)
<1> DEFINE B == ByteBits
           low == LowBytes(r, B)
           x == <<Byte - 1>> \o low
<1>1. B \in Nat /\ B >= 4 /\ r \in Nat /\ Byte \in Nat \ {0} /\ Byte = Power(2, B)
  BY ByteType DEF RegisterNumber
<1>2. Encode64(r) = x
  BY DEF Encode64
<1>3. low \in ByteString /\ Len(low) = B /\ FromBytes(low) = r
  <2>1. low \in ByteString /\ Len(low) = B /\ FromBytes(low) = r % Power(Byte, B)
    BY <1>1, LowBytesStand
  <2>2. r % Register = r
    BY ByteType, ModSmall DEF RegisterNumber
  <2> QED BY <2>1, <2>2 DEF Register
<1> HIDE DEF low
<1>4. x \in ByteString /\ Len(x) = B + 1 /\ x[1] = Byte - 1 /\ SubSeq(x, 2, B + 1) = low
  <2>1. <<Byte - 1>> \in ByteString /\ Len(<<Byte - 1>>) = 1
    BY <1>1 DEF ByteString
  <2>2. SubSeq(<<Byte - 1>> \o low, Len(<<Byte - 1>>) + 1, Len(<<Byte - 1>> \o low)) = low
    BY <1>3, <2>1, Prefixed DEF ByteString
  <2>3. Len(x) = 1 + B /\ x \in ByteString /\ x[1] = Byte - 1
    BY <1>1, <1>3, <2>1 DEF ByteString
  <2>4. 1 + B = B + 1 /\ 1 + 1 = 2
    BY <1>1
  <2> QED BY <2>1, <2>2, <2>3, <2>4
<1>5. TrailingOnes(Byte - 1) = B
  <2>1. Byte - 1 \in Nat /\ B \in 0 .. ByteBits
    BY <1>1
  <2>2. (Byte - 1) % Power(2, B) = Power(2, B) - 1
    <3>1. Byte - 1 \in 0 .. Byte - 1
      BY <1>1
    <3> QED BY <1>1, <3>1, ModSmall
  <2> QED BY <2>1, <2>2, TrailingOnesAre
<1>6. ASSUME NEW t \in ByteString PROVE Decode64(x \o t) = r
  <2> DEFINE input == x \o t
  <2> HIDE DEF x
  <2>1. input[1] = x[1] /\ SubSeq(input, 2, B + 1) = SubSeq(x, 2, B + 1)
    <3>1. \A i \in 1 .. Len(x) : (x \o t)[i] = x[i]
      BY <1>4, Prefixed DEF ByteString
    <3>2. \A i, j \in Nat : i >= 1 /\ j <= Len(x) => SubSeq(x \o t, i, j) = SubSeq(x, i, j)
      BY <1>4, Prefixed DEF ByteString
    <3>3. B + 1 \in Nat /\ 1 \in 1 .. Len(x)
      BY <1>1, <1>4
    <3>4. SubSeq(x \o t, 2, B + 1) = SubSeq(x, 2, B + 1)
      BY <1>4, <3>2, <3>3
    <3> QED BY <3>1, <3>3, <3>4
  <2>2. TrailingOnes(input[1]) = B
    BY <1>4, <1>5, <2>1
  <2> HIDE DEF input
  <2>3. Decode64(input) = FromBytes(SubSeq(input, 2, B + 1))
    BY <2>2 DEF Decode64
  <2> QED BY <1>3, <1>4, <2>1, <2>3 DEF input
<1>7. TrailingOnes(x[1]) = B
  <2> HIDE DEF x
  <2> QED BY <1>4, <1>5
<1> HIDE DEF x
<1> QED BY <1>2, <1>4, <1>6, <1>7 DEF Coded

(* Every integer is read back from its bytes, whatever follows them, and its *)
(* first byte counts the others (integral_encdec.cpp:18-80).                 *)
LEMMA Encoded ==
  ASSUME NEW r \in RegisterNumber
  PROVE  \E k \in 0 .. ByteBits : Coded(r, k)
<1>1. ByteBits \in Nat /\ ByteBits \in 0 .. ByteBits /\ \A k \in 0 .. ByteBits - 1 : k \in 0 .. ByteBits
  BY ByteType
<1> QED BY <1>1, ShortCoded, LongCoded

-----------------------------------------------------------------------------
(* Streams.  A read that meets the bytes of an object, whatever follows them,*)
(* takes them and has its value; one that meets bytes of which an end is     *)
(* missing is refused, as is one that follows a refusal.                     *)

At(ok, rest, read) == [ok |-> ok, rest |-> rest, got |-> read]

IsStream(s) ==
  /\ s = At(s.ok, s.rest, s.got) /\ s.ok \in BOOLEAN
  /\ s.ok => s.rest \in ByteString

IsRefused(s) == s = At(FALSE, s.rest, s.got)

\* From s on, what reads x comes to out, with g read.
Running(s, out, x, g) ==
  /\ ~s.ok => IsRefused(out)
  /\ \A t \in ByteString : s.ok /\ s.rest = x \o t => out = At(TRUE, t, g)
  /\ \A u \in ByteString \ {<<>>} : s.ok /\ s.rest \o u = x => IsRefused(out)

\* The same for one read.
Reads(s, out, x, v) == IsStream(s) => Running(s, out, x, Append(s.got, v))

LEMMA RefusedIs ==
  ASSUME NEW s, IsStream(s) \/ IsRefused(s)
  PROVE  IsRefused(Refused(s))
<1>1. PICK o, r, g : s = At(o, r, g)
  BY DEF IsStream, IsRefused
<1>2. Refused(s) = At(FALSE, r, g)
  <2>1. ASSUME NEW f PROVE [At(o, r, g) EXCEPT !.ok = f] = At(f, r, g)
    BY DEF At
  <2>2. Refused(At(o, r, g)) = At(FALSE, r, g)
    BY <2>1 DEF Refused
  <2> QED BY <1>1, <2>2
<1>3. At(FALSE, r, g).rest = r /\ At(FALSE, r, g).got = g
  BY DEF At
<1> QED BY <1>2, <1>3 DEF IsRefused

LEMMA RefusedIsStream ==
  ASSUME NEW s, IsRefused(s)
  PROVE  IsStream(s) /\ ~s.ok
<1>1. s.ok = FALSE
  BY DEF IsRefused, At
<1>2. s = At(s.ok, s.rest, s.got)
  BY <1>1 DEF IsRefused
<1> QED BY <1>1, <1>2 DEF IsStream

LEMMA FreshIsStream ==
  ASSUME NEW s, IsStream(s)
  PROVE  IsStream(Fresh(s)) /\ Fresh(s) = At(s.ok, s.rest, <<>>) /\ Fresh(s).ok = s.ok
         /\ Fresh(s).rest = s.rest /\ Fresh(s).got = <<>>
  BY DEF IsStream, At, Fresh

\* A sequence is its beginning and its end.
LEMMA CutInTwo ==
  ASSUME NEW T, NEW x \in Seq(T), NEW n \in 0 .. Len(x)
  PROVE  /\ SubSeq(x, 1, n) \in Seq(T) /\ Len(SubSeq(x, 1, n)) = n
         /\ \A i \in 1 .. n : SubSeq(x, 1, n)[i] = x[i]
         /\ SubSeq(x, n + 1, Len(x)) \in Seq(T) /\ Len(SubSeq(x, n + 1, Len(x))) = Len(x) - n
         /\ x = SubSeq(x, 1, n) \o SubSeq(x, n + 1, Len(x))
<1>1. SubSeq(x, 1, n) \in Seq(T) /\ Len(SubSeq(x, 1, n)) = n
  OBVIOUS
<1>2. \A i \in 1 .. n : SubSeq(x, 1, n)[i] = x[i]
  OBVIOUS
<1>3. SubSeq(x, n + 1, Len(x)) \in Seq(T) /\ Len(SubSeq(x, n + 1, Len(x))) = Len(x) - n
  OBVIOUS
<1>4. x = SubSeq(x, 1, n) \o SubSeq(x, n + 1, Len(x))
  <2>1. SubSeq(x, 1, n) \o SubSeq(x, n + 1, Len(x)) = SubSeq(x, 1, Len(x))
    <3>1. 1 \in 1 .. Len(x) + 1 /\ n \in 1 - 1 .. Len(x) /\ Len(x) \in n .. Len(x)
      OBVIOUS
    <3> QED BY <3>1, ConcatAdjacentSubSeq
  <2>2. SubSeq(x, 1, Len(x)) = x
    BY SubSeqFull
  <2> QED BY <2>1, <2>2
<1> QED BY <1>1, <1>2, <1>3, <1>4

\* What two concatenations have in common at the front can be taken off.
Associates(x, z, u) == (x \o z) \o u = x \o (z \o u)

LEMMA Associative ==
  ASSUME NEW T, NEW x \in Seq(T), NEW z \in Seq(T), NEW u \in Seq(T)
  PROVE  Associates(x, z, u)
  BY ConcatAssociative DEF Associates

FrontOff(x, z, u, y) == (x \o z) \o u = x \o y => z \o u = y

LEMMA FrontTakenOff ==
  ASSUME NEW T, NEW x \in Seq(T), NEW z \in Seq(T), NEW u \in Seq(T), NEW y \in Seq(T)
  PROVE  FrontOff(x, z, u, y)
<1> DEFINE zu == z \o u
<1>1. (x \o z) \o u = x \o zu
  BY ConcatAssociative
<1>2. zu \in Seq(T)
  OBVIOUS
<1> HIDE DEF zu
<1>3. x \o zu = x \o y => zu = y
  BY <1>2, ConcatSimplifications
<1> QED BY <1>1, <1>3 DEF zu, FrontOff

\* What is cut off within two pieces is cut off within one of them.
CutWithin(T, r, u, x, y) ==
  \/ \E w \in Seq(T) \ {<<>>} : r \o w = x
  \/ \E z \in Seq(T) : r = x \o z /\ z \o u = y

LEMMA CutIsWithin ==
  ASSUME NEW T, NEW r \in Seq(T), NEW u \in Seq(T), u # <<>>,
         NEW x \in Seq(T), NEW y \in Seq(T), r \o u = x \o y
  PROVE  CutWithin(T, r, u, x, y)
<1>1. Len(r) \in Nat /\ Len(x) \in Nat /\ u \in Seq(T)
  OBVIOUS
<1>2. /\ \A i \in 1 .. Len(r) : (r \o u)[i] = r[i]
      /\ \A i \in 1 .. Len(x) : (x \o y)[i] = x[i]
  BY <1>1, Prefixed
<1>3. CASE Len(r) < Len(x)
  <2> DEFINE n == Len(r)
             v == SubSeq(x, 1, n)
             w == SubSeq(x, n + 1, Len(x))
  <2>1. n \in 0 .. Len(x)
    BY <1>1, <1>3
  <2>2. /\ v \in Seq(T) /\ Len(v) = n /\ \A i \in 1 .. n : v[i] = x[i]
        /\ w \in Seq(T) /\ Len(w) = Len(x) - n /\ x = v \o w
    <3> HIDE DEF n
    <3> QED BY <2>1, CutInTwo
  <2>3. \A i \in 1 .. n : r[i] = x[i]
    <3>1. \A i \in 1 .. n : i \in 1 .. Len(x)
      BY <1>1, <1>3
    <3> QED BY <1>2, <3>1
  <2> HIDE DEF v, w
  <2>4. v = r
    BY <2>2, <2>3, SeqEqual
  <2>5. w # <<>>
    <3>1. Len(<<>>) = 0
      OBVIOUS
    <3> QED BY <1>1, <1>3, <2>2, <3>1
  <2> QED BY <2>2, <2>4, <2>5 DEF CutWithin
<1>4. CASE ~(Len(r) < Len(x))
  <2> DEFINE n == Len(x)
             v == SubSeq(r, 1, n)
             z == SubSeq(r, n + 1, Len(r))
  <2>1. n \in 0 .. Len(r)
    BY <1>1, <1>4
  <2>2. /\ v \in Seq(T) /\ Len(v) = n /\ \A i \in 1 .. n : v[i] = r[i]
        /\ z \in Seq(T) /\ r = v \o z
    <3> HIDE DEF n
    <3> QED BY <2>1, CutInTwo
  <2>3. \A i \in 1 .. n : r[i] = x[i]
    <3>1. \A i \in 1 .. n : i \in 1 .. Len(r)
      BY <1>1, <1>4
    <3> QED BY <1>2, <3>1
  <2> HIDE DEF v, z
  <2>4. v = x
    BY <2>2, <2>3, SeqEqual
  <2>5. r = x \o z
    BY <2>2, <2>4
  <2>6. z \o u = y
    <3>1. (x \o z) \o u = x \o y
      BY <2>5
    <3>2. z \in Seq(T)
      BY <2>2
    <3>3. FrontOff(x, z, u, y)
      BY <1>1, <3>2, FrontTakenOff
    <3> QED BY <3>1, <3>3 DEF FrontOff
  <2> QED BY <2>2, <2>5, <2>6 DEF CutWithin
<1> QED BY <1>3, <1>4

\* Nothing is read before the first read.
LEMMA RunningStarts ==
  ASSUME NEW s, IsStream(s)
  PROVE  Running(s, s, <<>>, s.got)
<1>1. ASSUME ~s.ok PROVE IsRefused(s)
  BY <1>1 DEF IsStream, IsRefused, At
<1>2. ASSUME NEW t \in ByteString, s.ok, s.rest = <<>> \o t
      PROVE  s = At(TRUE, t, s.got)
  <2>1. <<>> \o t = t
    BY ConcatEmptySeq DEF ByteString
  <2> QED BY <1>2, <2>1 DEF IsStream, At
<1>3. ASSUME NEW u \in ByteString \ {<<>>}, s.ok, s.rest \o u = <<>>
      PROVE  IsRefused(s)
  <2>1. s.rest \in Seq(0 .. Byte - 1) /\ u \in Seq(0 .. Byte - 1)
    BY <1>3 DEF IsStream, ByteString
  <2>2. u = <<>>
    BY <1>3, <2>1, ConcatEqualIffEmpty
  <2> QED BY <2>2
<1> QED BY <1>1, <1>2, <1>3 DEF Running

\* One piece after another.
LEMMA RunningGoesOn ==
  ASSUME NEW s, IsStream(s), NEW mid, NEW out, NEW x \in ByteString, NEW y \in ByteString,
         NEW g, NEW h, Running(s, mid, x, g),
         IsStream(mid) /\ (mid.ok => mid.got = g) => Running(mid, out, y, h)
  PROVE  Running(s, out, x \o y, h)
<1>0. x \in Seq(0 .. Byte - 1) /\ y \in Seq(0 .. Byte - 1)
  BY DEF ByteString
<1>1. IsRefused(mid) => IsRefused(out)
  <2> SUFFICES ASSUME IsRefused(mid) PROVE IsRefused(out)
    OBVIOUS
  <2>1. IsStream(mid) /\ ~mid.ok
    BY RefusedIsStream
  <2> QED BY <2>1 DEF Running
<1>2. ASSUME NEW t \in ByteString, mid = At(TRUE, t, g)
      PROVE  Running(mid, out, y, h) /\ mid.ok /\ mid.rest = t
  <2>1. IsStream(mid) /\ mid.got = g /\ mid.ok /\ mid.rest = t
    BY <1>2 DEF IsStream, At
  <2> QED BY <2>1
<1>3. ASSUME ~s.ok PROVE IsRefused(out)
  BY <1>1, <1>3 DEF Running
<1>4. ASSUME NEW t \in ByteString, s.ok, s.rest = (x \o y) \o t
      PROVE  out = At(TRUE, t, h)
  <2>1. t \in Seq(0 .. Byte - 1)
    BY DEF ByteString
  <2>2. (x \o y) \o t = x \o (y \o t) /\ y \o t \in ByteString
    BY <1>0, <2>1, ConcatAssociative, ConcatProperties DEF ByteString
  <2>3. mid = At(TRUE, y \o t, g)
    BY <1>4, <2>2 DEF Running
  <2>4. Running(mid, out, y, h) /\ mid.ok /\ mid.rest = y \o t
    BY <1>2, <2>2, <2>3
  <2> QED BY <2>4 DEF Running
<1>5. ASSUME NEW u \in ByteString \ {<<>>}, s.ok, s.rest \o u = x \o y
      PROVE  IsRefused(out)
  <2>0. s.rest \in ByteString
    BY <1>5 DEF IsStream
  <2>1. \/ \E w \in ByteString \ {<<>>} : s.rest \o w = x
        \/ \E z \in ByteString : s.rest = x \o z /\ z \o u = y
    <3> DEFINE r == s.rest
    <3>1. /\ r \in Seq(0 .. Byte - 1) /\ u \in Seq(0 .. Byte - 1) /\ u # <<>>
          /\ r \o u = x \o y
      BY <1>5, <2>0 DEF ByteString
    <3> HIDE DEF r
    <3>2. CutWithin(0 .. Byte - 1, r, u, x, y)
      BY <1>0, <3>1, CutIsWithin
    <3> QED BY <3>2 DEF r, CutWithin, ByteString
  <2>2. CASE \E w \in ByteString \ {<<>>} : s.rest \o w = x
    <3>1. IsRefused(mid)
      BY <1>5, <2>2 DEF Running
    <3> QED BY <1>1, <3>1
  <2>3. CASE \E z \in ByteString : s.rest = x \o z /\ z \o u = y
    <3>1. PICK z \in ByteString : s.rest = x \o z /\ z \o u = y
      BY <2>3
    <3>2. mid = At(TRUE, z, g)
      BY <1>5, <3>1 DEF Running
    <3>3. Running(mid, out, y, h) /\ mid.ok /\ mid.rest = z
      BY <1>2, <3>2
    <3> QED BY <3>1, <3>3 DEF Running
  <2> QED BY <2>1, <2>2, <2>3
<1> QED BY <1>3, <1>4, <1>5 DEF Running

\* One more value.
LEMMA RunningReads ==
  ASSUME NEW s, IsStream(s), NEW mid, NEW out, NEW x \in ByteString, NEW y \in ByteString,
         NEW g, NEW v, Running(s, mid, x, g),
         (mid.ok => mid.got = g) => Reads(mid, out, y, v)
  PROVE  Running(s, out, x \o y, Append(g, v))
<1>1. ASSUME IsStream(mid), mid.ok => mid.got = g
      PROVE  Running(mid, out, y, Append(g, v))
  <2>1. Running(mid, out, y, Append(mid.got, v))
    BY <1>1 DEF Reads
  <2>2. CASE mid.ok
    BY <1>1, <2>1, <2>2
  <2>3. CASE ~mid.ok
    BY <2>1, <2>3 DEF Running
  <2> QED BY <2>2, <2>3
<1> QED BY <1>1, RunningGoesOn

\* What was read makes up an object.
MadeOf(made, from, is, w) ==
  made = IF is.ok THEN [is EXCEPT !.got = Append(from.got, w)] ELSE Refused(from)

LEMMA MadeReads ==
  ASSUME NEW from, NEW is, NEW made, NEW x \in ByteString, NEW g, NEW v, NEW w,
         IsStream(from) => Running(Fresh(from), is, x, g),
         MadeOf(made, from, is, w), is.ok /\ is.got = g => w = v
  PROVE  Reads(from, made, x, v)
<1> SUFFICES ASSUME IsStream(from) PROVE Running(from, made, x, Append(from.got, v))
  BY DEF Reads
<1>1. Running(Fresh(from), is, x, g) /\ Fresh(from).ok = from.ok /\ Fresh(from).rest = from.rest
  BY FreshIsStream
<1>2. IsRefused(is) => IsRefused(made)
  <2> SUFFICES ASSUME IsRefused(is) PROVE IsRefused(made)
    OBVIOUS
  <2>1. made = Refused(from)
    BY RefusedIsStream DEF MadeOf
  <2> QED BY <2>1, RefusedIs
<1>3. ASSUME NEW t \in ByteString, is = At(TRUE, t, g)
      PROVE  made = At(TRUE, t, Append(from.got, v))
  <2>1. is.ok /\ is.got = g
    BY <1>3 DEF At
  <2>2. made = [is EXCEPT !.got = Append(from.got, v)]
    BY <2>1 DEF MadeOf
  <2> QED BY <1>3, <2>2 DEF At
<1> QED BY <1>1, <1>2, <1>3 DEF Running

\* What appending makes of a sequence.
LEMMA AppendIs ==
  ASSUME NEW T, NEW f \in Seq(T), NEW v \in T, NEW h \in Seq(T), Len(h) = Len(f) + 1,
         \A i \in 1 .. Len(f) : h[i] = f[i], h[Len(f) + 1] = v
  PROVE  Append(f, v) = h
<1> DEFINE g == Append(f, v)
<1>1. /\ g \in Seq(T) /\ Len(g) = Len(f) + 1 /\ g[Len(f) + 1] = v
      /\ \A i \in 1 .. Len(f) : g[i] = f[i]
  BY AppendProperties
<1> HIDE DEF g
<1>2. \A i \in 1 .. Len(g) : g[i] = h[i]
  <2>1. \A i \in 1 .. Len(f) + 1 : i \in 1 .. Len(f) \/ i = Len(f) + 1
    OBVIOUS
  <2> QED BY <1>1, <2>1
<1>3. g = h
  BY <1>1, <1>2, SeqEqual
<1> QED BY <1>3 DEF g

\* Appending to tuples.
LEMMA Append1 ==
  ASSUME NEW a, NEW v
  PROVE  Append(<<a>>, v) = <<a, v>>
<1> DEFINE T == {a, v}
           s == <<a>>
           t == <<a, v>>
<1>1. /\ s \in Seq(T) /\ v \in T /\ t \in Seq(T) /\ Len(s) = 1 /\ Len(t) = 2 /\ t[2] = v
      /\ t[1] = s[1]
  OBVIOUS
<1>2. \A i \in 1 .. 1 : i = 1
  OBVIOUS
<1> HIDE DEF T, s, t
<1>3. Len(t) = Len(s) + 1 /\ t[Len(s) + 1] = v /\ \A i \in 1 .. Len(s) : t[i] = s[i]
  BY <1>1, <1>2
<1>4. Append(s, v) = t
  BY <1>1, <1>3, AppendIs
<1> QED BY <1>4 DEF s, t

LEMMA Append2 ==
  ASSUME NEW a, NEW b, NEW v
  PROVE  Append(<<a, b>>, v) = <<a, b, v>>
<1> DEFINE T == {a, b, v}
           s == <<a, b>>
           t == <<a, b, v>>
<1>1. /\ s \in Seq(T) /\ v \in T /\ t \in Seq(T) /\ Len(s) = 2 /\ Len(t) = 3 /\ t[3] = v
      /\ t[1] = s[1] /\ t[2] = s[2]
  OBVIOUS
<1>2. \A i \in 1 .. 2 : i = 1 \/ i = 2
  OBVIOUS
<1> HIDE DEF T, s, t
<1>3. Len(t) = Len(s) + 1 /\ t[Len(s) + 1] = v /\ \A i \in 1 .. Len(s) : t[i] = s[i]
  BY <1>1, <1>2
<1>4. Append(s, v) = t
  BY <1>1, <1>3, AppendIs
<1> QED BY <1>4 DEF s, t

LEMMA Append3 ==
  ASSUME NEW a, NEW b, NEW c, NEW v
  PROVE  Append(<<a, b, c>>, v) = <<a, b, c, v>>
<1> DEFINE T == {a, b, c, v}
           s == <<a, b, c>>
           t == <<a, b, c, v>>
<1>1. /\ s \in Seq(T) /\ v \in T /\ t \in Seq(T) /\ Len(s) = 3 /\ Len(t) = 4 /\ t[4] = v
      /\ t[1] = s[1] /\ t[2] = s[2] /\ t[3] = s[3]
  OBVIOUS
<1>2. \A i \in 1 .. 3 : i = 1 \/ i = 2 \/ i = 3
  OBVIOUS
<1> HIDE DEF T, s, t
<1>3. Len(t) = Len(s) + 1 /\ t[Len(s) + 1] = v /\ \A i \in 1 .. Len(s) : t[i] = s[i]
  BY <1>1, <1>2
<1>4. Append(s, v) = t
  BY <1>1, <1>3, AppendIs
<1> QED BY <1>4 DEF s, t

LEMMA Append4 ==
  ASSUME NEW a, NEW b, NEW c, NEW d, NEW v
  PROVE  Append(<<a, b, c, d>>, v) = <<a, b, c, d, v>>
<1> DEFINE T == {a, b, c, d, v}
           s == <<a, b, c, d>>
           t == <<a, b, c, d, v>>
<1>1. /\ s \in Seq(T) /\ v \in T /\ t \in Seq(T) /\ Len(s) = 4 /\ Len(t) = 5 /\ t[5] = v
      /\ t[1] = s[1] /\ t[2] = s[2] /\ t[3] = s[3] /\ t[4] = s[4]
  OBVIOUS
<1>2. \A i \in 1 .. 4 : i = 1 \/ i = 2 \/ i = 3 \/ i = 4
  OBVIOUS
<1> HIDE DEF T, s, t
<1>3. Len(t) = Len(s) + 1 /\ t[Len(s) + 1] = v /\ \A i \in 1 .. Len(s) : t[i] = s[i]
  BY <1>1, <1>2
<1>4. Append(s, v) = t
  BY <1>1, <1>3, AppendIs
<1> QED BY <1>4 DEF s, t

LEMMA Append5 ==
  ASSUME NEW a, NEW b, NEW c, NEW d, NEW e, NEW v
  PROVE  Append(<<a, b, c, d, e>>, v) = <<a, b, c, d, e, v>>
<1> DEFINE T == {a, b, c, d, e, v}
           s == <<a, b, c, d, e>>
           t == <<a, b, c, d, e, v>>
<1>1. /\ s \in Seq(T) /\ v \in T /\ t \in Seq(T) /\ Len(s) = 5 /\ Len(t) = 6 /\ t[6] = v
      /\ t[1] = s[1] /\ t[2] = s[2] /\ t[3] = s[3] /\ t[4] = s[4] /\ t[5] = s[5]
  OBVIOUS
<1>2. \A i \in 1 .. 5 : i = 1 \/ i = 2 \/ i = 3 \/ i = 4 \/ i = 5
  OBVIOUS
<1> HIDE DEF T, s, t
<1>3. Len(t) = Len(s) + 1 /\ t[Len(s) + 1] = v /\ \A i \in 1 .. Len(s) : t[i] = s[i]
  BY <1>1, <1>2
<1>4. Append(s, v) = t
  BY <1>1, <1>3, AppendIs
<1> QED BY <1>4 DEF s, t

LEMMA TakeIs ==
  ASSUME NEW s, NEW n, NEW v
  PROVE  Take(s, n, v) = At(TRUE, SubSeq(s.rest, n + 1, Len(s.rest)), Append(s.got, v))
  BY DEF Take, At

LEMMA IntType ==
  ASSUME NEW r \in RegisterNumber
  PROVE  Encode64(r) \in ByteString /\ Len(Encode64(r)) >= 1
<1>1. PICK k \in 0 .. ByteBits : Coded(r, k)
  BY Encoded
<1>2. k >= 0 /\ k \in Int
  BY ByteType
<1> QED BY <1>1, <1>2 DEF Coded

\* A register is read back: decode of what encode wrote, whatever bytes follow,
\* is the register and takes just its bytes, and is refused when some are missing
\* (integral_encdec.cpp:17-82).
THEOREM RegisterReads ==
  ASSUME NEW s, NEW r \in RegisterNumber
  PROVE  Reads(s, GetInt(s), Encode64(r), r)
<1> DEFINE x == Encode64(r)
           size == TrailingOnes(s.rest[1]) + 1
<1> SUFFICES ASSUME IsStream(s) PROVE Running(s, GetInt(s), x, Append(s.got, r))
  BY DEF Reads
<1>1. PICK k \in 0 .. ByteBits : Coded(r, k)
  BY Encoded
<1>2. /\ x \in ByteString /\ Len(x) = k + 1 /\ k \in Nat
      /\ TrailingOnes(x[1]) = k
      /\ \A t \in ByteString : Decode64(x \o t) = r
  BY <1>1, ByteType DEF Coded
<1> HIDE DEF x
<1>3. ASSUME ~s.ok PROVE IsRefused(GetInt(s))
  BY <1>3, RefusedIs DEF GetInt
<1>4. ASSUME NEW t \in ByteString, s.ok, s.rest = x \o t
      PROVE  GetInt(s) = At(TRUE, t, Append(s.got, r))
  <2>1. /\ Len(x \o t) = Len(x) + Len(t) /\ (x \o t)[1] = x[1] /\ Len(t) \in Nat
        /\ SubSeq(x \o t, Len(x) + 1, Len(x \o t)) = t
    <3>1. x \in Seq(0 .. Byte - 1) /\ t \in Seq(0 .. Byte - 1) /\ 1 \in 1 .. Len(x)
      BY <1>2 DEF ByteString
    <3> QED BY <3>1, Prefixed
  <2>2. s.rest # <<>>
    <3>1. Len(<<>>) = 0
      OBVIOUS
    <3> QED BY <1>2, <1>4, <2>1, <3>1
  <2>3. size = k + 1 /\ ~(size > Len(s.rest))
    BY <1>2, <1>4, <2>1
  <2>4. GetInt(s) = Take(s, k + 1, Decode64(s.rest))
    BY <1>4, <2>2, <2>3 DEF GetInt
  <2>5. GetInt(s) = At(TRUE, SubSeq(s.rest, (k + 1) + 1, Len(s.rest)), Append(s.got, Decode64(s.rest)))
    BY <2>4, TakeIs
  <2> QED BY <1>2, <1>4, <2>1, <2>5
<1>5. ASSUME NEW u \in ByteString \ {<<>>}, s.ok, s.rest \o u = x
      PROVE  IsRefused(GetInt(s))
  <2>1. s.rest \in Seq(0 .. Byte - 1) /\ u \in Seq(0 .. Byte - 1)
    BY <1>5 DEF IsStream, ByteString
  <2>2. Len(s.rest) < Len(x) /\ Len(s.rest) \in Nat
    <3>1. Len(s.rest \o u) = Len(s.rest) + Len(u) /\ Len(u) > 0 /\ Len(u) \in Nat
      BY <2>1
    <3> QED BY <1>5, <2>1, <3>1
  <2>3. CASE s.rest = <<>>
    <3>1. GetInt(s) = Refused(s)
      BY <2>3 DEF GetInt
    <3> QED BY <3>1, RefusedIs
  <2>4. CASE s.rest # <<>>
    <3>1. 1 \in 1 .. Len(s.rest)
      BY <2>1, <2>4
    <3>2. s.rest[1] = x[1]
      <4>1. (s.rest \o u)[1] = s.rest[1]
        BY <2>1, <3>1, Prefixed
      <4> QED BY <1>5, <4>1
    <3>3. size > Len(s.rest)
      BY <1>2, <2>2, <3>2
    <3>4. GetInt(s) = Refused(s)
      BY <3>3 DEF GetInt
    <3> QED BY <3>4, RefusedIs
  <2> QED BY <2>3, <2>4
<1> QED BY <1>3, <1>4, <1>5 DEF Running

\* So is a number of an unsigned type.
LEMMA IntReads ==
  ASSUME NEW s, NEW n \in RegisterNumber
  PROVE  PutInt(n) \in ByteString /\ Reads(s, GetInt(s), PutInt(n), n)
<1>1. ToRegister(n) = n
  BY SignedStands
<1> QED BY <1>1, IntType, RegisterReads DEF PutInt

\* The bytes whose number was read.
LEMMA SizedReads ==
  ASSUME NEW s, NEW b \in ByteString, s.ok => s.got = <<Len(b)>>
  PROVE  Reads(s, GetSized(s), b, b)
<1> SUFFICES ASSUME IsStream(s) PROVE Running(s, GetSized(s), b, Append(s.got, b))
  BY DEF Reads
<1>1. s.ok => Last(s.got) = Len(b)
  <2>1. \A n : Last(<<n>>) = n
    BY DEF Last
  <2> QED BY <2>1
<1>2. b \in Seq(0 .. Byte - 1) /\ Len(b) \in Nat
  BY DEF ByteString
<1>3. ASSUME ~s.ok PROVE IsRefused(GetSized(s))
  BY <1>3, RefusedIs DEF GetSized
<1>4. ASSUME NEW t \in ByteString, s.ok, s.rest = b \o t
      PROVE  GetSized(s) = At(TRUE, t, Append(s.got, b))
  <2>0. t \in Seq(0 .. Byte - 1) /\ Len(t) \in Nat
    BY DEF ByteString
  <2>1. /\ Len(b \o t) = Len(b) + Len(t)
        /\ SubSeq(b \o t, Len(b) + 1, Len(b \o t)) = t
    BY <1>2, <2>0, Prefixed
  <2>2. SubSeq(b \o t, 1, Len(b)) = b
    <3>1. SubSeq(b \o t, 1, Len(b)) = SubSeq(b, 1, Len(b))
      BY <1>2, <2>0, Prefixed
    <3> QED BY <1>2, <3>1, SubSeqFull
  <2>3. GetSized(s) = Take(s, Len(b), b)
    <3>1. Last(s.got) = Len(b) /\ Len(b) <= Len(s.rest)
      BY <1>1, <1>2, <1>4, <2>0, <2>1
    <3>2. SubSeq(s.rest, 1, Last(s.got)) = b
      BY <1>4, <2>2, <3>1
    <3> QED BY <1>4, <3>1, <3>2 DEF GetSized
  <2>4. GetSized(s) = At(TRUE, SubSeq(s.rest, Len(b) + 1, Len(s.rest)), Append(s.got, b))
    BY <2>3, TakeIs
  <2> QED BY <1>4, <2>1, <2>4
<1>5. ASSUME NEW u \in ByteString \ {<<>>}, s.ok, s.rest \o u = b
      PROVE  IsRefused(GetSized(s))
  <2>1. s.rest \in Seq(0 .. Byte - 1) /\ u \in Seq(0 .. Byte - 1)
    BY <1>5 DEF IsStream, ByteString
  <2>2. Len(s.rest) < Len(b) /\ Len(s.rest) \in Nat
    <3>1. Len(s.rest \o u) = Len(s.rest) + Len(u) /\ Len(u) > 0 /\ Len(u) \in Nat
      BY <2>1
    <3> QED BY <1>5, <2>1, <3>1
  <2>3. ~(Last(s.got) <= Len(s.rest))
    BY <1>1, <1>2, <1>5, <2>2
  <2>4. GetSized(s) = Refused(s)
    BY <2>3 DEF GetSized
  <2> QED BY <2>4, RefusedIs
<1> QED BY <1>3, <1>4, <1>5 DEF Running

\* The first read of an object.
LEMMA RunningFirst ==
  ASSUME NEW s, IsStream(s), NEW out, NEW x \in ByteString, NEW v,
         Reads(Fresh(s), out, x, v)
  PROVE  Running(Fresh(s), out, x, <<v>>)
<1>1. IsStream(Fresh(s)) /\ Fresh(s).got = <<>>
  BY FreshIsStream
<1>2. Append(<<>>, v) = <<v>>
  OBVIOUS
<1> QED BY <1>1, <1>2 DEF Reads

\* Concatenations of bytes are bytes.
LEMMA BytesConcat ==
  ASSUME NEW x \in ByteString, NEW y \in ByteString
  PROVE  x \o y \in ByteString
  BY DEF ByteString

\* A string is read back.
LEMMA BytesRead ==
  ASSUME NEW s, NEW b, Sized(b)
  PROVE  PutBytes(b) \in ByteString /\ Reads(s, GetBytes(s), PutBytes(b), b)
<1>1. b \in ByteString /\ Len(b) \in RegisterNumber
  BY ByteType DEF Sized, ByteString, RegisterNumber
<1>2. PutBytes(b) = PutInt(Len(b)) \o b /\ PutBytes(b) \in ByteString
  BY <1>1, IntReads, BytesConcat DEF PutBytes
<1> DEFINE first == GetInt(Fresh(s))
           is == GetSized(first)
           n == Len(b)
<1>3. ASSUME IsStream(s) PROVE Running(Fresh(s), is, PutBytes(b), <<n, b>>)
  <2>1. IsStream(Fresh(s))
    BY <1>3, FreshIsStream
  <2>2. PutInt(n) \in ByteString /\ Reads(Fresh(s), first, PutInt(n), n)
    <3> HIDE DEF n
    <3> QED BY <1>1, IntReads DEF n
  <2>3. Running(Fresh(s), first, PutInt(n), <<n>>)
    <3> HIDE DEF first, n
    <3> QED BY <1>3, <2>2, RunningFirst
  <2>4. (first.ok => first.got = <<n>>) => Reads(first, is, b, b)
    <3> HIDE DEF first
    <3> QED BY <1>1, SizedReads
  <2>5. Running(Fresh(s), is, PutInt(n) \o b, Append(<<n>>, b))
    <3> HIDE DEF first, is, n
    <3> QED BY <1>1, <2>1, <2>2, <2>3, <2>4, RunningReads
  <2>6. Append(<<n>>, b) = <<n, b>>
    BY Append1
  <2> QED BY <1>2, <2>5, <2>6
<1>4. MadeOf(GetBytes(s), s, is, Last(is.got))
  BY DEF GetBytes, Made, MadeOf
<1>5. is.ok /\ is.got = <<n, b>> => Last(is.got) = b
  BY DEF Last
<1> HIDE DEF is, n
<1>6. Reads(s, GetBytes(s), PutBytes(b), b)
  BY <1>2, <1>3, <1>4, <1>5, MadeReads
<1> QED BY <1>2, <1>6

-----------------------------------------------------------------------------
(* Objects of a fixed number of values.                                      *)

\* A number of a signed type.
LEMMA SignedReads ==
  ASSUME NEW s, NEW n \in SignedNumber
  PROVE  PutInt(n) \in ByteString /\ Reads(s, GetSigned(s), PutInt(n), n)
<1> DEFINE r == ToRegister(n)
           is == GetInt(Fresh(s))
<1>1. r \in RegisterNumber /\ Signed(r) = n /\ PutInt(n) = Encode64(r)
  BY SignedStands DEF PutInt
<1> HIDE DEF r
<1>2. Encode64(r) \in ByteString /\ Reads(Fresh(s), is, Encode64(r), r)
  BY <1>1, IntType, RegisterReads
<1>3. MadeOf(GetSigned(s), s, is, Signed(is.got[1]))
  BY DEF GetSigned, Made, MadeOf
<1> HIDE DEF is
<1>4. ASSUME IsStream(s) PROVE Running(Fresh(s), is, Encode64(r), <<r>>)
  BY <1>2, <1>4, RunningFirst
<1>5. is.ok /\ is.got = <<r>> => Signed(is.got[1]) = n
  BY <1>1
<1>6. Reads(s, GetSigned(s), Encode64(r), n)
  BY <1>2, <1>3, <1>4, <1>5, MadeReads
<1> QED BY <1>1, <1>2, <1>6

LEMMA AmountParts ==
  ASSUME NEW a \in AmountNumber
  PROVE  a.integral \in SignedNumber /\ a.fraction \in RegisterNumber
         /\ a = Amt(a.integral, a.fraction)
<1>1. /\ a.integral \in MinInt .. MaxInt /\ a.fraction \in 0 .. F - 1
      /\ a = [integral |-> a.integral, fraction |-> a.fraction]
  BY DEF AmountNumber
<1>2. /\ MaxInt \in Nat /\ MinInt = -MaxInt - 1 /\ F <= Register /\ 2 * (MaxInt + 1) < Register
  BY AmountAssumption, CodecAssumption
<1>3. Register \in Nat /\ Register = 2 * (Register \div 2) /\ Register \div 2 \in Nat
  BY ByteType
<1>4. F \in Int
  BY AmountAssumption, PowerPositive DEF F
<1>5. a.integral \in SignedNumber
  BY <1>1, <1>2, <1>3 DEF SignedNumber
<1>6. a.fraction \in RegisterNumber
  BY <1>1, <1>2, <1>3, <1>4 DEF RegisterNumber
<1> QED BY <1>1, <1>5, <1>6 DEF Amt

LEMMA AmountReads ==
  ASSUME NEW s, NEW a \in AmountNumber
  PROVE  PutAmount(a) \in ByteString /\ Reads(s, GetAmount(s), PutAmount(a), a)
<1> DEFINE i == a.integral
           f == a.fraction
           first == GetSigned(Fresh(s))
           is == GetInt(first)
<1>1. i \in SignedNumber /\ f \in RegisterNumber /\ a = Amt(i, f)
  BY AmountParts
<1>2. PutAmount(a) = PutInt(i) \o PutInt(f)
  BY DEF PutAmount
<1>3. MadeOf(GetAmount(s), s, is, Amt(is.got[1], is.got[2]))
  BY DEF GetAmount, Made, MadeOf
<1> HIDE DEF i, f
<1>4. PutInt(i) \in ByteString /\ Reads(Fresh(s), first, PutInt(i), i)
  BY <1>1, SignedReads
<1>5. PutInt(f) \in ByteString /\ Reads(first, is, PutInt(f), f)
  BY <1>1, IntReads
<1> HIDE DEF first, is
<1>6. PutAmount(a) \in ByteString
  BY <1>2, <1>4, <1>5, BytesConcat
<1>7. ASSUME IsStream(s) PROVE Running(Fresh(s), is, PutAmount(a), <<i, f>>)
  <2>1. IsStream(Fresh(s))
    BY <1>7, FreshIsStream
  <2>2. Running(Fresh(s), first, PutInt(i), <<i>>)
    BY <1>4, <1>7, RunningFirst
  <2>3. Running(Fresh(s), is, PutInt(i) \o PutInt(f), Append(<<i>>, f))
    BY <1>4, <1>5, <2>1, <2>2, RunningReads
  <2> QED BY <1>2, <2>3, Append1
<1>8. is.ok /\ is.got = <<i, f>> => Amt(is.got[1], is.got[2]) = a
  BY <1>1
<1>9. Reads(s, GetAmount(s), PutAmount(a), a)
  BY <1>3, <1>6, <1>7, <1>8, MadeReads
<1> QED BY <1>6, <1>9

\* The identifier of a transaction.
LEMMA IdReads ==
  ASSUME NEW s, NEW h, Sized(h), NEW n \in RegisterNumber
  PROVE  LET both == [hash |-> h, index |-> n]
         IN  PutId(both) \in ByteString /\ Reads(s, GetId(s), PutId(both), both)
<1> DEFINE v == [hash |-> h, index |-> n]
           first == GetBytes(Fresh(s))
           is == GetInt(first)
<1>1. PutId(v) = PutBytes(h) \o PutInt(n)
  BY DEF PutId, PutHash
<1>2. MadeOf(GetId(s), s, is, [hash |-> is.got[1], index |-> is.got[2]])
  BY DEF GetId, Made, MadeOf
<1>3. PutBytes(h) \in ByteString /\ Reads(Fresh(s), first, PutBytes(h), h)
  BY BytesRead
<1>4. PutInt(n) \in ByteString /\ Reads(first, is, PutInt(n), n)
  BY IntReads
<1> HIDE DEF first, is
<1>5. PutId(v) \in ByteString
  BY <1>1, <1>3, <1>4, BytesConcat
<1>6. ASSUME IsStream(s) PROVE Running(Fresh(s), is, PutId(v), <<h, n>>)
  <2>1. IsStream(Fresh(s))
    BY <1>6, FreshIsStream
  <2>2. Running(Fresh(s), first, PutBytes(h), <<h>>)
    BY <1>3, <1>6, RunningFirst
  <2>3. Running(Fresh(s), is, PutBytes(h) \o PutInt(n), Append(<<h>>, n))
    BY <1>3, <1>4, <2>1, <2>2, RunningReads
  <2> QED BY <1>1, <2>3, Append1
<1>7. is.ok /\ is.got = <<h, n>> => [hash |-> is.got[1], index |-> is.got[2]] = v
  OBVIOUS
<1> HIDE DEF v
<1>8. Reads(s, GetId(s), PutId(v), v)
  BY <1>2, <1>5, <1>6, <1>7, MadeReads
<1> QED BY <1>5, <1>8 DEF v

-----------------------------------------------------------------------------
(* User fields.                                                              *)

ValidField(f) == WellFormed(f) /\ FieldIsValid(f)

LEMMA TypeCodes ==
  /\ TypeCode.Integer = 1 /\ TypeCode.String = 2 /\ TypeCode.Amount = 3
  /\ 1 \in RegisterNumber /\ 2 \in RegisterNumber /\ 3 \in RegisterNumber
<1>1. TypeCode.Integer = 1 /\ TypeCode.String = 2 /\ TypeCode.Amount = 3
  BY DEF TypeCode
<1>2. Register \in Nat /\ Register > 3
  BY ByteType, CodecAssumption, AmountAssumption
<1> QED BY <1>1, <1>2 DEF RegisterNumber

\* A value is read as its type calls for.
LEMMA TypedReads ==
  ASSUME NEW s, NEW out, NEW x, NEW v, Reads(s, out, x, v),
         s.ok => GetTyped(s) = out
  PROVE  Reads(s, GetTyped(s), x, v)
<1> SUFFICES ASSUME IsStream(s) PROVE Running(s, GetTyped(s), x, Append(s.got, v))
  BY DEF Reads
<1>1. CASE s.ok
  BY <1>1 DEF Reads
<1>2. CASE ~s.ok
  <2>1. IsRefused(GetTyped(s))
    BY <1>2, RefusedIs DEF GetTyped
  <2> QED BY <1>2, <2>1 DEF Running
<1> QED BY <1>1, <1>2

\* A field is its type and its value.
LEMMA FieldOfParts ==
  ASSUME NEW s, NEW f, NEW code \in RegisterNumber, NEW bytes \in ByteString, NEW v,
         PutField(f) = PutInt(code) \o bytes,
         LET first == GetInt(Fresh(s))
         IN  (first.ok => first.got = <<code>>) => Reads(first, GetTyped(first), bytes, v),
         AsField(<<code, v>>) = f
  PROVE  PutField(f) \in ByteString /\ Reads(s, GetField(s), PutField(f), f)
<1> DEFINE first == GetInt(Fresh(s))
           is == GetTyped(first)
<1>1. (first.ok => first.got = <<code>>) => Reads(first, is, bytes, v)
  OBVIOUS
<1>2. MadeOf(GetField(s), s, is, AsField(is.got))
  BY DEF GetField, Made, MadeOf
<1>3. PutInt(code) \in ByteString /\ Reads(Fresh(s), first, PutInt(code), code)
  BY IntReads
<1> HIDE DEF first, is
<1>4. PutField(f) \in ByteString
  BY <1>3, BytesConcat
<1>5. ASSUME IsStream(s) PROVE Running(Fresh(s), is, PutField(f), <<code, v>>)
  <2>1. IsStream(Fresh(s))
    BY <1>5, FreshIsStream
  <2>2. Running(Fresh(s), first, PutInt(code), <<code>>)
    BY <1>3, <1>5, RunningFirst
  <2>3. Running(Fresh(s), is, PutInt(code) \o bytes, Append(<<code>>, v))
    BY <1>1, <1>3, <2>1, <2>2, RunningReads
  <2> QED BY <2>3, Append1
<1>6. is.ok /\ is.got = <<code, v>> => AsField(is.got) = f
  OBVIOUS
<1>7. Reads(s, GetField(s), PutField(f), f)
  BY <1>2, <1>4, <1>5, <1>6, MadeReads
<1> QED BY <1>4, <1>7

LEMMA FieldReads ==
  ASSUME NEW s, NEW f, ValidField(f)
  PROVE  PutField(f) \in ByteString /\ Reads(s, GetField(s), PutField(f), f)
<1> DEFINE first == GetInt(Fresh(s))
<1>1. CASE f.integer \in 0 .. Register - 1 /\ f = UserField("Integer", f.integer, <<>>, Zero)
  <2> DEFINE v == f.integer
  <2>1. v \in RegisterNumber /\ f.type = "Integer"
    BY <1>1 DEF RegisterNumber, UserField
  <2>2. PutField(f) = PutInt(1) \o PutInt(v)
    BY <2>1, TypeCodes DEF PutField
  <2>3. AsField(<<1, v>>) = f
    BY <1>1, TypeCodes DEF AsField
  <2>4. ASSUME first.ok => first.got = << 1 >> PROVE Reads(first, GetTyped(first), PutInt(v), v)
    <3>1. Reads(first, GetInt(first), PutInt(v), v)
      BY <2>1, IntReads
    <3>2. first.ok => GetTyped(first) = GetInt(first)
      BY <2>4, TypeCodes DEF GetTyped
    <3> HIDE DEF first, v
    <3> QED BY <3>1, <3>2, TypedReads
  <2>5. PutInt(v) \in ByteString
    BY <2>1, IntReads
  <2> HIDE DEF v
  <2> QED BY <2>2, <2>3, <2>4, <2>5, TypeCodes, FieldOfParts
<1>2. CASE Sized(f.string) /\ f = UserField("String", 0, f.string, Zero)
  <2> DEFINE v == f.string
  <2>1. Sized(v) /\ f.type = "String"
    BY <1>2 DEF UserField
  <2>2. PutField(f) = PutInt(2) \o PutBytes(v)
    BY <2>1, TypeCodes DEF PutField
  <2>3. AsField(<<2, v>>) = f
    BY <1>2, TypeCodes DEF AsField
  <2>4. ASSUME first.ok => first.got = << 2 >> PROVE Reads(first, GetTyped(first), PutBytes(v), v)
    <3>1. Reads(first, GetBytes(first), PutBytes(v), v)
      BY <2>1, BytesRead
    <3>2. first.ok => GetTyped(first) = GetBytes(first)
      BY <2>4, TypeCodes DEF GetTyped
    <3> HIDE DEF first, v
    <3> QED BY <3>1, <3>2, TypedReads
  <2>5. PutBytes(v) \in ByteString
    BY <2>1, BytesRead
  <2> HIDE DEF v
  <2> QED BY <2>2, <2>3, <2>4, <2>5, TypeCodes, FieldOfParts
<1>3. CASE f.amount \in AmountNumber /\ f = UserField("Amount", 0, <<>>, f.amount)
  <2> DEFINE v == f.amount
  <2>1. v \in AmountNumber /\ f.type = "Amount"
    BY <1>3 DEF UserField
  <2>2. PutField(f) = PutInt(3) \o PutAmount(v)
    BY <2>1, TypeCodes DEF PutField
  <2>3. AsField(<<3, v>>) = f
    BY <1>3, TypeCodes DEF AsField
  <2>4. ASSUME first.ok => first.got = << 3 >> PROVE Reads(first, GetTyped(first), PutAmount(v), v)
    <3>1. Reads(first, GetAmount(first), PutAmount(v), v)
      BY <2>1, AmountReads
    <3>2. first.ok => GetTyped(first) = GetAmount(first)
      BY <2>4, TypeCodes DEF GetTyped
    <3> HIDE DEF first, v
    <3> QED BY <3>1, <3>2, TypedReads
  <2>5. PutAmount(v) \in ByteString
    BY <2>1, AmountReads
  <2> HIDE DEF v
  <2> QED BY <2>2, <2>3, <2>4, <2>5, TypeCodes, FieldOfParts
<1>4. f # Unknown
  BY DEF ValidField, FieldIsValid, Unknown, UserField
<1> QED BY <1>1, <1>2, <1>3, <1>4 DEF ValidField, WellFormed

\* An entry of a map is its key and its field.
LEMMA EntryReads ==
  ASSUME NEW s, NEW k \in SignedNumber, NEW f, ValidField(f)
  PROVE  /\ PutInt(k) \o PutField(f) \in ByteString
         /\ Reads(s, GetEntry(s), PutInt(k) \o PutField(f), <<k, f>>)
<1> DEFINE first == GetSigned(Fresh(s))
           is == GetField(first)
           x == PutInt(k) \o PutField(f)
<1>1. MadeOf(GetEntry(s), s, is, is.got)
  BY DEF GetEntry, Made, MadeOf
<1>2. PutInt(k) \in ByteString /\ Reads(Fresh(s), first, PutInt(k), k)
  BY SignedReads
<1>3. PutField(f) \in ByteString /\ Reads(first, is, PutField(f), f)
  BY FieldReads
<1> HIDE DEF first, is
<1>4. x \in ByteString
  BY <1>2, <1>3, BytesConcat
<1>5. ASSUME IsStream(s) PROVE Running(Fresh(s), is, x, <<k, f>>)
  <2>1. IsStream(Fresh(s))
    BY <1>5, FreshIsStream
  <2>2. Running(Fresh(s), first, PutInt(k), <<k>>)
    BY <1>2, <1>5, RunningFirst
  <2>3. Running(Fresh(s), is, PutInt(k) \o PutField(f), Append(<<k>>, f))
    BY <1>2, <1>3, <2>1, <2>2, RunningReads
  <2> QED BY <2>3, Append1
<1> HIDE DEF x
<1>6. Reads(s, GetEntry(s), x, <<k, f>>)
  BY <1>1, <1>4, <1>5, MadeReads
<1> QED BY <1>4, <1>6 DEF x

-----------------------------------------------------------------------------
(* Objects of many values.                                                   *)

\* The concatenation of sequences, piece by piece.
Flattens(seqs, n, flat) ==
  /\ flat[0] = <<>>
  /\ \A i \in 1 .. n : flat[i] = flat[i - 1] \o seqs[i]

Pieces(T, n, seqs) == seqs = [i \in 1 .. n |-> seqs[i]] /\ \A i \in 1 .. n : seqs[i] \in Seq(T)
Flattened(T, n, seqs) ==
  \E flat \in [0 .. n -> Seq(T)] : Flattens(seqs, n, flat) /\ FlattenSeq(seqs) = flat[n]

LEMMA NextUpTo ==
  ASSUME NEW n \in Nat, NEW i \in Nat, i + 1 <= n
  PROVE  i + 1 \in 1 .. n /\ (i + 1) - 1 = i /\ i \in 0 .. n
  OBVIOUS

LEMMA FlattenGrows ==
  ASSUME NEW T, NEW n \in Nat, NEW seqs, Pieces(T, n, seqs)
  PROVE  Flattened(T, n, seqs)
<1> SUFFICES \E flat \in [0 .. n -> Seq(T)] : Flattens(seqs, n, flat) /\ FlattenSeq(seqs) = flat[n]
  BY DEF Flattened
<1>a. seqs = [i \in 1 .. n |-> seqs[i]] /\ \A i \in 1 .. n : seqs[i] \in Seq(T)
  BY DEF Pieces
<1>0. Len(seqs) = n /\ DOMAIN seqs = 1 .. n
  <2>1. seqs \in Seq({seqs[i] : i \in 1 .. n})
    BY <1>a
  <2>2. DOMAIN seqs = 1 .. n
    BY <1>a
  <2> QED BY <2>1, <2>2
<1> DEFINE piece == [i \in Nat |-> IF i \in 1 .. n THEN seqs[i] ELSE <<>>]
           g == [p \in Nat \X Seq(T) |-> p[2] \o piece[p[1]]]
<1>1. \A i \in Nat : piece[i] \in Seq(T)
  BY <1>a
<1> HIDE DEF piece
<1>2. g \in [Nat \X Seq(T) -> Seq(T)]
  <2>1. \A p \in Nat \X Seq(T) : p[2] \in Seq(T) /\ piece[p[1]] \in Seq(T)
    BY <1>1
  <2>2. \A a, b \in Seq(T) : a \o b \in Seq(T)
    OBVIOUS
  <2> QED BY <2>1, <2>2
<1>3. PICK f \in [0 .. n -> Seq(T)] : IteratesUpTo(n, f, <<>>, g)
  <2> HIDE DEF g
  <2>1. <<>> \in Seq(T)
    OBVIOUS
  <2> DEFINE Q == Seq(T)
  <2>2. <<>> \in Q /\ g \in [Nat \X Q -> Q]
    BY <1>2, <2>1
  <2> HIDE DEF Q
  <2>3. \E f \in [0 .. n -> Q] : IteratesUpTo(n, f, <<>>, g)
    BY <2>2, IterationUpTo
  <2> QED BY <2>3 DEF Q
<1>4. f[0] = <<>> /\ \A i \in 1 .. n : f[i] = f[i - 1] \o seqs[i]
  <2>1. f[0] = <<>>
    BY <1>3 DEF IteratesUpTo
  <2>2. \A i \in 1 .. n : f[i] = f[i - 1] \o seqs[i]
    <3> SUFFICES ASSUME NEW i \in 1 .. n PROVE f[i] = f[i - 1] \o seqs[i]
      OBVIOUS
    <3>1. i \in Nat /\ i \in 0 .. n /\ i # 0 /\ f[i - 1] \in Seq(T)
      OBVIOUS
    <3>2. f[i] = g[<<i, f[i - 1]>>]
      <4> HIDE DEF g
      <4> QED BY <1>3, <3>1 DEF IteratesUpTo
    <3>3. g[<<i, f[i - 1]>>] = f[i - 1] \o piece[i]
      BY <3>1
    <3>4. piece[i] = seqs[i]
      BY <3>1 DEF piece
    <3> QED BY <3>2, <3>3, <3>4
  <2> QED BY <2>1, <2>2
<1>5. CASE n = 0
  <2>1. seqs = <<>>
    BY <1>0, <1>5
  <2>2. FlattenSeq(seqs) = seqs
    BY <1>0, <1>5 DEF FlattenSeq
  <2>3. f[n] = <<>>
    BY <1>4, <1>5
  <2> QED BY <1>4, <2>1, <2>2, <2>3 DEF Flattens
<1>6. CASE n # 0
  <2> DEFINE Eq(h) == h = [i \in 1 .. n |-> IF i = 1 THEN seqs[i] ELSE h[i - 1] \o seqs[i]]
             flatten == CHOOSE h : Eq(h)
             mine == [i \in 1 .. n |-> f[i]]
             whole == [i \in 0 .. n |-> IF i = 0 THEN <<>> ELSE flatten[i]]
  <2>1. Eq(mine)
    <3> SUFFICES ASSUME NEW i \in 1 .. n
                 PROVE  f[i] = IF i = 1 THEN seqs[i] ELSE mine[i - 1] \o seqs[i]
      OBVIOUS
    <3>1. CASE i = 1
      <4>1. f[1] = f[0] \o seqs[1]
        <5>1. 1 \in 1 .. n /\ 1 - 1 = 0
          BY <3>1
        <5>2. f[1] = f[1 - 1] \o seqs[1]
          BY <1>4, <5>1
        <5> QED BY <5>1, <5>2
      <4>2. <<>> \o seqs[1] = seqs[1]
        BY <3>1, ConcatEmptySeq
      <4> QED BY <1>4, <3>1, <4>1, <4>2
    <3>2. CASE i # 1
      <4>1. i - 1 \in 1 .. n
        BY <3>2
      <4> QED BY <1>4, <3>2, <4>1
    <3> QED BY <3>1, <3>2
  <2>2. Eq(flatten)
    <3> HIDE DEF Eq, mine
    <3> QED BY <2>1
  <2>3. FlattenSeq(seqs) = flatten[n]
    <3> HIDE DEF flatten
    <3> QED BY <1>0, <1>6 DEF FlattenSeq, flatten
  <2>4. \A i \in 1 .. n : flatten[i] = IF i = 1 THEN seqs[i] ELSE flatten[i - 1] \o seqs[i]
    <3> HIDE DEF flatten
    <3> QED BY <2>2, Zenon
  <2> HIDE DEF flatten
  <2>5. \A i \in 1 .. n : whole[i] = whole[i - 1] \o seqs[i]
    <3> SUFFICES ASSUME NEW i \in 1 .. n PROVE whole[i] = whole[i - 1] \o seqs[i]
      OBVIOUS
    <3>1. whole[i] = flatten[i] /\ i - 1 \in 0 .. n
      OBVIOUS
    <3>2. CASE i = 1
      <4>1. <<>> \o seqs[1] = seqs[1]
        BY <3>2, ConcatEmptySeq
      <4>2. whole[i - 1] = <<>>
        BY <3>2
      <4> QED BY <2>4, <3>1, <3>2, <4>1, <4>2
    <3>3. CASE i # 1
      <4>1. whole[i - 1] = flatten[i - 1]
        BY <3>3
      <4> QED BY <2>4, <3>1, <3>3, <4>1
    <3> QED BY <3>2, <3>3
  <2>6. whole[0] = <<>> /\ whole[n] = flatten[n]
    BY <1>6
  <2>7. whole \in [0 .. n -> Seq(T)]
    <3> DEFINE P == {i \in Nat : i <= n => whole[i] \in Seq(T)}
    <3>1. DOMAIN whole = 0 .. n /\ whole = [i \in 0 .. n |-> whole[i]]
      OBVIOUS
    <3> HIDE DEF whole
    <3>2. 0 \in P
      <4>1. whole[0] \in Seq(T)
        BY <2>6
      <4> QED BY <4>1
    <3>3. \A i \in Nat : i \in P => i + 1 \in P
      <4> SUFFICES ASSUME NEW i \in Nat, i + 1 <= n, whole[i] \in Seq(T)
                   PROVE  whole[i + 1] \in Seq(T)
        OBVIOUS
      <4>1. i + 1 \in 1 .. n /\ (i + 1) - 1 = i
        BY NextUpTo
      <4>2. whole[i + 1] = whole[i] \o seqs[i + 1] /\ seqs[i + 1] \in Seq(T)
        BY <1>a, <2>5, <4>1
      <4> QED BY <4>2
    <3>4. Nat \subseteq P
      <4> HIDE DEF P
      <4> QED BY <3>2, <3>3, Induct
    <3>5. \A i \in 0 .. n : whole[i] \in Seq(T)
      BY <3>4
    <3> QED BY <3>1, <3>5
  <2>8. Flattens(seqs, n, whole)
    <3> HIDE DEF whole
    <3> QED BY <2>5, <2>6 DEF Flattens
  <2> HIDE DEF whole
  <2> QED BY <2>3, <2>6, <2>7, <2>8
<1> QED BY <1>5, <1>6

\* The values that are read one by one.
ReadsEach(n, after, xs, vals) ==
  \A i \in 1 .. n : xs[i] \in ByteString /\ Reads(after[i - 1], after[i], xs[i], vals[i])

LEMMA RunningReadsMany ==
  ASSUME NEW s, IsStream(s), s.got = <<>>, NEW n \in Nat, NEW after, NEW xs, NEW vals, NEW flat,
         after[0] = s, ReadsEach(n, after, xs, vals),
         flat \in [0 .. n -> ByteString], Flattens(xs, n, flat)
  PROVE  Running(s, after[n], flat[n], [i \in 1 .. n |-> vals[i]])
<1>a. \A i \in 1 .. n : xs[i] \in ByteString /\ Reads(after[i - 1], after[i], xs[i], vals[i])
  BY DEF ReadsEach
<1> DEFINE upTo(m) == [i \in 1 .. m |-> vals[i]]
           P == {i \in Nat : i <= n => Running(s, after[i], flat[i], upTo(i))}
           T == {vals[i] : i \in 1 .. n}
<1>1. 0 \in P
  <2>1. upTo(0) = <<>>
    OBVIOUS
  <2>2. Running(s, s, <<>>, <<>>)
    BY RunningStarts
  <2> HIDE DEF upTo
  <2> QED BY <2>1, <2>2 DEF Flattens
<1>2. \A i \in Nat : i \in P => i + 1 \in P
  <2> SUFFICES ASSUME NEW i \in Nat, i + 1 <= n, Running(s, after[i], flat[i], upTo(i))
               PROVE  Running(s, after[i + 1], flat[i + 1], upTo(i + 1))
    OBVIOUS
  <2>1. i + 1 \in 1 .. n /\ (i + 1) - 1 = i /\ i \in 0 .. n
    OBVIOUS
  <2>2. Reads(after[i], after[i + 1], xs[i + 1], vals[i + 1])
    BY <1>a, <2>1
  <2>3. flat[i + 1] = flat[i] \o xs[i + 1] /\ flat[i] \in ByteString /\ xs[i + 1] \in ByteString
    BY <1>a, <2>1 DEF Flattens
  <2>4. Append(upTo(i), vals[i + 1]) = upTo(i + 1)
    <3> DEFINE a == upTo(i)
               b == upTo(i + 1)
    <3>0. \A j \in 1 .. i + 1 : vals[j] \in T
      <4>1. \A j \in 1 .. i + 1 : j \in 1 .. n
        BY <2>1
      <4> QED BY <4>1
    <3>1. a \in Seq(T) /\ b \in Seq(T) /\ vals[i + 1] \in T
      <4> HIDE DEF T
      <4> QED BY <3>0
    <3>2. Len(a) = i /\ Len(b) = i + 1 /\ b[i + 1] = vals[i + 1]
      OBVIOUS
    <3>3. \A j \in 1 .. i : b[j] = a[j]
      OBVIOUS
    <3> HIDE DEF a, b, T
    <3>4. Append(a, vals[i + 1]) = b
      BY <3>1, <3>2, <3>3, AppendIs
    <3> QED BY <3>4 DEF a, b
  <2>5. Running(s, after[i + 1], flat[i] \o xs[i + 1], Append(upTo(i), vals[i + 1]))
    <3> HIDE DEF upTo
    <3> QED BY <2>2, <2>3, RunningReads
  <2> QED BY <2>3, <2>4, <2>5
<1>3. Nat \subseteq P
  <2> HIDE DEF P
  <2> QED BY <1>1, <1>2, Induct
<1> QED BY <1>3

\* As many reads as the count says, after the read of the count.
Several(n, xs, vals, x, v) ==
  x = PutInt(n) \o FlattenSeq(xs) /\ v = [i \in 1 .. n |-> vals[i]]
CountedAs(first, out, n, after) ==
  /\ after[0] = Fresh(first)
  /\ ~first.ok => out = Refused(first)
  /\ first.ok /\ first.got = <<n>> => out = after[n]

LEMMA CountedReads ==
  ASSUME NEW s, NEW first, NEW out, NEW n \in RegisterNumber, NEW after, NEW xs, NEW vals,
         NEW z, NEW w, Several(n, xs, vals, z, w),
         Reads(Fresh(s), first, PutInt(n), n), CountedAs(first, out, n, after),
         Pieces(0 .. Byte - 1, n, xs), ReadsEach(n, after, xs, vals)
  PROVE  z \in ByteString /\ (IsStream(s) => Running(Fresh(s), out, z, w))
<1>a. /\ after[0] = Fresh(first) /\ (~first.ok => out = Refused(first))
      /\ (first.ok /\ first.got = <<n>> => out = after[n])
  BY DEF CountedAs
<1> DEFINE g == [i \in 1 .. n |-> vals[i]]
<1>0. n \in Nat /\ PutInt(n) \in ByteString
  <2>1. n \in Nat
    BY ByteType DEF RegisterNumber
  <2> QED BY <2>1, IntReads
<1>1. PICK flat \in [0 .. n -> ByteString] : Flattens(xs, n, flat) /\ FlattenSeq(xs) = flat[n]
  <2>1. Flattened(0 .. Byte - 1, n, xs)
    BY <1>0, FlattenGrows
  <2> QED BY <2>1 DEF Flattened, ByteString
<1> DEFINE x == FlattenSeq(xs)
<1>2. x \in ByteString
  BY <1>0, <1>1
<1>3. ASSUME IsStream(first), first.ok => first.got = <<n>>
      PROVE  Running(first, out, x, g)
  <2>1. CASE ~first.ok
    <3>1. IsRefused(out)
      BY <1>a, <1>3, <2>1, RefusedIs
    <3> QED BY <2>1, <3>1 DEF Running
  <2>2. CASE first.ok
    <3>1. IsStream(Fresh(first)) /\ Fresh(first).got = <<>>
          /\ Fresh(first).ok = first.ok /\ Fresh(first).rest = first.rest
      BY <1>3, FreshIsStream
    <3>2. Running(Fresh(first), after[n], flat[n], g)
      BY <1>0, <1>1, <1>a, <3>1, RunningReadsMany
    <3>3. out = after[n]
      BY <1>a, <1>3, <2>2
    <3> HIDE DEF g, x
    <3>4. flat[n] = x
      BY <1>1 DEF x
    <3> QED BY <3>1, <3>2, <3>3, <3>4 DEF Running
  <2> QED BY <2>1, <2>2
<1> HIDE DEF x, g
<1>4. ASSUME IsStream(s) PROVE Running(Fresh(s), out, PutInt(n) \o x, g)
  <2>1. IsStream(Fresh(s))
    BY <1>4, FreshIsStream
  <2>2. Running(Fresh(s), first, PutInt(n), <<n>>)
    BY <1>0, <1>4, RunningFirst
  <2> QED BY <1>0, <1>2, <1>3, <2>1, <2>2, RunningGoesOn
<1>5. PutInt(n) \o x \in ByteString
  BY <1>0, <1>2, BytesConcat
<1> QED BY <1>4, <1>5 DEF x, g, Several

-----------------------------------------------------------------------------
(* The repeated reads of entries, and of transactions: that the functions    *)
(* exist which GetCounted names.                                             *)

EntriesAfter(f, n, s) == f = [i \in 0 .. n |-> IF i = 0 THEN s ELSE GetEntry(f[i - 1])]

LEMMA EntriesExist ==
  ASSUME NEW n \in Nat, NEW s
  PROVE  \E f : EntriesAfter(f, n, s)
<1> DEFINE P == {m \in Nat : \E f : EntriesAfter(f, m, s)}
<1>1. 0 \in P
  <2> DEFINE f == [i \in 0 .. 0 |-> s]
  <2>1. \A i \in 0 .. 0 : i = 0
    OBVIOUS
  <2>2. EntriesAfter(f, 0, s)
    BY <2>1 DEF EntriesAfter
  <2> HIDE DEF f
  <2> QED BY <2>2
<1>2. \A m \in Nat : m \in P => m + 1 \in P
  <2> SUFFICES ASSUME NEW m \in Nat, NEW f, EntriesAfter(f, m, s)
               PROVE  \E g : EntriesAfter(g, m + 1, s)
    OBVIOUS
  <2> DEFINE g == [i \in 0 .. m + 1 |-> IF i = m + 1 THEN GetEntry(f[m]) ELSE f[i]]
  <2>1. \A i \in 0 .. m : f[i] = IF i = 0 THEN s ELSE GetEntry(f[i - 1])
    BY Zenon DEF EntriesAfter
  <2>2. ASSUME NEW i \in 0 .. m + 1
        PROVE  g[i] = IF i = 0 THEN s ELSE GetEntry(g[i - 1])
    <3>1. CASE i = m + 1
      <4>1. i # 0 /\ i - 1 = m /\ m \in 0 .. m + 1 /\ m # m + 1
        BY <3>1
      <4> QED BY <3>1, <4>1
    <3>2. CASE i # m + 1
      <4>1. i \in 0 .. m /\ (i # 0 => i - 1 \in 0 .. m + 1 /\ i - 1 # m + 1)
        BY <3>2
      <4>2. g[i] = f[i] /\ (i # 0 => g[i - 1] = f[i - 1])
        BY <3>2, <4>1
      <4> HIDE DEF g
      <4> QED BY <2>1, <4>1, <4>2
    <3> QED BY <3>1, <3>2
  <2>3. g = [i \in 0 .. m + 1 |-> g[i]]
    OBVIOUS
  <2> HIDE DEF g
  <2>4. g = [i \in 0 .. m + 1 |-> IF i = 0 THEN s ELSE GetEntry(g[i - 1])]
    BY <2>2, <2>3, Zenon
  <2>5. EntriesAfter(g, m + 1, s)
    BY <2>4, Zenon DEF EntriesAfter
  <2> QED BY <2>5
<1>3. Nat \subseteq P
  <2> HIDE DEF P
  <2> QED BY <1>1, <1>2, Induct
<1> QED BY <1>3

TransactionsAfter(f, n, s) ==
  f = [i \in 0 .. n |-> IF i = 0 THEN s ELSE GetTransaction(f[i - 1])]

LEMMA TransactionsExist ==
  ASSUME NEW n \in Nat, NEW s
  PROVE  \E f : TransactionsAfter(f, n, s)
<1> DEFINE P == {m \in Nat : \E f : TransactionsAfter(f, m, s)}
<1>1. 0 \in P
  <2> DEFINE f == [i \in 0 .. 0 |-> s]
  <2>1. \A i \in 0 .. 0 : i = 0
    OBVIOUS
  <2>2. TransactionsAfter(f, 0, s)
    BY <2>1 DEF TransactionsAfter
  <2> HIDE DEF f
  <2> QED BY <2>2
<1>2. \A m \in Nat : m \in P => m + 1 \in P
  <2> SUFFICES ASSUME NEW m \in Nat, NEW f, TransactionsAfter(f, m, s)
               PROVE  \E g : TransactionsAfter(g, m + 1, s)
    OBVIOUS
  <2> DEFINE g == [i \in 0 .. m + 1 |-> IF i = m + 1 THEN GetTransaction(f[m]) ELSE f[i]]
  <2>1. \A i \in 0 .. m : f[i] = IF i = 0 THEN s ELSE GetTransaction(f[i - 1])
    BY Zenon DEF TransactionsAfter
  <2>2. ASSUME NEW i \in 0 .. m + 1
        PROVE  g[i] = IF i = 0 THEN s ELSE GetTransaction(g[i - 1])
    <3>1. CASE i = m + 1
      <4>1. i # 0 /\ i - 1 = m /\ m \in 0 .. m + 1 /\ m # m + 1
        BY <3>1
      <4> QED BY <3>1, <4>1
    <3>2. CASE i # m + 1
      <4>1. i \in 0 .. m /\ (i # 0 => i - 1 \in 0 .. m + 1 /\ i - 1 # m + 1)
        BY <3>2
      <4>2. g[i] = f[i] /\ (i # 0 => g[i - 1] = f[i - 1])
        BY <3>2, <4>1
      <4> HIDE DEF g
      <4> QED BY <2>1, <4>1, <4>2
    <3> QED BY <3>1, <3>2
  <2>3. g = [i \in 0 .. m + 1 |-> g[i]]
    OBVIOUS
  <2> HIDE DEF g
  <2>4. g = [i \in 0 .. m + 1 |-> IF i = 0 THEN s ELSE GetTransaction(g[i - 1])]
    BY <2>2, <2>3, Zenon
  <2>5. TransactionsAfter(g, m + 1, s)
    BY <2>4, Zenon DEF TransactionsAfter
  <2> QED BY <2>5
<1>3. Nat \subseteq P
  <2> HIDE DEF P
  <2> QED BY <1>1, <1>2, Induct
<1> QED BY <1>3

LEMMA EntriesRead ==
  ASSUME NEW s, NEW n \in RegisterNumber, NEW xs, NEW vals, NEW x, NEW v,
         Pieces(0 .. Byte - 1, n, xs), Several(n, xs, vals, x, v),
         \A i \in 1 .. n : \A t : xs[i] \in ByteString /\ Reads(t, GetEntry(t), xs[i], vals[i])
  PROVE  x \in ByteString /\ Reads(s, GetMany(s, GetEntry), x, v)
<1> DEFINE first == GetInt(Fresh(s))
           out == GetCounted(first, GetEntry)
           after == CHOOSE f : EntriesAfter(f, n, Fresh(first))
<1>0. n \in Nat
  BY ByteType DEF RegisterNumber
<1>1. PutInt(n) \in ByteString /\ Reads(Fresh(s), first, PutInt(n), n)
  BY IntReads
<1>2. EntriesAfter(after, n, Fresh(first))
  <2> HIDE DEF first
  <2>1. \E f : EntriesAfter(f, n, Fresh(first))
    BY <1>0, EntriesExist
  <2> QED BY <2>1
<1>3. ~first.ok => out = Refused(first)
  BY DEF GetCounted
<1>4. first.ok /\ first.got = <<n>> => out = after[n]
  <2> SUFFICES ASSUME first.ok, first.got = <<n>> PROVE out = after[n]
    OBVIOUS
  <2>1. Last(first.got) = n
    BY DEF Last
  <2> HIDE DEF first
  <2> QED BY <2>1 DEF GetCounted, EntriesAfter
<1>5. MadeOf(GetMany(s, GetEntry), s, out, out.got)
  BY DEF GetMany, Made, MadeOf
<1> HIDE DEF first, out, after
<1>6. after[0] = Fresh(first) /\ \A i \in 1 .. n : after[i] = GetEntry(after[i - 1])
  <2>1. \A i \in 0 .. n : after[i] = IF i = 0 THEN Fresh(first) ELSE GetEntry(after[i - 1])
    BY <1>2, Zenon DEF EntriesAfter
  <2>2. 0 \in 0 .. n /\ \A i \in 1 .. n : i \in 0 .. n /\ i # 0
    BY <1>0
  <2> QED BY <2>1, <2>2
<1>7. ReadsEach(n, after, xs, vals)
  BY <1>6 DEF ReadsEach
<1>8. CountedAs(first, out, n, after)
  BY <1>3, <1>4, <1>6 DEF CountedAs
<1>9. x \in ByteString /\ (IsStream(s) => Running(Fresh(s), out, x, v))
  BY <1>1, <1>7, <1>8, CountedReads
<1>10. Reads(s, GetMany(s, GetEntry), x, v)
  BY <1>5, <1>9, MadeReads
<1> QED BY <1>9, <1>10

LEMMA TransactionsRead ==
  ASSUME NEW s, NEW n \in RegisterNumber, NEW xs, NEW vals, NEW x, NEW v,
         Pieces(0 .. Byte - 1, n, xs), Several(n, xs, vals, x, v),
         \A i \in 1 .. n : \A t : xs[i] \in ByteString /\ Reads(t, GetTransaction(t), xs[i], vals[i])
  PROVE  x \in ByteString /\ Reads(s, GetMany(s, GetTransaction), x, v)
<1> DEFINE first == GetInt(Fresh(s))
           out == GetCounted(first, GetTransaction)
           after == CHOOSE f : TransactionsAfter(f, n, Fresh(first))
<1>0. n \in Nat
  BY ByteType DEF RegisterNumber
<1>1. PutInt(n) \in ByteString /\ Reads(Fresh(s), first, PutInt(n), n)
  BY IntReads
<1>2. TransactionsAfter(after, n, Fresh(first))
  <2> HIDE DEF first
  <2>1. \E f : TransactionsAfter(f, n, Fresh(first))
    BY <1>0, TransactionsExist
  <2> QED BY <2>1
<1>3. ~first.ok => out = Refused(first)
  BY DEF GetCounted
<1>4. first.ok /\ first.got = <<n>> => out = after[n]
  <2> SUFFICES ASSUME first.ok, first.got = <<n>> PROVE out = after[n]
    OBVIOUS
  <2>1. Last(first.got) = n
    BY DEF Last
  <2> HIDE DEF first
  <2> QED BY <2>1 DEF GetCounted, TransactionsAfter
<1>5. MadeOf(GetMany(s, GetTransaction), s, out, out.got)
  BY DEF GetMany, Made, MadeOf
<1> HIDE DEF first, out, after
<1>6. after[0] = Fresh(first) /\ \A i \in 1 .. n : after[i] = GetTransaction(after[i - 1])
  <2>1. \A i \in 0 .. n : after[i] = IF i = 0 THEN Fresh(first) ELSE GetTransaction(after[i - 1])
    BY <1>2, Zenon DEF TransactionsAfter
  <2>2. 0 \in 0 .. n /\ \A i \in 1 .. n : i \in 0 .. n /\ i # 0
    BY <1>0
  <2> QED BY <2>1, <2>2
<1>7. ReadsEach(n, after, xs, vals)
  BY <1>6 DEF ReadsEach
<1>8. CountedAs(first, out, n, after)
  BY <1>3, <1>4, <1>6 DEF CountedAs
<1>9. x \in ByteString /\ (IsStream(s) => Running(Fresh(s), out, x, v))
  BY <1>1, <1>7, <1>8, CountedReads
<1>10. Reads(s, GetMany(s, GetTransaction), x, v)
  BY <1>5, <1>9, MadeReads
<1> QED BY <1>9, <1>10

-----------------------------------------------------------------------------
(* Maps.                                                                     *)

Increasing(keys) == \A i, j \in DOMAIN keys : i < j => keys[i] < keys[j]

LEMMA GreatestKey ==
  ASSUME NEW m \in Int, NEW K, K # {}, \A k \in K : k \in Int /\ k <= m
  PROVE  \E g \in K : \A k \in K : k <= g
<1> DEFINE T == {m - k : k \in K}
<1>1. T \in SUBSET Nat /\ T # {}
  OBVIOUS
<1>2. PICK t \in T : \A u \in T : t <= u
  <2> HIDE DEF T
  <2> QED BY <1>1, LeastNumber
<1>3. PICK g \in K : t = m - g
  BY <1>2
<1>4. \A k \in K : m - g <= m - k
  BY <1>2, <1>3
<1>5. \A k \in K : k <= g
  <2> SUFFICES ASSUME NEW k \in K PROVE k <= g
    OBVIOUS
  <2>1. m - g <= m - k /\ k \in Int /\ g \in Int
    BY <1>4
  <2> QED BY <2>1
<1> QED BY <1>5

\* Keys can be put in order.
Ordered(K) == \E keys \in [1 .. Cardinality(K) -> K] : Increasing(keys)

LEMMA OrderExists ==
  ASSUME NEW a \in Int, NEW b \in Int, NEW K \in SUBSET (a .. b)
  PROVE  Ordered(K)
<1> DEFINE P == {n \in Nat : \A L \in SUBSET (a .. b) : Cardinality(L) = n =>
                   \E keys \in [1 .. n -> L] : Increasing(keys)}
<1>1. IsFiniteSet(a .. b)
  BY FS_Interval
<1>2. \A L \in SUBSET (a .. b) : IsFiniteSet(L) /\ Cardinality(L) \in Nat
  BY <1>1, FS_Subset, FS_CardinalityType
<1>3. 0 \in P
  <2> SUFFICES ASSUME NEW L \in SUBSET (a .. b)
               PROVE  \E keys \in [1 .. 0 -> L] : Increasing(keys)
    OBVIOUS
  <2> DEFINE keys == [i \in 1 .. 0 |-> a]
  <2>1. keys \in [1 .. 0 -> L]
    OBVIOUS
  <2>2. Increasing(keys)
    BY DEF Increasing
  <2> QED BY <2>1, <2>2
<1>4. \A n \in Nat : n \in P => n + 1 \in P
  <2> SUFFICES ASSUME NEW n \in Nat, n \in P, NEW L \in SUBSET (a .. b), Cardinality(L) = n + 1
               PROVE  \E keys \in [1 .. n + 1 -> L] : Increasing(keys)
    OBVIOUS
  <2>1. L # {} /\ IsFiniteSet(L)
    BY <1>2, FS_EmptySet
  <2>2. \A k \in L : k \in Int /\ k <= b
    OBVIOUS
  <2>3. PICK g \in L : \A k \in L : k <= g
    BY <2>1, <2>2, GreatestKey
  <2> DEFINE M == L \ {g}
  <2>4. Cardinality(M) = n /\ M \in SUBSET (a .. b)
    BY <2>1, FS_RemoveElement
  <2>5. PICK less \in [1 .. n -> M] : Increasing(less)
    <3> HIDE DEF M
    <3> QED BY <2>4
  <2> DEFINE keys == [i \in 1 .. n + 1 |-> IF i = n + 1 THEN g ELSE less[i]]
  <2>6. \A i \in 1 .. n + 1 : i # n + 1 => i \in 1 .. n
    OBVIOUS
  <2>7. keys \in [1 .. n + 1 -> L]
    BY <2>5, <2>6
  <2>8. ASSUME NEW i \in 1 .. n + 1, NEW j \in 1 .. n + 1, i < j
        PROVE  keys[i] < keys[j]
    <3>1. i \in 1 .. n /\ keys[i] = less[i]
      BY <2>8
    <3>2. less[i] \in M
      BY <2>5, <3>1
    <3>3. CASE j = n + 1
      <4>1. less[i] <= g /\ less[i] # g /\ less[i] \in Int /\ g \in Int
        BY <2>2, <2>3, <3>2
      <4> QED BY <3>1, <3>3, <4>1
    <3>4. CASE j # n + 1
      <4>1. j \in 1 .. n /\ keys[j] = less[j]
        BY <2>6, <3>4
      <4>2. less[i] < less[j]
        BY <2>5, <2>8, <3>1, <4>1 DEF Increasing
      <4> QED BY <3>1, <4>1, <4>2
    <3> QED BY <3>3, <3>4
  <2>9. DOMAIN keys = 1 .. n + 1
    OBVIOUS
  <2>10. Increasing(keys)
    <3> HIDE DEF keys
    <3> QED BY <2>8, <2>9 DEF Increasing
  <2> QED BY <2>7, <2>10
<1>5. Nat \subseteq P
  <2> HIDE DEF P
  <2> QED BY <1>3, <1>4, Induct
<1>6. Cardinality(K) \in P
  BY <1>2, <1>5
<1> QED BY <1>6 DEF Ordered

\* The user fields of an object.
FieldMap(fields) ==
  /\ fields = [k \in DOMAIN fields |-> fields[k]]
  /\ DOMAIN fields \in SUBSET (MinInt .. MaxInt)
  /\ \A k \in DOMAIN fields : ValidField(fields[k])

Numbered(fields, keys, n) ==
  /\ n \in RegisterNumber /\ n \in Nat
  /\ keys \in [1 .. n -> DOMAIN fields] /\ Len(keys) = n /\ DOMAIN keys = 1 .. n
  /\ \A i, j \in 1 .. n : keys[i] = keys[j] => i = j
  /\ \A k \in DOMAIN fields : \E i \in 1 .. n : keys[i] = k

\* Each key has its place.
LEMMA KeysAre ==
  ASSUME NEW fields, FieldMap(fields)
  PROVE  Numbered(fields, KeysInOrder(fields), Cardinality(DOMAIN fields))
<1> DEFINE D == DOMAIN fields
           keys == KeysInOrder(fields)
           n == Cardinality(D)
<1>0. /\ MaxInt \in Nat /\ MinInt \in Int /\ MinInt = -MaxInt - 1 /\ 2 * (MaxInt + 1) < Register
      /\ Register \in Nat
  BY AmountAssumption, CodecAssumption, ByteType
<1>1. D \in SUBSET (MinInt .. MaxInt)
  BY DEF FieldMap
<1>2. IsFiniteSet(D) /\ n \in Nat /\ n <= 2 * (MaxInt + 1)
  <2> DEFINE I == MinInt .. MaxInt
  <2>1. IsFiniteSet(I) /\ Cardinality(I) = IF MinInt > MaxInt THEN 0 ELSE MaxInt - MinInt + 1
    BY <1>0, FS_Interval
  <2>2. Cardinality(I) = 2 * (MaxInt + 1)
    <3> HIDE DEF I
    <3>1. MaxInt - MinInt + 1 = 2 * (MaxInt + 1) /\ ~(MinInt > MaxInt)
      BY <1>0
    <3> QED BY <2>1, <3>1
  <2> HIDE DEF I
  <2>3. D \in SUBSET I
    BY <1>1 DEF I
  <2>4. IsFiniteSet(D) /\ Cardinality(D) <= Cardinality(I)
    BY <2>1, <2>3, FS_Subset
  <2>5. n \in Nat
    BY <2>4, FS_CardinalityType
  <2> QED BY <2>2, <2>4, <2>5
<1>3. keys \in [1 .. n -> D] /\ Increasing(keys)
  <2>1. \E k \in [1 .. n -> D] : Increasing(k)
    <3>1. Ordered(D)
      <4>1. MinInt \in Int /\ MaxInt \in Int
        BY <1>0
      <4> HIDE DEF D
      <4> QED BY <1>1, <4>1, OrderExists, Zenon
    <3> QED BY <3>1 DEF Ordered
  <2> QED BY <2>1 DEF KeysInOrder, Increasing
<1> HIDE DEF keys, D, n
<1>4. \A i, j \in 1 .. n : keys[i] = keys[j] => i = j
  <2> SUFFICES ASSUME NEW i \in 1 .. n, NEW j \in 1 .. n, keys[i] = keys[j], i # j
               PROVE  FALSE
    OBVIOUS
  <2>1. DOMAIN keys = 1 .. n /\ keys[i] \in Int
    <3>1. keys[i] \in D /\ DOMAIN keys = 1 .. n
      BY <1>3
    <3>2. D \in SUBSET Int
      BY <1>0, <1>1
    <3> QED BY <3>1, <3>2
  <2>2. i < j \/ j < i
    BY <1>2
  <2>3. keys[i] < keys[j] \/ keys[j] < keys[i]
    BY <1>3, <2>1, <2>2 DEF Increasing
  <2> QED BY <2>1, <2>3
<1>5. \A k \in D : \E i \in 1 .. n : keys[i] = k
  <2>1. keys \in Injection(1 .. n, D)
    BY <1>3, <1>4 DEF Injection, IsInjective
  <2>2. IsFiniteSet(1 .. n) /\ Cardinality(1 .. n) = n
    <3>1. Cardinality(1 .. n) = IF 1 > n THEN 0 ELSE n - 1 + 1
      BY <1>2, FS_Interval
    <3> QED BY <1>2, <3>1, FS_Interval
  <2>3. keys \in Surjection(1 .. n, D)
    <3>1. Cardinality(1 .. n) = Cardinality(D)
      BY <2>2 DEF n
    <3> QED BY <1>2, <2>1, <3>1, FS_Injection
  <2> QED BY <2>3 DEF Surjection
<1>6. Len(keys) = n /\ DOMAIN keys = 1 .. n
  <2>1. DOMAIN keys = 1 .. n /\ keys \in Seq(D)
    BY <1>2, <1>3
  <2> QED BY <1>2, <2>1
<1>7. n \in RegisterNumber
  BY <1>0, <1>2 DEF RegisterNumber
<1> QED BY <1>2, <1>3, <1>4, <1>5, <1>6, <1>7 DEF Numbered, keys, D, n

\* The entries of a map make up the map.
LEMMA EmplacedIs ==
  ASSUME NEW fields, fields = [k \in DOMAIN fields |-> fields[k]],
         NEW keys, NEW n \in Nat, Numbered(fields, keys, n),
         NEW entries, entries = [i \in 1 .. n |-> <<keys[i], fields[keys[i]]>>]
  PROVE  Emplaced(entries) = fields
<1> DEFINE first(k) == CHOOSE i \in DOMAIN entries :
                         entries[i][1] = k /\ \A j \in 1 .. i - 1 : entries[j][1] # k
<1>1. /\ keys \in [1 .. n -> DOMAIN fields] /\ DOMAIN keys = 1 .. n
      /\ \A i, j \in 1 .. n : keys[i] = keys[j] => i = j
      /\ \A k \in DOMAIN fields : \E i \in 1 .. n : keys[i] = k
  BY DEF Numbered
<1>2. DOMAIN entries = 1 .. n
  OBVIOUS
<1>3. \A i \in 1 .. n : entries[i][1] = keys[i] /\ entries[i][2] = fields[keys[i]]
  OBVIOUS
<1>4. {entries[i][1] : i \in DOMAIN entries} = DOMAIN fields
  <2>1. ASSUME NEW i \in DOMAIN entries PROVE entries[i][1] \in DOMAIN fields
    BY <1>1, <1>2, <1>3
  <2>2. ASSUME NEW k \in DOMAIN fields PROVE \E i \in DOMAIN entries : entries[i][1] = k
    <3>1. PICK i \in 1 .. n : keys[i] = k
      BY <1>1
    <3>2. i \in DOMAIN entries /\ entries[i][1] = k
      BY <1>2, <1>3, <3>1
    <3> QED BY <3>2
  <2> HIDE DEF first
  <2> DEFINE L == {entries[i][1] : i \in DOMAIN entries}
  <2>3. \A k : k \in L <=> \E i \in DOMAIN entries : entries[i][1] = k
    OBVIOUS
  <2> HIDE DEF L
  <2>4. \A k : k \in L <=> k \in DOMAIN fields
    BY <2>1, <2>2, <2>3
  <2>5. L = DOMAIN fields
    BY <2>4
  <2> QED BY <2>5 DEF L
<1>5. ASSUME NEW k \in DOMAIN fields
      PROVE  entries[first(k)][2] = fields[k]
  <2>1. PICK i \in 1 .. n : keys[i] = k
    BY <1>1
  <2>2. \A j \in 1 .. i - 1 : entries[j][1] # k
    <3> SUFFICES ASSUME NEW j \in 1 .. i - 1, entries[j][1] = k PROVE FALSE
      OBVIOUS
    <3>1. j \in 1 .. n /\ j # i
      OBVIOUS
    <3>2. keys[j] = k
      BY <1>3, <3>1
    <3> QED BY <1>1, <2>1, <3>1, <3>2
  <2>3. i \in DOMAIN entries /\ entries[i][1] = k
    BY <1>2, <1>3, <2>1
  <2>4. first(k) \in DOMAIN entries /\ entries[first(k)][1] = k
    BY <2>2, <2>3
  <2> HIDE DEF first
  <2> QED BY <1>2, <1>3, <2>4
<1>6. Emplaced(entries) = [k \in {entries[i][1] : i \in DOMAIN entries} |-> entries[first(k)][2]]
  BY DEF Emplaced
<1>7. [k \in {entries[i][1] : i \in DOMAIN entries} |-> entries[first(k)][2]]
        = [k \in DOMAIN fields |-> fields[k]]
  <2> HIDE DEF first
  <2> QED BY <1>4, <1>5
<1> QED BY <1>6, <1>7

\* The user fields are read back.
LEMMA FieldsRead ==
  ASSUME NEW s, NEW fields, FieldMap(fields)
  PROVE  PutFields(fields) \in ByteString /\ Reads(s, GetFields(s), PutFields(fields), fields)
<1> DEFINE keys == KeysInOrder(fields)
           n == Cardinality(DOMAIN fields)
           xs == [i \in 1 .. n |-> PutInt(keys[i]) \o PutField(fields[keys[i]])]
           vals == [i \in 1 .. n |-> <<keys[i], fields[keys[i]]>>]
           x == PutFields(fields)
           is == GetMany(Fresh(s), GetEntry)
<1>1. Numbered(fields, keys, n)
  BY KeysAre
<1> HIDE DEF keys, n
<1>2. /\ n \in RegisterNumber /\ n \in Nat /\ Len(keys) = n /\ DOMAIN keys = 1 .. n
      /\ keys \in [1 .. n -> DOMAIN fields]
  BY <1>1 DEF Numbered
<1>3. ASSUME NEW i \in 1 .. n, NEW t
      PROVE  xs[i] \in ByteString /\ Reads(t, GetEntry(t), xs[i], vals[i])
  <2>1. keys[i] \in DOMAIN fields
    BY <1>2
  <2>2. keys[i] \in MinInt .. MaxInt /\ ValidField(fields[keys[i]])
    BY <2>1 DEF FieldMap
  <2>3. keys[i] \in SignedNumber
    <3>1. /\ MaxInt \in Nat /\ MinInt = -MaxInt - 1 /\ 2 * (MaxInt + 1) < Register
          /\ Register \in Nat /\ Register = 2 * (Register \div 2) /\ Register \div 2 \in Nat
      BY AmountAssumption, CodecAssumption, ByteType
    <3> QED BY <2>2, <3>1 DEF SignedNumber
  <2> DEFINE k == keys[i]
             f == fields[k]
  <2>4. PutInt(k) \o PutField(f) \in ByteString
        /\ Reads(t, GetEntry(t), PutInt(k) \o PutField(f), <<k, f>>)
    <3>1. k \in SignedNumber /\ ValidField(f)
      BY <2>2, <2>3
    <3> HIDE DEF k, f
    <3> QED BY <3>1, EntryReads
  <2> QED BY <2>4
<1>4. x = PutInt(n) \o FlattenSeq(xs)
  BY <1>2 DEF PutFields, keys
<1>5. vals = [i \in 1 .. n |-> vals[i]] /\ xs = [i \in 1 .. n |-> xs[i]]
  OBVIOUS
<1>6. Emplaced(vals) = fields
  <2>1. fields = [k \in DOMAIN fields |-> fields[k]]
    BY DEF FieldMap
  <2> QED BY <1>1, <1>2, <2>1, EmplacedIs
<1>7. MadeOf(GetFields(s), s, is, Emplaced(is.got[1]))
  BY DEF GetFields, Made, MadeOf
<1> HIDE DEF x, xs, vals
<1>8. Pieces(0 .. Byte - 1, n, xs)
  <2>1. \A i \in 1 .. n : xs[i] \in ByteString
    BY <1>3
  <2> QED BY <1>5, <2>1 DEF Pieces, ByteString
<1>9. Several(n, xs, vals, x, vals)
  BY <1>4, <1>5, Zenon DEF Several
<1>10. x \in ByteString /\ Reads(Fresh(s), is, x, vals)
  BY <1>2, <1>3, <1>8, <1>9, EntriesRead
<1> HIDE DEF is
<1>11. ASSUME IsStream(s) PROVE Running(Fresh(s), is, x, <<vals>>)
  BY <1>10, <1>11, RunningFirst
<1>12. is.ok /\ is.got = <<vals>> => Emplaced(is.got[1]) = fields
  BY <1>6
<1>13. Reads(s, GetFields(s), x, fields)
  BY <1>7, <1>10, <1>11, <1>12, MadeReads
<1> QED BY <1>10, <1>13 DEF x

-----------------------------------------------------------------------------
(* Transactions and blocks.                                                  *)

IsTransaction(t) ==
  /\ t = [source |-> t.source, target |-> t.target, currency |-> t.currency,
          amount |-> t.amount, balance |-> t.balance, fields |-> t.fields]
  /\ Sized(t.source) /\ Sized(t.target) /\ Sized(t.currency)
  /\ t.amount \in AmountNumber /\ t.balance \in AmountNumber
  /\ FieldMap(t.fields)

\* A transaction is read back by Transaction::get, whatever bytes follow, and
\* refused when bytes at its end are missing (transaction.cpp:253-273).
THEOREM TransactionReads ==
  ASSUME NEW s, NEW t, IsTransaction(t)
  PROVE  PutTransaction(t) \in ByteString /\ Reads(s, GetTransaction(s), PutTransaction(t), t)
<1> DEFINE a == t.source
           b == t.target
           c == t.currency
           d == t.amount
           e == t.balance
           f == t.fields
           s1 == GetAddress(Fresh(s))
           s2 == GetAddress(s1)
           s3 == GetCurrency(s2)
           s4 == GetAmount(s3)
           s5 == GetAmount(s4)
           is == GetFields(s5)
           Fields(read) == [source |-> read[1], target |-> read[2], currency |-> read[3],
                           amount |-> read[4], balance |-> read[5], fields |-> read[6]]
           v == <<a, b, c, d, e, f>>
<1>1. /\ PutBytes(a) \in ByteString /\ Reads(Fresh(s), s1, PutBytes(a), a)
      /\ PutBytes(b) \in ByteString /\ Reads(s1, s2, PutBytes(b), b)
      /\ PutBytes(c) \in ByteString /\ Reads(s2, s3, PutBytes(c), c)
  <2>1. Sized(a) /\ Sized(b) /\ Sized(c)
    BY DEF IsTransaction
  <2>2. s1 = GetBytes(Fresh(s)) /\ s2 = GetBytes(s1) /\ s3 = GetBytes(s2)
    BY DEF GetAddress, GetCurrency
  <2> HIDE DEF a, b, c, s1, s2, s3
  <2> QED BY <2>1, <2>2, BytesRead
<1>2. /\ PutAmount(d) \in ByteString /\ Reads(s3, s4, PutAmount(d), d)
      /\ PutAmount(e) \in ByteString /\ Reads(s4, s5, PutAmount(e), e)
      /\ PutFields(f) \in ByteString /\ Reads(s5, is, PutFields(f), f)
  <2>1. d \in AmountNumber /\ e \in AmountNumber /\ FieldMap(f)
    BY DEF IsTransaction
  <2> HIDE DEF d, e, f, s3, s4, s5
  <2>2. s4 = GetAmount(s3) /\ s5 = GetAmount(s4) /\ is = GetFields(s5)
    BY DEF s4, s5
  <2> QED BY <2>1, <2>2, AmountReads, FieldsRead
<1>3. MadeOf(GetTransaction(s), s, is, Fields(is.got))
  BY DEF GetTransaction, Made, MadeOf
<1> DEFINE x1 == PutBytes(a)
           x2 == x1 \o PutBytes(b)
           x3 == x2 \o PutBytes(c)
           x4 == x3 \o PutAmount(d)
           x5 == x4 \o PutAmount(e)
           x == x5 \o PutFields(f)
<1>4. PutTransaction(t) = x
  BY DEF PutTransaction, PutAddress, PutCurrency
<1>5. t = Fields(v)
  BY DEF IsTransaction
<1> HIDE DEF a, b, c, d, e, f, s1, s2, s3, s4, s5, is
<1>6. x1 \in ByteString /\ x2 \in ByteString /\ x3 \in ByteString
      /\ x4 \in ByteString /\ x5 \in ByteString /\ x \in ByteString
  <2>1. x1 \in ByteString
    BY <1>1
  <2>2. x2 \in ByteString
    <3> HIDE DEF x1
    <3> QED BY <1>1, <2>1, BytesConcat
  <2>3. x3 \in ByteString
    <3> HIDE DEF x2
    <3> QED BY <1>1, <2>2, BytesConcat
  <2>4. x4 \in ByteString
    <3> HIDE DEF x3
    <3> QED BY <1>2, <2>3, BytesConcat
  <2>5. x5 \in ByteString
    <3> HIDE DEF x4
    <3> QED BY <1>2, <2>4, BytesConcat
  <2>6. x \in ByteString
    <3> HIDE DEF x5
    <3> QED BY <1>2, <2>5, BytesConcat
  <2> QED BY <2>1, <2>2, <2>3, <2>4, <2>5, <2>6
<1>7. ASSUME IsStream(s) PROVE Running(Fresh(s), is, x, v)
  <2>0. IsStream(Fresh(s))
    BY <1>7, FreshIsStream
  <2>1. Running(Fresh(s), s1, x1, <<a>>)
    BY <1>1, <1>7, RunningFirst
  <2>2. Running(Fresh(s), s2, x2, <<a, b>>)
    <3> HIDE DEF x1
    <3>1. Running(Fresh(s), s2, x1 \o PutBytes(b), Append(<<a>>, b))
      BY <1>1, <1>6, <2>0, <2>1, RunningReads
    <3> QED BY <3>1, Append1
  <2>3. Running(Fresh(s), s3, x3, <<a, b, c>>)
    <3> HIDE DEF x2
    <3>1. Running(Fresh(s), s3, x2 \o PutBytes(c), Append(<<a, b>>, c))
      BY <1>1, <1>6, <2>0, <2>2, RunningReads
    <3> QED BY <3>1, Append2
  <2>4. Running(Fresh(s), s4, x4, <<a, b, c, d>>)
    <3> HIDE DEF x3
    <3>1. Running(Fresh(s), s4, x3 \o PutAmount(d), Append(<<a, b, c>>, d))
      BY <1>2, <1>6, <2>0, <2>3, RunningReads
    <3> QED BY <3>1, Append3
  <2>5. Running(Fresh(s), s5, x5, <<a, b, c, d, e>>)
    <3> HIDE DEF x4
    <3>1. Running(Fresh(s), s5, x4 \o PutAmount(e), Append(<<a, b, c, d>>, e))
      BY <1>2, <1>6, <2>0, <2>4, RunningReads
    <3> QED BY <3>1, Append4
  <2>6. Running(Fresh(s), is, x, <<a, b, c, d, e, f>>)
    <3> HIDE DEF x5
    <3>1. Running(Fresh(s), is, x5 \o PutFields(f), Append(<<a, b, c, d, e>>, f))
      BY <1>2, <1>6, <2>0, <2>5, RunningReads
    <3> QED BY <3>1, Append5
  <2> QED BY <2>6
<1> HIDE DEF x, v
<1>8. is.ok /\ is.got = v => Fields(is.got) = t
  BY <1>5
<1> DEFINE w == Fields(is.got)
<1>9. Reads(s, GetTransaction(s), x, t)
  <2>1. MadeOf(GetTransaction(s), s, is, w) /\ (is.ok /\ is.got = v => w = t)
    BY <1>3, <1>8
  <2> HIDE DEF w
  <2> QED BY <1>6, <1>7, <2>1, MadeReads
<1> QED BY <1>4, <1>6, <1>9

IsBlock(p) ==
  /\ p = [previous |-> p.previous, sequence |-> p.sequence, txs |-> p.txs, fields |-> p.fields]
  /\ Sized(p.previous) /\ p.sequence \in RegisterNumber
  /\ Len(p.txs) \in RegisterNumber
  /\ p.txs = [i \in 1 .. Len(p.txs) |-> p.txs[i]]
  /\ \A i \in 1 .. Len(p.txs) : IsTransaction(p.txs[i])
  /\ FieldMap(p.fields)

MetaBytes(p) == PutHash(p.previous) \o PutInt(p.sequence) \o PutInt(Len(p.txs))
MetaOf(p) == [previous |-> p.previous, sequence |-> p.sequence]

\* What identifies a block is read back from the front of it.
LEMMA MetaReads ==
  ASSUME NEW s, NEW p, IsBlock(p)
  PROVE  MetaBytes(p) \in ByteString /\ Reads(s, GetMeta(s), MetaBytes(p), MetaOf(p))
<1> DEFINE a == p.previous
           b == p.sequence
           n == Len(p.txs)
           s1 == GetBytes(Fresh(s))
           s2 == GetInt(s1)
           is == GetInt(s2)
           x1 == PutBytes(a)
           x2 == x1 \o PutInt(b)
           x == x2 \o PutInt(n)
           w == [previous |-> is.got[1], sequence |-> is.got[2]]
           v == [previous |-> a, sequence |-> b]
<1>1. Sized(a) /\ b \in RegisterNumber /\ n \in RegisterNumber
  BY DEF IsBlock
<1>2. MadeOf(GetMeta(s), s, is, w)
  BY DEF GetMeta, Made, MadeOf
<1>3. MetaBytes(p) = x /\ MetaOf(p) = v
  BY DEF MetaBytes, MetaOf, PutHash
<1>4. is.ok /\ is.got = <<a, b, n>> => w = v
  OBVIOUS
<1> HIDE DEF a, b, n, s1, s2, is, w, v
<1>5. PutBytes(a) \in ByteString /\ Reads(Fresh(s), s1, PutBytes(a), a)
  BY <1>1, BytesRead DEF s1
<1>6. PutInt(b) \in ByteString /\ Reads(s1, s2, PutInt(b), b)
  BY <1>1, IntReads DEF s2
<1>7. PutInt(n) \in ByteString /\ Reads(s2, is, PutInt(n), n)
  BY <1>1, IntReads DEF is
<1>8. x1 \in ByteString
  BY <1>5
<1>9. x2 \in ByteString
  <2> HIDE DEF x1
  <2> QED BY <1>6, <1>8, BytesConcat
<1>10. x \in ByteString
  <2> HIDE DEF x2
  <2> QED BY <1>7, <1>9, BytesConcat
<1>11. ASSUME IsStream(s) PROVE Running(Fresh(s), is, x, <<a, b, n>>)
  <2>1. IsStream(Fresh(s))
    BY <1>11, FreshIsStream
  <2>2. Running(Fresh(s), s1, x1, <<a>>)
    BY <1>5, <1>11, RunningFirst
  <2>3. Running(Fresh(s), s2, x2, <<a, b>>)
    <3> HIDE DEF x1
    <3>1. Running(Fresh(s), s2, x1 \o PutInt(b), Append(<<a>>, b))
      BY <1>6, <1>8, <2>1, <2>2, RunningReads
    <3> QED BY <3>1, Append1
  <2>4. Running(Fresh(s), is, x, <<a, b, n>>)
    <3> HIDE DEF x2
    <3>1. Running(Fresh(s), is, x2 \o PutInt(n), Append(<<a, b>>, n))
      BY <1>7, <1>9, <2>1, <2>3, RunningReads
    <3> QED BY <3>1, Append2
  <2> QED BY <2>4
<1> HIDE DEF x
<1>12. Reads(s, GetMeta(s), x, v)
  BY <1>2, <1>4, <1>10, <1>11, MadeReads
<1> QED BY <1>3, <1>10, <1>12

\* The transactions of a block are read back.
BlockBody(p) ==
  PutInt(Len(p.txs)) \o FlattenSeq([i \in DOMAIN p.txs |-> PutTransaction(p.txs[i])])

LEMMA BodyReads ==
  ASSUME NEW s, NEW p, IsBlock(p)
  PROVE  BlockBody(p) \in ByteString /\ Reads(s, GetMany(s, GetTransaction), BlockBody(p), p.txs)
<1> DEFINE n == Len(p.txs)
           vals == p.txs
           xs == [i \in 1 .. n |-> PutTransaction(vals[i])]
           x == BlockBody(p)
<1>1. /\ n \in RegisterNumber /\ vals = [i \in 1 .. n |-> vals[i]]
      /\ \A i \in 1 .. n : IsTransaction(vals[i])
  BY DEF IsBlock
<1>2. DOMAIN vals = 1 .. n
  BY <1>1
<1>3. x = PutInt(n) \o FlattenSeq(xs)
  BY <1>2 DEF BlockBody
<1> HIDE DEF n, vals, x
<1>4. ASSUME NEW i \in 1 .. n, NEW t
      PROVE  xs[i] \in ByteString /\ Reads(t, GetTransaction(t), xs[i], vals[i])
  <2>1. IsTransaction(vals[i])
    BY <1>1
  <2>2. PutTransaction(vals[i]) \in ByteString
        /\ Reads(t, GetTransaction(t), PutTransaction(vals[i]), vals[i])
    BY <2>1, TransactionReads
  <2> QED BY <2>2
<1>5. xs = [i \in 1 .. n |-> xs[i]]
  OBVIOUS
<1> HIDE DEF xs
<1>6. Pieces(0 .. Byte - 1, n, xs)
  <2>1. \A i \in 1 .. n : xs[i] \in ByteString
    BY <1>4
  <2> QED BY <1>5, <2>1 DEF Pieces, ByteString
<1>7. Several(n, xs, vals, x, vals)
  BY <1>1, <1>3, Zenon DEF Several
<1>8. x \in ByteString /\ Reads(s, GetMany(s, GetTransaction), x, vals)
  BY <1>1, <1>4, <1>6, <1>7, TransactionsRead
<1> QED BY <1>8 DEF x, vals

\* The bytes of all transactions of a block.
FlatBytes(c) == FlattenSeq([i \in DOMAIN c |-> PutTransaction(c[i])])

LEMMA BlockFlat ==
  ASSUME NEW p, IsBlock(p)
  PROVE  FlatBytes(p.txs) \in ByteString
<1> DEFINE c == p.txs
           flat == FlatBytes(c)
           n == Len(c)
           xs == [i \in 1 .. n |-> PutTransaction(c[i])]
<1>1. n \in Nat /\ DOMAIN c = 1 .. n /\ \A i \in 1 .. n : IsTransaction(c[i])
  <2>1. n \in Nat
    BY ByteType DEF RegisterNumber, IsBlock
  <2>2. c = [i \in 1 .. n |-> c[i]] /\ \A i \in 1 .. n : IsTransaction(c[i])
    BY DEF IsBlock
  <2>3. DOMAIN c = 1 .. n
    <3> HIDE DEF c, n
    <3> QED BY <2>2
  <2> QED BY <2>1, <2>2, <2>3
<1>2. flat = FlattenSeq(xs)
  BY <1>1 DEF FlatBytes
<1> HIDE DEF c, n, flat
<1>3. \A i \in 1 .. n : xs[i] \in ByteString
  <2> SUFFICES ASSUME NEW i \in 1 .. n PROVE PutTransaction(c[i]) \in ByteString
    OBVIOUS
  <2> QED BY <1>1, TransactionReads
<1>4. xs = [i \in 1 .. n |-> xs[i]]
  OBVIOUS
<1> HIDE DEF xs
<1>5. Pieces(0 .. Byte - 1, n, xs)
  BY <1>3, <1>4 DEF Pieces, ByteString
<1>6. Flattened(0 .. Byte - 1, n, xs)
  BY <1>1, <1>5, FlattenGrows
<1>7. PICK f \in [0 .. n -> Seq(0 .. Byte - 1)] : FlattenSeq(xs) = f[n]
  BY <1>6 DEF Flattened
<1>8. n \in 0 .. n
  BY <1>1
<1>9. flat \in ByteString
  BY <1>2, <1>7, <1>8 DEF ByteString
<1> QED BY <1>9 DEF flat, c

\* A block with all its transactions and fields is read back by Pool::priv::get,
\* whatever bytes follow, and refused when bytes at its end are missing
\* (pool.cpp:108-158).
THEOREM BlockReads ==
  ASSUME NEW s, NEW p, IsBlock(p)
  PROVE  PutPool(p) \in ByteString /\ Reads(s, GetPool(s), PutPool(p), p)
<1> DEFINE a == p.previous
           b == p.sequence
           c == p.txs
           d == p.fields
           s1 == GetBytes(Fresh(s))
           s2 == GetInt(s1)
           s3 == GetMany(s2, GetTransaction)
           is == GetFields(s3)
           number == PutInt(Len(c))
           flat == FlattenSeq([i \in DOMAIN c |-> PutTransaction(c[i])])
           body == BlockBody(p)
           x1 == PutBytes(a)
           x2 == x1 \o PutInt(b)
           x3 == x2 \o body
           x == x3 \o PutFields(d)
           w == [previous |-> is.got[1], sequence |-> is.got[2], txs |-> is.got[3],
                 fields |-> is.got[4]]
<1>1. Sized(a) /\ b \in RegisterNumber /\ FieldMap(d) /\ Len(c) \in RegisterNumber
  BY DEF IsBlock
<1>2. MadeOf(GetPool(s), s, is, w)
  BY DEF GetPool, Made, MadeOf
<1>3. PutPool(p) = ((x2 \o number) \o flat) \o PutFields(d) /\ body = number \o flat
  BY DEF PutPool, PutHash, BlockBody
<1>4. is.ok /\ is.got = <<a, b, c, d>> => w = p
  <2>1. p = [previous |-> a, sequence |-> b, txs |-> c, fields |-> d]
    BY DEF IsBlock
  <2> HIDE DEF a, b, c, d
  <2> QED BY <2>1
<1>5. body \in ByteString /\ Reads(s2, s3, body, c)
  <2> HIDE DEF s2
  <2> QED BY BodyReads
<1>6. flat \in ByteString
  BY BlockFlat DEF FlatBytes
<1>7. number \in ByteString
  <2> HIDE DEF c
  <2> QED BY <1>1, IntReads
<1> HIDE DEF a, b, c, d, s1, s2, s3, is, w, number, flat, body
<1>8. PutBytes(a) \in ByteString /\ Reads(Fresh(s), s1, PutBytes(a), a)
  BY <1>1, BytesRead DEF s1
<1>9. PutInt(b) \in ByteString /\ Reads(s1, s2, PutInt(b), b)
  BY <1>1, IntReads DEF s2
<1>10. PutFields(d) \in ByteString /\ Reads(s3, is, PutFields(d), d)
  BY <1>1, FieldsRead DEF is
<1>11. x1 \in ByteString
  BY <1>8
<1>12. x2 \in ByteString
  <2> HIDE DEF x1
  <2> QED BY <1>9, <1>11, BytesConcat
<1>13. x3 \in ByteString
  <2> HIDE DEF x2
  <2> QED BY <1>5, <1>12, BytesConcat
<1>14. x \in ByteString
  <2> HIDE DEF x3
  <2> QED BY <1>10, <1>13, BytesConcat
<1>15. PutPool(p) = x
  <2> HIDE DEF x2
  <2>1. Associates(x2, number, flat)
    BY <1>6, <1>7, <1>12, Associative DEF ByteString
  <2> QED BY <1>3, <2>1 DEF Associates
<1>16. ASSUME IsStream(s) PROVE Running(Fresh(s), is, x, <<a, b, c, d>>)
  <2>1. IsStream(Fresh(s))
    BY <1>16, FreshIsStream
  <2>2. Running(Fresh(s), s1, x1, <<a>>)
    BY <1>8, <1>16, RunningFirst
  <2>3. Running(Fresh(s), s2, x2, <<a, b>>)
    <3> HIDE DEF x1
    <3>1. Running(Fresh(s), s2, x1 \o PutInt(b), Append(<<a>>, b))
      BY <1>9, <1>11, <2>1, <2>2, RunningReads
    <3> QED BY <3>1, Append1
  <2>4. Running(Fresh(s), s3, x3, <<a, b, c>>)
    <3> HIDE DEF x2
    <3>1. Running(Fresh(s), s3, x2 \o body, Append(<<a, b>>, c))
      BY <1>5, <1>12, <2>1, <2>3, RunningReads
    <3> QED BY <3>1, Append2
  <2>5. Running(Fresh(s), is, x, <<a, b, c, d>>)
    <3> HIDE DEF x3
    <3>1. Running(Fresh(s), is, x3 \o PutFields(d), Append(<<a, b, c>>, d))
      BY <1>10, <1>13, <2>1, <2>4, RunningReads
    <3> QED BY <3>1, Append3
  <2> QED BY <2>5
<1> HIDE DEF x
<1>17. Reads(s, GetPool(s), x, p)
  BY <1>2, <1>4, <1>14, <1>16, MadeReads
<1> QED BY <1>14, <1>15, <1>17

\* The bytes of a block begin with what identifies it.
LEMMA BlockBegins ==
  ASSUME NEW p, IsBlock(p)
  PROVE  \E rest \in ByteString : PutPool(p) = MetaBytes(p) \o rest
<1> DEFINE meta == MetaBytes(p)
           flat == FlatBytes(p.txs)
           fields == PutFields(p.fields)
<1>1. meta \in ByteString /\ flat \in ByteString /\ fields \in ByteString
  <2>1. FieldMap(p.fields)
    BY DEF IsBlock
  <2> QED BY <2>1, MetaReads, BlockFlat, FieldsRead
<1>2. PutPool(p) = (meta \o flat) \o fields
  BY DEF PutPool, MetaBytes, FlatBytes
<1> HIDE DEF meta, flat, fields
<1>3. Associates(meta, flat, fields)
  BY <1>1, Associative DEF ByteString
<1>4. PutPool(p) = meta \o (flat \o fields)
  BY <1>2, <1>3 DEF Associates
<1> DEFINE rest == flat \o fields
<1>5. rest \in ByteString
  BY <1>1, BytesConcat
<1> HIDE DEF rest
<1>6. PutPool(p) = meta \o rest
  BY <1>4 DEF rest
<1> QED BY <1>5, <1>6 DEF meta

-----------------------------------------------------------------------------
(* Text.                                                                     *)

\* The digits of each byte, in their places.
Paired(flat, high, low, m) ==
  /\ flat[m] \in Seq(Int) /\ Len(flat[m]) = 2 * m
  /\ \A j \in 1 .. m : flat[m][2 * j - 1] = high[j] /\ flat[m][2 * j] = low[j]

LEMMA JoinedIs ==
  ASSUME NEW T, NEW x \in Seq(T), NEW t \in Seq(T)
  PROVE  /\ x \o t \in Seq(T) /\ Len(x \o t) = Len(x) + Len(t)
         /\ \A i \in 1 .. Len(x) : (x \o t)[i] = x[i]
         /\ \A i \in 1 .. Len(t) : (x \o t)[Len(x) + i] = t[i]
  OBVIOUS

LEMMA PairsFlatten ==
  ASSUME NEW n \in Nat, NEW high, NEW low,
         \A i \in 1 .. n : high[i] \in Int /\ low[i] \in Int,
         NEW seqs, \A i \in 1 .. n : seqs[i] = <<high[i], low[i]>>,
         NEW flat, Flattens(seqs, n, flat)
  PROVE  Paired(flat, high, low, n)
<1> DEFINE P == {m \in Nat : m <= n => Paired(flat, high, low, m)}
<1>1. 0 \in P
  <2>1. flat[0] = <<>>
    BY DEF Flattens
  <2>2. flat[0] \in Seq(Int) /\ Len(flat[0]) = 2 * 0
    BY <2>1
  <2>3. \A j \in 1 .. 0 : FALSE
    OBVIOUS
  <2> QED BY <2>2, <2>3 DEF Paired
<1>2. \A m \in Nat : m \in P => m + 1 \in P
  <2> SUFFICES ASSUME NEW m \in Nat, m + 1 <= n, Paired(flat, high, low, m)
               PROVE  Paired(flat, high, low, m + 1)
    OBVIOUS
  <2>1. m + 1 \in 1 .. n /\ (m + 1) - 1 = m
    BY NextUpTo
  <2> DEFINE f == flat[m]
             g == flat[m + 1]
             a == high[m + 1]
             b == low[m + 1]
  <2>2. g = f \o <<a, b>>
    BY <2>1 DEF Flattens
  <2>3. f \in Seq(Int) /\ Len(f) = 2 * m /\ a \in Int /\ b \in Int
    BY <2>1 DEF Paired
  <2>4. \A j \in 1 .. m : f[2 * j - 1] = high[j] /\ f[2 * j] = low[j]
    BY DEF Paired
  <2> HIDE DEF f, g, a, b
  <2> DEFINE pair == <<a, b>>
  <2>5. pair \in Seq(Int) /\ Len(pair) = 2 /\ pair[1] = a /\ pair[2] = b
    BY <2>3
  <2> HIDE DEF pair
  <2>6. /\ f \o pair \in Seq(Int) /\ Len(f \o pair) = Len(f) + 2
        /\ \A i \in 1 .. Len(f) : (f \o pair)[i] = f[i]
        /\ (f \o pair)[Len(f) + 1] = pair[1] /\ (f \o pair)[Len(f) + 2] = pair[2]
    <3>1. /\ f \o pair \in Seq(Int) /\ Len(f \o pair) = Len(f) + Len(pair)
          /\ \A i \in 1 .. Len(f) : (f \o pair)[i] = f[i]
          /\ \A i \in 1 .. Len(pair) : (f \o pair)[Len(f) + i] = pair[i]
      <4>1. f \in Seq(Int) /\ pair \in Seq(Int)
        BY <2>3, <2>5
      <4>2. f \o pair \in Seq(Int) /\ Len(f \o pair) = Len(f) + Len(pair)
        BY <4>1
      <4>3. \A i \in 1 .. Len(f) : (f \o pair)[i] = f[i]
        BY <4>1, JoinedIs
      <4>4. \A i \in 1 .. Len(pair) : (f \o pair)[Len(f) + i] = pair[i]
        BY <4>1, JoinedIs
      <4> QED BY <4>2, <4>3, <4>4
    <3>2. 1 \in 1 .. Len(pair) /\ 2 \in 1 .. Len(pair)
      BY <2>5
    <3> QED BY <2>5, <3>1, <3>2
  <2>7. /\ g \in Seq(Int) /\ Len(g) = 2 * (m + 1) /\ g[2 * (m + 1) - 1] = a /\ g[2 * (m + 1)] = b
        /\ \A i \in 1 .. 2 * m : g[i] = f[i]
    <3>1. 2 * (m + 1) = 2 * m + 2 /\ 2 * (m + 1) - 1 = 2 * m + 1
      OBVIOUS
    <3> QED BY <2>2, <2>3, <2>5, <2>6, <3>1 DEF pair
  <2>8. ASSUME NEW j \in 1 .. m + 1
        PROVE  g[2 * j - 1] = high[j] /\ g[2 * j] = low[j]
    <3>1. CASE j = m + 1
      BY <2>7, <3>1 DEF a, b
    <3>2. CASE j # m + 1
      <4>1. j \in 1 .. m /\ 2 * j - 1 \in 1 .. 2 * m /\ 2 * j \in 1 .. 2 * m
        BY <3>2
      <4> QED BY <2>4, <2>7, <4>1
    <3> QED BY <3>1, <3>2
  <2> QED BY <2>7, <2>8 DEF Paired, g
<1>3. Nat \subseteq P
  <2> HIDE DEF P
  <2> QED BY <1>1, <1>2, Induct
<1> QED BY <1>3

\* A digit has half the bits of a byte.
LEMMA HalfByte ==
  LET half == Power(2, ByteBits \div 2) IN half \in Nat \ {0} /\ half * half = Byte
<1> DEFINE k == ByteBits \div 2
<1>1. k \in Nat /\ k + k = ByteBits
  BY CodecAssumption
<1> HIDE DEF k
<1>2. Power(2, k + k) = Power(2, k) * Power(2, k)
  BY <1>1, PowerSum
<1>3. Power(2, k) \in Nat \ {0}
  BY <1>1, PowerPositive
<1> QED BY <1>1, <1>2, <1>3 DEF Byte, k

\* Bytes are read back from their digits.
LEMMA HexReads ==
  ASSUME NEW bytes \in ByteString
  PROVE  FromHex(ToHex(bytes)) = bytes
<1> DEFINE half == Power(2, ByteBits \div 2)
           n == Len(bytes)
           high == [i \in 1 .. n |-> bytes[i] \div half]
           low == [i \in 1 .. n |-> bytes[i] % half]
           seqs == [i \in 1 .. n |-> <<bytes[i] \div half, bytes[i] % half>>]
           digits == ToHex(bytes)
<1>1. half \in Nat \ {0} /\ half * half = Byte
  BY HalfByte
<1>2. n \in Nat /\ DOMAIN bytes = 1 .. n /\ bytes = [i \in 1 .. n |-> bytes[i]]
      /\ \A i \in 1 .. n : bytes[i] \in Int /\ bytes[i] >= 0
  <2>1. Byte \in Nat
    BY ByteType
  <2> QED BY <2>1 DEF ByteString
<1>3. digits = FlattenSeq(seqs)
  BY <1>2 DEF ToHex
<1>4. FromHex(digits)
        = [i \in 1 .. Len(digits) \div 2 |-> digits[2 * i - 1] * half + digits[2 * i]]
  BY DEF FromHex
<1> HIDE DEF half, n, digits
<1>5. \A i \in 1 .. n : /\ high[i] \in Int /\ low[i] \in Int /\ high[i] * half + low[i] = bytes[i]
                        /\ seqs[i] = <<high[i], low[i]>>
  <2> SUFFICES ASSUME NEW i \in 1 .. n
               PROVE  /\ high[i] \in Int /\ low[i] \in Int /\ high[i] * half + low[i] = bytes[i]
                      /\ seqs[i] = <<high[i], low[i]>>
    OBVIOUS
  <2> DEFINE b == bytes[i]
             q == b \div half
             r == b % half
  <2>1. b \in Int
    BY <1>2
  <2>2. high[i] = q /\ low[i] = r /\ seqs[i] = <<q, r>>
    OBVIOUS
  <2> HIDE DEF b
  <2>3. b = q * half + r /\ q \in Int /\ r \in 0 .. half - 1
    BY <1>1, <2>1, DivModParts
  <2> HIDE DEF q, r
  <2>4. r \in Int /\ q * half + r = b
    BY <1>1, <2>3
  <2> HIDE DEF high, low, seqs
  <2> QED BY <2>2, <2>3, <2>4 DEF b
<1>6. Pieces(Int, n, seqs)
  <2>1. seqs = [i \in 1 .. n |-> seqs[i]]
    OBVIOUS
  <2> HIDE DEF seqs
  <2>2. ASSUME NEW i \in 1 .. n PROVE seqs[i] \in Seq(Int)
    <3>1. \A a, b \in Int : <<a, b>> \in Seq(Int)
      OBVIOUS
    <3> QED BY <1>5, <3>1
  <2> QED BY <2>1, <2>2 DEF Pieces
<1> HIDE DEF high, low, seqs
<1>7. Flattened(Int, n, seqs)
  BY <1>2, <1>6, FlattenGrows
<1>8. PICK flat : Flattens(seqs, n, flat) /\ digits = flat[n]
  BY <1>3, <1>7 DEF Flattened
<1>9. Paired(flat, high, low, n)
  BY <1>2, <1>5, <1>8, PairsFlatten
<1>10. Len(digits) = 2 * n /\ \A i \in 1 .. n : digits[2 * i - 1] = high[i] /\ digits[2 * i] = low[i]
  BY <1>8, <1>9 DEF Paired
<1>11. Len(digits) \div 2 = n
  BY <1>2, <1>10
<1>12. \A i \in 1 .. n : digits[2 * i - 1] * half + digits[2 * i] = bytes[i]
  BY <1>5, <1>10
<1> DEFINE m == Len(digits) \div 2
<1>13. m = n
  BY <1>11
<1> HIDE DEF m
<1>14. FromHex(digits) = [i \in 1 .. m |-> digits[2 * i - 1] * half + digits[2 * i]]
  BY <1>4 DEF m
<1>15. FromHex(digits) = bytes
  BY <1>2, <1>12, <1>13, <1>14
<1> QED BY <1>15 DEF digits

\* The index of one of the first ten transactions is read back.
LEMMA IndexReads ==
  ASSUME NEW named, NEW n \in 0 .. 9, named.index = n, IdIsValid(named),
         HashFromText(HashToText(named.hash)) = named.hash
  PROVE  SameId(IdFromText(IdToText(named)), named)
<1> DEFINE t == IdToText(named)
           digit == [i \in 1 .. 8 |-> IF i = 8 THEN n ELSE 0]
           Eq(f) == f = [i \in 0 .. 8 |-> IF i = 0 THEN 0 ELSE f[i - 1] * 10 + t.index[i]]
           value == CHOOSE f : Eq(f)
           mine == [i \in 0 .. 8 |-> IF i = 8 THEN n ELSE 0]
<1>1. t.hash = HashToText(named.hash) /\ t.index = [i \in 1 .. 8 |-> (n \div Power(16, 8 - i)) % 16]
  BY DEF IdToText
<1>2. t.index = digit
  <2> SUFFICES ASSUME NEW i \in 1 .. 8
               PROVE  (n \div Power(16, 8 - i)) % 16 = IF i = 8 THEN n ELSE 0
    BY <1>1
  <2>1. CASE i = 8
    <3>1. 8 - i = 0 /\ Power(16, 0) = 1
      BY <2>1, PowerRecursion
    <3>2. (n \div 1) % 16 = n
      OBVIOUS
    <3> QED BY <2>1, <3>1, <3>2
  <2>2. CASE i # 8
    <3> DEFINE j == 8 - i
               p == Power(16, j - 1)
    <3>1. j - 1 \in Nat /\ (j - 1) + 1 = j
      BY <2>2
    <3> HIDE DEF j
    <3>2. Power(16, j) = 16 * p /\ p \in Nat \ {0}
      <4>1. Power(16, (j - 1) + 1) = 16 * Power(16, j - 1)
        BY <3>1, PowerRecursion
      <4> QED BY <3>1, <4>1, PowerPositive
    <3> HIDE DEF p
    <3>3. 16 * p \in Nat \ {0} /\ n \in 0 .. 16 * p - 1
      BY <3>2
    <3>4. n \div (16 * p) = 0
      <4> DEFINE d == 16 * p
      <4> HIDE DEF d
      <4>1. d \in Nat \ {0} /\ n \in 0 .. d - 1 => n \div d = 0
        BY ModSmall
      <4> QED BY <3>3, <4>1 DEF d
    <3>5. 0 % 16 = 0
      OBVIOUS
    <3> QED BY <2>2, <3>2, <3>4, <3>5 DEF j
  <2> QED BY <2>1, <2>2
<1>3. Eq(mine)
  <2> SUFFICES ASSUME NEW i \in 0 .. 8
               PROVE  mine[i] = IF i = 0 THEN 0 ELSE mine[i - 1] * 10 + digit[i]
    BY <1>2
  <2>1. i # 0 => i - 1 \in 0 .. 8 /\ i - 1 # 8 /\ i \in 1 .. 8
    OBVIOUS
  <2>2. i # 0 => mine[i - 1] = 0 /\ digit[i] = mine[i]
    BY <2>1
  <2>3. mine[i] \in Int /\ mine[0] = 0
    OBVIOUS
  <2> HIDE DEF mine, digit
  <2> QED BY <2>2, <2>3
<1>4. Eq(value)
  <2> HIDE DEF Eq, mine
  <2> QED BY <1>3
<1>5. \A i \in 0 .. 8 : value[i] = IF i = 0 THEN 0 ELSE value[i - 1] * 10 + digit[i]
  <2> HIDE DEF value, digit
  <2> QED BY <1>2, <1>4, Zenon
<1>6. value[8] = n
  <2> HIDE DEF value
  <2>1. value[0] = 0
    BY <1>5
  <2>2. \A i \in 1 .. 7 : value[i - 1] = 0 => value[i] = 0
    <3> SUFFICES ASSUME NEW i \in 1 .. 7, value[i - 1] = 0 PROVE value[i] = 0
      OBVIOUS
    <3>1. i \in 0 .. 8 /\ i # 0 /\ digit[i] = 0
      OBVIOUS
    <3>2. value[i] = value[i - 1] * 10 + digit[i]
      BY <1>5, <3>1
    <3> QED BY <3>1, <3>2
  <2> HIDE DEF digit
  <2>3. value[1] = 0
    BY <2>1, <2>2
  <2>4. value[2] = 0
    BY <2>2, <2>3
  <2>5. value[3] = 0
    BY <2>2, <2>4
  <2>6. value[4] = 0
    BY <2>2, <2>5
  <2>7. value[5] = 0
    BY <2>2, <2>6
  <2>8. value[6] = 0
    BY <2>2, <2>7
  <2>9. value[7] = 0
    BY <2>2, <2>8
  <2>10. value[8] = value[7] * 10 + digit[8]
    BY <1>5
  <2>11. digit[8] = n
    BY DEF digit
  <2> QED BY <2>9, <2>10, <2>11
<1>7. HashFromText(t.hash) = named.hash /\ ~HashIsEmpty(named.hash)
  BY <1>1 DEF IdIsValid
<1>8. \A i \in 1 .. 8 : t.index[i] < 10
  BY <1>2
<1>9. IdFromText(t) = [hash |-> named.hash, index |-> value[8]]
  <2> HIDE DEF t, digit, mine
  <2>1. IdFromText(t) = [hash |-> HashFromText(t.hash), index |-> value[8]]
    BY <1>7, <1>8 DEF IdFromText
  <2> QED BY <1>7, <2>1
<1> HIDE DEF t, value, digit, mine
<1> QED BY <1>6, <1>9 DEF SameId, t

-----------------------------------------------------------------------------
(* What a read of bytes gives of which an end u may be missing.              *)

Outcome(out, v, u) ==
  /\ u = <<>> => out.ok /\ out.got[1] = v
  /\ u # <<>> => ~out.ok

LEMMA WholeOutcome ==
  ASSUME NEW bytes \in ByteString, NEW u \in ByteString, NEW x, bytes \o u = x,
         NEW out, NEW v, Reads(Stream(bytes), out, x, v)
  PROVE  out.ok \in BOOLEAN /\ Outcome(out, v, u)
<1> DEFINE s == Stream(bytes)
<1>1. IsStream(s) /\ s.ok /\ s.rest = bytes /\ s.got = <<>>
  <2>1. s = At(TRUE, bytes, <<>>)
    BY DEF Stream, At
  <2> QED BY <2>1 DEF IsStream, At
<1> HIDE DEF s
<1>2. Running(s, out, x, <<v>>)
  <2>1. Append(<<>>, v) = <<v>>
    OBVIOUS
  <2> QED BY <1>1, <2>1 DEF Reads, s
<1>3. <<>> \in ByteString
  BY DEF ByteString
<1>4. CASE u = <<>>
  <2>1. bytes \o u = bytes
    BY <1>4 DEF ByteString
  <2>2. x = x \o <<>>
    BY <2>1 DEF ByteString
  <2>3. out = At(TRUE, <<>>, <<v>>)
    BY <1>1, <1>2, <1>3, <2>1, <2>2 DEF Running
  <2>4. out.ok = TRUE /\ out.got[1] = v
    BY <2>3 DEF At
  <2> QED BY <1>4, <2>4 DEF Outcome
<1>5. CASE u # <<>>
  <2>1. IsRefused(out)
    BY <1>1, <1>2, <1>5 DEF Running
  <2>2. out.ok = FALSE
    BY <2>1 DEF IsRefused, At
  <2> QED BY <1>5, <2>2 DEF Outcome
<1> QED BY <1>4, <1>5

FrontOutcome(out, v, u) ==
  /\ u = <<>> => out.ok
  /\ out.ok => out.got[1] = v

LEMMA PartOutcome ==
  ASSUME NEW bytes \in ByteString, NEW u \in ByteString, NEW x \in ByteString,
         NEW rest \in ByteString, bytes \o u = x \o rest,
         NEW out, NEW v, Reads(Stream(bytes), out, x, v)
  PROVE  out.ok \in BOOLEAN /\ FrontOutcome(out, v, u)
<1> DEFINE s == Stream(bytes)
<1>1. IsStream(s) /\ s.ok /\ s.rest = bytes /\ s.got = <<>>
  <2>1. s = At(TRUE, bytes, <<>>)
    BY DEF Stream, At
  <2> QED BY <2>1 DEF IsStream, At
<1> HIDE DEF s
<1>2. Running(s, out, x, <<v>>)
  <2>1. Append(<<>>, v) = <<v>>
    OBVIOUS
  <2> QED BY <1>1, <2>1 DEF Reads, s
<1>3. ASSUME NEW t \in ByteString, bytes = x \o t
      PROVE  out.ok = TRUE /\ out.got[1] = v
  <2>1. out = At(TRUE, t, <<v>>)
    BY <1>1, <1>2, <1>3 DEF Running
  <2> QED BY <2>1 DEF At
<1>4. CASE u = <<>>
  <2>1. bytes \o u = bytes
    BY <1>4 DEF ByteString
  <2>2. out.ok = TRUE /\ out.got[1] = v
    BY <1>3, <2>1
  <2> QED BY <2>2 DEF FrontOutcome
<1>5. CASE u # <<>>
  <2>1. CutWithin(0 .. Byte - 1, bytes, u, x, rest)
    BY <1>5, CutIsWithin DEF ByteString
  <2>2. CASE \E w \in ByteString \ {<<>>} : bytes \o w = x
    <3>1. IsRefused(out)
      BY <1>1, <1>2, <2>2 DEF Running
    <3>2. out.ok = FALSE
      BY <3>1 DEF IsRefused, At
    <3> QED BY <1>5, <3>2 DEF FrontOutcome
  <2>3. CASE \E z \in ByteString : bytes = x \o z
    <3>1. out.ok = TRUE /\ out.got[1] = v
      BY <1>3, <2>3
    <3> QED BY <3>1 DEF FrontOutcome
  <2> QED BY <2>1, <2>2, <2>3 DEF CutWithin, ByteString
<1> QED BY <1>4, <1>5

\* What is left of bytes when more of them are lost.
LEMMA CutAgain ==
  ASSUME NEW bytes \in ByteString, NEW u \in ByteString, NEW n \in 0 .. Len(bytes)
  PROVE  /\ SubSeq(bytes, 1, n) \in ByteString
         /\ \E w \in ByteString : SubSeq(bytes, 1, n) \o w = bytes \o u
<1> DEFINE a == SubSeq(bytes, 1, n)
           b == SubSeq(bytes, n + 1, Len(bytes))
<1>1. a \in ByteString /\ b \in ByteString /\ bytes = a \o b
  BY CutInTwo DEF ByteString
<1> HIDE DEF a, b
<1>2. Associates(a, b, u)
  BY <1>1, Associative DEF ByteString
<1> DEFINE w == b \o u
<1>3. w \in ByteString
  BY <1>1, BytesConcat
<1>4. a \o w = bytes \o u
  BY <1>1, <1>2 DEF Associates
<1> HIDE DEF w
<1> QED BY <1>1, <1>3, <1>4 DEF a

-----------------------------------------------------------------------------
(* The inductive invariant: objects are well formed, what is left of the     *)
(* bytes begins the bytes of the object that was written, and what was read  *)
(* is that object, or nothing.                                               *)

IsDraft(t) ==
  IsTransaction(t) /\ AsAddress(t.source) = t.source /\ AsAddress(t.target) = t.target

IsId(i) ==
  /\ i = [hash |-> i.hash, index |-> i.index]
  /\ Sized(i.hash) /\ AsHash(i.hash) = i.hash /\ i.index \in RegisterNumber

Left(bytes, size, whole) ==
  size = Len(whole) /\ \E u \in ByteString : bytes \o u = whole

Wrote(bytes, w) ==
  /\ task = "transaction" => IsTransaction(w.value) /\ Left(bytes, w.size, PutTransaction(w.value))
  /\ task = "block" => IsBlock(w.value) /\ Left(bytes, w.size, PutPool(w.value))
  /\ task = "id" => IsId(w.value) /\ Left(bytes, w.size, PutId(w.value))

GotRight(g) ==
  /\ g.what \in {"whole", "meta"} /\ (g.what = "meta" => task = "block")
  /\ g.ok \in BOOLEAN
  /\ Len(data) = written.size => g.ok
  /\ g.what = "whole" /\ g.ok => Len(data) = written.size /\ g.value = written.value
  /\ g.what = "meta" /\ g.ok => g.value = MetaOf(written.value)

RecordsInv ==
  /\ task \in {"transaction", "block", "id"}
  /\ IsDraft(draft)
  /\ IsBlock(block) /\ Len(block.txs) <= MaxTxs
  /\ IsId(id)
  /\ data \in ByteString
  /\ written = NothingWritten => got = NothingRead
  /\ written # NothingWritten => Wrote(data, written)
  /\ got # NothingRead => GotRight(got)

-----------------------------------------------------------------------------
(* Objects stay well formed.                                                 *)

LEMMA EmptyIsSized ==
  Sized(<<>>) /\ AsAddress(<<>>) = <<>> /\ AsHash(<<>>) = <<>> /\ 0 \in RegisterNumber
<1>1. <<>> \in ByteString /\ Len(<<>>) = 0
  BY DEF ByteString
<1>2. Register \in Nat /\ Register > 0
  BY ByteType, CodecAssumption, AmountAssumption
<1>3. AsAddress(<<>>) = <<>> /\ AsHash(<<>>) = <<>>
  BY DEF AsAddress, AsHash
<1> QED BY <1>1, <1>2, <1>3 DEF Sized, RegisterNumber

LEMMA IdIsRead ==
  ASSUME NEW s, NEW i, IsId(i)
  PROVE  PutId(i) \in ByteString /\ Reads(s, GetId(s), PutId(i), i)
<1> DEFINE h == i.hash
           n == i.index
<1>1. i = [hash |-> h, index |-> n] /\ Sized(h) /\ n \in RegisterNumber
  BY DEF IsId
<1> HIDE DEF h, n
<1> QED BY <1>1, IdReads

LEMMA NoFieldsMap == FieldMap(NoFields)
<1>1. DOMAIN NoFields = {} /\ NoFields = [k \in DOMAIN NoFields |-> NoFields[k]]
  BY DEF NoFields
<1> QED BY <1>1 DEF FieldMap

LEMMA ZeroNumber == Zero \in AmountNumber
<1>1. /\ MaxInt \in Nat /\ MinInt = -MaxInt - 1 /\ F \in Nat \ {0}
  BY AmountAssumption, PowerPositive DEF F
<1>2. 0 \in MinInt .. MaxInt /\ 0 \in 0 .. F - 1
  BY <1>1
<1> QED BY <1>2 DEF Zero, Amt, AmountNumber

LEMMA NoTransactionIsDraft == IsDraft(NoTransaction)
<1>1. /\ NoTransaction.source = <<>> /\ NoTransaction.target = <<>>
      /\ NoTransaction.currency = <<>> /\ NoTransaction.amount = Zero
      /\ NoTransaction.balance = Zero /\ NoTransaction.fields = NoFields
  BY DEF NoTransaction
<1>2. NoTransaction = [source |-> <<>>, target |-> <<>>, currency |-> <<>>, amount |-> Zero,
                       balance |-> Zero, fields |-> NoFields]
  BY DEF NoTransaction
<1> QED BY <1>1, <1>2, EmptyIsSized, NoFieldsMap, ZeroNumber DEF IsDraft, IsTransaction

\* A transaction from its parts.
Parts(a, b, c, d, e, f) ==
  [source |-> a, target |-> b, currency |-> c, amount |-> d, balance |-> e, fields |-> f]

LEMMA DraftOf ==
  ASSUME NEW a, NEW b, NEW c, NEW d, NEW e, NEW f,
         Sized(a), Sized(b), Sized(c), AsAddress(a) = a, AsAddress(b) = b,
         d \in AmountNumber, e \in AmountNumber, FieldMap(f)
  PROVE  IsDraft(Parts(a, b, c, d, e, f))
<1> DEFINE t == Parts(a, b, c, d, e, f)
<1>1. /\ t.source = a /\ t.target = b /\ t.currency = c /\ t.amount = d /\ t.balance = e
      /\ t.fields = f
  BY DEF Parts
<1>2. t = [source |-> t.source, target |-> t.target, currency |-> t.currency,
           amount |-> t.amount, balance |-> t.balance, fields |-> t.fields]
  BY DEF Parts
<1> HIDE DEF t
<1> QED BY <1>1, <1>2 DEF IsDraft, IsTransaction, t

\* The edits of a transaction.
LEMMA DraftEdits ==
  ASSUME NEW t, IsDraft(t)
  PROVE  /\ \A a : Sized(a) /\ AsAddress(a) = a => IsDraft([t EXCEPT !.source = a])
         /\ \A a : Sized(a) /\ AsAddress(a) = a => IsDraft([t EXCEPT !.target = a])
         /\ \A a : Sized(a) => IsDraft([t EXCEPT !.currency = a])
         /\ \A a \in AmountNumber : IsDraft([t EXCEPT !.amount = a])
         /\ \A a \in AmountNumber : IsDraft([t EXCEPT !.balance = a])
         /\ \A f : FieldMap(f) => IsDraft([t EXCEPT !.fields = f])
<1> DEFINE a1 == t.source
           b1 == t.target
           c1 == t.currency
           d1 == t.amount
           e1 == t.balance
           f1 == t.fields
<1>1. /\ t = Parts(a1, b1, c1, d1, e1, f1)
      /\ Sized(a1) /\ Sized(b1) /\ Sized(c1) /\ AsAddress(a1) = a1 /\ AsAddress(b1) = b1
      /\ d1 \in AmountNumber /\ e1 \in AmountNumber /\ FieldMap(f1)
  BY DEF IsDraft, IsTransaction, Parts
<1> HIDE DEF a1, b1, c1, d1, e1, f1
<1>2. ASSUME NEW a
      PROVE  /\ [t EXCEPT !.source = a] = Parts(a, b1, c1, d1, e1, f1)
             /\ [t EXCEPT !.target = a] = Parts(a1, a, c1, d1, e1, f1)
             /\ [t EXCEPT !.currency = a] = Parts(a1, b1, a, d1, e1, f1)
             /\ [t EXCEPT !.amount = a] = Parts(a1, b1, c1, a, e1, f1)
             /\ [t EXCEPT !.balance = a] = Parts(a1, b1, c1, d1, a, f1)
             /\ [t EXCEPT !.fields = a] = Parts(a1, b1, c1, d1, e1, a)
  BY <1>1 DEF Parts
<1>3. ASSUME NEW a, Sized(a), AsAddress(a) = a
      PROVE  IsDraft([t EXCEPT !.source = a]) /\ IsDraft([t EXCEPT !.target = a])
  <2>1. IsDraft(Parts(a, b1, c1, d1, e1, f1)) /\ IsDraft(Parts(a1, a, c1, d1, e1, f1))
    BY <1>1, <1>3, DraftOf
  <2> QED BY <1>2, <2>1
<1>4. ASSUME NEW a, Sized(a) PROVE IsDraft([t EXCEPT !.currency = a])
  <2>1. IsDraft(Parts(a1, b1, a, d1, e1, f1))
    BY <1>1, <1>4, DraftOf
  <2> QED BY <1>2, <2>1
<1>5. ASSUME NEW a \in AmountNumber
      PROVE  IsDraft([t EXCEPT !.amount = a]) /\ IsDraft([t EXCEPT !.balance = a])
  BY <1>1, <1>2, <1>5, DraftOf
<1>6. ASSUME NEW f, FieldMap(f) PROVE IsDraft([t EXCEPT !.fields = f])
  <2>1. IsDraft(Parts(a1, b1, c1, d1, e1, f))
    BY <1>1, <1>6, DraftOf
  <2> QED BY <1>2, <2>1
<1> QED BY <1>3, <1>4, <1>5, <1>6

LEMMA WithMap ==
  ASSUME NEW fields, FieldMap(fields), NEW k \in FieldId, NEW field \in FieldValue,
         FieldIsValid(field)
  PROVE  FieldMap(With(fields, k, field))
<1> DEFINE f == With(fields, k, field)
<1>1. ValidField(field) /\ k \in MinInt .. MaxInt
  BY RecordsAssumption DEF ValidField
<1>2. DOMAIN f = DOMAIN fields \cup {k} /\ f = [j \in DOMAIN f |-> f[j]]
  BY DEF With
<1>3. \A j \in DOMAIN f : f[j] = IF j = k THEN field ELSE fields[j]
  BY DEF With
<1> HIDE DEF f
<1>4. DOMAIN f \in SUBSET (MinInt .. MaxInt)
  BY <1>1, <1>2 DEF FieldMap
<1>5. \A j \in DOMAIN f : ValidField(f[j])
  BY <1>1, <1>2, <1>3 DEF FieldMap
<1> QED BY <1>2, <1>4, <1>5 DEF FieldMap, f

TxList(c) ==
  /\ Len(c) \in RegisterNumber /\ c = [i \in 1 .. Len(c) |-> c[i]]
  /\ \A i \in 1 .. Len(c) : IsTransaction(c[i])

\* A block from its parts.
BlockParts(a, b, c, d) == [previous |-> a, sequence |-> b, txs |-> c, fields |-> d]

LEMMA BlockOf ==
  ASSUME NEW a, NEW b, NEW c, NEW d, Sized(a), b \in RegisterNumber, TxList(c), FieldMap(d)
  PROVE  IsBlock(BlockParts(a, b, c, d))
<1> DEFINE p == BlockParts(a, b, c, d)
<1>1. p.previous = a /\ p.sequence = b /\ p.txs = c /\ p.fields = d
  BY DEF BlockParts
<1>2. p = [previous |-> p.previous, sequence |-> p.sequence, txs |-> p.txs, fields |-> p.fields]
  BY DEF BlockParts
<1> HIDE DEF p
<1> QED BY <1>1, <1>2 DEF IsBlock, TxList, p

LEMMA EmptyBlockIsBlock == IsBlock(EmptyBlock) /\ Len(EmptyBlock.txs) = 0
<1>1. TxList(<<>>)
  <2>1. Len(<<>>) = 0 /\ <<>> = [i \in 1 .. 0 |-> <<>>[i]] /\ \A i \in 1 .. 0 : FALSE
    OBVIOUS
  <2> QED BY <2>1, EmptyIsSized DEF TxList
<1>2. EmptyBlock = BlockParts(<<>>, 0, <<>>, NoFields)
  BY DEF EmptyBlock, BlockParts
<1>3. IsBlock(EmptyBlock)
  BY <1>1, <1>2, EmptyIsSized, NoFieldsMap, BlockOf
<1>4. EmptyBlock.txs = <<>>
  BY DEF EmptyBlock
<1> QED BY <1>3, <1>4

LEMMA TxListGrows ==
  ASSUME NEW c, TxList(c), NEW t, IsTransaction(t), Len(c) < MaxTxs
  PROVE  TxList(Append(c, t)) /\ Len(Append(c, t)) <= MaxTxs
<1> DEFINE n == Len(c)
           T == {c[i] : i \in 1 .. n} \cup {t}
           d == Append(c, t)
<1>1. n \in Nat /\ n + 1 \in RegisterNumber /\ MaxTxs \in Nat
  <2>1. n \in 0 .. Register - 1 /\ Register \in Nat /\ MaxTxs \in Nat /\ MaxTxs < Register
    BY ByteType, RecordsAssumption DEF TxList, RegisterNumber
  <2> QED BY <2>1 DEF RegisterNumber
<1>2. c \in Seq(T) /\ t \in T /\ DOMAIN c = 1 .. n
  <2>1. c = [i \in 1 .. n |-> c[i]]
    BY DEF TxList
  <2>2. \A i \in 1 .. n : c[i] \in T
    OBVIOUS
  <2> HIDE DEF T, n
  <2>3. c \in [1 .. n -> T]
    BY <2>1, <2>2
  <2>4. DOMAIN c = 1 .. n
    BY <2>3
  <2> QED BY <1>1, <2>3, <2>4 DEF T
<1> HIDE DEF T
<1>3. /\ d \in Seq(T) /\ Len(d) = n + 1 /\ d[n + 1] = t
      /\ \A i \in 1 .. n : d[i] = c[i]
  BY <1>2, AppendProperties
<1> HIDE DEF d
<1>4. d = [i \in 1 .. n + 1 |-> d[i]]
  BY <1>3
<1>5. ASSUME NEW i \in 1 .. n + 1 PROVE IsTransaction(d[i])
  <2>1. CASE i = n + 1
    BY <1>3, <2>1
  <2>2. CASE i # n + 1
    <3>1. i \in 1 .. n
      BY <1>1, <2>2
    <3> QED BY <1>3, <3>1 DEF TxList
  <2> QED BY <2>1, <2>2
<1>6. n + 1 <= MaxTxs
  BY <1>1
<1> QED BY <1>1, <1>3, <1>4, <1>5, <1>6 DEF TxList, d

\* The edits of a block.
LEMMA BlockEdits ==
  ASSUME NEW p, IsBlock(p), Len(p.txs) <= MaxTxs, NEW q
  PROVE  /\ \A a : Sized(a) /\ q = [p EXCEPT !.previous = a]
                     => IsBlock(q) /\ Len(q.txs) <= MaxTxs
         /\ \A b \in RegisterNumber : q = [p EXCEPT !.sequence = b]
                     => IsBlock(q) /\ Len(q.txs) <= MaxTxs
         /\ \A c : TxList(c) /\ Len(c) <= MaxTxs /\ q = [p EXCEPT !.txs = c]
                     => IsBlock(q) /\ Len(q.txs) <= MaxTxs
         /\ \A d : FieldMap(d) /\ q = [p EXCEPT !.fields = d]
                     => IsBlock(q) /\ Len(q.txs) <= MaxTxs
<1> DEFINE a1 == p.previous
           b1 == p.sequence
           c1 == p.txs
           d1 == p.fields
<1>1. /\ p = BlockParts(a1, b1, c1, d1)
      /\ Sized(a1) /\ b1 \in RegisterNumber /\ TxList(c1) /\ FieldMap(d1) /\ Len(c1) <= MaxTxs
  BY DEF IsBlock, BlockParts, TxList
<1> HIDE DEF a1, b1, c1, d1
<1>2. \A a, b, c, d : BlockParts(a, b, c, d).txs = c
  BY DEF BlockParts
<1>3. ASSUME NEW a, Sized(a), q = [p EXCEPT !.previous = a]
      PROVE  IsBlock(q) /\ Len(q.txs) <= MaxTxs
  <2>1. q = BlockParts(a, b1, c1, d1)
    BY <1>1, <1>3 DEF BlockParts
  <2>2. IsBlock(BlockParts(a, b1, c1, d1))
    BY <1>1, <1>3, BlockOf
  <2> QED BY <1>1, <1>2, <2>1, <2>2
<1>4. ASSUME NEW b \in RegisterNumber, q = [p EXCEPT !.sequence = b]
      PROVE  IsBlock(q) /\ Len(q.txs) <= MaxTxs
  <2>1. q = BlockParts(a1, b, c1, d1)
    BY <1>1, <1>4 DEF BlockParts
  <2>2. IsBlock(BlockParts(a1, b, c1, d1))
    BY <1>1, <1>4, BlockOf
  <2> QED BY <1>1, <1>2, <2>1, <2>2
<1>5. ASSUME NEW c, TxList(c), Len(c) <= MaxTxs, q = [p EXCEPT !.txs = c]
      PROVE  IsBlock(q) /\ Len(q.txs) <= MaxTxs
  <2>1. q = BlockParts(a1, b1, c, d1)
    BY <1>1, <1>5 DEF BlockParts
  <2>2. IsBlock(BlockParts(a1, b1, c, d1))
    BY <1>1, <1>5, BlockOf
  <2> QED BY <1>2, <1>5, <2>1, <2>2
<1>6. ASSUME NEW d, FieldMap(d), q = [p EXCEPT !.fields = d]
      PROVE  IsBlock(q) /\ Len(q.txs) <= MaxTxs
  <2>1. q = BlockParts(a1, b1, c1, d)
    BY <1>1, <1>6 DEF BlockParts
  <2>2. IsBlock(BlockParts(a1, b1, c1, d))
    BY <1>1, <1>6, BlockOf
  <2> QED BY <1>1, <1>2, <2>1, <2>2
<1> QED BY <1>3, <1>4, <1>5, <1>6

-----------------------------------------------------------------------------
(* The steps.                                                                *)

LEMMA RecordsStart ==
  ASSUME RecordsInit
  PROVE  RecordsInv
<1>1. task \in {"transaction", "block", "id"} /\ written = NothingWritten /\ got = NothingRead
  BY DEF RecordsInit
<1>2. IsDraft(draft)
  BY NoTransactionIsDraft DEF RecordsInit
<1>3. IsBlock(block) /\ Len(block.txs) <= MaxTxs
  <2>1. 0 <= MaxTxs
    BY RecordsAssumption
  <2> QED BY <2>1, EmptyBlockIsBlock DEF RecordsInit
<1>4. IsId(id)
  <2>1. id = [hash |-> <<>>, index |-> 0]
    BY DEF RecordsInit, NoTransactionId
  <2> QED BY <2>1, EmptyIsSized DEF IsId
<1>5. data \in ByteString
  BY DEF RecordsInit, ByteString
<1> QED BY <1>1, <1>2, <1>3, <1>4, <1>5 DEF RecordsInv

\* A step that leaves the bytes alone, and what was read, and the task.
LEMMA EditStep ==
  ASSUME RecordsInv, written = NothingWritten, UNCHANGED <<task, data, written, got>>,
         IsDraft(draft'), IsBlock(block'), Len(block.txs)' <= MaxTxs, IsId(id')
  PROVE  RecordsInv'
<1>1. got = NothingRead /\ got' = NothingRead /\ written' = NothingWritten
      /\ task' \in {"transaction", "block", "id"} /\ data' \in ByteString
  BY DEF RecordsInv
<1> QED BY <1>1 DEF RecordsInv

LEMMA DraftStep ==
  ASSUME RecordsInv, NEW t, IsDraft(t), Edit(t)
  PROVE  RecordsInv'
<1>1. /\ written = NothingWritten /\ draft' = t
      /\ UNCHANGED <<task, block, id, data, written, got>>
  BY DEF Edit
<1>2. IsBlock(block) /\ Len(block.txs) <= MaxTxs /\ IsId(id)
  BY DEF RecordsInv
<1>3. IsDraft(draft') /\ IsBlock(block') /\ Len(block.txs)' <= MaxTxs /\ IsId(id')
  BY <1>1, <1>2
<1>4. UNCHANGED <<task, data, written, got>>
  BY <1>1
<1> QED BY <1>1, <1>3, <1>4, EditStep

LEMMA BlockStep ==
  ASSUME RecordsInv, NEW p, IsBlock(p), Len(p.txs) <= MaxTxs, Describe(p)
  PROVE  RecordsInv'
<1>1. /\ written = NothingWritten /\ block' = p
      /\ UNCHANGED <<task, draft, id, data, written, got>>
  BY DEF Describe, Build
<1>2. IsDraft(draft) /\ IsId(id)
  BY DEF RecordsInv
<1>3. IsDraft(draft') /\ IsBlock(block') /\ Len(block.txs)' <= MaxTxs /\ IsId(id')
  BY <1>1, <1>2
<1>4. UNCHANGED <<task, data, written, got>>
  BY <1>1
<1> QED BY <1>1, <1>3, <1>4, EditStep

LEMMA LeftWhole ==
  ASSUME NEW whole \in ByteString
  PROVE  Left(whole, Len(whole), whole) /\ Left(<<>>, Len(whole), whole) /\ <<>> \in ByteString
<1>1. whole \o <<>> = whole /\ <<>> \o whole = whole /\ <<>> \in ByteString
  BY DEF ByteString
<1> QED BY <1>1 DEF Left

LEMMA WriteStep ==
  ASSUME RecordsInv, NEW bytes \in ByteString, NEW whole, NEW value, Write(bytes, whole, value),
         \/ task = "transaction" /\ IsTransaction(value)
              /\ Left(bytes, Len(whole), PutTransaction(value))
         \/ task = "block" /\ IsBlock(value) /\ Left(bytes, Len(whole), PutPool(value))
         \/ task = "id" /\ IsId(value) /\ Left(bytes, Len(whole), PutId(value))
  PROVE  RecordsInv'
<1>1. /\ written = NothingWritten /\ data' = bytes
      /\ written' = [value |-> value, size |-> Len(whole)]
      /\ UNCHANGED <<task, draft, block, id, got>>
  BY DEF Write
<1>2. /\ task \in {"transaction", "block", "id"} /\ IsDraft(draft)
      /\ IsBlock(block) /\ Len(block.txs) <= MaxTxs /\ IsId(id) /\ got = NothingRead
  BY <1>1 DEF RecordsInv
<1>3. written'.value = value /\ written'.size = Len(whole)
  BY <1>1
<1>4. Wrote(data, written)'
  BY <1>1, <1>3 DEF Wrote
<1> QED BY <1>1, <1>2, <1>4 DEF RecordsInv

LEMMA TruncateStep ==
  ASSUME RecordsInv, NEW n \in 0 .. Len(data), Truncate(n)
  PROVE  RecordsInv'
<1>1. /\ written # NothingWritten /\ got = NothingRead /\ data' = SubSeq(data, 1, n)
      /\ UNCHANGED <<task, draft, block, id, written, got>>
  BY DEF Truncate
<1>2. /\ task \in {"transaction", "block", "id"} /\ IsDraft(draft)
      /\ IsBlock(block) /\ Len(block.txs) <= MaxTxs /\ IsId(id) /\ data \in ByteString
      /\ Wrote(data, written)
  BY <1>1 DEF RecordsInv
<1>3. data' \in ByteString
  <2>1. <<>> \in ByteString
    BY DEF ByteString
  <2>2. SubSeq(data, 1, n) \in ByteString
    BY <1>2, <2>1, CutAgain
  <2> QED BY <1>1, <2>2
<1>4. ASSUME NEW size, NEW whole, Left(data, size, whole) PROVE Left(data', size, whole)
  <2>1. PICK u \in ByteString : data \o u = whole
    BY <1>4 DEF Left
  <2>2. \E w \in ByteString : SubSeq(data, 1, n) \o w = data \o u
    BY <1>2, <2>1, CutAgain
  <2> QED BY <1>1, <1>4, <2>1, <2>2 DEF Left
<1>5. Wrote(data, written)'
  BY <1>1, <1>2, <1>4 DEF Wrote
<1> QED BY <1>1, <1>2, <1>3, <1>5 DEF RecordsInv

\* What is read of the bytes that are left.
LEMMA ReadStep ==
  ASSUME RecordsInv, NEW what \in {"whole", "meta"}, NEW out, Read(what, out),
         NEW x \in ByteString, Left(data, written.size, x), NEW v, out.ok \in BOOLEAN,
         NEW u \in ByteString, data \o u = x,
         \/ what = "whole" /\ v = written.value /\ Outcome(out, v, u)
         \/ what = "meta" /\ task = "block" /\ v = MetaOf(written.value) /\ FrontOutcome(out, v, u)
  PROVE  RecordsInv'
<1>1. /\ written # NothingWritten /\ got = NothingRead
      /\ got' = [what |-> what, ok |-> out.ok, value |-> IF out.ok THEN out.got[1] ELSE <<>>]
      /\ UNCHANGED <<task, draft, block, id, data, written>>
  BY DEF Read
<1>2. /\ task \in {"transaction", "block", "id"} /\ IsDraft(draft)
      /\ IsBlock(block) /\ Len(block.txs) <= MaxTxs /\ IsId(id) /\ data \in ByteString
      /\ Wrote(data, written)
  BY <1>1 DEF RecordsInv
<1>3. Len(data) = written.size <=> u = <<>>
  <2>1. Len(data \o u) = Len(data) + Len(u) /\ Len(data) \in Nat /\ Len(u) \in Nat
        /\ (Len(u) = 0 <=> u = <<>>)
    BY <1>2 DEF ByteString
  <2>2. written.size = Len(data \o u)
    BY DEF Left
  <2> QED BY <2>1, <2>2
<1>4. /\ got'.what = what /\ got'.ok = out.ok
      /\ got'.value = IF out.ok THEN out.got[1] ELSE <<>>
  BY <1>1
<1>5. got'.ok \in BOOLEAN
  BY <1>4
<1>6. Len(data) = written.size => got'.ok
  BY <1>3, <1>4 DEF Outcome, FrontOutcome
<1>7. got'.what = "whole" /\ got'.ok => Len(data) = written.size /\ got'.value = written.value
  BY <1>3, <1>4 DEF Outcome
<1>8. got'.what = "meta" /\ got'.ok => got'.value = MetaOf(written.value)
  BY <1>4 DEF FrontOutcome
<1>9. got'.what \in {"whole", "meta"} /\ (got'.what = "meta" => task = "block")
  BY <1>4
<1>10. GotRight(got)'
  BY <1>1, <1>5, <1>6, <1>7, <1>8, <1>9 DEF GotRight
<1>11. Wrote(data, written)'
  BY <1>1, <1>2 DEF Wrote
<1>12. written' # NothingWritten
  BY <1>1
<1> QED BY <1>1, <1>2, <1>10, <1>11, <1>12 DEF RecordsInv

LEMMA RecordsKeep ==
  ASSUME RecordsInv, [RecordsNext]_recordsVars
  PROVE  RecordsInv'
<1>0. /\ IsDraft(draft) /\ IsBlock(block) /\ Len(block.txs) <= MaxTxs /\ IsId(id)
      /\ data \in ByteString /\ (written # NothingWritten => Wrote(data, written))
  BY DEF RecordsInv
<1>1. ASSUME NEW a \in AddressValue, SetSource(a) \/ SetTarget(a)
      PROVE  RecordsInv'
  <2>1. Sized(a) /\ AsAddress(a) = a
    BY RecordsAssumption
  <2>2. IsDraft([draft EXCEPT !.source = a]) /\ IsDraft([draft EXCEPT !.target = a])
    BY <1>0, <2>1, DraftEdits
  <2>3. CASE SetSource(a)
    BY <2>2, <2>3, DraftStep DEF SetSource
  <2>4. CASE SetTarget(a)
    BY <2>2, <2>4, DraftStep DEF SetTarget
  <2> QED BY <1>1, <2>3, <2>4
<1>2. ASSUME NEW name \in CurrencyName, SetCurrency(name)
      PROVE  RecordsInv'
  <2>1. IsDraft([draft EXCEPT !.currency = name])
    BY <1>0, RecordsAssumption, DraftEdits
  <2> QED BY <1>2, <2>1, DraftStep DEF SetCurrency
<1>3. ASSUME NEW a \in AmountValue, SetAmount(a)
      PROVE  RecordsInv'
  <2>1. a \in AmountNumber
    BY RecordsAssumption
  <2>2. IsDraft([draft EXCEPT !.amount = a])
    BY <1>0, <2>1, DraftEdits
  <2> QED BY <1>3, <2>2, DraftStep DEF SetAmount
<1>4. ASSUME NEW a \in BalanceValue, SetBalance(a)
      PROVE  RecordsInv'
  <2>1. a \in AmountNumber
    BY RecordsAssumption
  <2>2. IsDraft([draft EXCEPT !.balance = a])
    BY <1>0, <2>1, DraftEdits
  <2> QED BY <1>4, <2>2, DraftStep DEF SetBalance
<1>5. ASSUME NEW k \in FieldId, NEW field \in FieldValue,
             AddUserField(k, field) \/ AddBlockField(k, field)
      PROVE  RecordsInv'
  <2>1. FieldMap(draft.fields) /\ FieldMap(block.fields) /\ FieldIsValid(field)
    BY <1>0, <1>5 DEF IsDraft, IsTransaction, IsBlock, AddUserField, AddBlockField
  <2>2. CASE AddUserField(k, field)
    <3> DEFINE f == With(draft.fields, k, field)
    <3>1. FieldMap(f)
      BY <2>1, WithMap
    <3>2. Edit([draft EXCEPT !.fields = f])
      BY <2>2 DEF AddUserField
    <3> HIDE DEF f
    <3>3. IsDraft([draft EXCEPT !.fields = f])
      BY <1>0, <3>1, DraftEdits
    <3> QED BY <3>2, <3>3, DraftStep
  <2>3. CASE AddBlockField(k, field)
    <3> DEFINE f == With(block.fields, k, field)
               q == [block EXCEPT !.fields = f]
    <3>1. FieldMap(f)
      BY <2>1, WithMap
    <3>2. Describe(q)
      BY <2>3 DEF AddBlockField
    <3> HIDE DEF f
    <3>3. IsBlock(q) /\ Len(q.txs) <= MaxTxs
      BY <1>0, <3>1, BlockEdits
    <3> HIDE DEF q
    <3> QED BY <3>2, <3>3, BlockStep
  <2> QED BY <1>5, <2>2, <2>3
<1>6. ASSUME AddTransaction PROVE RecordsInv'
  <2> DEFINE c == Append(block.txs, draft)
             q == [block EXCEPT !.txs = c]
  <2>1. /\ written = NothingWritten /\ Len(block.txs) < MaxTxs /\ block' = q
        /\ draft' = NoTransaction /\ UNCHANGED <<task, id, data, written, got>>
    BY <1>6 DEF AddTransaction, Build
  <2>2. TxList(c) /\ Len(c) <= MaxTxs
    <3>1. TxList(block.txs) /\ IsTransaction(draft)
      BY <1>0 DEF IsBlock, IsDraft, TxList
    <3> QED BY <2>1, <3>1, TxListGrows
  <2> HIDE DEF c
  <2>3. IsBlock(q) /\ Len(q.txs) <= MaxTxs
    BY <1>0, <2>2, BlockEdits
  <2> HIDE DEF q
  <2>4. IsDraft(draft') /\ IsBlock(block') /\ Len(block.txs)' <= MaxTxs /\ IsId(id')
    BY <1>0, <2>1, <2>3, NoTransactionIsDraft
  <2>5. UNCHANGED <<task, data, written, got>>
    BY <2>1
  <2> QED BY <2>1, <2>4, <2>5, EditStep
<1>7. ASSUME NEW n \in SequenceValue, SetSequence(n) PROVE RecordsInv'
  <2> DEFINE q == [block EXCEPT !.sequence = n]
  <2>1. n \in RegisterNumber
    BY RecordsAssumption DEF RegisterNumber
  <2>2. IsBlock(q) /\ Len(q.txs) <= MaxTxs
    BY <1>0, <2>1, BlockEdits
  <2>3. Describe(q)
    BY <1>7 DEF SetSequence
  <2> HIDE DEF q
  <2> QED BY <2>2, <2>3, BlockStep
<1>8. ASSUME NEW h \in HashBytes, SetPreviousHash(h) PROVE RecordsInv'
  <2> DEFINE q == [block EXCEPT !.previous = h]
  <2>1. Sized(h)
    BY RecordsAssumption
  <2>2. IsBlock(q) /\ Len(q.txs) <= MaxTxs
    BY <1>0, <2>1, BlockEdits
  <2>3. Describe(q)
    BY <1>8 DEF SetPreviousHash
  <2> HIDE DEF q
  <2> QED BY <2>2, <2>3, BlockStep
<1>9. ASSUME NEW h \in HashBytes, NEW i \in IndexValue, NewId(h, i) PROVE RecordsInv'
  <2>1. /\ written = NothingWritten /\ id' = [hash |-> h, index |-> i]
        /\ UNCHANGED <<task, draft, block, data, written, got>>
    BY <1>9 DEF NewId
  <2>2. Sized(h) /\ AsHash(h) = h /\ i \in RegisterNumber
    BY RecordsAssumption DEF RegisterNumber
  <2>3. IsId(id')
    BY <2>1, <2>2 DEF IsId
  <2>4. IsDraft(draft') /\ IsBlock(block') /\ Len(block.txs)' <= MaxTxs
    BY <1>0, <2>1
  <2>5. UNCHANGED <<task, data, written, got>>
    BY <2>1
  <2> QED BY <2>1, <2>3, <2>4, <2>5, EditStep
<1>10. ASSUME ToByteStream \/ ToBinary PROVE RecordsInv'
  <2> DEFINE x == PutTransaction(draft)
             some == IF ValidTransaction(draft) THEN x ELSE <<>>
  <2>1. x \in ByteString /\ IsTransaction(draft)
    BY <1>0, TransactionReads DEF IsDraft
  <2>2. Left(x, Len(x), x) /\ Left(<<>>, Len(x), x) /\ <<>> \in ByteString
    <3> HIDE DEF x
    <3> QED BY <2>1, LeftWhole
  <2>3. CASE ToByteStream
    <3>1. task = "transaction" /\ Write(x, x, draft)
      BY <2>3 DEF ToByteStream
    <3> QED BY <2>1, <2>2, <3>1, WriteStep
  <2>4. CASE ToBinary
    <3>1. task = "transaction" /\ Write(some, x, draft)
      BY <2>4 DEF ToBinary
    <3>2. some \in ByteString /\ Left(some, Len(x), x)
      <4> HIDE DEF x
      <4> QED BY <2>1, <2>2
    <3> HIDE DEF some
    <3> QED BY <2>1, <3>1, <3>2, WriteStep
  <2> QED BY <1>10, <2>3, <2>4
<1>11. ASSUME WriteBlock PROVE RecordsInv'
  <2> DEFINE x == PutPool(block)
  <2>1. task = "block" /\ Write(x, x, block)
    BY <1>11 DEF WriteBlock
  <2>2. x \in ByteString
    BY <1>0, BlockReads
  <2>3. Left(x, Len(x), x)
    <3> HIDE DEF x
    <3> QED BY <2>2, LeftWhole
  <2> QED BY <1>0, <2>1, <2>2, <2>3, WriteStep
<1>12. ASSUME WriteId PROVE RecordsInv'
  <2> DEFINE x == PutId(id)
  <2>1. task = "id" /\ Write(x, x, id)
    BY <1>12 DEF WriteId
  <2>2. x \in ByteString
    BY <1>0, IdIsRead
  <2>3. Left(x, Len(x), x)
    <3> HIDE DEF x
    <3> QED BY <2>2, LeftWhole
  <2> QED BY <1>0, <2>1, <2>2, <2>3, WriteStep
<1>13. ASSUME NEW n \in 0 .. Len(data), Truncate(n) PROVE RecordsInv'
  BY <1>13, TruncateStep
<1>14. ASSUME ReadTransaction PROVE RecordsInv'
  <2> DEFINE out == GetTransaction(Stream(data))
             w == written.value
             x == PutTransaction(w)
  <2>1. task = "transaction" /\ Read("whole", out) /\ written # NothingWritten
    BY <1>14 DEF ReadTransaction, Read
  <2>2. IsTransaction(w) /\ Left(data, written.size, x)
    BY <1>0, <2>1 DEF Wrote
  <2>3. x \in ByteString /\ Reads(Stream(data), out, x, w)
    <3> HIDE DEF w
    <3> QED BY <2>2, TransactionReads
  <2> HIDE DEF out, x
  <2>4. PICK u \in ByteString : data \o u = x
    BY <2>2 DEF Left
  <2>5. out.ok \in BOOLEAN /\ Outcome(out, w, u)
    BY <1>0, <2>3, <2>4, WholeOutcome
  <2> QED BY <2>1, <2>2, <2>3, <2>4, <2>5, ReadStep
<1>15. ASSUME ReadBlock PROVE RecordsInv'
  <2> DEFINE out == GetPool(Stream(data))
             w == written.value
             x == PutPool(w)
  <2>1. task = "block" /\ Read("whole", out) /\ written # NothingWritten
    BY <1>15 DEF ReadBlock, Read
  <2>2. IsBlock(w) /\ Left(data, written.size, x)
    BY <1>0, <2>1 DEF Wrote
  <2>3. x \in ByteString /\ Reads(Stream(data), out, x, w)
    <3> HIDE DEF w
    <3> QED BY <2>2, BlockReads
  <2> HIDE DEF out, x
  <2>4. PICK u \in ByteString : data \o u = x
    BY <2>2 DEF Left
  <2>5. out.ok \in BOOLEAN /\ Outcome(out, w, u)
    BY <1>0, <2>3, <2>4, WholeOutcome
  <2> QED BY <2>1, <2>2, <2>3, <2>4, <2>5, ReadStep
<1>16. ASSUME ReadMeta PROVE RecordsInv'
  <2> DEFINE out == GetMeta(Stream(data))
             w == written.value
             x == PutPool(w)
             front == MetaBytes(w)
             v == MetaOf(w)
  <2>1. task = "block" /\ Read("meta", out) /\ written # NothingWritten
    BY <1>16 DEF ReadMeta, Read
  <2>2. IsBlock(w) /\ Left(data, written.size, x)
    BY <1>0, <2>1 DEF Wrote
  <2>3. x \in ByteString /\ front \in ByteString /\ Reads(Stream(data), out, front, v)
    <3> HIDE DEF w
    <3> QED BY <2>2, BlockReads, MetaReads
  <2>4. PICK rest \in ByteString : x = front \o rest
    <3> HIDE DEF w
    <3> QED BY <2>2, BlockBegins
  <2> HIDE DEF out, x, front
  <2>5. PICK u \in ByteString : data \o u = x
    BY <2>2 DEF Left
  <2>6. out.ok \in BOOLEAN /\ FrontOutcome(out, v, u)
    <3> HIDE DEF v
    <3> QED BY <1>0, <2>3, <2>4, <2>5, PartOutcome
  <2> QED BY <2>1, <2>2, <2>3, <2>5, <2>6, ReadStep
<1>17. ASSUME ReadId PROVE RecordsInv'
  <2> DEFINE out == GetId(Stream(data))
             w == written.value
             x == PutId(w)
  <2>1. task = "id" /\ Read("whole", out) /\ written # NothingWritten
    BY <1>17 DEF ReadId, Read
  <2>2. IsId(w) /\ Left(data, written.size, x)
    BY <1>0, <2>1 DEF Wrote
  <2>3. x \in ByteString /\ Reads(Stream(data), out, x, w)
    <3> HIDE DEF w
    <3> QED BY <2>2, IdIsRead
  <2> HIDE DEF out, x
  <2>4. PICK u \in ByteString : data \o u = x
    BY <2>2 DEF Left
  <2>5. out.ok \in BOOLEAN /\ Outcome(out, w, u)
    BY <1>0, <2>3, <2>4, WholeOutcome
  <2> QED BY <2>1, <2>2, <2>3, <2>4, <2>5, ReadStep
<1>18. ASSUME UNCHANGED recordsVars PROVE RecordsInv'
  BY <1>18 DEF recordsVars, RecordsInv, Wrote, GotRight
<1> QED BY <1>1, <1>2, <1>3, <1>4, <1>5, <1>6, <1>7, <1>8, <1>9, <1>10, <1>11, <1>12,
           <1>13, <1>14, <1>15, <1>16, <1>17, <1>18 DEF RecordsNext

\* The invariant holds of every reachable state.
THEOREM RecordsSafe == RecordsSpec => []RecordsInv
<1>1. RecordsInit => RecordsInv
  BY RecordsStart
<1>2. RecordsInv /\ [RecordsNext]_recordsVars => RecordsInv'
  BY RecordsKeep
<1> QED BY <1>1, <1>2, PTL DEF RecordsSpec

-----------------------------------------------------------------------------
(* What the invariant says.                                                  *)

LEMMA SameAsItself ==
  /\ \A t : SameTransaction(t, t)
  /\ \A p : SameBlock(p, p)
  /\ \A i : SameId(i, i)
<1>1. \A a : Equal(a, a)
  BY DEF Equal
<1>2. \A f : SameField(f, f)
  BY <1>1 DEF SameField
<1>3. \A f : SameFields(f, f)
  BY <1>2 DEF SameFields
<1>4. \A t : SameTransaction(t, t)
  BY <1>1, <1>3 DEF SameTransaction
<1>5. \A p : SameBlock(p, p)
  BY <1>3, <1>4 DEF SameBlock
<1>6. \A i : SameId(i, i)
  BY DEF SameId
<1> QED BY <1>4, <1>5, <1>6

LEMMA InvReads ==
  ASSUME RecordsInv
  PROVE  ReadsWhatWasWritten
<1>1. ASSUME got # NothingRead, got.ok
      PROVE  LET read == got.value   wrote == written.value
             IN  CASE got.what = "meta" -> read.previous = wrote.previous /\ read.sequence = wrote.sequence
                   [] got.what = "whole" /\ task = "transaction" -> SameTransaction(read, wrote)
                   [] got.what = "whole" /\ task = "block" -> SameBlock(read, wrote)
                   [] got.what = "whole" /\ task = "id" -> SameId(read, wrote)
  <2>1. GotRight(got) /\ task \in {"transaction", "block", "id"}
    BY <1>1 DEF RecordsInv
  <2>2. CASE got.what = "meta"
    <3>1. got.value = MetaOf(written.value)
      BY <1>1, <2>1, <2>2 DEF GotRight
    <3>2. got.value.previous = written.value.previous /\ got.value.sequence = written.value.sequence
      BY <3>1 DEF MetaOf
    <3> QED BY <2>2, <3>2
  <2>3. CASE got.what = "whole"
    <3>1. got.value = written.value
      BY <1>1, <2>1, <2>3 DEF GotRight
    <3> QED BY <2>1, <2>3, <3>1, SameAsItself
  <2> QED BY <2>1, <2>2, <2>3 DEF GotRight
<1>2. ASSUME NEW a \in {draft.source, draft.target}
      PROVE  AddressFromText(AddressToText(a)) = a
  <2>1. Sized(a) /\ AsAddress(a) = a
    BY DEF RecordsInv, IsDraft, IsTransaction
  <2>2. FromHex(ToHex(a)) = a
    BY <2>1, HexReads DEF Sized
  <2> QED BY <2>1, <2>2 DEF AddressFromText, AddressToText
<1>3. HashFromText(HashToText(id.hash)) = id.hash
  <2>1. Sized(id.hash) /\ AsHash(id.hash) = id.hash
    BY DEF RecordsInv, IsId
  <2>2. FromHex(ToHex(id.hash)) = id.hash
    BY <2>1, HexReads DEF Sized
  <2> QED BY <2>1, <2>2 DEF HashFromText, HashToText
<1>4. ASSUME IdIsValid(id), id.index < 10 PROVE SameId(IdFromText(IdToText(id)), id)
  <2>1. id.index \in 0 .. 9
    <3>1. id.index \in 0 .. Register - 1 /\ Register \in Nat
      BY ByteType DEF RecordsInv, IsId, RegisterNumber
    <3> QED BY <1>4, <3>1
  <2> QED BY <1>3, <1>4, <2>1, IndexReads
<1> QED BY <1>1, <1>2, <1>3, <1>4 DEF ReadsWhatWasWritten

LEMMA InvCut ==
  ASSUME RecordsInv
  PROVE  CutIsRefused
  BY DEF RecordsInv, GotRight, CutIsRefused

\* What from_binary() and from_byte_stream() read of the bytes that a client wrote
\* answers every question as the object it wrote; so do previous hash and sequence
\* that meta_from_binary() reads of its front, and the texts of hashes, addresses
\* and identifiers with an index below ten.
THEOREM RecordsRead == RecordsSpec => []ReadsWhatWasWritten
<1>1. RecordsInv => ReadsWhatWasWritten
  BY InvReads
<1> QED BY <1>1, RecordsSafe, PTL

\* An object of which an end is missing is refused by from_binary() and
\* from_byte_stream(), wherever it was cut, and a whole one never is.
THEOREM RecordsCut == RecordsSpec => []CutIsRefused
<1>1. RecordsInv => CutIsRefused
  BY InvCut
<1> QED BY <1>1, RecordsSafe, PTL
=============================================================================
