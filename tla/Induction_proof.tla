--------------------------- MODULE Induction_proof ---------------------------
(***************************************************************************)
(* Induction over the natural numbers, stated of sets: a set with 0 and    *)
(* with the successor of each of its members has all numbers.  It makes    *)
(* recursive functions of numbers usable in proofs: that such a function   *)
(* exists is itself an induction.  The same for functions of the subsets of*)
(* a finite set, which the folds of the library are, and for sums.         *)
(***************************************************************************)
EXTENDS Powers, FiniteSetTheorems, WellFoundedInduction, TLAPS

\* A set of numbers that is not empty has a least member.
LEMMA LeastNumber ==
  ASSUME NEW T \in SUBSET Nat, T # {}
  PROVE  \E m \in T : \A k \in T : m <= k
<1> DEFINE R == OpToRel(<, Nat)
<1>1. IsWellFoundedOn(R, Nat)
  BY NatLessThanWellFounded
<1>2. \A j, k \in Nat : <<j, k>> \in R <=> j < k
  BY DEF OpToRel
<1> HIDE DEF R
<1>3. PICK m \in T : \A k \in T : ~(<<k, m>> \in R)
  BY <1>1, WFMin
<1>4. \A k \in T : k \in Nat /\ m \in Nat /\ ~(k < m)
  BY <1>2, <1>3
<1>5. \A k \in T : m <= k
  BY <1>4
<1> QED BY <1>5

\* Induction.
LEMMA Induct ==
  ASSUME NEW S, 0 \in S, \A n \in Nat : n \in S => n + 1 \in S
  PROVE  Nat \subseteq S
<1> SUFFICES ASSUME Nat \ S # {} PROVE FALSE
  OBVIOUS
<1>1. PICK m \in Nat \ S : \A k \in Nat \ S : m <= k
  BY LeastNumber
<1>2. m # 0 /\ m - 1 \in Nat
  BY <1>1
<1>3. m - 1 \in S
  BY <1>1, <1>2
<1> QED BY <1>1, <1>2, <1>3

\* f starts with e, and g makes its value at a place of the place and the value before.
Iterates(f, e, g) == f = [n \in Nat |-> IF n = 0 THEN e ELSE g[<<n, f[n - 1]>>]]

\* There is such a function.
LEMMA Iteration ==
  ASSUME NEW T, NEW e \in T, NEW g \in [Nat \X T -> T]
  PROVE  \E f \in [Nat -> T] : Iterates(f, e, g)
<1> DEFINE Fits(n, f) == /\ f \in [0 .. n -> T]
                         /\ f[0] = e
                         /\ \A i \in 1 .. n : f[i] = g[<<i, f[i - 1]>>]
           S == {n \in Nat : \E f : Fits(n, f)}
<1>1. 0 \in S
  <2>1. Fits(0, [i \in 0 .. 0 |-> e])
    OBVIOUS
  <2> QED BY <2>1
<1>2. \A n \in Nat : n \in S => n + 1 \in S
  <2> SUFFICES ASSUME NEW n \in Nat, n \in S PROVE n + 1 \in S
    OBVIOUS
  <2>1. PICK f : Fits(n, f)
    OBVIOUS
  <2> DEFINE h == [i \in 0 .. n + 1 |-> IF i = n + 1 THEN g[<<n + 1, f[n]>>] ELSE f[i]]
  <2>2. f[n] \in T /\ <<n + 1, f[n]>> \in Nat \X T
    BY <2>1
  <2>3. h \in [0 .. n + 1 -> T]
    BY <2>1, <2>2
  <2>4. h[0] = e
    BY <2>1
  <2>5. \A i \in 1 .. n + 1 : h[i] = g[<<i, h[i - 1]>>]
    <3> SUFFICES ASSUME NEW i \in 1 .. n + 1 PROVE h[i] = g[<<i, h[i - 1]>>]
      OBVIOUS
    <3>1. h[i - 1] = f[i - 1] /\ i - 1 \in 0 .. n
      OBVIOUS
    <3>2. CASE i = n + 1
      <4>1. h[i] = g[<<n + 1, f[n]>>] /\ h[i - 1] = f[n]
        BY <3>1, <3>2
      <4> QED BY <3>2, <4>1
    <3>3. CASE i # n + 1
      BY <3>1, <3>3, <2>1
    <3> QED BY <3>2, <3>3
  <2>6. Fits(n + 1, h)
    <3> HIDE DEF h
    <3> QED BY <2>3, <2>4, <2>5
  <2> HIDE DEF Fits
  <2> QED BY <2>6
<1>3. \A n \in Nat : \E f : Fits(n, f)
  <2> HIDE DEF Fits
  <2>1. Nat \subseteq S
    <3> HIDE DEF S
    <3> QED BY <1>1, <1>2, Induct
  <2> QED BY <2>1
<1> DEFINE F(n) == CHOOSE f : Fits(n, f)
           whole == [n \in Nat |-> F(n)[n]]
<1>4. \A n \in Nat : Fits(n, F(n))
  <2> HIDE DEF Fits
  <2> QED BY <1>3
<1>5. \A n \in Nat : F(n + 1)[n] = F(n)[n]
  <2> SUFFICES ASSUME NEW n \in Nat PROVE F(n + 1)[n] = F(n)[n]
    OBVIOUS
  <2> DEFINE A == F(n + 1)
             B == F(n)
             P == {i \in Nat : i <= n => A[i] = B[i]}
  <2>1. Fits(n + 1, A) /\ Fits(n, B)
    <3> HIDE DEF Fits, F
    <3> QED BY <1>4
  <2> HIDE DEF A, B
  <2>2. 0 \in P
    BY <2>1
  <2>3. \A i \in Nat : i \in P => i + 1 \in P
    <3> SUFFICES ASSUME NEW i \in Nat, i \in P, i + 1 <= n PROVE A[i + 1] = B[i + 1]
      OBVIOUS
    <3>1. A[i] = B[i]
      OBVIOUS
    <3>2. i + 1 \in 1 .. n /\ i + 1 \in 1 .. n + 1 /\ (i + 1) - 1 = i
      OBVIOUS
    <3>3. A[i + 1] = g[<<i + 1, A[i]>>]
      BY <2>1, <3>2
    <3>4. B[i + 1] = g[<<i + 1, B[i]>>]
      BY <2>1, <3>2
    <3> QED BY <3>1, <3>3, <3>4
  <2>4. Nat \subseteq P
    <3> HIDE DEF P
    <3> QED BY <2>2, <2>3, Induct
  <2>5. A[n] = B[n]
    BY <2>4
  <2> QED BY <2>5 DEF A, B
<1>6. whole \in [Nat -> T]
  <2>1. \A n \in Nat : F(n)[n] \in T
    <3> HIDE DEF F
    <3> QED BY <1>4
  <2> HIDE DEF F
  <2> QED BY <2>1
<1>7. whole[0] = e
  BY <1>4
<1>8. \A n \in Nat : n # 0 => whole[n] = g[<<n, whole[n - 1]>>]
  <2> SUFFICES ASSUME NEW n \in Nat, n # 0 PROVE whole[n] = g[<<n, whole[n - 1]>>]
    OBVIOUS
  <2>1. n - 1 \in Nat /\ (n - 1) + 1 = n /\ n \in 1 .. n
    OBVIOUS
  <2>2. F(n)[n] = g[<<n, F(n)[n - 1]>>]
    BY <1>4, <2>1
  <2>3. F(n)[n - 1] = F(n - 1)[n - 1]
    <3> HIDE DEF F
    <3> QED BY <1>5, <2>1
  <2> HIDE DEF F
  <2> QED BY <2>1, <2>2, <2>3
<1>9. whole = [n \in Nat |-> IF n = 0 THEN e ELSE g[<<n, whole[n - 1]>>]]
  <2> DEFINE other == [n \in Nat |-> IF n = 0 THEN e ELSE g[<<n, whole[n - 1]>>]]
  <2>1. \A n \in Nat : whole[n] = other[n]
    <3> HIDE DEF whole
    <3> QED BY <1>7, <1>8
  <2>2. DOMAIN whole = Nat /\ whole = [n \in Nat |-> whole[n]]
    BY <1>6
  <2> HIDE DEF whole
  <2> QED BY <2>1, <2>2
<1> HIDE DEF whole
<1> QED BY <1>6, <1>9 DEF Iterates

\* The same for a function of the numbers up to N.
IteratesUpTo(N, f, e, g) == f = [n \in 0 .. N |-> IF n = 0 THEN e ELSE g[<<n, f[n - 1]>>]]

LEMMA IterationUpTo ==
  ASSUME NEW N \in Nat, NEW T, NEW e \in T, NEW g \in [Nat \X T -> T]
  PROVE  \E f \in [0 .. N -> T] : IteratesUpTo(N, f, e, g)
<1>1. PICK f \in [Nat -> T] : Iterates(f, e, g)
  BY Iteration
<1> DEFINE h == [n \in 0 .. N |-> f[n]]
<1>2. h \in [0 .. N -> T]
  OBVIOUS
<1>3. f[0] = e /\ \A n \in 1 .. N : f[n] = g[<<n, f[n - 1]>>]
  BY <1>1 DEF Iterates
<1>4. h[0] = e /\ \A n \in 1 .. N : h[n] = g[<<n, h[n - 1]>>]
  BY <1>3
<1>5. IteratesUpTo(N, h, e, g)
  <2> HIDE DEF h
  <2> QED BY <1>2, <1>4 DEF IteratesUpTo
<1> HIDE DEF h
<1> QED BY <1>2, <1>5

\* The two equations of powers.
LEMMA PowerRecursion ==
  ASSUME NEW base \in Int
  PROVE  /\ Power(base, 0) = 1
         /\ \A n \in Nat : Power(base, n) \in Int /\ Power(base, n + 1) = base * Power(base, n)
<1> DEFINE g == [p \in Nat \X Int |-> base * p[2]]
           Eq(f) == f = [i \in Nat |-> IF i = 0 THEN 1 ELSE base * f[i - 1]]
           to == CHOOSE f : Eq(f)
<1>1. g \in [Nat \X Int -> Int]
  OBVIOUS
<1>2. PICK f \in [Nat -> Int] : Iterates(f, 1, g)
  <2> HIDE DEF g
  <2>1. \A e \in Int : \E f \in [Nat -> Int] : Iterates(f, e, g)
    BY <1>1, Iteration, Zenon
  <2>2. 1 \in Int
    OBVIOUS
  <2> QED BY <2>1, <2>2, Zenon
<1>3. Eq(f)
  <2>1. \A n \in Nat : n # 0 => g[<<n, f[n - 1]>>] = base * f[n - 1]
    OBVIOUS
  <2> QED BY <1>2, <2>1 DEF Iterates
<1>4. Eq(to)
  <2> HIDE DEF Eq
  <2> QED BY <1>3
<1>5. \A n \in Nat : Power(base, n) = to[n]
  BY DEF Power
<1>6. to[0] = 1 /\ \A n \in Nat : to[n + 1] = base * to[n]
  <2> HIDE DEF to
  <2> QED BY <1>4
<1>7. \A n \in Nat : to[n] \in Int
  <2> DEFINE S == {n \in Nat : to[n] \in Int}
  <2> HIDE DEF to
  <2>1. 0 \in S
    BY <1>6
  <2>2. \A n \in Nat : n \in S => n + 1 \in S
    BY <1>6
  <2>3. Nat \subseteq S
    <3> HIDE DEF S
    <3> QED BY <2>1, <2>2, Induct
  <2> QED BY <2>3
<1> HIDE DEF to
<1> QED BY <1>5, <1>6, <1>7

\* Powers of a positive number are positive.
LEMMA PowerPositive ==
  ASSUME NEW base \in Nat \ {0}, NEW n \in Nat
  PROVE  Power(base, n) \in Nat \ {0}
<1> DEFINE S == {i \in Nat : Power(base, i) \in Nat \ {0}}
<1>1. 0 \in S
  <2>1. Power(base, 0) = 1
    BY PowerRecursion
  <2> QED BY <2>1
<1>2. \A i \in Nat : i \in S => i + 1 \in S
  <2> SUFFICES ASSUME NEW i \in Nat, Power(base, i) \in Nat \ {0}
               PROVE  Power(base, i + 1) \in Nat \ {0}
    OBVIOUS
  <2>1. Power(base, i + 1) = base * Power(base, i)
    BY PowerRecursion
  <2>2. \A p, q \in Nat \ {0} : p * q \in Nat \ {0}
    OBVIOUS
  <2> QED BY <2>1, <2>2
<1>3. Nat \subseteq S
  <2> HIDE DEF S
  <2> QED BY <1>1, <1>2, Induct
<1> QED BY <1>3

\* The exponents of a product add up.
LEMMA PowerSum ==
  ASSUME NEW base \in Nat \ {0}, NEW m \in Nat, NEW n \in Nat
  PROVE  Power(base, m + n) = Power(base, m) * Power(base, n)
<1> DEFINE S == {i \in Nat : Power(base, m + i) = Power(base, m) * Power(base, i)}
<1>1. 0 \in S
  <2>1. Power(base, 0) = 1 /\ Power(base, m) \in Int /\ m + 0 = m
    BY PowerRecursion
  <2> QED BY <2>1
<1>2. \A i \in Nat : i \in S => i + 1 \in S
  <2> SUFFICES ASSUME NEW i \in Nat, Power(base, m + i) = Power(base, m) * Power(base, i)
               PROVE  Power(base, m + (i + 1)) = Power(base, m) * Power(base, i + 1)
    OBVIOUS
  <2>1. m + (i + 1) = (m + i) + 1 /\ m + i \in Nat
    OBVIOUS
  <2>2. /\ Power(base, (m + i) + 1) = base * Power(base, m + i)
        /\ Power(base, i + 1) = base * Power(base, i)
        /\ Power(base, m) \in Int /\ Power(base, i) \in Int
    BY <2>1, PowerRecursion
  <2>3. \A p, q \in Int : base * (p * q) = p * (base * q)
    OBVIOUS
  <2> QED BY <2>1, <2>2, <2>3
<1>3. Nat \subseteq S
  <2> HIDE DEF S
  <2> QED BY <1>1, <1>2, Induct
<1> QED BY <1>3

-----------------------------------------------------------------------------
(* Recursion over the subsets of a finite set, as the folds of the library do*)
(* it: what is chosen of a set goes with the value of the rest.              *)

SubsetRecurs(f, X, e, g, c) ==
  f = [s \in SUBSET X |-> IF s = {} THEN e ELSE g[<<c[s], f[s \ {c[s]}]>>]]

LEMMA SubsetRecursion ==
  ASSUME NEW X, IsFiniteSet(X), NEW T, NEW e \in T, NEW g \in [X \X T -> T],
         NEW c, \A s \in SUBSET X : s # {} => c[s] \in s
  PROVE  \E f \in [SUBSET X -> T] : SubsetRecurs(f, X, e, g, c)
<1> DEFINE Y == [SUBSET X -> T]
           Next(h) == [s \in SUBSET X |-> IF s = {} THEN e ELSE g[<<c[s], h[s \ {c[s]}]>>]]
           step == [p \in Nat \X Y |-> Next(p[2])]
           bottom == [s \in SUBSET X |-> e]
<1>1. bottom \in Y
  OBVIOUS
<1>2. \A h \in Y : Next(h) \in Y
  <2> SUFFICES ASSUME NEW h \in Y, NEW s \in SUBSET X, s # {}
               PROVE  g[<<c[s], h[s \ {c[s]}]>>] \in T
    OBVIOUS
  <2>1. c[s] \in X /\ s \ {c[s]} \in SUBSET X
    OBVIOUS
  <2>2. h[s \ {c[s]}] \in T
    BY <2>1
  <2> QED BY <2>1, <2>2
<1>3. step \in [Nat \X Y -> Y]
  <2> HIDE DEF Next, Y
  <2> QED BY <1>2
<1>4. PICK H \in [Nat -> Y] : Iterates(H, bottom, step)
  <2> HIDE DEF step, Y, bottom
  <2>1. \A b \in Y : \E H \in [Nat -> Y] : Iterates(H, b, step)
    BY <1>3, Iteration, Zenon
  <2> QED BY <1>1, <2>1, Zenon
<1>5. H[0] = bottom /\ \A n \in Nat : H[n + 1] = Next(H[n]) /\ H[n] \in Y
  <2> HIDE DEF Next, Y, bottom
  <2>1. \A n \in Nat : H[n + 1] = step[<<n + 1, H[n]>>] /\ H[n] \in Y
    <3> HIDE DEF step
    <3>1. \A n \in Nat : n + 1 \in Nat /\ n + 1 # 0 /\ (n + 1) - 1 = n
      OBVIOUS
    <3> QED BY <1>4, <3>1 DEF Iterates
  <2>2. \A n \in Nat : <<n + 1, H[n]>> \in Nat \X Y
    BY <2>1
  <2>3. \A n \in Nat : step[<<n + 1, H[n]>>] = Next(H[n])
    BY <2>2
  <2>4. H[0] = bottom
    <3> HIDE DEF step
    <3> QED BY <1>4 DEF Iterates
  <2> HIDE DEF step
  <2> QED BY <2>1, <2>3, <2>4
<1>6. \A n \in Nat, s \in SUBSET X :
        H[n + 1][s] = IF s = {} THEN e ELSE g[<<c[s], H[n][s \ {c[s]}]>>]
  <2> SUFFICES ASSUME NEW n \in Nat, NEW s \in SUBSET X
               PROVE  H[n + 1][s] = IF s = {} THEN e ELSE g[<<c[s], H[n][s \ {c[s]}]>>]
    OBVIOUS
  <2>1. H[n + 1] = Next(H[n])
    BY <1>5
  <2>2. Next(H[n])[s] = IF s = {} THEN e ELSE g[<<c[s], H[n][s \ {c[s]}]>>]
    OBVIOUS
  <2> HIDE DEF Next
  <2> QED BY <2>1, <2>2
<1>7. \A n \in Nat : H[n][{}] = e
  <2>1. H[0][{}] = e
    BY <1>5
  <2>2. \A n \in Nat : n # 0 => n - 1 \in Nat /\ (n - 1) + 1 = n
    OBVIOUS
  <2> HIDE DEF Next, bottom, step, Y
  <2>3. \A n \in Nat : H[n + 1][{}] = e
    BY <1>6
  <2>4. ASSUME NEW n \in Nat, n # 0 PROVE H[n][{}] = e
    <3>1. n - 1 \in Nat /\ (n - 1) + 1 = n
      BY <2>4
    <3>2. H[(n - 1) + 1][{}] = e
      BY <2>3, <3>1
    <3> QED BY <3>1, <3>2
  <2> QED BY <2>1, <2>4
<1>8. \A s \in SUBSET X : /\ IsFiniteSet(s) /\ Cardinality(s) \in Nat /\ Cardinality(s) <= Cardinality(X)
                          /\ Cardinality(s) = 0 => s = {}
                          /\ s # {} => Cardinality(s \ {c[s]}) = Cardinality(s) - 1
  BY FS_Subset, FS_CardinalityType, FS_EmptySet, FS_RemoveElement
<1> DEFINE S == {n \in Nat : \A s \in SUBSET X : Cardinality(s) <= n => H[n + 1][s] = H[n][s]}
<1> HIDE DEF Next, bottom, step, Y
<1>9. 0 \in S
  <2> SUFFICES ASSUME NEW s \in SUBSET X, Cardinality(s) <= 0 PROVE H[0 + 1][s] = H[0][s]
    OBVIOUS
  <2>1. s = {}
    <3>1. Cardinality(s) \in Nat /\ (Cardinality(s) = 0 => s = {})
      BY <1>8
    <3> QED BY <3>1
  <2> QED BY <1>7, <2>1
<1>10. \A n \in Nat : n \in S => n + 1 \in S
  <2> SUFFICES ASSUME NEW n \in Nat, n \in S, NEW s \in SUBSET X, Cardinality(s) <= n + 1
               PROVE  H[(n + 1) + 1][s] = H[n + 1][s]
    OBVIOUS
  <2>1. CASE s = {}
    BY <1>7, <2>1
  <2>2. CASE s # {}
    <3> DEFINE t == s \ {c[s]}
    <3>1. t \in SUBSET X /\ Cardinality(t) <= n
      <4>1. Cardinality(t) = Cardinality(s) - 1 /\ Cardinality(s) \in Nat
        BY <1>8, <2>2
      <4> QED BY <4>1
    <3>2. H[n + 1][t] = H[n][t]
      BY <3>1
    <3>3. H[(n + 1) + 1][s] = g[<<c[s], H[n + 1][t]>>]
      BY <1>6, <2>2
    <3>4. H[n + 1][s] = g[<<c[s], H[n][t]>>]
      BY <1>6, <2>2
    <3> HIDE DEF t
    <3> QED BY <3>2, <3>3, <3>4
  <2> QED BY <2>1, <2>2
<1>11. Nat \subseteq S
  <2> HIDE DEF S
  <2> QED BY <1>9, <1>10, Induct
<1> DEFINE f == H[Cardinality(X)]
<1>12. Cardinality(X) \in Nat
  BY FS_CardinalityType
<1>13. f \in [SUBSET X -> T]
  BY <1>5, <1>12 DEF Y
<1>14. \A s \in SUBSET X : f[s] = IF s = {} THEN e ELSE g[<<c[s], f[s \ {c[s]}]>>]
  <2> SUFFICES ASSUME NEW s \in SUBSET X
               PROVE  f[s] = IF s = {} THEN e ELSE g[<<c[s], f[s \ {c[s]}]>>]
    OBVIOUS
  <2>1. H[Cardinality(X) + 1][s] = f[s]
    <3>1. Cardinality(X) \in S
      BY <1>11, <1>12
    <3> QED BY <1>8, <3>1
  <2>2. H[Cardinality(X) + 1][s] = IF s = {} THEN e ELSE g[<<c[s], H[Cardinality(X)][s \ {c[s]}]>>]
    BY <1>6, <1>12
  <2> QED BY <2>1, <2>2
<1>15. SubsetRecurs(f, X, e, g, c)
  <2>1. f = [s \in SUBSET X |-> f[s]]
    BY <1>13
  <2> HIDE DEF f
  <2> QED BY <1>14, <2>1 DEF SubsetRecurs
<1> HIDE DEF f
<1> QED BY <1>13, <1>15

-----------------------------------------------------------------------------
(* Sums.                                                                     *)

One(s) == CHOOSE x \in s : TRUE

\* iter gives the sum of f over each subset of S.
Sums(iter, f, S) ==
  iter = [s \in SUBSET S |-> IF s = {} THEN 0 ELSE f[One(s)] + iter[s \ {One(s)}]]

SumOver(f, S) == (CHOOSE iter : Sums(iter, f, S))[S]

LEMMA SumsExist ==
  ASSUME NEW S, IsFiniteSet(S), NEW f, \A x \in S : f[x] \in Int
  PROVE  \E iter \in [SUBSET S -> Int] : Sums(iter, f, S)
<1> DEFINE g == [p \in S \X Int |-> f[p[1]] + p[2]]
           c == [s \in SUBSET S |-> One(s)]
<1>1. g \in [S \X Int -> Int]
  OBVIOUS
<1>2. \A s \in SUBSET S : s # {} => c[s] \in s /\ c[s] = One(s)
  BY DEF One
<1>3. PICK iter \in [SUBSET S -> Int] : SubsetRecurs(iter, S, 0, g, c)
  <2> HIDE DEF g, c
  <2>1. \A s \in SUBSET S : s # {} => c[s] \in s
    BY <1>2
  <2>2. \A e \in Int : \E iter \in [SUBSET S -> Int] : SubsetRecurs(iter, S, e, g, c)
    BY <1>1, <2>1, SubsetRecursion, Zenon
  <2>3. 0 \in Int
    OBVIOUS
  <2> QED BY <2>2, <2>3, Zenon
<1>4. \A s \in SUBSET S : s # {} => g[<<c[s], iter[s \ {c[s]}]>>] = f[One(s)] + iter[s \ {One(s)}]
  <2> SUFFICES ASSUME NEW s \in SUBSET S, s # {}
               PROVE  g[<<c[s], iter[s \ {c[s]}]>>] = f[One(s)] + iter[s \ {One(s)}]
    OBVIOUS
  <2>1. c[s] = One(s) /\ c[s] \in S /\ s \ {c[s]} \in SUBSET S
    BY <1>2
  <2> HIDE DEF c
  <2>2. <<c[s], iter[s \ {c[s]}]>> \in S \X Int
    BY <2>1
  <2> QED BY <2>1, <2>2
<1>5. Sums(iter, f, S)
  <2> HIDE DEF g, c
  <2> QED BY <1>3, <1>4 DEF SubsetRecurs, Sums
<1> QED BY <1>5

\* Whatever the set that they are made for, sums over the same subset agree.
LEMMA SumsAgree ==
  ASSUME NEW X, IsFiniteSet(X), NEW S \in SUBSET X, NEW f, NEW h, \A x \in S : f[x] = h[x],
         NEW iter, Sums(iter, f, X), NEW other, Sums(other, h, S)
  PROVE  iter[S] = other[S]
<1> DEFINE P == {n \in Nat : \A s \in SUBSET S : Cardinality(s) = n => iter[s] = other[s]}
<1>1. \A s \in SUBSET S : /\ s \in SUBSET X /\ IsFiniteSet(s) /\ Cardinality(s) \in Nat
                          /\ Cardinality(s) = 0 <=> s = {}
                          /\ s # {} => One(s) \in s /\ Cardinality(s \ {One(s)}) = Cardinality(s) - 1
  BY FS_Subset, FS_CardinalityType, FS_EmptySet, FS_RemoveElement DEF One
<1>2. \A s \in SUBSET X : iter[s] = IF s = {} THEN 0 ELSE f[One(s)] + iter[s \ {One(s)}]
  BY DEF Sums
<1>3. \A s \in SUBSET S : other[s] = IF s = {} THEN 0 ELSE h[One(s)] + other[s \ {One(s)}]
  BY DEF Sums
<1>4. 0 \in P
  BY <1>1, <1>2, <1>3
<1>5. \A n \in Nat : n \in P => n + 1 \in P
  <2> SUFFICES ASSUME NEW n \in Nat, n \in P, NEW s \in SUBSET S, Cardinality(s) = n + 1
               PROVE  iter[s] = other[s]
    OBVIOUS
  <2> DEFINE x == One(s)
             t == s \ {x}
  <2>1. s # {} /\ x \in S /\ t \in SUBSET S /\ Cardinality(t) = n
    <3>1. s # {} => x \in s /\ Cardinality(t) = Cardinality(s) - 1
      BY <1>1
    <3>2. s # {}
      BY FS_EmptySet
    <3> QED BY <3>1, <3>2
  <2>2. iter[t] = other[t]
    BY <2>1
  <2>3. iter[s] = f[x] + iter[t] /\ other[s] = h[x] + other[t]
    BY <1>1, <1>2, <1>3, <2>1
  <2>4. f[x] = h[x]
    BY <2>1
  <2> HIDE DEF t, x
  <2> QED BY <2>2, <2>3, <2>4
<1>6. Nat \subseteq P
  <2> HIDE DEF P
  <2> QED BY <1>4, <1>5, Induct
<1> QED BY <1>1, <1>6

\* A sum by one of its functions.
LEMMA SumIs ==
  ASSUME NEW X, IsFiniteSet(X), NEW S \in SUBSET X, NEW f, \A x \in X : f[x] \in Int,
         NEW iter, Sums(iter, f, X)
  PROVE  SumOver(f, S) = iter[S]
<1>1. IsFiniteSet(S)
  BY FS_Subset
<1>2. \E other : Sums(other, f, S)
  BY <1>1, SumsExist
<1>3. Sums(CHOOSE other : Sums(other, f, S), f, S)
  BY <1>2
<1> QED BY <1>3, SumsAgree DEF SumOver

LEMMA SumEmpty ==
  ASSUME NEW f
  PROVE  SumOver(f, {}) = 0
<1>1. IsFiniteSet({}) /\ \A x \in {} : f[x] \in Int
  BY FS_EmptySet
<1>2. PICK iter \in [SUBSET {} -> Int] : Sums(iter, f, {})
  BY <1>1, SumsExist
<1>3. iter[{}] = 0
  BY <1>2 DEF Sums
<1> QED BY <1>1, <1>2, <1>3, SumIs

LEMMA SumIsInt ==
  ASSUME NEW S, IsFiniteSet(S), NEW f, \A x \in S : f[x] \in Int
  PROVE  SumOver(f, S) \in Int
<1>1. PICK iter \in [SUBSET S -> Int] : Sums(iter, f, S)
  BY SumsExist
<1>2. SumOver(f, S) = iter[S]
  BY <1>1, SumIs
<1> QED BY <1>1, <1>2

\* One element is taken out, the one that the fold takes out.
LEMMA SumTakesOne ==
  ASSUME NEW S, IsFiniteSet(S), S # {}, NEW f, \A x \in S : f[x] \in Int
  PROVE  SumOver(f, S) = f[One(S)] + SumOver(f, S \ {One(S)})
<1>1. PICK iter \in [SUBSET S -> Int] : Sums(iter, f, S)
  BY SumsExist
<1>2. iter[S] = f[One(S)] + iter[S \ {One(S)}]
  BY <1>1 DEF Sums
<1>3. S \in SUBSET S /\ S \ {One(S)} \in SUBSET S
  OBVIOUS
<1>4. \A R \in SUBSET S : SumOver(f, R) = iter[R]
  BY <1>1, SumIs
<1> QED BY <1>2, <1>3, <1>4

\* ... and any other one.
LEMMA SumTakes ==
  ASSUME NEW S, IsFiniteSet(S), NEW f, \A x \in S : f[x] \in Int, NEW y \in S
  PROVE  SumOver(f, S) = f[y] + SumOver(f, S \ {y})
<1> DEFINE P == {n \in Nat : \A R \in SUBSET S : Cardinality(R) = n =>
                   \A z \in R : SumOver(f, R) = f[z] + SumOver(f, R \ {z})}
<1>1. \A R \in SUBSET S : IsFiniteSet(R) /\ Cardinality(R) \in Nat
  BY FS_Subset, FS_CardinalityType
<1>2. \A R \in SUBSET S : \A z \in R : Cardinality(R \ {z}) = Cardinality(R) - 1
  BY <1>1, FS_RemoveElement
<1>3. \A R \in SUBSET S : SumOver(f, R) \in Int
  BY <1>1, SumIsInt
<1>4. 0 \in P
  BY <1>1, FS_EmptySet
<1>5. \A n \in Nat : n \in P => n + 1 \in P
  <2> SUFFICES ASSUME NEW n \in Nat, n \in P, NEW R \in SUBSET S, Cardinality(R) = n + 1, NEW z \in R
               PROVE  SumOver(f, R) = f[z] + SumOver(f, R \ {z})
    OBVIOUS
  <2> DEFINE x == One(R)
  <2>1. x \in R /\ SumOver(f, R) = f[x] + SumOver(f, R \ {x})
    <3>1. R # {} /\ \A u \in R : f[u] \in Int
      OBVIOUS
    <3>2. One(R) \in R
      BY <3>1 DEF One
    <3> QED BY <1>1, <3>1, <3>2, SumTakesOne
  <2> HIDE DEF x
  <2>2. CASE z = x
    BY <2>1, <2>2
  <2>3. CASE z # x
    <3>1. SumOver(f, R \ {x}) = f[z] + SumOver(f, (R \ {x}) \ {z})
      <4>1. Cardinality(R \ {x}) = Cardinality(R) - 1
        BY <1>2, <2>1
      <4>2. R \ {x} \in SUBSET S /\ Cardinality(R \ {x}) = n /\ z \in R \ {x}
        BY <2>1, <2>3, <4>1
      <4> QED BY <4>2
    <3>2. SumOver(f, R \ {z}) = f[x] + SumOver(f, (R \ {z}) \ {x})
      <4>1. Cardinality(R \ {z}) = Cardinality(R) - 1
        BY <1>2, <2>1
      <4>2. R \ {z} \in SUBSET S /\ Cardinality(R \ {z}) = n /\ x \in R \ {z}
        BY <2>1, <2>3, <4>1
      <4> QED BY <4>2
    <3>3. (R \ {x}) \ {z} = (R \ {z}) \ {x}
      OBVIOUS
    <3> DEFINE rest == SumOver(f, (R \ {z}) \ {x})
    <3>4. rest \in Int /\ f[x] \in Int /\ f[z] \in Int
      BY <1>3, <2>1
    <3>5. SumOver(f, R) = f[x] + (f[z] + rest) /\ SumOver(f, R \ {z}) = f[x] + rest
      BY <2>1, <3>1, <3>2, <3>3
    <3> HIDE DEF rest
    <3>6. f[x] + (f[z] + rest) = f[z] + (f[x] + rest)
      BY <3>4
    <3> QED BY <3>5, <3>6
  <2> QED BY <2>2, <2>3
<1>6. Nat \subseteq P
  <2> HIDE DEF P
  <2> QED BY <1>4, <1>5, Induct
<1> QED BY <1>1, <1>6

\* One element more.
LEMMA SumAdds ==
  ASSUME NEW S, IsFiniteSet(S), NEW y, y \notin S, NEW f, \A x \in S \cup {y} : f[x] \in Int
  PROVE  SumOver(f, S \cup {y}) = f[y] + SumOver(f, S)
<1>1. IsFiniteSet(S \cup {y}) /\ (S \cup {y}) \ {y} = S
  BY FS_AddElement
<1> QED BY <1>1, SumTakes

Inside(f, A, x) == IF x \in A THEN f[x] ELSE 0

\* What a sum gains in one set and loses in another is the difference of two sums.
LEMMA SumDifference ==
  ASSUME NEW S, IsFiniteSet(S), NEW f, NEW h, \A x \in S : f[x] \in Int,
         NEW A \in SUBSET S, NEW B \in SUBSET S, \A x \in S : h[x] = Inside(f, A, x) - Inside(f, B, x)
  PROVE  SumOver(h, S) = SumOver(f, A) - SumOver(f, B)
<1> DEFINE P == {n \in Nat : \A R \in SUBSET S : Cardinality(R) = n =>
                   SumOver(h, R) = SumOver(f, R \cap A) - SumOver(f, R \cap B)}
<1>1. \A R \in SUBSET S : /\ IsFiniteSet(R) /\ Cardinality(R) \in Nat /\ IsFiniteSet(R \cap A)
                          /\ IsFiniteSet(R \cap B) /\ (Cardinality(R) = 0 => R = {})
  BY FS_Subset, FS_CardinalityType, FS_EmptySet
<1>2. 0 \in P
  <2>1. SumOver(h, {}) = 0 /\ SumOver(f, {}) = 0 /\ {} \cap A = {} /\ {} \cap B = {}
    BY SumEmpty
  <2>2. ASSUME NEW R \in SUBSET S, Cardinality(R) = 0
        PROVE  SumOver(h, R) = SumOver(f, R \cap A) - SumOver(f, R \cap B)
    <3>1. R = {}
      BY <1>1, <2>2
    <3>2. R \cap A = {} /\ R \cap B = {}
      BY <3>1
    <3> QED BY <2>1, <3>1, <3>2
  <2> QED BY <2>2
<1>3. \A x \in S : h[x] \in Int
  BY DEF Inside
<1>4. \A n \in Nat : n \in P => n + 1 \in P
  <2> SUFFICES ASSUME NEW n \in Nat, n \in P, NEW R \in SUBSET S, Cardinality(R) = n + 1
               PROVE  SumOver(h, R) = SumOver(f, R \cap A) - SumOver(f, R \cap B)
    OBVIOUS
  <2>1. PICK y \in R : TRUE
    <3>1. Cardinality({}) = 0 /\ Cardinality(R) # 0
      BY FS_EmptySet
    <3>2. R # {}
      BY <3>1
    <3> QED BY <3>2
  <2> DEFINE Q == R \ {y}
             a == IF y \in A THEN f[y] ELSE 0
             b == IF y \in B THEN f[y] ELSE 0
  <2>2. Q \in SUBSET S /\ Cardinality(Q) = n
    <3>1. Cardinality(Q) = Cardinality(R) - 1
      BY <1>1, FS_RemoveElement
    <3> QED BY <3>1
  <2>3. SumOver(h, Q) = SumOver(f, Q \cap A) - SumOver(f, Q \cap B)
    BY <2>2
  <2>4. SumOver(h, R) = h[y] + SumOver(h, Q)
    <3>1. IsFiniteSet(R) /\ \A x \in R : h[x] \in Int
      BY <1>1, <1>3
    <3> QED BY <3>1, SumTakes
  <2>5. \A Z \in SUBSET S : \A z \in Z : IsFiniteSet(Z) => SumOver(f, Z) = f[z] + SumOver(f, Z \ {z})
    BY SumTakes
  <2>6. SumOver(f, R \cap A) = a + SumOver(f, Q \cap A)
    <3>1. CASE y \in A
      <4>1. R \cap A \in SUBSET S /\ y \in R \cap A /\ (R \cap A) \ {y} = Q \cap A
        BY <3>1
      <4>2. IsFiniteSet(R \cap A)
        BY <1>1
      <4> QED BY <2>5, <3>1, <4>1, <4>2
    <3>2. CASE y \notin A
      <4>1. R \cap A = Q \cap A /\ SumOver(f, Q \cap A) \in Int
        <5>1. R \cap A = Q \cap A
          BY <3>2
        <5>2. IsFiniteSet(Q \cap A) /\ \A x \in Q \cap A : f[x] \in Int
          BY <1>1, <2>2
        <5> QED BY <5>1, <5>2, SumIsInt
      <4>2. a = 0
        BY <3>2
      <4>3. SumOver(f, R \cap A) = SumOver(f, Q \cap A)
        BY <4>1
      <4> DEFINE sum == SumOver(f, Q \cap A)
      <4>4. SumOver(f, R \cap A) = sum /\ sum \in Int
        BY <4>1, <4>3
      <4> HIDE DEF sum, Q, a
      <4>5. SumOver(f, R \cap A) = a + sum
        BY <4>2, <4>4
      <4> QED BY <4>5 DEF sum
    <3> QED BY <3>1, <3>2
  <2>7. SumOver(f, R \cap B) = b + SumOver(f, Q \cap B)
    <3>1. CASE y \in B
      <4>1. R \cap B \in SUBSET S /\ y \in R \cap B /\ (R \cap B) \ {y} = Q \cap B
        BY <3>1
      <4>2. IsFiniteSet(R \cap B)
        BY <1>1
      <4> QED BY <2>5, <3>1, <4>1, <4>2
    <3>2. CASE y \notin B
      <4>1. R \cap B = Q \cap B /\ SumOver(f, Q \cap B) \in Int
        <5>1. R \cap B = Q \cap B
          BY <3>2
        <5>2. IsFiniteSet(Q \cap B) /\ \A x \in Q \cap B : f[x] \in Int
          BY <1>1, <2>2
        <5> QED BY <5>1, <5>2, SumIsInt
      <4>2. b = 0
        BY <3>2
      <4>3. SumOver(f, R \cap B) = SumOver(f, Q \cap B)
        BY <4>1
      <4> DEFINE sum == SumOver(f, Q \cap B)
      <4>4. SumOver(f, R \cap B) = sum /\ sum \in Int
        BY <4>1, <4>3
      <4> HIDE DEF sum, Q, b
      <4>5. SumOver(f, R \cap B) = b + sum
        BY <4>2, <4>4
      <4> QED BY <4>5 DEF sum
    <3> QED BY <3>1, <3>2
  <2>8. SumOver(f, Q \cap A) \in Int /\ SumOver(f, Q \cap B) \in Int
    <3>1. /\ IsFiniteSet(Q \cap A) /\ \A x \in Q \cap A : f[x] \in Int
          /\ IsFiniteSet(Q \cap B) /\ \A x \in Q \cap B : f[x] \in Int
      BY <1>1, <2>2
    <3> QED BY <3>1, SumIsInt
  <2>9. h[y] = a - b /\ a \in Int /\ b \in Int
    BY DEF Inside
  <2> HIDE DEF Q, a, b
  <2> QED BY <2>3, <2>4, <2>6, <2>7, <2>8, <2>9
<1>5. Nat \subseteq P
  <2> HIDE DEF P
  <2> QED BY <1>2, <1>4, Induct
<1>6. SumOver(h, S) = SumOver(f, S \cap A) - SumOver(f, S \cap B)
  BY <1>1, <1>5
<1>7. S \cap A = A /\ S \cap B = B
  OBVIOUS
<1> QED BY <1>6, <1>7

\* And a sum of zeros is zero.
LEMMA SumOfZeros ==
  ASSUME NEW S, IsFiniteSet(S), NEW f, \A x \in S : f[x] = 0
  PROVE  SumOver(f, S) = 0
<1> DEFINE z == [s \in SUBSET S |-> 0]
<1>1. \A s \in SUBSET S : s # {} => One(s) \in s
  BY DEF One
<1>2. Sums(z, f, S)
  <2>1. ASSUME NEW s \in SUBSET S
        PROVE  0 = IF s = {} THEN 0 ELSE f[One(s)] + z[s \ {One(s)}]
    BY <1>1
  <2> QED BY <2>1 DEF Sums
<1>3. \A x \in S : f[x] \in Int
  OBVIOUS
<1>4. SumOver(f, S) = z[S]
  <2> HIDE DEF z
  <2> QED BY <1>2, <1>3, SumIs
<1> QED BY <1>4

-----------------------------------------------------------------------------
(* Integers.                                                                 *)

\* Division with remainder is unique.
LEMMA DivMod ==
  ASSUME NEW d \in Nat \ {0}, NEW q \in Int, NEW r \in 0 .. d - 1
  PROVE  (q * d + r) \div d = q /\ (q * d + r) % d = r
<1>1. (q * d + r) \div d = q
  OBVIOUS
<1>2. (q * d + r) % d = r
  OBVIOUS
<1> QED BY <1>1, <1>2

LEMMA DivModParts ==
  ASSUME NEW d \in Nat \ {0}, NEW x \in Int
  PROVE  /\ x = (x \div d) * d + (x % d)
         /\ x \div d \in Int /\ x % d \in 0 .. d - 1
OBVIOUS

\* What fits a word is left alone.
LEMMA ModSmall ==
  ASSUME NEW d \in Nat \ {0}, NEW x \in 0 .. d - 1
  PROVE  x % d = x /\ x \div d = 0
OBVIOUS

\* A quotient of a number that is not negative.
LEMMA DivNat ==
  ASSUME NEW d \in Nat \ {0}, NEW x \in Nat
  PROVE  x \div d \in Nat /\ (x \div d) * d <= x
<1>1. x = (x \div d) * d + (x % d) /\ x \div d \in Int /\ x % d \in 0 .. d - 1
  BY DivModParts
<1>2. \A q \in Int : q < 0 => q * d <= -d
  OBVIOUS
<1>3. ~(x \div d < 0)
  BY <1>1, <1>2
<1> QED BY <1>1, <1>3

LEMMA DivBounds ==
  ASSUME NEW d \in Nat \ {0}, NEW x \in Nat
  PROVE  x \div d \in Nat /\ x \div d <= x /\ x % d \in 0 .. d - 1
<1>1. x \div d \in Nat /\ (x \div d) * d <= x
  BY DivNat
<1>2. \A q \in Nat : q <= q * d
  OBVIOUS
<1>3. x % d \in 0 .. d - 1
  OBVIOUS
<1>4. (x \div d) * d \in Int
  BY <1>1
<1> QED BY <1>1, <1>2, <1>3, <1>4

LEMMA DivParts ==
  ASSUME NEW d \in Nat \ {0}, NEW x \in Nat
  PROVE  x = (x \div d) * d + (x % d) /\ x \div d \in Nat /\ x % d \in 0 .. d - 1
<1>1. x = (x \div d) * d + (x % d)
  BY DivModParts
<1>2. x \div d \in Nat /\ x % d \in 0 .. d - 1
  BY DivBounds
<1> QED BY <1>1, <1>2

\* The quotient is less than what times the divisor is above the number.
LEMMA DivLess ==
  ASSUME NEW d \in Nat \ {0}, NEW x \in Nat, NEW b \in Nat, x < b * d
  PROVE  x \div d < b
<1>1. x \div d \in Nat /\ (x \div d) * d <= x
  BY DivNat
<1>2. \A q \in Nat : q >= b => q * d >= b * d
  OBVIOUS
<1> QED BY <1>1, <1>2

LEMMA MulNat ==
  ASSUME NEW x \in Nat, NEW y \in Nat
  PROVE  x * y \in Nat
OBVIOUS

LEMMA MulMono ==
  ASSUME NEW x \in Nat, NEW y \in Nat, NEW p \in Nat, NEW q \in Nat, x <= p, y <= q
  PROVE  x * y <= p * q
<1>1. x * y <= p * y
  OBVIOUS
<1>2. p * y <= p * q
  OBVIOUS
<1> QED BY <1>1, <1>2
==============================================================================
