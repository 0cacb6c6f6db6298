---------------------------- MODULE TableProofs ----------------------------
(* The hash table of HashSet: every search visits every slot, so it ends;  *)
(* the table stays sound, and implements the mathematical set.             *)
EXTENDS HashSet, FiniteSetTheorems, WellFoundedInduction, TLAPS

-----------------------------------------------------------------------------
(* Induction and recursion over the natural numbers. *)

LEMMA NatInd ==
  ASSUME NEW S, 0 \in S, \A n \in Nat : n \in S => n + 1 \in S
  PROVE  \A n \in Nat : n \in S
<1> SUFFICES ASSUME Nat \ S # {}
             PROVE  FALSE
  OBVIOUS
<1> DEFINE R == OpToRel(<, Nat)
<1>1. IsWellFoundedOn(R, Nat)
  BY NatLessThanWellFounded
<1>2. \A x, y \in Nat : <<y, x>> \in R <=> y < x
  BY DEF OpToRel
<1> HIDE DEF R
<1>3. PICK n \in Nat \ S : \A y \in Nat \ S : ~(<<y, n>> \in R)
  BY <1>1, WFMin
<1>4. n # 0 /\ n - 1 \in Nat /\ n - 1 < n
  OBVIOUS
<1>5. n - 1 \in S
  BY <1>2, <1>3, <1>4
<1> QED BY <1>3, <1>4, <1>5

Iterates(f, a, G) == f[0] = a /\ \A n \in Nat : f[n + 1] = G[n][f[n]]

(* A step G from a start a defines a function on the natural numbers. *)
LEMMA Recursion ==
  ASSUME NEW T, NEW a \in T, NEW G \in [Nat -> [T -> T]]
  PROVE  \E f \in [Nat -> T] : Iterates(f, a, G)
<1> DEFINE Upto(f, n) == /\ f \in [0 .. n -> T]
                         /\ f[0] = a
                         /\ \A k \in 0 .. n - 1 : f[k + 1] = G[k][f[k]]
           S == {n \in Nat : \E f : Upto(f, n)}
<1>1. 0 \in S
  <2>1. Upto([k \in 0 .. 0 |-> a], 0)
    OBVIOUS
  <2> QED BY <2>1
<1>2. ASSUME NEW n \in Nat, NEW f, Upto(f, n)
      PROVE  \E g : Upto(g, n + 1)
  <2> DEFINE g == [k \in 0 .. n + 1 |-> IF k <= n THEN f[k] ELSE G[n][f[n]]]
  <2>1. f[n] \in T /\ G[n][f[n]] \in T
    BY <1>2
  <2>2. g \in [0 .. n + 1 -> T]
    BY <1>2, <2>1
  <2>3. \A k \in 0 .. n : g[k] = f[k]
    OBVIOUS
  <2>4. g[n + 1] = G[n][f[n]]
    OBVIOUS
  <2> HIDE DEF g
  <2>5. Upto(g, n + 1)
    BY <1>2, <2>2, <2>3, <2>4
  <2> QED BY <2>5
<1>3. \A n \in Nat : \E f : Upto(f, n)
  <2> HIDE DEF Upto
  <2>1. \A n \in Nat : n \in S => n + 1 \in S
    BY <1>2
  <2> HIDE DEF S
  <2>2. \A n \in Nat : n \in S
    BY <1>1, <2>1, NatInd
  <2> QED BY <2>2 DEF S
<1>4. ASSUME NEW f, NEW g, NEW m \in Nat, NEW n \in Nat, m <= n,
             Upto(f, m), Upto(g, n)
      PROVE  f[m] = g[m]
  <2> DEFINE E == {k \in Nat : k <= m => f[k] = g[k]}
  <2>1. 0 \in E
    BY <1>4
  <2>2. ASSUME NEW k \in Nat, k \in E PROVE k + 1 \in E
    <3>1. SUFFICES ASSUME k + 1 <= m PROVE f[k + 1] = g[k + 1]
      OBVIOUS
    <3>2. f[k] = g[k] /\ k \in 0 .. m - 1 /\ k \in 0 .. n - 1
      BY <1>4, <2>2, <3>1
    <3> QED BY <1>4, <3>2
  <2>3. \A k \in Nat : k \in E
    <3> HIDE DEF E
    <3> QED BY <2>1, <2>2, NatInd
  <2> QED BY <2>3
<1> DEFINE F(n) == CHOOSE f : Upto(f, n)
           h == [n \in Nat |-> F(n)[n]]
<1>5. ASSUME NEW n \in Nat PROVE Upto(F(n), n)
  <2> HIDE DEF Upto
  <2> QED BY <1>3
<1>6. ASSUME NEW n \in Nat
      PROVE  F(n + 1)[n + 1] = G[n][F(n + 1)[n]]
  <2> HIDE DEF F
  <2> QED BY <1>5
<1>7. ASSUME NEW n \in Nat
      PROVE  F(n + 1)[n] = F(n)[n]
  <2>1. n + 1 \in Nat /\ n <= n + 1
    OBVIOUS
  <2>2. Upto(F(n), n)
    BY <1>5
  <2>3. Upto(F(n + 1), n + 1)
    <3> HIDE DEF Upto, F
    <3> QED BY <1>5, <2>1
  <2> HIDE DEF Upto, F
  <2>4. F(n)[n] = F(n + 1)[n]
    BY <1>4, <2>1, <2>2, <2>3
  <2> QED BY <2>4
<1>8. h[0] = a /\ h \in [Nat -> T]
  <2> HIDE DEF F
  <2>1. \A n \in Nat : F(n)[n] \in T
    BY <1>5
  <2> QED BY <1>5, <2>1
<1>9. ASSUME NEW n \in Nat
      PROVE  h[n + 1] = G[n][h[n]]
  <2> HIDE DEF F
  <2> QED BY <1>6, <1>7
<1> HIDE DEF h
<1> QED BY <1>8, <1>9 DEF Iterates

-----------------------------------------------------------------------------
(* The probe sequence: k steps of next lead from the first slot of a search *)
(* to the one Spread[k] further on.                                        *)
Spread[k \in Nat] == IF k = 0 THEN 0 ELSE 5 * Spread[k - 1] + 1

LEMMA Power2Values ==
  /\ Power2 \in [Nat -> Nat \ {0}]
  /\ Power2[0] = 1
  /\ \A k \in Nat : Power2[k + 1] = 2 * Power2[k]
<1> DEFINE T == Nat \ {0}
           a == 1
           G == [n \in Nat |-> [v \in T |-> 2 * v]]
           Is(f) == f = [k \in Nat |-> IF k = 0 THEN 1 ELSE 2 * f[k - 1]]
<1>1. a \in T /\ G \in [Nat -> [T -> T]]
  OBVIOUS
<1>2. \A n \in Nat, v \in T : G[n][v] = 2 * v
  OBVIOUS
<1>3. PICK f \in [Nat -> T] : Iterates(f, a, G)
  <2> HIDE DEF G, T, a, Is
  <2> QED BY <1>1, Recursion
<1>4. \A n \in Nat : f[n + 1] = 2 * f[n]
  BY <1>2, <1>3 DEF Iterates
<1>5. \A k \in Nat \ {0} : f[k] = 2 * f[k - 1]
  BY <1>4
<1>6. Is(f)
  BY <1>3, <1>5 DEF Iterates
<1>7. Is(Power2)
  <2>1. Power2 = CHOOSE g : Is(g)
    BY DEF Power2
  <2> HIDE DEF Is
  <2> QED BY <1>6, <2>1
<1>8. Power2[0] = 1 /\ \A k \in Nat : Power2[k + 1] = 2 * Power2[k]
  <2>1. PICK g : g = Power2
    OBVIOUS
  <2>2. Is(g)
    <3> HIDE DEF Is
    <3> QED BY <1>7, <2>1
  <2>3. \A k \in Nat : g[k] = IF k = 0 THEN 1 ELSE 2 * g[k - 1]
    BY <2>2 DEF Is
  <2>4. \A k \in Nat : k + 1 \in Nat /\ k + 1 # 0 /\ (k + 1) - 1 = k
    OBVIOUS
  <2>5. \A k \in Nat : g[k + 1] = 2 * g[k]
    BY <2>3, <2>4
  <2>6. g[0] = 1
    BY <2>3
  <2> QED BY <2>1, <2>5, <2>6
<1>9. \A n \in Nat : Power2[n] \in Nat \ {0}
  <2> DEFINE S == {n \in Nat : Power2[n] \in Nat \ {0}}
  <2>1. 0 \in S /\ \A n \in Nat : n \in S => n + 1 \in S
    BY <1>8
  <2> HIDE DEF S
  <2>2. \A n \in Nat : n \in S
    BY <2>1, NatInd
  <2> QED BY <2>2 DEF S
<1>10. Power2 \in [Nat -> Nat \ {0}]
  <2>1. PICK g : g = Power2
    OBVIOUS
  <2>2. Is(g)
    <3> HIDE DEF Is
    <3> QED BY <1>7, <2>1
  <2>3. DOMAIN g = Nat /\ g = [k \in Nat |-> g[k]]
    BY <2>2
  <2> HIDE DEF Is
  <2>4. \A n \in Nat : g[n] \in Nat \ {0}
    BY <1>9, <2>1
  <2> QED BY <2>1, <2>3, <2>4
<1> QED BY <1>8, <1>9, <1>10

LEMMA SpreadValues ==
  /\ Spread \in [Nat -> Nat]
  /\ Spread[0] = 0
  /\ \A k \in Nat : Spread[k + 1] = 5 * Spread[k] + 1
<1> DEFINE T == Nat
           a == 0
           G == [n \in Nat |-> [v \in T |-> 5 * v + 1]]
           Is(f) == f = [k \in Nat |-> IF k = 0 THEN 0 ELSE 5 * f[k - 1] + 1]
<1>1. a \in T /\ G \in [Nat -> [T -> T]]
  OBVIOUS
<1>2. \A n \in Nat, v \in T : G[n][v] = 5 * v + 1
  OBVIOUS
<1>3. PICK f \in [Nat -> T] : Iterates(f, a, G)
  <2> HIDE DEF G, T, a
  <2> QED BY <1>1, Recursion
<1>4. \A n \in Nat : f[n + 1] = 5 * f[n] + 1
  BY <1>2, <1>3 DEF Iterates
<1>5. \A k \in Nat \ {0} : f[k] = 5 * f[k - 1] + 1
  BY <1>4
<1>6. Is(f)
  BY <1>3, <1>5 DEF Iterates
<1>7. Is(Spread)
  <2>1. Spread = CHOOSE g : Is(g)
    BY DEF Spread
  <2> HIDE DEF Is
  <2> QED BY <1>6, <2>1
<1>8. Spread[0] = 0 /\ \A k \in Nat : Spread[k + 1] = 5 * Spread[k] + 1
  BY <1>7
<1>9. \A n \in Nat : Spread[n] \in Nat
  <2> DEFINE S == {n \in Nat : Spread[n] \in Nat}
  <2>1. 0 \in S /\ \A n \in Nat : n \in S => n + 1 \in S
    BY <1>8
  <2> HIDE DEF S
  <2>2. \A n \in Nat : n \in S
    BY <2>1, NatInd
  <2> QED BY <2>2 DEF S
<1> QED BY <1>7, <1>8, <1>9

LEMMA SpreadSum ==
  ASSUME NEW a \in Nat, NEW b \in Nat
  PROVE  Spread[a + b] = Spread[a] + (4 * Spread[a] + 1) * Spread[b]
<1> DEFINE S == {n \in Nat : Spread[a + n]
                               = Spread[a] + (4 * Spread[a] + 1) * Spread[n]}
<1>1. 0 \in S
  BY SpreadValues
<1>2. ASSUME NEW n \in Nat, n \in S
      PROVE  n + 1 \in S
  <2>1. /\ Spread[a + (n + 1)] = 5 * Spread[a + n] + 1
        /\ Spread[n + 1] = 5 * Spread[n] + 1
    <3>1. a + n \in Nat /\ a + (n + 1) = (a + n) + 1
      OBVIOUS
    <3> QED BY <3>1, SpreadValues
  <2>2. Spread[a] \in Nat /\ Spread[n] \in Nat
    BY SpreadValues
  <2>3. Spread[a + n] = Spread[a] + (4 * Spread[a] + 1) * Spread[n]
    BY <1>2
  <2>4. \A x, y, z \in Nat :
           z = x + (4 * x + 1) * y
             => 5 * z + 1 = x + (4 * x + 1) * (5 * y + 1)
    OBVIOUS
  <2>5. 5 * Spread[a + n] + 1
          = Spread[a] + (4 * Spread[a] + 1) * (5 * Spread[n] + 1)
    <3>0. a + n \in Nat
      OBVIOUS
    <3>1. Spread[a + n] \in Nat
      BY <3>0, SpreadValues
    <3> QED BY <2>2, <2>3, <2>4, <3>1
  <2> QED BY <2>1, <2>5
<1>3. \A n \in Nat : n \in S
  <2> HIDE DEF S
  <2> QED BY <1>1, <1>2, NatInd
<1> QED BY <1>3

Divides(d, x) == \E q \in Int : x = d * q

(* A power of two that divides the product of an odd number and x divides x. *)
LEMMA OddFactor ==
  ASSUME NEW m \in Nat, NEW u \in Int, NEW x \in Int,
         Divides(Power2[m], (2 * u + 1) * x)
  PROVE  Divides(Power2[m], x)
<1> DEFINE S == {k \in Nat : \A y \in Int : Divides(Power2[k], (2 * u + 1) * y)
                                              => Divides(Power2[k], y)}
<1>1. 0 \in S
  <2>1. \A y \in Int : Divides(1, y)
    <3>1. \A y \in Int : y = 1 * y
      OBVIOUS
    <3> QED BY <3>1 DEF Divides
  <2> QED BY <2>1, Power2Values
<1>2. ASSUME NEW k \in Nat, k \in S
      PROVE  k + 1 \in S
  <2> SUFFICES ASSUME NEW y \in Int, Divides(Power2[k + 1], (2 * u + 1) * y)
               PROVE  Divides(Power2[k + 1], y)
    OBVIOUS
  <2>1. Power2[k] \in Nat /\ Power2[k + 1] = 2 * Power2[k]
    BY Power2Values
  <2>2. PICK q \in Int : (2 * u + 1) * y = (2 * Power2[k]) * q
    BY <2>1 DEF Divides
  <2> DEFINE p == Power2[k]
             z == p * q - u * y
  <2>3. z \in Int /\ y = 2 * z
    <3>1. \A v, w, s, t \in Int :
             (2 * v + 1) * w = (2 * s) * t => w = 2 * (s * t - v * w)
      OBVIOUS
    <3>2. p \in Int
      BY <2>1
    <3> HIDE DEF p
    <3>3. p * q - u * y \in Int
      BY <3>2
    <3>4. (2 * u + 1) * y = (2 * p) * q
      BY <2>2 DEF p
    <3> QED BY <3>1, <3>2, <3>3, <3>4
  <2> HIDE DEF z
  <2>4. (2 * u + 1) * z = p * q
    <3>1. \A v, w, s, t, r \in Int :
             (2 * v + 1) * w = (2 * s) * t /\ w = 2 * r => (2 * v + 1) * r = s * t
      OBVIOUS
    <3> QED BY <2>1, <2>2, <2>3, <3>1
  <2>5. Divides(Power2[k], z)
    BY <1>2, <2>3, <2>4 DEF Divides
  <2>6. PICK r \in Int : z = p * r
    BY <2>5 DEF Divides
  <2>7. y = (2 * p) * r
    <3>1. \A s, t \in Int : 2 * (s * t) = (2 * s) * t
      OBVIOUS
    <3> QED BY <2>1, <2>3, <2>6, <3>1
  <2> QED BY <2>1, <2>7 DEF Divides
<1>3. \A k \in Nat : k \in S
  <2> HIDE DEF S
  <2> QED BY <1>1, <1>2, NatInd
<1> QED BY <1>3

(* Spread[n] is odd or even as n is. *)
LEMMA SpreadParity ==
  ASSUME NEW n \in Nat
  PROVE  (\E q \in Nat : Spread[n] = 2 * q) => \E k \in Nat : n = 2 * k
<1> DEFINE Even(k) == \E j, q \in Nat : k = 2 * j /\ Spread[k] = 2 * q
           Odd(k) == \E j, q \in Nat : k = 2 * j + 1 /\ Spread[k] = 2 * q + 1
           S == {k \in Nat : Even(k) \/ Odd(k)}
<1>1. 0 \in S
  <2>1. 0 = 2 * 0
    OBVIOUS
  <2> QED BY <2>1, SpreadValues
<1>2. ASSUME NEW k \in Nat, k \in S
      PROVE  k + 1 \in S
  <2>1. Spread[k + 1] = 5 * Spread[k] + 1
    BY SpreadValues
  <2>2. CASE Even(k)
    <3>1. PICK j \in Nat, q \in Nat : k = 2 * j /\ Spread[k] = 2 * q
      BY <2>2
    <3>2. k + 1 = 2 * j + 1 /\ Spread[k + 1] = 2 * (5 * q) + 1 /\ 5 * q \in Nat
      BY <2>1, <3>1
    <3>3. Odd(k + 1)
      BY <3>2
    <3> QED BY <3>3
  <2>3. CASE Odd(k)
    <3>1. PICK j \in Nat, q \in Nat : k = 2 * j + 1 /\ Spread[k] = 2 * q + 1
      BY <2>3
    <3>2. k + 1 = 2 * (j + 1) /\ Spread[k + 1] = 2 * (5 * q + 3)
      BY <2>1, <3>1
    <3>3. j + 1 \in Nat /\ 5 * q + 3 \in Nat
      OBVIOUS
    <3>4. Even(k + 1)
      <4> HIDE DEF Odd
      <4> QED BY <3>2, <3>3
    <3> QED BY <3>4
  <2> QED BY <1>2, <2>2, <2>3
<1>3. \A k \in Nat : k \in S
  <2> HIDE DEF S
  <2> QED BY <1>1, <1>2, NatInd
<1>4. n \in S
  BY <1>3
<1> QED BY <1>4

(* A power of two that divides Spread[n] divides n. *)
LEMMA SpreadFactor ==
  ASSUME NEW m \in Nat, NEW n \in Nat, Divides(Power2[m], Spread[n])
  PROVE  Divides(Power2[m], n)
<1> DEFINE S == {k \in Nat : \A i \in Nat : Divides(Power2[k], Spread[i])
                                              => Divides(Power2[k], i)}
<1>1. 0 \in S
  <2>1. \A y \in Int : Divides(1, y)
    <3>1. \A y \in Int : y = 1 * y
      OBVIOUS
    <3> QED BY <3>1 DEF Divides
  <2> QED BY <2>1, Power2Values
<1>2. ASSUME NEW k \in Nat, k \in S
      PROVE  k + 1 \in S
  <2> SUFFICES ASSUME NEW i \in Nat, Divides(Power2[k + 1], Spread[i])
               PROVE  Divides(Power2[k + 1], i)
    OBVIOUS
  <2> DEFINE p == Power2[k]
  <2>1. p \in Nat /\ Power2[k + 1] = 2 * p
    BY Power2Values
  <2>2. PICK q \in Int : Spread[i] = (2 * p) * q
    BY <2>1 DEF Divides
  <2> HIDE DEF p
  <2>3. Spread[i] = 2 * (p * q) /\ p * q \in Nat
    <3>1. \A s, t \in Int : 2 * (s * t) = (2 * s) * t /\ s * t \in Int
      OBVIOUS
    <3>2. Spread[i] \in Nat
      BY SpreadValues
    <3> QED BY <2>1, <2>2, <3>1, <3>2
  <2>4. PICK j \in Nat : i = 2 * j
    BY <2>3, SpreadParity
  <2>5. Spread[i] = Spread[j] + (4 * Spread[j] + 1) * Spread[j]
      <3>1. Spread[j + j] = Spread[j] + (4 * Spread[j] + 1) * Spread[j]
      BY SpreadSum
    <3>2. j + j = i
      BY <2>4
    <3> QED BY <3>1, <3>2
  <2>6. (2 * Spread[j] + 1) * Spread[j] = p * q
    <3>1. \A s, t \in Int : s + (4 * s + 1) * s = 2 * t => (2 * s + 1) * s = t
      OBVIOUS
    <3>2. Spread[j] \in Int /\ p * q \in Int
      BY <2>3, SpreadValues
    <3> QED BY <2>3, <2>5, <3>1, <3>2
  <2>7. Divides(p, Spread[j])
    <3>1. Divides(p, (2 * Spread[j] + 1) * Spread[j])
      BY <2>6 DEF Divides
    <3>2. Spread[j] \in Int
      BY SpreadValues
    <3> QED BY <3>1, <3>2, OddFactor DEF p
  <2>8. PICK r \in Int : j = p * r
    BY <1>2, <2>7 DEF Divides, p
  <2>9. i = (2 * p) * r
    <3>1. \A s, t \in Int : 2 * (s * t) = (2 * s) * t
      OBVIOUS
    <3> QED BY <2>1, <2>4, <2>8, <3>1
  <2> QED BY <2>1, <2>9 DEF Divides
<1>3. \A k \in Nat : k \in S
  <2> HIDE DEF S
  <2> QED BY <1>1, <1>2, NatInd
<1> QED BY <1>3

LEMMA Remainder ==
  ASSUME NEW a \in Int, NEW s \in Nat \ {0}
  PROVE  a % s \in 0 .. s - 1 /\ \E q \in Int : a = s * q + (a % s)
<1>1. a % s \in 0 .. s - 1
  OBVIOUS
<1>2. a = s * (a \div s) + (a % s) /\ a \div s \in Int
  OBVIOUS
<1> QED BY <1>1, <1>2

LEMMA RemainderOf ==
  ASSUME NEW s \in Nat \ {0}, NEW q \in Int, NEW d \in 0 .. s - 1
  PROVE  (s * q + d) % s = d
OBVIOUS

LEMMA SizesArePowers ==
  ASSUME NEW s \in Sizes
  PROVE  s \in Nat /\ s >= 4 /\ \E m \in Nat : s = Power2[m]
<1> USE Power2Values
<1>1. PICK k \in 0 .. Cardinality(Item) : s = MinSize * Power2[k]
  BY DEF Sizes
<1>2. k \in Nat
  BY <1>1, FS_CardinalityType, ItemAssumption
<1>3. Power2[1] = 2 /\ Power2[2] = 4 /\ Power2[3] = 8
  <2>1. Power2[0 + 1] = 2
    OBVIOUS
  <2>2. Power2[1 + 1] = 2 * Power2[1] /\ Power2[2 + 1] = 2 * Power2[2]
    OBVIOUS
  <2> QED BY <2>1, <2>2
<1>4. Power2[k + 2] = 4 * Power2[k] /\ Power2[k + 3] = 8 * Power2[k]
  <2>1. Power2[(k + 1) + 1] = 2 * Power2[k + 1]
    BY <1>2
  <2>2. Power2[(k + 2) + 1] = 2 * Power2[k + 2]
    BY <1>2
  <2> QED BY <1>2, <2>1, <2>2
<1>5. MinSize = 4 \/ MinSize = 8
  BY <1>3, MinSizeAssumption
<1>6. s = Power2[k + 2] \/ s = Power2[k + 3]
  BY <1>1, <1>2, <1>4, <1>5
<1> QED BY <1>1, <1>2, <1>5, <1>6

(* The slots of a search in closed form. *)
LEMMA ProbeValues ==
  ASSUME NEW h \in HashValue, NEW s \in Sizes
  PROVE  Probe[h][s] = [k \in 0 .. s - 1 |-> (h + Spread[k]) % s]
<1> DEFINE Is(f) == f = [k \in 0 .. s - 1 |->
                           IF k = 0 THEN h % s
                           ELSE ((f[k - 1] - h) * 5 + 1 + h) % s]
           g == [k \in 0 .. s - 1 |-> (h + Spread[k]) % s]
<1>1. s \in Nat \ {0} /\ h \in Nat
  BY SizesArePowers, HashValueAssumption
<1>2. ASSUME NEW k \in 0 .. s - 1, k # 0
      PROVE  g[k] = ((g[k - 1] - h) * 5 + 1 + h) % s
  <2> DEFINE S == Spread[k - 1]
             r == (h + S) % s
  <2>1. k - 1 \in Nat /\ S \in Nat /\ Spread[k] = 5 * S + 1
    <3>1. k - 1 \in Nat /\ (k - 1) + 1 = k
      BY <1>1, <1>2
    <3>2. \A n \in Nat : Spread[n] \in Nat /\ Spread[n + 1] = 5 * Spread[n] + 1
      BY SpreadValues
    <3> QED BY <3>1, <3>2
  <2>2. PICK q \in Int : h + S = s * q + r
    <3>1. h + S \in Int
      BY <1>1, <2>1
    <3> HIDE DEF S
    <3> QED BY <1>1, <3>1, Remainder
  <2>3. r \in Int
    BY <1>1, <2>1
  <2>4. PICK e \in Int :
           h + Spread[k] = s * e + ((h + Spread[k]) % s)
    <3>1. h + Spread[k] \in Int
      BY <1>1, <2>1
    <3> QED BY <1>1, <3>1, Remainder
  <2>5. (h + Spread[k]) % s \in 0 .. s - 1
    BY <1>1, <2>1
  <2> HIDE DEF r, S
  <2>6. (r - h) * 5 + 1 + h = s * (e - 5 * q) + ((h + Spread[k]) % s)
    <3>1. \A a, b, c, d, i, j, l \in Int :
             /\ a + b = c * i + d
             /\ a + (5 * b + 1) = c * j + l
             => (d - a) * 5 + 1 + a = c * (j - 5 * i) + l
      OBVIOUS
    <3> QED BY <1>1, <2>1, <2>2, <2>3, <2>4, <2>5, <3>1
  <2>7. ((r - h) * 5 + 1 + h) % s = (h + Spread[k]) % s
    <3>1. e - 5 * q \in Int
      OBVIOUS
    <3> QED BY <1>1, <2>5, <2>6, <3>1, RemainderOf
  <2>8. g[k] = (h + Spread[k]) % s /\ g[k - 1] = r
    BY <1>1, <1>2 DEF r, S
  <2> QED BY <2>7, <2>8
<1>3. g[0] = h % s
  BY <1>1, SpreadValues
<1>4. Is(g)
  BY <1>2, <1>3
<1>5. Probe[h][s] = CHOOSE f : Is(f)
  BY DEF Probe
<1>6. Is(Probe[h][s])
  <2> HIDE DEF Is, g
  <2> QED BY <1>4, <1>5
<1>7. Probe[h][s] = g
  <2>1. \A f : Is(f) => \A k \in 0 .. s - 1 : f[k] = g[k]
    <3> SUFFICES ASSUME NEW f, Is(f)
                 PROVE  \A k \in 0 .. s - 1 : f[k] = g[k]
      OBVIOUS
    <3> DEFINE E == {n \in Nat : n \in 0 .. s - 1 => f[n] = g[n]}
    <3>1. 0 \in E
      BY <1>1, <1>3
    <3>2. ASSUME NEW n \in Nat, n \in E PROVE n + 1 \in E
      <4> SUFFICES ASSUME n + 1 \in 0 .. s - 1
                   PROVE  f[n + 1] = g[n + 1]
        OBVIOUS
      <4>1. n \in 0 .. s - 1 /\ n + 1 # 0 /\ (n + 1) - 1 = n /\ f[n] = g[n]
        BY <1>1, <3>2
      <4>2. f[n + 1] = ((f[n] - h) * 5 + 1 + h) % s
        BY <4>1
      <4>3. g[n + 1] = ((g[n] - h) * 5 + 1 + h) % s
        <5> HIDE DEF g
        <5> QED BY <1>2, <4>1
      <4> QED BY <4>1, <4>2, <4>3
    <3>3. \A n \in Nat : n \in E
      <4> HIDE DEF E
      <4> QED BY <3>1, <3>2, NatInd
    <3>4. \A k \in 0 .. s - 1 : k \in Nat
      BY <1>1
    <3> QED BY <3>3, <3>4
  <2> QED BY <1>6, <2>1
<1> QED BY <1>7

(* Whatever the hash, a search that finds nothing to stop at looks at     *)
(* every slot.                                                             *)
THEOREM ProbesEverySlot ==
  ASSUME NEW h \in HashValue, NEW s \in Sizes
  PROVE  /\ Probe[h][s] \in [0 .. s - 1 -> 0 .. s - 1]
         /\ \A i \in 0 .. s - 1 : \E k \in 0 .. s - 1 : Probe[h][s][k] = i
<1> DEFINE D == 0 .. s - 1
           p == [k \in D |-> (h + Spread[k]) % s]
<1>1. s \in Nat \ {0} /\ h \in Nat
  BY SizesArePowers, HashValueAssumption
<1>2. p = Probe[h][s]
  BY ProbeValues
<1>3. p \in [D -> D]
  <2>1. \A k \in D : h + Spread[k] \in Int
    BY <1>1, SpreadValues
  <2> QED BY <1>1, <2>1, Remainder
<1>4. ASSUME NEW a \in D, NEW b \in D, a < b
      PROVE  p[a] # p[b]
  <2> SUFFICES ASSUME p[a] = p[b] PROVE FALSE
    OBVIOUS
  <2> DEFINE d == b - a
  <2>1. /\ a \in Nat /\ d \in Nat /\ b = a + d /\ 0 < d /\ d < s
        /\ Spread[a] \in Nat /\ Spread[d] \in Nat /\ Spread[b] \in Nat
    <3>1. a \in Nat /\ b \in Nat /\ d \in Nat /\ b = a + d /\ 0 < d /\ d < s
      BY <1>1, <1>4
    <3> HIDE DEF d
    <3> QED BY <3>1, SpreadValues
  <2> HIDE DEF d
  <2>2. Spread[b] = Spread[a] + (4 * Spread[a] + 1) * Spread[d]
    BY <2>1, SpreadSum
  <2> DEFINE r == (h + Spread[a]) % s
  <2>3. PICK q \in Int : h + Spread[a] = s * q + r
    <3>1. h + Spread[a] \in Int
      BY <1>1, <2>1
    <3> QED BY <1>1, <3>1, Remainder
  <2>4. PICK e \in Int : h + Spread[b] = s * e + ((h + Spread[b]) % s)
    <3>1. h + Spread[b] \in Int
      BY <1>1, <2>1
    <3> QED BY <1>1, <3>1, Remainder
  <2>5. (h + Spread[b]) % s = r
    OBVIOUS
  <2>6. r \in Int
    BY <1>1, <2>1
  <2> HIDE DEF r
  <2>7. (4 * Spread[a] + 1) * Spread[d] = s * (e - q)
    <3>1. \A u, v, w, x, i, j, k, l \in Int :
             w + u = x * i + k /\ w + v = x * j + k /\ v = u + l
               => l = x * (j - i)
      OBVIOUS
    <3>2. (4 * Spread[a] + 1) * Spread[d] \in Int
      BY <2>1
    <3> DEFINE l == (4 * Spread[a] + 1) * Spread[d]
    <3>3. /\ l \in Int /\ Spread[b] = Spread[a] + l
          /\ h + Spread[a] = s * q + r /\ h + Spread[b] = s * e + r
      BY <2>2, <2>3, <2>4, <2>5, <3>2
    <3> HIDE DEF l
    <3>4. l = s * (e - q)
      BY <1>1, <2>1, <2>6, <3>1, <3>3
    <3> QED BY <3>4 DEF l
  <2>8. PICK m \in Nat : s = Power2[m]
    BY SizesArePowers
  <2>9. Divides(Power2[m], Spread[d])
    <3>1. Divides(Power2[m], (4 * Spread[a] + 1) * Spread[d])
      BY <2>7, <2>8 DEF Divides
    <3>2. 4 * Spread[a] + 1 = 2 * (2 * Spread[a]) + 1 /\ 2 * Spread[a] \in Int
      BY <2>1
    <3>3. Divides(Power2[m], (2 * (2 * Spread[a]) + 1) * Spread[d])
      BY <3>1, <3>2
    <3> DEFINE u == 2 * Spread[a]
    <3> HIDE DEF u
    <3>4. u \in Int /\ Divides(Power2[m], (2 * u + 1) * Spread[d])
      BY <3>2, <3>3 DEF u
    <3>5. Spread[d] \in Int
      BY <2>1
    <3> QED BY <3>4, <3>5, OddFactor
  <2>10. PICK c \in Int : d = s * c
    BY <2>1, <2>8, <2>9, SpreadFactor DEF Divides
  <2>11. \A x, y, z \in Int : ~(0 < x /\ x < y /\ x = y * z)
    <3> SUFFICES ASSUME NEW x \in Int, NEW y \in Int, NEW z \in Int,
                        0 < x, x < y, x = y * z
                 PROVE  FALSE
      OBVIOUS
    <3>1. CASE z <= 0
      OBVIOUS
    <3>2. CASE z >= 1
      OBVIOUS
    <3> QED BY <3>1, <3>2
  <2> QED BY <1>1, <2>1, <2>10, <2>11
<1> HIDE DEF p
<1>5. p \in Injection(D, D)
  <2>1. \A a, b \in D : p[a] = p[b] => a = b
    <3> SUFFICES ASSUME NEW a \in D, NEW b \in D, p[a] = p[b], a # b
                 PROVE  FALSE
      OBVIOUS
    <3>1. a < b \/ b < a
      BY <1>1
    <3> QED BY <1>4, <3>1
  <2> QED BY <1>3, <2>1 DEF Injection, IsInjective
<1>6. IsFiniteSet(D)
  BY <1>1, FS_Interval
<1>7. p \in Surjection(D, D)
  BY <1>5, <1>6, FS_Injection
<1> QED BY <1>2, <1>3, <1>7 DEF Surjection

-----------------------------------------------------------------------------
(* The invariant of a table. *)

IsTable(t) ==
    /\ t = [count |-> t.count, size |-> t.size, deleted |-> t.deleted,
            data |-> t.data, state |-> t.state]
    /\ TableOK(t)

Deleted(t) == {i \in Slots(t) : t.state[i] = SLOT_DELETED}

Counted(t) == /\ t.count = Cardinality(Occupied(t))
              /\ t.deleted = Cardinality(Deleted(t))

(* The fingerprint in a slot is that of its item. *)
Tagged(t) == \A i \in Occupied(t) : /\ t.data[i] \in Item
                                    /\ t.state[i] = occ[hash[t.data[i]]]

Distinct(t) == \A i, j \in Occupied(t) : t.data[i] = t.data[j] => i = j

(* The k-th slot of a search for x, and that no slot before it is empty. *)
At(t, x, k) == Probe[hash[x]][t.size][k]

Unbroken(t, x, k) == \A j \in 0 .. k - 1 : t.state[At(t, x, j)] # SLOT_EMPTY

(* Why no item is hidden: a search for it comes to its slot. *)
Reached(t) == \A i \in Occupied(t) : \E k \in Slots(t) :
                 At(t, t.data[i], k) = i /\ Unbroken(t, t.data[i], k)

Roomy(t) == t.count + t.deleted < t.size

TableInv(t) == /\ IsTable(t) /\ Counted(t) /\ Tagged(t)
               /\ Distinct(t) /\ Reached(t) /\ Roomy(t)

LEMMA LeastIn ==
  ASSUME NEW S \in SUBSET Nat, S # {}
  PROVE  Least(S) \in S /\ \A q \in S : Least(S) <= q
<1>1. \E p \in S : \A q \in S : p <= q
  <2> SUFFICES ASSUME \A p \in S : \E q \in S : ~(p <= q)
               PROVE  FALSE
    OBVIOUS
  <2> DEFINE E == {n \in Nat : \A q \in S : n <= q}
  <2>1. 0 \in E
    OBVIOUS
  <2>2. ASSUME NEW n \in Nat, n \in E PROVE n + 1 \in E
    BY <2>2
  <2>3. \A n \in Nat : n \in E
    <3> HIDE DEF E
    <3> QED BY <2>1, <2>2, NatInd
  <2>4. PICK p \in S : TRUE
    OBVIOUS
  <2>5. p + 1 \in Nat /\ p + 1 \in E /\ ~(p + 1 <= p)
    BY <2>3
  <2> QED BY <2>4, <2>5
<1> QED BY <1>1 DEF Least

LEMMA SearchSlots ==
  ASSUME HashesOK, NEW t, IsTable(t), NEW x \in Item
  PROVE  /\ t.size \in Nat /\ t.size >= 4
         /\ \A k \in Slots(t) : At(t, x, k) \in Slots(t)
         /\ \A i \in Slots(t) : \E k \in Slots(t) : At(t, x, k) = i
<1>1. hash[x] \in HashValue /\ t.size \in Sizes
  BY DEF HashesOK, IsTable, TableOK
<1> QED BY <1>1, ProbesEverySlot, SizesArePowers DEF At, Slots

(* A table that is not full has an empty slot. *)
LEMMA SlotLeft ==
  ASSUME NEW t, IsTable(t), Counted(t), Roomy(t)
  PROVE  \E i \in Slots(t) : t.state[i] = SLOT_EMPTY
<1>1. t.size \in Nat /\ IsFiniteSet(Slots(t)) /\ Cardinality(Slots(t)) = t.size
  <2>1. t.size \in Nat /\ t.size >= 4
    BY SizesArePowers DEF IsTable, TableOK
  <2>2. /\ IsFiniteSet(0 .. t.size - 1)
        /\ Cardinality(0 .. t.size - 1) = (t.size - 1) - 0 + 1
    <3>1. 0 \in Int /\ t.size - 1 \in Int /\ ~(0 > t.size - 1)
      BY <2>1
    <3> QED BY <3>1, FS_Interval
  <2> QED BY <2>1, <2>2 DEF Slots
<1>2. IsFiniteSet(Occupied(t)) /\ IsFiniteSet(Deleted(t))
  BY <1>1, FS_Subset DEF Occupied, Deleted
<1> DEFINE U == Occupied(t) \cup Deleted(t)
<1>3. IsFiniteSet(U)
  BY <1>2, FS_Union
<1>4. Cardinality(U) <= t.count + t.deleted
  <2>1. Occupied(t) \cap Deleted(t) = {}
    BY DEF Occupied, Deleted, Fingerprint, SLOT_DELETED
  <2>2. Cardinality(U) = Cardinality(Occupied(t)) + Cardinality(Deleted(t))
                           - Cardinality(Occupied(t) \cap Deleted(t))
    BY <1>2, FS_Union
  <2>3. Cardinality(Occupied(t) \cap Deleted(t)) = 0
    BY <2>1, FS_EmptySet
  <2>4. t.count \in Nat /\ t.deleted \in Nat
    BY DEF IsTable, TableOK
  <2> QED BY <2>2, <2>3, <2>4 DEF Counted
<1>5. U # Slots(t)
  <2>1. Cardinality(U) \in Nat
    BY <1>3, FS_CardinalityType
  <2> HIDE DEF U
  <2>2. t.count \in Nat /\ t.deleted \in Nat
    BY DEF IsTable, TableOK
  <2> QED BY <1>1, <1>4, <2>1, <2>2 DEF Roomy
<1>6. PICK i \in Slots(t) : i \notin U
  BY <1>5 DEF Occupied, Deleted
<1>7. t.state[i] \in {SLOT_EMPTY, SLOT_DELETED} \cup Fingerprint
  BY DEF IsTable, TableOK
<1> QED BY <1>6, <1>7 DEF Occupied, Deleted

(* The loops of set.h and map.h over a probe sequence end, at the first    *)
(* turn that meets the item or an empty slot.                              *)
LEMMA SearchStops ==
  ASSUME HashesOK, NEW t, IsTable(t), Counted(t), Roomy(t), NEW x \in Item
  PROVE  /\ Stops(t, x) # {}
         /\ Least(Stops(t, x)) \in Slots(t)
         /\ StopSlot(t, x) = At(t, x, Least(Stops(t, x)))
         /\ StopSlot(t, x) \in Slots(t)
         /\ Unbroken(t, x, Least(Stops(t, x)))
         /\ t.state[StopSlot(t, x)] = SLOT_EMPTY \/ Found(t, x)
         /\ \A k \in Stops(t, x) : Least(Stops(t, x)) <= k
<1>1. PICK i \in Slots(t) : t.state[i] = SLOT_EMPTY
  BY SlotLeft
<1>2. PICK k \in Slots(t) : At(t, x, k) = i
  BY SearchSlots
<1>3. k \in Stops(t, x)
  BY <1>1, <1>2 DEF Stops, At
<1>4. Stops(t, x) \in SUBSET Slots(t) /\ Slots(t) \in SUBSET Nat
  BY SearchSlots DEF Stops, Slots
<1> DEFINE l == Least(Stops(t, x))
<1>5. l \in Stops(t, x) /\ \A q \in Stops(t, x) : l <= q
  BY <1>3, <1>4, LeastIn
<1> HIDE DEF l
<1>6. l \in Slots(t) /\ At(t, x, l) \in Slots(t)
  BY <1>4, <1>5, SearchSlots
<1>7. StopSlot(t, x) = At(t, x, l)
  BY DEF StopSlot, At, l
<1>8. ASSUME NEW j \in 0 .. l - 1
      PROVE  t.state[At(t, x, j)] # SLOT_EMPTY
  <2>1. j \in Slots(t) /\ ~(l <= j)
    BY <1>6, SearchSlots DEF Slots
  <2>2. j \notin Stops(t, x)
    BY <1>5, <2>1
  <2> QED BY <2>1, <2>2 DEF Stops, At
<1>9. t.state[At(t, x, l)] = SLOT_EMPTY \/ Matches(t, x, At(t, x, l))
  BY <1>5 DEF Stops, At
<1> QED BY <1>3, <1>5, <1>6, <1>7, <1>8, <1>9 DEF Unbroken, Found, l

(* A search finds exactly what the table holds, in its slot. *)
LEMMA SearchFinds ==
  ASSUME HashesOK, NEW t, TableInv(t), NEW x \in Item
  PROVE  /\ Found(t, x) <=> x \in Members(t)
         /\ Found(t, x) => /\ StopSlot(t, x) \in Occupied(t)
                           /\ t.data[StopSlot(t, x)] = x
<1> USE DEF TableInv
<1>1. occ[hash[x]] \in Fingerprint
  BY DEF HashesOK
<1>2. Found(t, x) => /\ StopSlot(t, x) \in Occupied(t)
                     /\ t.data[StopSlot(t, x)] = x
  BY <1>1, SearchStops DEF Found, Matches, Occupied
<1>3. ASSUME x \in Members(t)
      PROVE  Found(t, x)
  <2>1. PICK i \in Occupied(t) : t.data[i] = x
    BY <1>3 DEF Members
  <2>2. PICK k \in Slots(t) : At(t, x, k) = i /\ Unbroken(t, x, k)
    BY <2>1 DEF Reached
  <2>3. Matches(t, x, i)
    BY <2>1 DEF Matches, Tagged
  <2>4. k \in Stops(t, x)
    BY <2>2, <2>3 DEF Stops, At
  <2> DEFINE l == Least(Stops(t, x))
  <2>5. l <= k /\ l \in Slots(t) /\ StopSlot(t, x) = At(t, x, l)
    BY <2>4, SearchStops
  <2>6. t.state[i] # SLOT_EMPTY
    BY <2>1 DEF Occupied, Fingerprint, SLOT_EMPTY
  <2>7. t.state[At(t, x, l)] # SLOT_EMPTY
    <3> HIDE DEF l
    <3>1. l = k \/ l \in 0 .. k - 1
      BY <2>5, SearchSlots DEF Slots
    <3> QED BY <2>2, <2>6, <3>1 DEF Unbroken
  <2> QED BY <2>5, <2>7, SearchStops
<1> QED BY <1>2, <1>3 DEF Members

LEMMA OccupiedFinite ==
  ASSUME NEW t, IsTable(t)
  PROVE  IsFiniteSet(Occupied(t)) /\ IsFiniteSet(Deleted(t))
<1>1. t.size \in Nat
  BY SizesArePowers DEF IsTable, TableOK
<1>2. IsFiniteSet(Slots(t))
  BY <1>1, FS_Interval DEF Slots
<1> QED BY <1>2, FS_Subset DEF Occupied, Deleted

-----------------------------------------------------------------------------
(* An item is put into the k-th slot of a search for it, which is free. *)

Filled(t, x, i) ==
    [t EXCEPT !.data = [t.data EXCEPT ![i] = x],
              !.state = [t.state EXCEPT ![i] = occ[hash[x]]],
              !.count = t.count + 1,
              !.deleted = IF i \in Deleted(t) THEN t.deleted - 1 ELSE t.deleted]

LEMMA PutKeeps ==
  ASSUME HashesOK, NEW t, TableInv(t), NEW x \in Item, x \notin Members(t),
         NEW k \in Slots(t), At(t, x, k) \notin Occupied(t), Unbroken(t, x, k),
         NEW u, u = Filled(t, x, At(t, x, k)), t.count + t.deleted + 1 < t.size
  PROVE  /\ TableInv(u)
         /\ Members(u) = Members(t) \cup {x}
         /\ Occupied(u) = Occupied(t) \cup {At(t, x, k)}
<1> USE DEF TableInv
<1> DEFINE i == At(t, x, k)
<1>1. /\ occ[hash[x]] \in Fingerprint /\ i \in Slots(t)
      /\ t.size \in Nat /\ t.count \in Nat /\ t.deleted \in Nat
      /\ t.data \in [Slots(t) -> Item \cup {None}]
      /\ t.state \in [Slots(t) -> {SLOT_EMPTY, SLOT_DELETED} \cup Fingerprint]
  BY SearchSlots DEF HashesOK, IsTable, TableOK
<1>2. i \in Deleted(t) => t.deleted > 0
  <2> SUFFICES ASSUME i \in Deleted(t) PROVE t.deleted > 0
    OBVIOUS
  <2>1. Cardinality(Deleted(t)) # 0
    BY OccupiedFinite, FS_EmptySet
  <2> QED BY <1>1, <2>1 DEF Counted
<1>3. /\ u.size = t.size /\ u.count = t.count + 1
      /\ u.data = [t.data EXCEPT ![i] = x]
      /\ u.state = [t.state EXCEPT ![i] = occ[hash[x]]]
      /\ u.deleted = IF i \in Deleted(t) THEN t.deleted - 1 ELSE t.deleted
      /\ Slots(u) = Slots(t)
  BY DEF IsTable, Slots, Filled
<1>4. IsTable(u)
  <2>1. u = [count |-> u.count, size |-> u.size, deleted |-> u.deleted,
             data |-> u.data, state |-> u.state]
    BY DEF IsTable, Filled
  <2>2. TableOK(u)
    BY <1>1, <1>2, <1>3 DEF IsTable, TableOK
  <2> QED BY <2>1, <2>2 DEF IsTable
<1> HIDE DEF i
<1>5. Occupied(u) = Occupied(t) \cup {i}
  BY <1>1, <1>3 DEF Occupied
<1>6. Deleted(u) = Deleted(t) \ {i}
  BY <1>1, <1>3 DEF Deleted, Fingerprint, SLOT_DELETED
<1>7. Counted(u)
  <2>1. Cardinality(Occupied(u)) = Cardinality(Occupied(t)) + 1
    BY <1>5, OccupiedFinite, FS_AddElement DEF i
  <2>2. Cardinality(Deleted(u))
          = IF i \in Deleted(t) THEN Cardinality(Deleted(t)) - 1
                                ELSE Cardinality(Deleted(t))
    BY <1>6, OccupiedFinite, FS_RemoveElement
  <2> QED BY <1>3, <2>1, <2>2 DEF Counted
<1>8. /\ u.data[i] = x /\ u.state[i] = occ[hash[x]]
      /\ \A j \in Occupied(t) : /\ j # i /\ u.data[j] = t.data[j]
                                /\ u.state[j] = t.state[j]
  BY <1>1, <1>3 DEF Occupied, i
<1>9. Tagged(u)
  BY <1>5, <1>8 DEF Tagged
<1>10. Distinct(u)
  BY <1>5, <1>8 DEF Distinct, Members
<1>11. \A j \in Slots(t) : t.state[j] # SLOT_EMPTY => u.state[j] # SLOT_EMPTY
  BY <1>1, <1>3 DEF Fingerprint, SLOT_EMPTY
<1>12. \A y \in Item, l \in Slots(t) : Unbroken(t, y, l) => Unbroken(u, y, l)
  <2> SUFFICES ASSUME NEW y \in Item, NEW l \in Slots(t), Unbroken(t, y, l),
                      NEW j \in 0 .. l - 1
               PROVE  u.state[At(u, y, j)] # SLOT_EMPTY
    BY DEF Unbroken
  <2>1. j \in Slots(t) /\ At(u, y, j) = At(t, y, j)
    BY <1>1, <1>3 DEF Slots, At
  <2> QED BY <1>11, <2>1, SearchSlots DEF Unbroken
<1>13. Reached(u)
  <2> SUFFICES ASSUME NEW j \in Occupied(u)
               PROVE  \E l \in Slots(u) : /\ At(u, u.data[j], l) = j
                                          /\ Unbroken(u, u.data[j], l)
    BY DEF Reached
  <2>1. CASE j = i
    <3>1. At(t, x, k) = i /\ At(u, x, k) = i /\ k \in Slots(u)
      BY <1>3 DEF At, i
    <3>2. Unbroken(u, x, k)
      BY <1>12
    <3> QED BY <1>8, <2>1, <3>1, <3>2
  <2>2. CASE j \in Occupied(t)
    <3>1. PICK l \in Slots(t) : /\ At(t, t.data[j], l) = j
                                /\ Unbroken(t, t.data[j], l)
      BY <2>2 DEF Reached
    <3>2. t.data[j] \in Item
      BY <2>2 DEF Tagged
    <3> QED BY <1>3, <1>8, <1>12, <2>2, <3>1, <3>2 DEF At
  <2> QED BY <1>5, <2>1, <2>2
<1>14. Roomy(u)
  BY <1>1, <1>2, <1>3 DEF Roomy
<1>15. Members(u) = Members(t) \cup {x}
  BY <1>5, <1>8 DEF Members
<1> QED BY <1>4, <1>5, <1>7, <1>9, <1>10, <1>13, <1>14, <1>15 DEF i

(* u is the table t with item x in slot p, where it may have been before. *)
Added(t, x, u, p) ==
    /\ TableInv(u)
    /\ u.size = t.size
    /\ Members(u) = Members(t) \cup {x}
    /\ p \in Slots(t) /\ Occupied(u) = Occupied(t) \cup {p}
    /\ u.data[p] = x
    /\ \A j \in Occupied(t) : u.data[j] = t.data[j]
    /\ x \in Members(t) => u = t
    /\ x \notin Members(t) => /\ p \notin Occupied(t)
                              /\ u.count = t.count + 1
                              /\ u.deleted \in {t.deleted, t.deleted - 1}

(* uncheckedAdd, on a table with room. *)
LEMMA AddKeeps ==
  ASSUME HashesOK, NEW t, TableInv(t), NEW x \in Item,
         t.count + t.deleted + 1 < t.size
  PROVE  Added(t, x, uncheckedAdd(t, x), Place(t, x))
<1> DEFINE u == uncheckedAdd(t, x)
           p == Place(t, x)
           l == Least(Stops(t, x))
<1> SUFFICES Added(t, x, u, p)
  OBVIOUS
<1>1. /\ IsTable(t) /\ Counted(t) /\ Roomy(t) /\ Slots(t) \in SUBSET Nat
      /\ t.size \in Nat /\ t.count \in Nat /\ t.deleted \in Nat
      /\ t.data \in [Slots(t) -> Item \cup {None}]
  BY SizesArePowers DEF TableInv, IsTable, TableOK, Slots
<1>2. /\ l \in Slots(t) /\ StopSlot(t, x) = At(t, x, l)
      /\ StopSlot(t, x) \in Slots(t) /\ Unbroken(t, x, l)
      /\ t.state[StopSlot(t, x)] = SLOT_EMPTY \/ Found(t, x)
  BY <1>1, SearchStops
<1> HIDE DEF l
<1>3. CASE Found(t, x)
  <2>1. /\ StopSlot(t, x) \in Occupied(t) /\ t.data[StopSlot(t, x)] = x
        /\ x \in Members(t)
    BY <1>3, SearchFinds
  <2>2. u = t /\ p = StopSlot(t, x)
    BY <1>3 DEF uncheckedAdd, Place
  <2> QED BY <1>1, <1>2, <2>1, <2>2 DEF Added
<1>4. CASE ~Found(t, x)
  <2>1. x \notin Members(t)
    BY <1>4, SearchFinds
  <2>2. ASSUME NEW k \in Slots(t), At(t, x, k) \notin Occupied(t),
               Unbroken(t, x, k), u = Filled(t, x, p), p = At(t, x, k)
        PROVE  Added(t, x, u, p)
    <3>1. /\ TableInv(u) /\ Members(u) = Members(t) \cup {x}
          /\ Occupied(u) = Occupied(t) \cup {p}
      <4> HIDE DEF u, p
      <4> QED BY <2>1, <2>2, PutKeeps
    <3>2. /\ u.size = t.size /\ u.count = t.count + 1
          /\ u.data = [t.data EXCEPT ![p] = x]
          /\ u.deleted = t.deleted \/ u.deleted = t.deleted - 1
      <4> HIDE DEF u, p
      <4> QED BY <1>1, <2>2 DEF IsTable, Filled
    <3>3. p \in Slots(t) /\ p \notin Occupied(t)
      <4> HIDE DEF u, p
      <4> QED BY <1>1, <2>2, SearchSlots
    <3>4. u.data[p] = x /\ \A j \in Occupied(t) : u.data[j] = t.data[j]
      <4> HIDE DEF u, p
      <4> QED BY <1>1, <3>2, <3>3 DEF Occupied
    <3> HIDE DEF u, p
    <3> QED BY <2>1, <3>1, <3>2, <3>3, <3>4 DEF Added
  <2>3. CASE Tombstones(t, x) = {}
    <3>1. p = At(t, x, l) /\ At(t, x, l) \notin Occupied(t) \cup Deleted(t)
      BY <1>2, <1>4, <2>3
         DEF Place, Occupied, Deleted, Fingerprint, SLOT_EMPTY, SLOT_DELETED
    <3>2. u = Put(t, x, At(t, x, l))
      BY <1>4, <2>3, <3>1 DEF uncheckedAdd
    <3>3. u = Filled(t, x, p)
      <4> HIDE DEF u
      <4> QED BY <1>1, <3>1, <3>2 DEF Put, IsTable, Filled
    <3> HIDE DEF u, p
    <3> QED BY <1>2, <1>4, <2>2, <3>1, <3>3
  <2>4. CASE Tombstones(t, x) # {}
    <3> DEFINE d == Least(Tombstones(t, x))
    <3>1. Tombstones(t, x) \in SUBSET Nat
      BY <1>1, <1>2 DEF Tombstones, Slots, l
    <3>2. d \in Tombstones(t, x)
      BY <2>4, <3>1, LeastIn
    <3> HIDE DEF d
    <3>3. d \in 0 .. l - 1 /\ t.state[At(t, x, d)] = SLOT_DELETED
      BY <3>2 DEF Tombstones, At, l
    <3>4. d \in Slots(t) /\ Unbroken(t, x, d)
      BY <1>1, <1>2, <3>3 DEF Unbroken, Slots
    <3>5. At(t, x, d) \in Deleted(t) /\ At(t, x, d) \notin Occupied(t)
      BY <1>1, <3>3, <3>4, SearchSlots
         DEF Deleted, Occupied, Fingerprint, SLOT_DELETED
    <3>6. p = At(t, x, d)
      BY <1>4, <2>4 DEF Place, At, d
    <3>7. u = [Put(t, x, At(t, x, d)) EXCEPT !.deleted = @ - 1]
      BY <1>4, <2>4, <3>6 DEF uncheckedAdd
    <3>8. u = Filled(t, x, p)
      <4> HIDE DEF u
      <4> QED BY <1>1, <3>5, <3>6, <3>7 DEF Put, IsTable, Filled
    <3> HIDE DEF u, p
    <3> QED BY <1>4, <2>2, <3>4, <3>5, <3>6, <3>8
  <2> QED BY <2>3, <2>4
<1> QED BY <1>3, <1>4

-----------------------------------------------------------------------------
(* An empty table, and a slot that becomes a tombstone. *)

LEMMA EmptyKeeps ==
  ASSUME NEW s \in Sizes
  PROVE  /\ TableInv(Empty(s)) /\ Occupied(Empty(s)) = {}
         /\ Members(Empty(s)) = {} /\ Empty(s).size = s
         /\ Empty(s).count = 0 /\ Empty(s).deleted = 0
<1> DEFINE t == Empty(s)
<1>1. s \in Nat /\ s >= 4
  BY SizesArePowers
<1>2. /\ t.size = s /\ t.count = 0 /\ t.deleted = 0
      /\ t.data = [i \in 0 .. s - 1 |-> None]
      /\ t.state = [i \in 0 .. s - 1 |-> SLOT_EMPTY]
      /\ t = [count |-> t.count, size |-> t.size, deleted |-> t.deleted,
              data |-> t.data, state |-> t.state]
  BY DEF Empty
<1> HIDE DEF t
<1>3. Occupied(t) = {} /\ Deleted(t) = {} /\ Members(t) = {}
  BY <1>2 DEF Occupied, Deleted, Members, Slots, Fingerprint, SLOT_EMPTY,
              SLOT_DELETED
<1>4. IsTable(t)
  BY <1>1, <1>2 DEF IsTable, TableOK, Slots
<1>5. Counted(t)
  BY <1>2, <1>3, FS_EmptySet DEF Counted
<1>6. TableInv(t)
  BY <1>1, <1>2, <1>3, <1>4, <1>5
     DEF TableInv, Tagged, Distinct, Reached, Roomy
<1> QED BY <1>2, <1>3, <1>6 DEF t

(* The slot is not emptied: searches for other items still pass over it.  *)
LEMMA ClearedKeeps ==
  ASSUME HashesOK, NEW t, TableInv(t), NEW i \in Occupied(t)
  PROVE  /\ TableInv(Cleared(t, i))
         /\ Occupied(Cleared(t, i)) = Occupied(t) \ {i}
         /\ Members(Cleared(t, i)) = Members(t) \ {t.data[i]}
         /\ \A j \in Occupied(t) \ {i} : Cleared(t, i).data[j] = t.data[j]
         /\ Cleared(t, i).size = t.size
         /\ t.count > 0
         /\ Cleared(t, i).count = t.count - 1
         /\ Cleared(t, i).deleted = t.deleted + 1
<1> USE DEF TableInv
<1> DEFINE u == Cleared(t, i)
<1>1. /\ i \in Slots(t) /\ t.size \in Nat /\ t.count \in Nat /\ t.deleted \in Nat
      /\ t.data \in [Slots(t) -> Item \cup {None}]
      /\ t.state \in [Slots(t) -> {SLOT_EMPTY, SLOT_DELETED} \cup Fingerprint]
  BY SizesArePowers DEF Occupied, IsTable, TableOK
<1>2. t.count > 0
  <2>1. Cardinality(Occupied(t)) # 0
    BY OccupiedFinite, FS_EmptySet
  <2> QED BY <1>1, <2>1 DEF Counted
<1>3. /\ u.size = t.size /\ u.count = t.count - 1 /\ u.deleted = t.deleted + 1
      /\ u.data = [t.data EXCEPT ![i] = None]
      /\ u.state = [t.state EXCEPT ![i] = SLOT_DELETED]
      /\ Slots(u) = Slots(t)
      /\ u = [count |-> u.count, size |-> u.size, deleted |-> u.deleted,
              data |-> u.data, state |-> u.state]
  <2>1. u = [t EXCEPT !.data = [t.data EXCEPT ![i] = None],
                      !.state = [t.state EXCEPT ![i] = SLOT_DELETED],
                      !.count = t.count - 1, !.deleted = t.deleted + 1]
    BY DEF IsTable, Cleared
  <2> HIDE DEF u
  <2>2. /\ u.size = t.size /\ u.count = t.count - 1 /\ u.deleted = t.deleted + 1
        /\ u.data = [t.data EXCEPT ![i] = None]
        /\ u.state = [t.state EXCEPT ![i] = SLOT_DELETED]
    BY <2>1 DEF IsTable
  <2>3. u = [count |-> u.count, size |-> u.size, deleted |-> u.deleted,
             data |-> u.data, state |-> u.state]
    BY <2>1 DEF IsTable
  <2> QED BY <2>2, <2>3 DEF Slots
<1> HIDE DEF u
<1>4. IsTable(u)
  BY <1>1, <1>2, <1>3 DEF IsTable, TableOK
<1>5. Occupied(u) = Occupied(t) \ {i}
  BY <1>1, <1>3 DEF Occupied, Fingerprint, SLOT_DELETED
<1>6. Deleted(u) = Deleted(t) \cup {i} /\ i \notin Deleted(t)
  BY <1>1, <1>3 DEF Deleted, Occupied, Fingerprint, SLOT_DELETED
<1>7. Counted(u)
  <2>1. Cardinality(Occupied(u)) = Cardinality(Occupied(t)) - 1
    BY <1>5, OccupiedFinite, FS_RemoveElement
  <2>2. Cardinality(Deleted(u)) = Cardinality(Deleted(t)) + 1
    BY <1>6, OccupiedFinite, FS_AddElement
  <2> QED BY <1>3, <2>1, <2>2 DEF Counted
<1>8. \A j \in Occupied(t) \ {i} : /\ u.data[j] = t.data[j]
                                   /\ u.state[j] = t.state[j]
  BY <1>1, <1>3 DEF Occupied
<1>9. Tagged(u) /\ Distinct(u)
  BY <1>5, <1>8 DEF Tagged, Distinct
<1>10. \A j \in Slots(t) : t.state[j] # SLOT_EMPTY => u.state[j] # SLOT_EMPTY
  BY <1>1, <1>3 DEF SLOT_EMPTY, SLOT_DELETED
<1>11. \A y \in Item, l \in Slots(t) : Unbroken(t, y, l) => Unbroken(u, y, l)
  <2> SUFFICES ASSUME NEW y \in Item, NEW l \in Slots(t), Unbroken(t, y, l),
                      NEW j \in 0 .. l - 1
               PROVE  u.state[At(u, y, j)] # SLOT_EMPTY
    BY DEF Unbroken
  <2>1. j \in Slots(t) /\ At(u, y, j) = At(t, y, j)
    BY <1>1, <1>3 DEF Slots, At
  <2> QED BY <1>10, <2>1, SearchSlots DEF Unbroken
<1>12. Reached(u)
  <2> SUFFICES ASSUME NEW j \in Occupied(t) \ {i}
               PROVE  \E l \in Slots(u) : /\ At(u, u.data[j], l) = j
                                          /\ Unbroken(u, u.data[j], l)
    BY <1>5 DEF Reached
  <2>1. PICK l \in Slots(t) : /\ At(t, t.data[j], l) = j
                              /\ Unbroken(t, t.data[j], l)
    BY DEF Reached
  <2>2. t.data[j] \in Item
    BY DEF Tagged
  <2> QED BY <1>3, <1>8, <1>11, <2>1, <2>2 DEF At
<1>13. Roomy(u)
  BY <1>1, <1>3 DEF Roomy
<1>14. Members(u) = Members(t) \ {t.data[i]}
  BY <1>5, <1>8 DEF Members, Distinct
<1> QED BY <1>2, <1>3, <1>4, <1>5, <1>7, <1>8, <1>9, <1>12, <1>13, <1>14 DEF u

(* Each item is counted once. *)
LEMMA MembersCounted ==
  ASSUME NEW t, TableInv(t)
  PROVE  /\ Members(t) \subseteq Item
         /\ t.count = Cardinality(Members(t))
         /\ t.count \in Nat /\ t.count <= Cardinality(Item)
<1> USE DEF TableInv
<1>1. Members(t) \subseteq Item
  BY DEF Members, Tagged
<1> DEFINE f == [i \in Occupied(t) |-> t.data[i]]
<1>2. f \in Bijection(Occupied(t), Members(t))
  BY DEF Members, Distinct, Bijection, Injection, Surjection, IsInjective
<1>3. Cardinality(Members(t)) = Cardinality(Occupied(t))
  BY <1>2, OccupiedFinite, FS_Bijection DEF ExistsBijection
<1>4. Cardinality(Members(t)) <= Cardinality(Item)
  BY <1>1, FS_Subset, ItemAssumption
<1> QED BY <1>1, <1>3, <1>4 DEF Counted, IsTable, TableOK

-----------------------------------------------------------------------------
(* rebuild: the new size, and the loop. *)

LEMMA Power2Grows ==
  /\ \A n \in Nat : n < Power2[n]
  /\ \A m, n \in Nat : Power2[m] < Power2[n] => m < n
<1>1. \A n \in Nat : n < Power2[n]
  <2> DEFINE E == {n \in Nat : n < Power2[n]}
  <2>1. 0 \in E
    BY Power2Values
  <2>2. ASSUME NEW n \in Nat, n \in E PROVE n + 1 \in E
    BY <2>2, Power2Values
  <2>3. \A n \in Nat : n \in E
    <3> HIDE DEF E
    <3> QED BY <2>1, <2>2, NatInd
  <2> QED BY <2>3
<1>2. \A n, d \in Nat : Power2[n] <= Power2[n + d]
  <2> SUFFICES ASSUME NEW n \in Nat
               PROVE  \A d \in Nat : Power2[n] <= Power2[n + d]
    OBVIOUS
  <2> DEFINE E == {d \in Nat : Power2[n] <= Power2[n + d]}
  <2>1. 0 \in E
    BY Power2Values
  <2>2. ASSUME NEW d \in Nat, d \in E PROVE d + 1 \in E
    <3>1. n + d \in Nat /\ n + (d + 1) = (n + d) + 1
      OBVIOUS
    <3>2. Power2[(n + d) + 1] = 2 * Power2[n + d] /\ Power2[n + d] \in Nat
      BY <3>1, Power2Values
    <3>3. Power2[n] <= Power2[n + d] /\ Power2[n] \in Nat
      BY <2>2, Power2Values
    <3>4. Power2[n] <= Power2[n + (d + 1)]
      BY <3>1, <3>2, <3>3
    <3> QED BY <3>4
  <2>3. \A d \in Nat : d \in E
    <3> HIDE DEF E
    <3> QED BY <2>1, <2>2, NatInd
  <2> QED BY <2>3
<1>3. ASSUME NEW m \in Nat, NEW n \in Nat, Power2[m] < Power2[n], ~(m < n)
      PROVE  FALSE
  <2>1. m - n \in Nat /\ m = n + (m - n)
    BY <1>3
  <2>2. Power2[n] <= Power2[n + (m - n)]
    BY <1>2, <2>1
  <2>3. Power2[m] \in Nat /\ Power2[n] \in Nat
    BY Power2Values
  <2> QED BY <1>3, <2>1, <2>2, <2>3
<1> QED BY <1>1, <1>3

LEMMA NextPow2 ==
  ASSUME NEW n \in Nat
  PROVE  /\ nextPow2(n) \in Nat /\ n <= nextPow2(n)
         /\ \E k \in Nat : nextPow2(n) = Power2[k]
         /\ nextPow2(n) = 1 \/ nextPow2(n) < 2 * n
<1> DEFINE S == {p \in {Power2[k] : k \in 0 .. n} : p >= n}
           v == Least(S)
<1>1. \A k \in 0 .. n : k \in Nat /\ Power2[k] \in Nat
  BY Power2Values
<1>2. S \in SUBSET Nat
  BY <1>1
<1>3. Power2[n] \in S
  BY <1>1, Power2Grows
<1>4. v \in S /\ \A q \in S : v <= q
  <2> HIDE DEF S
  <2> QED BY <1>2, <1>3, LeastIn
<1>5. nextPow2(n) = v
  BY DEF nextPow2
<1> HIDE DEF v
<1>6. PICK k \in 0 .. n : v = Power2[k] /\ v >= n
  BY <1>4
<1>7. CASE k = 0
  BY <1>1, <1>5, <1>6, <1>7, Power2Values
<1>8. CASE k # 0
  <2>1. k - 1 \in Nat /\ k - 1 \in 0 .. n /\ (k - 1) + 1 = k
    BY <1>8
  <2>2. Power2[k] = 2 * Power2[k - 1] /\ Power2[k - 1] \in Nat \ {0}
    BY <2>1, Power2Values
  <2>3. Power2[k - 1] \notin S
    BY <1>4, <1>6, <2>2
  <2>4. Power2[k - 1] < n
    BY <2>1, <2>2, <2>3
  <2> QED BY <1>1, <1>5, <1>6, <2>2, <2>4
<1> QED BY <1>7, <1>8

(* A rebuilt table has at least two slots for each item and, if it is not  *)
(* of the least size, fewer than four.                                     *)
LEMMA NewSize ==
  ASSUME NEW t, t.count \in Nat, t.count <= Cardinality(Item)
  PROVE  /\ newsize(t) \in Sizes /\ 2 * t.count <= newsize(t)
         /\ newsize(t) = MinSize \/ newsize(t) < 4 * t.count
<1> DEFINE c == t.count
           half == nextPow2(c * 2)
           C == Cardinality(Item)
<1>1. C \in Nat
  BY FS_CardinalityType, ItemAssumption
<1>2. PICK m \in 2 .. 3 : MinSize = Power2[m]
  BY MinSizeAssumption
<1>3. MinSize \in Nat /\ MinSize >= 4
  <2>1. Power2[1] = 2 /\ Power2[2] = 4 /\ Power2[3] = 8
    <3>1. Power2[0 + 1] = 2
      BY Power2Values
    <3>2. Power2[1 + 1] = 2 * Power2[1] /\ Power2[2 + 1] = 2 * Power2[2]
      BY Power2Values
    <3> QED BY <3>1, <3>2
  <2> QED BY <1>2, <2>1
<1>4. c * 2 \in Nat
  OBVIOUS
<1>5. PICK k \in Nat : half = Power2[k]
  BY <1>4, NextPow2
<1>6. /\ half \in Nat /\ c * 2 <= half
      /\ half = 1 \/ half < 2 * (c * 2)
  BY <1>4, NextPow2
<1>7. newsize(t) = IF half < MinSize THEN MinSize ELSE half
  BY DEF newsize
<1> HIDE DEF half
<1>8. CASE half < MinSize
  <2>1. MinSize = MinSize * Power2[0] /\ 0 \in 0 .. C
    BY <1>1, <1>3, Power2Values
  <2>2. MinSize \in Sizes
    BY <2>1 DEF Sizes
  <2> QED BY <1>3, <1>6, <1>7, <1>8, <2>2
<1>9. CASE ~(half < MinSize)
  <2>1. half < 4 * c /\ c > 0
    BY <1>3, <1>6, <1>9
  <2>2. CASE half = MinSize
    <3>1. MinSize = MinSize * Power2[0] /\ 0 \in 0 .. C
      BY <1>1, <1>3, Power2Values
    <3> QED BY <1>6, <1>7, <1>9, <2>2, <3>1 DEF Sizes
  <2>3. CASE half # MinSize
    <3>1. m < k
      <4>1. Power2[m] < Power2[k]
        BY <1>2, <1>3, <1>5, <1>6, <1>9, <2>3
      <4> QED BY <1>2, <4>1, Power2Grows
    <3> DEFINE d == k - m
    <3>2. d \in Nat /\ k = m + d /\ m \in Nat
      BY <1>2, <3>1
    <3> HIDE DEF d
    <3>3. Power2[k] = MinSize * Power2[d]
      <4> DEFINE E == {j \in Nat : Power2[m + j] = MinSize * Power2[j]}
      <4>1. 0 \in E
        BY <1>2, <1>3, <3>2, Power2Values
      <4>2. ASSUME NEW j \in Nat, j \in E PROVE j + 1 \in E
        <5>1. m + j \in Nat /\ m + (j + 1) = (m + j) + 1
          BY <3>2
        <5>2. /\ Power2[(m + j) + 1] = 2 * Power2[m + j]
              /\ Power2[j + 1] = 2 * Power2[j]
              /\ Power2[j] \in Nat
          BY <5>1, Power2Values
        <5>3. Power2[m + j] = MinSize * Power2[j]
          BY <4>2
        <5>4. \A x, y \in Int : 2 * (x * y) = x * (2 * y)
          OBVIOUS
        <5>5. Power2[m + (j + 1)] = MinSize * Power2[j + 1]
          BY <1>3, <5>1, <5>2, <5>3, <5>4
        <5> QED BY <5>5
      <4>3. \A j \in Nat : j \in E
        <5> HIDE DEF E
        <5> QED BY <4>1, <4>2, NatInd
      <4> QED BY <3>2, <4>3
    <3>4. Power2[d] < c
      <4>1. \A x, y, z \in Nat : x >= 4 /\ x * y < 4 * z => y < z
        <5> SUFFICES ASSUME NEW x \in Nat, NEW y \in Nat, NEW z \in Nat,
                            x >= 4, x * y < 4 * z
                     PROVE  y < z
          OBVIOUS
        <5>1. x * y >= 4 * y
          <6>1. x - 4 \in Nat /\ (x - 4) * y \in Nat /\ x * y = (x - 4) * y + 4 * y
            OBVIOUS
          <6> QED BY <6>1
        <5> QED BY <5>1
      <4>2. Power2[d] \in Nat
        BY <3>2, Power2Values
      <4> QED BY <1>3, <1>5, <2>1, <3>3, <4>1, <4>2
    <3>5. d <= C
      <4>1. d < Power2[d] /\ Power2[d] \in Nat
        BY <3>2, Power2Grows, Power2Values
      <4> QED BY <1>1, <3>2, <3>4, <4>1
    <3>6. half \in Sizes
      BY <1>1, <1>5, <3>2, <3>3, <3>5 DEF Sizes
    <3> QED BY <1>6, <1>7, <1>9, <2>1, <3>6
  <2> QED BY <2>2, <2>3
<1> QED BY <1>8, <1>9

(* The items of the slots before the i-th. *)
Before(t, i) == {t.data[j] : j \in {k \in Occupied(t) : k < i}}

LEMMA BeforeGrows ==
  ASSUME NEW t, TableInv(t), NEW i \in Nat
  PROVE  /\ Before(t, 0) = {}
         /\ Before(t, i) \subseteq Members(t)
         /\ i \in Occupied(t) => /\ Before(t, i + 1) = Before(t, i) \cup {t.data[i]}
                                 /\ t.data[i] \in Members(t) \ Before(t, i)
         /\ i \notin Occupied(t) => Before(t, i + 1) = Before(t, i)
         /\ Before(t, t.size) = Members(t)
<1>1. Occupied(t) \subseteq 0 .. t.size - 1 /\ t.size \in Nat
  BY SizesArePowers DEF TableInv, IsTable, TableOK, Occupied, Slots
<1>2. \A k \in Occupied(t) : k \in Nat /\ k < t.size
  BY <1>1
<1>3. \A k \in Occupied(t) : k < i + 1 <=> k < i \/ k = i
  BY <1>2
<1>4. i \in Occupied(t) => t.data[i] \notin Before(t, i)
  BY <1>2 DEF Before, TableInv, Distinct
<1>5. Before(t, 0) = {}
  BY <1>2 DEF Before
<1>6. /\ i \in Occupied(t) => Before(t, i + 1) = Before(t, i) \cup {t.data[i]}
      /\ i \notin Occupied(t) => Before(t, i + 1) = Before(t, i)
  BY <1>3 DEF Before
<1>7. Before(t, t.size) = Members(t)
  BY <1>2 DEF Before, Members
<1>8. Before(t, i) \subseteq Members(t) /\ (i \in Occupied(t) => t.data[i] \in Members(t))
  BY DEF Before, Members
<1> QED BY <1>4, <1>5, <1>6, <1>7, <1>8

(* rebuild moves every item, leaves no tombstone, and hides nothing. *)
LEMMA RebuildKeeps ==
  ASSUME HashesOK, NEW t, TableInv(t)
  PROVE  /\ TableInv(rebuild(t))
         /\ Members(rebuild(t)) = Members(t)
         /\ rebuild(t).size = newsize(t)
         /\ rebuild(t).count = t.count
         /\ rebuild(t).deleted = 0
<1> DEFINE N == t.size
           E == Empty(newsize(t))
           Step(v, i) == IF i - 1 \in Occupied(t)
                         THEN uncheckedAdd(v, t.data[i - 1]) ELSE v
           Is(f, n) == f = [i \in 0 .. n |-> IF i = 0 THEN E ELSE Step(f[i - 1], i)]
<1>1. N \in Nat
  BY SizesArePowers DEF TableInv, IsTable, TableOK
<1>2. \A n \in Nat : \E f : Is(f, n)
  <2> HIDE DEF Step, E
  <2> DEFINE S == {n \in Nat : \E f : Is(f, n)}
  <2>1. 0 \in S
    <3>1. Is([i \in 0 .. 0 |-> E], 0)
      OBVIOUS
    <3> QED BY <3>1
  <2>2. ASSUME NEW n \in Nat, n \in S PROVE n + 1 \in S
    <3>1. PICK f : Is(f, n)
      BY <2>2
    <3> DEFINE g == [i \in 0 .. n + 1 |-> IF i <= n THEN f[i] ELSE Step(f[n], i)]
    <3>2. Is(g, n + 1)
      BY <3>1
    <3> HIDE DEF Is
    <3> QED BY <3>2
  <2> HIDE DEF S
  <2>3. \A n \in Nat : n \in S
    BY <2>1, <2>2, NatInd
  <2> QED BY <2>3 DEF S
<1>3. PICK new : Is(new, N) /\ rebuild(t) = new[N]
  <2> DEFINE new == CHOOSE f : Is(f, N)
  <2>1. rebuild(t) = new[N]
    BY DEF rebuild
  <2> HIDE DEF Is
  <2>2. Is(new, N)
    BY <1>1, <1>2
  <2> QED BY <2>1, <2>2
<1> DEFINE OK(v, i) == /\ TableInv(v) /\ Members(v) = Before(t, i)
                       /\ v.size = newsize(t) /\ v.deleted = 0
<1>4. /\ newsize(t) \in Sizes /\ newsize(t) \in Nat /\ newsize(t) >= 4
      /\ 2 * t.count <= newsize(t) /\ t.count \in Nat
      /\ t.count = Cardinality(Members(t))
      /\ Members(t) \subseteq Item /\ IsFiniteSet(Members(t))
  <2>1. /\ t.count \in Nat /\ t.count <= Cardinality(Item)
        /\ t.count = Cardinality(Members(t)) /\ Members(t) \subseteq Item
    BY MembersCounted
  <2>2. newsize(t) \in Sizes /\ 2 * t.count <= newsize(t)
    BY <2>1, NewSize
  <2>3. newsize(t) \in Nat /\ newsize(t) >= 4
    BY <2>2, SizesArePowers
  <2>4. IsFiniteSet(Members(t))
    BY <2>1, FS_Subset, ItemAssumption
  <2> QED BY <2>1, <2>2, <2>3, <2>4
<1>5. OK(E, 0)
  BY <1>4, EmptyKeeps, BeforeGrows
<1>6. ASSUME NEW i \in Nat, NEW v, OK(v, i), i < N
      PROVE  OK(Step(v, i + 1), i + 1)
  <2> DEFINE x == t.data[i]
  <2>1. Step(v, i + 1) = IF i \in Occupied(t) THEN uncheckedAdd(v, x) ELSE v
    <3>1. (i + 1) - 1 = i
      OBVIOUS
    <3> QED BY <3>1
  <2>2. CASE i \notin Occupied(t)
    <3>1. Before(t, i + 1) = Before(t, i)
      BY <2>2, BeforeGrows
    <3>2. Step(v, i + 1) = v
      BY <2>1, <2>2
    <3> HIDE DEF Step
    <3> QED BY <1>6, <3>1, <3>2
  <2>3. CASE i \in Occupied(t)
    <3>1. /\ Before(t, i + 1) = Before(t, i) \cup {x}
          /\ x \in Members(t) \ Before(t, i) /\ Before(t, i) \subseteq Members(t)
      BY <2>3, BeforeGrows
    <3>2. x \in Item /\ x \notin Members(v)
      BY <1>4, <1>6, <3>1
    <3>3. v.count < t.count
      <4>1. v.count = Cardinality(Members(v))
        BY <1>6, MembersCounted
      <4>2. Members(v) \in SUBSET (Members(t) \ {x})
        BY <1>6, <3>1
      <4>3. /\ IsFiniteSet(Members(t) \ {x})
            /\ Cardinality(Members(t) \ {x}) = t.count - 1
        <5> HIDE DEF x
        <5> QED BY <1>4, <3>1, FS_RemoveElement
      <4>4. Cardinality(Members(v)) <= t.count - 1
        BY <4>2, <4>3, FS_Subset
      <4>5. v.count \in Nat
        BY <1>6, MembersCounted
      <4> QED BY <1>4, <4>1, <4>4, <4>5
    <3>4. v.count + v.deleted + 1 < v.size
      <4>1. v.count \in Nat /\ v.deleted = 0 /\ v.size = newsize(t)
        BY <1>6, MembersCounted
      <4> QED BY <1>4, <3>3, <4>1
    <3> DEFINE u == uncheckedAdd(v, x)
    <3>5. Added(v, x, u, Place(v, x))
      BY <1>6, <3>2, <3>4, AddKeeps
    <3>6. /\ TableInv(u) /\ u.size = v.size /\ Members(u) = Members(v) \cup {x}
          /\ u.deleted \in {0, 0 - 1}
      BY <1>6, <3>2, <3>5 DEF Added
    <3>7. u.deleted = 0
      BY <3>6 DEF TableInv, IsTable, TableOK
    <3>8. Step(v, i + 1) = u
      BY <2>1, <2>3
    <3> HIDE DEF Step, u
    <3> QED BY <1>6, <3>1, <3>6, <3>7, <3>8
  <2> QED BY <2>2, <2>3
<1>7. \A i \in Nat : i <= N => OK(new[i], i)
  <2> HIDE DEF OK, Step, E
  <2> DEFINE S == {i \in Nat : i <= N => OK(new[i], i)}
  <2>1. new[0] = E /\ \A i \in Nat : i < N => new[i + 1] = Step(new[i], i + 1)
    BY <1>1, <1>3
  <2>2. 0 \in S
    BY <1>5, <2>1
  <2>3. ASSUME NEW i \in Nat, i \in S PROVE i + 1 \in S
    <3> SUFFICES ASSUME i + 1 <= N PROVE OK(new[i + 1], i + 1)
      OBVIOUS
    <3>1. i < N /\ OK(new[i], i)
      BY <1>1, <2>3
    <3> QED BY <1>6, <2>1, <3>1
  <2> HIDE DEF S
  <2>4. \A i \in Nat : i \in S
    BY <2>2, <2>3, NatInd
  <2> QED BY <2>4 DEF S
<1>8. OK(new[N], N)
  BY <1>1, <1>7
<1>9. new[N].count = t.count
  BY <1>4, <1>8, BeforeGrows, <1>1, MembersCounted
<1> QED BY <1>1, <1>3, <1>8, <1>9, BeforeGrows

-----------------------------------------------------------------------------
(* The operations of a set. *)

(* Few tombstones, and a table that is not too large for what it holds. *)
Snug(t) == /\ t.deleted = 0 \/ t.deleted < t.count
           /\ t.size <= MinSize \/ t.size < 4 * (t.count + t.deleted)

LEMMA MinSizeIsSize ==
  MinSize \in Sizes /\ MinSize \in Nat /\ MinSize >= 4
<1>1. PICK m \in 2 .. 3 : MinSize = Power2[m]
  BY MinSizeAssumption
<1>2. MinSize \in Nat /\ MinSize = MinSize * Power2[0]
  BY <1>1, Power2Values
<1>3. 0 \in 0 .. Cardinality(Item)
  BY FS_CardinalityType, ItemAssumption
<1>4. MinSize \in Sizes
  BY <1>2, <1>3 DEF Sizes
<1> QED BY <1>4, SizesArePowers

(* A table that was rebuilt has room, and is no larger than it must be. *)
LEMMA RebuiltHasRoom ==
  ASSUME NEW t, TableInv(t), NEW u,
         u.size = newsize(t), u.count = t.count, u.deleted = 0
  PROVE  u.count + u.deleted + 1 < u.size /\ Snug(u)
<1>1. t.count \in Nat /\ t.count <= Cardinality(Item)
  BY MembersCounted
<1>2. /\ newsize(t) \in Sizes /\ 2 * t.count <= newsize(t)
      /\ newsize(t) = MinSize \/ newsize(t) < 4 * t.count
  BY <1>1, NewSize
<1>3. newsize(t) \in Nat /\ newsize(t) >= 4
  BY <1>2, SizesArePowers
<1> QED BY <1>1, <1>2, <1>3, MinSizeIsSize DEF Snug

LEMMA MakeRoomKeeps ==
  ASSUME HashesOK, NEW t, TableInv(t)
  PROVE  LET u == MakeRoom(t)
         IN  /\ TableInv(u) /\ Members(u) = Members(t)
             /\ u.count + u.deleted + 1 < u.size
             /\ Snug(t) => Snug(u)
<1>1. /\ t.count \in Nat /\ t.deleted \in Nat /\ t.size \in Nat /\ t.size >= 4
      /\ t.count <= Cardinality(Item)
  BY SizesArePowers, MembersCounted DEF TableInv, IsTable, TableOK
<1>2. CASE Full(t)
  <2> DEFINE u == rebuild(t)
  <2>1. /\ TableInv(u) /\ Members(u) = Members(t) /\ u.size = newsize(t)
        /\ u.count = t.count /\ u.deleted = 0
    BY RebuildKeeps
  <2>2. MakeRoom(t) = u
    BY <1>2 DEF MakeRoom
  <2> HIDE DEF u
  <2>3. u.count + u.deleted + 1 < u.size /\ Snug(u)
    BY <2>1, RebuiltHasRoom
  <2> QED BY <2>1, <2>2, <2>3
<1>3. CASE ~Full(t)
  <2>1. t.count + t.deleted + 1 < t.size
    <3> DEFINE n == t.count + t.deleted
    <3>1. n \in Nat /\ ~((n * 3) \div 2 >= t.size)
      BY <1>1, <1>3 DEF Full
    <3> HIDE DEF n
    <3>2. (n * 3) \div 2 \in Nat /\ 2 * ((n * 3) \div 2) + 1 >= n * 3
      BY <3>1
    <3>3. n + 1 < t.size
      BY <1>1, <3>1, <3>2
    <3> QED BY <3>3 DEF n
  <2>2. MakeRoom(t) = t
    BY <1>3 DEF MakeRoom
  <2> QED BY <2>1, <2>2
<1> QED BY <1>2, <1>3

LEMMA SnugAfter ==
  ASSUME NEW t, TableInv(t), Snug(t), NEW u, TableInv(u), u.size = t.size,
         u = t \/ (u.count = t.count + 1 /\ u.deleted \in {t.deleted, t.deleted - 1})
  PROVE  Snug(u)
<1>1. /\ t.count \in Nat /\ t.deleted \in Nat /\ t.size \in Nat
      /\ u.count \in Nat /\ u.deleted \in Nat
  BY SizesArePowers DEF TableInv, IsTable, TableOK
<1> QED BY <1>1, MinSizeIsSize DEF Snug

LEMMA AddToKeeps ==
  ASSUME HashesOK, NEW t, TableInv(t), Snug(t), NEW x \in Item
  PROVE  /\ TableInv(AddTo(t, x)) /\ Snug(AddTo(t, x))
         /\ Members(AddTo(t, x)) = Members(t) \cup {x}
<1> DEFINE v == MakeRoom(t)
           u == uncheckedAdd(v, x)
<1>1. /\ TableInv(v) /\ Members(v) = Members(t) /\ Snug(v)
      /\ v.count + v.deleted + 1 < v.size
  BY MakeRoomKeeps
<1>2. AddTo(t, x) = u
  BY DEF AddTo
<1> HIDE DEF v
<1>3. Added(v, x, u, Place(v, x))
  BY <1>1, AddKeeps
<1> HIDE DEF u
<1>4. TableInv(u) /\ Members(u) = Members(v) \cup {x} /\ u.size = v.size
  BY <1>3 DEF Added
<1>5. u = v \/ (u.count = v.count + 1 /\ u.deleted \in {v.deleted, v.deleted - 1})
  BY <1>3 DEF Added
<1>6. Snug(u)
  BY <1>1, <1>4, <1>5, SnugAfter
<1> QED BY <1>1, <1>2, <1>4, <1>6

LEMMA GetOrAddKeeps ==
  ASSUME HashesOK, NEW t, TableInv(t), Snug(t), NEW x \in Item,
         t.count + t.deleted + 1 < t.size, ~Found(t, x)
  PROVE  LET u == Put(t, x, StopSlot(t, x))
         IN  TableInv(u) /\ Snug(u) /\ Members(u) = Members(t) \cup {x}
<1> DEFINE i == StopSlot(t, x)
           k == Least(Stops(t, x))
           u == Put(t, x, i)
<1>1. IsTable(t) /\ Counted(t) /\ Roomy(t)
  BY DEF TableInv
<1>2. /\ k \in Slots(t) /\ i = At(t, x, k) /\ Unbroken(t, x, k)
      /\ t.state[i] = SLOT_EMPTY
  BY <1>1, SearchStops
<1>3. i \notin Occupied(t) /\ i \notin Deleted(t) /\ x \notin Members(t)
  BY <1>2, SearchFinds
     DEF Occupied, Deleted, Fingerprint, SLOT_EMPTY, SLOT_DELETED
<1> HIDE DEF i, k
<1>4. u = Filled(t, x, At(t, x, k))
  BY <1>1, <1>2, <1>3 DEF Put, Filled, IsTable
<1>5. u.size = t.size /\ u.count = t.count + 1 /\ u.deleted = t.deleted
  BY <1>1 DEF Put, IsTable
<1> HIDE DEF u
<1>6. TableInv(u) /\ Members(u) = Members(t) \cup {x}
  BY <1>2, <1>3, <1>4, PutKeeps
<1>7. Snug(u)
  BY <1>5, <1>6, SnugAfter
<1> QED BY <1>6, <1>7 DEF u, i

(* What remove leaves. *)
Removed(t, x) == IF ~Found(t, x) THEN t
                 ELSE LET c == Cleared(t, StopSlot(t, x))
                      IN  IF Crowded(c) THEN rebuild(c) ELSE c

LEMMA RemoveKeeps ==
  ASSUME HashesOK, NEW t, TableInv(t), Snug(t), NEW x \in Item
  PROVE  /\ TableInv(Removed(t, x)) /\ Snug(Removed(t, x))
         /\ Members(Removed(t, x)) = Members(t) \ {x}
<1>1. CASE ~Found(t, x)
  BY <1>1, SearchFinds DEF Removed
<1>2. CASE Found(t, x)
  <2> DEFINE c == Cleared(t, StopSlot(t, x))
  <2>1. StopSlot(t, x) \in Occupied(t) /\ t.data[StopSlot(t, x)] = x
    BY <1>2, SearchFinds
  <2>2. /\ TableInv(c) /\ Members(c) = Members(t) \ {x} /\ c.size = t.size
        /\ t.count > 0 /\ c.count = t.count - 1 /\ c.deleted = t.deleted + 1
    BY <2>1, ClearedKeeps
  <2> HIDE DEF c
  <2>3. CASE Crowded(c)
    <3>1. /\ TableInv(rebuild(c)) /\ Members(rebuild(c)) = Members(c)
          /\ rebuild(c).size = newsize(c) /\ rebuild(c).count = c.count
          /\ rebuild(c).deleted = 0
      BY <2>2, RebuildKeeps
    <3>2. Snug(rebuild(c))
      BY <2>2, <3>1, RebuiltHasRoom
    <3>3. Removed(t, x) = rebuild(c)
      BY <1>2, <2>3 DEF Removed, c
    <3> QED BY <2>2, <3>1, <3>2, <3>3
  <2>4. CASE ~Crowded(c)
    <3>1. /\ t.count \in Nat /\ t.deleted \in Nat /\ t.size \in Nat
      BY SizesArePowers DEF TableInv, IsTable, TableOK
    <3>2. Snug(c)
      BY <2>2, <2>4, <3>1, MinSizeIsSize DEF Snug, Crowded
    <3>3. Removed(t, x) = c
      BY <1>2, <2>4 DEF Removed, c
    <3> QED BY <2>2, <3>2, <3>3
  <2> QED BY <2>3, <2>4
<1> QED BY <1>1, <1>2

(* intersect_with fills a new set, by add. *)
LEMMA IntersectKeeps ==
  ASSUME HashesOK, NEW t, TableInv(t), NEW that
  PROVE  /\ TableInv(intersect_with(t, that)) /\ Snug(intersect_with(t, that))
         /\ Members(intersect_with(t, that)) = Members(t) \cap that
<1> DEFINE N == t.size
           E == Empty(MinSize)
           Step(v, i) == IF i - 1 \in Occupied(t) /\ t.data[i - 1] \in that
                         THEN AddTo(v, t.data[i - 1]) ELSE v
           Is(f, n) == f = [i \in 0 .. n |-> IF i = 0 THEN E ELSE Step(f[i - 1], i)]
<1>1. N \in Nat
  BY SizesArePowers DEF TableInv, IsTable, TableOK
<1>2. \A n \in Nat : \E f : Is(f, n)
  <2> HIDE DEF Step, E
  <2> DEFINE S == {n \in Nat : \E f : Is(f, n)}
  <2>1. 0 \in S
    <3>1. Is([i \in 0 .. 0 |-> E], 0)
      OBVIOUS
    <3> QED BY <3>1
  <2>2. ASSUME NEW n \in Nat, n \in S PROVE n + 1 \in S
    <3>1. PICK f : Is(f, n)
      BY <2>2
    <3> DEFINE g == [i \in 0 .. n + 1 |-> IF i <= n THEN f[i] ELSE Step(f[n], i)]
    <3>2. Is(g, n + 1)
      BY <3>1
    <3> HIDE DEF Is
    <3> QED BY <3>2
  <2> HIDE DEF S
  <2>3. \A n \in Nat : n \in S
    BY <2>1, <2>2, NatInd
  <2> QED BY <2>3 DEF S
<1>3. PICK new : Is(new, N) /\ intersect_with(t, that) = new[N]
  <2> DEFINE new == CHOOSE f : Is(f, N)
  <2>1. intersect_with(t, that) = new[N]
    BY DEF intersect_with
  <2> HIDE DEF Is
  <2>2. Is(new, N)
    BY <1>1, <1>2
  <2> QED BY <2>1, <2>2
<1> DEFINE OK(v, i) == /\ TableInv(v) /\ Snug(v)
                       /\ Members(v) = Before(t, i) \cap that
<1>4. OK(E, 0)
  BY EmptyKeeps, BeforeGrows, MinSizeIsSize DEF Snug
<1>5. ASSUME NEW i \in Nat, NEW v, OK(v, i), i < N
      PROVE  OK(Step(v, i + 1), i + 1)
  <2> DEFINE x == t.data[i]
  <2>1. Step(v, i + 1) = IF i \in Occupied(t) /\ x \in that THEN AddTo(v, x) ELSE v
    <3>1. (i + 1) - 1 = i
      OBVIOUS
    <3> QED BY <3>1
  <2>2. CASE ~(i \in Occupied(t) /\ x \in that)
    <3>1. Before(t, i + 1) \cap that = Before(t, i) \cap that
      BY <2>2, BeforeGrows
    <3>2. Step(v, i + 1) = v
      BY <2>1, <2>2
    <3> HIDE DEF Step
    <3> QED BY <1>5, <3>1, <3>2
  <2>3. CASE i \in Occupied(t) /\ x \in that
    <3>1. Before(t, i + 1) = Before(t, i) \cup {x} /\ x \in Members(t)
      BY <2>3, BeforeGrows
    <3>2. x \in Item
      BY <3>1, MembersCounted
    <3> DEFINE u == AddTo(v, x)
    <3>3. TableInv(u) /\ Snug(u) /\ Members(u) = Members(v) \cup {x}
      BY <1>5, <3>2, AddToKeeps
    <3>4. Step(v, i + 1) = u
      BY <2>1, <2>3
    <3> HIDE DEF Step, u
    <3> QED BY <1>5, <2>3, <3>1, <3>3, <3>4
  <2> QED BY <2>2, <2>3
<1>6. \A i \in Nat : i <= N => OK(new[i], i)
  <2> HIDE DEF OK, Step, E
  <2> DEFINE S == {i \in Nat : i <= N => OK(new[i], i)}
  <2>1. new[0] = E /\ \A i \in Nat : i < N => new[i + 1] = Step(new[i], i + 1)
    BY <1>1, <1>3
  <2>2. 0 \in S
    BY <1>4, <2>1
  <2>3. ASSUME NEW i \in Nat, i \in S PROVE i + 1 \in S
    <3> SUFFICES ASSUME i + 1 <= N PROVE OK(new[i + 1], i + 1)
      OBVIOUS
    <3>1. i < N /\ OK(new[i], i)
      BY <1>1, <2>3
    <3> QED BY <1>5, <2>1, <3>1
  <2> HIDE DEF S
  <2>4. \A i \in Nat : i \in S
    BY <2>2, <2>3, NatInd
  <2> QED BY <2>4 DEF S
<1>7. OK(new[N], N)
  BY <1>1, <1>6
<1> QED BY <1>1, <1>3, <1>7, BeforeGrows

-----------------------------------------------------------------------------
(* The set. *)

(* The inductive invariant: SetInv and, for every item, an unbroken path   *)
(* to its slot, and tombstones counted towards the size of the table.      *)
SetIInv == HashesOK /\ last[3] \in BOOLEAN /\ TableInv(set) /\ Snug(set)

LEMMA SetInitial == SetInit => SetIInv
<1> SUFFICES ASSUME SetInit PROVE SetIInv
  OBVIOUS
<1>1. HashesOK /\ last[3] \in BOOLEAN
  BY DEF SetInit, HashesOK
<1>2. TableInv(set) /\ Snug(set)
  BY EmptyKeeps, MinSizeIsSize DEF SetInit, Snug
<1> QED BY <1>1, <1>2 DEF SetIInv

(* What a step does, in the words of the abstract specification. *)
SetEffect ==
    \/ \E x \in Item :
         \/ Members(set') = Members(set) \cup {x} /\ last' = <<"add", x, TRUE>>
         \/ /\ Members(set') = Members(set) \ {x}
            /\ last' = <<"remove", x, x \in Members(set)>>
         \/ set' = set /\ last' = <<"contains", x, x \in Members(set)>>
    \/ \E that \in SUBSET Item :
         /\ Members(set') = Members(set) \cap that
         /\ last' = <<"intersect", that, TRUE>>

SetKept == /\ UNCHANGED <<hash, occ>> /\ last'[3] \in BOOLEAN
           /\ TableInv(set') /\ Snug(set')

LEMMA SetSteps ==
  ASSUME SetIInv, SetNext
  PROVE  SetKept /\ SetEffect
<1> USE DEF SetIInv
<1>1. ASSUME NEW x \in Item, Add(x)
      PROVE  /\ UNCHANGED <<hash, occ>> /\ last' = <<"add", x, TRUE>>
             /\ TableInv(set') /\ Snug(set')
             /\ Members(set') = Members(set) \cup {x}
  BY <1>1, AddToKeeps DEF Add
<1>2. ASSUME NEW x \in Item, GetOrAdd(x)
      PROVE  /\ UNCHANGED <<hash, occ>> /\ last' = <<"add", x, TRUE>>
             /\ TableInv(set') /\ Snug(set')
             /\ Members(set') = Members(set) \cup {x}
  <2> DEFINE t == MakeRoom(set)
  <2>1. /\ TableInv(t) /\ Members(t) = Members(set) /\ Snug(t)
        /\ t.count + t.deleted + 1 < t.size
    BY MakeRoomKeeps
  <2>2. set' = IF Found(t, x) THEN t ELSE Put(t, x, StopSlot(t, x))
    BY <1>2 DEF GetOrAdd
  <2> HIDE DEF t
  <2>3. CASE Found(t, x)
    BY <1>2, <2>1, <2>2, <2>3, SearchFinds DEF GetOrAdd
  <2>4. CASE ~Found(t, x)
    BY <1>2, <2>1, <2>2, <2>4, GetOrAddKeeps DEF GetOrAdd
  <2> QED BY <2>3, <2>4
<1>3. ASSUME NEW x \in Item, Remove(x)
      PROVE  /\ UNCHANGED <<hash, occ>>
             /\ last' = <<"remove", x, x \in Members(set)>>
             /\ TableInv(set') /\ Snug(set')
             /\ Members(set') = Members(set) \ {x}
  <2>1. set' = Removed(set, x)
    BY <1>3 DEF Remove, Removed
  <2>2. Found(set, x) = (x \in Members(set))
    BY SearchFinds DEF Found, Matches
  <2>3. last' = <<"remove", x, x \in Members(set)>>
    BY <1>3, <2>2 DEF Remove
  <2> QED BY <1>3, <2>1, <2>3, RemoveKeeps DEF Remove
<1>4. ASSUME NEW x \in Item, Contains(x)
      PROVE  /\ UNCHANGED <<hash, occ>>
             /\ last' = <<"contains", x, x \in Members(set)>>
             /\ TableInv(set') /\ Snug(set') /\ set' = set
  <2>1. Found(set, x) = (x \in Members(set))
    BY SearchFinds DEF Found, Matches
  <2> QED BY <1>4, <2>1 DEF Contains
<1>5. ASSUME NEW that \in SUBSET Item, Intersect(that)
      PROVE  /\ UNCHANGED <<hash, occ>>
             /\ last' = <<"intersect", that, TRUE>>
             /\ TableInv(set') /\ Snug(set')
             /\ Members(set') = Members(set) \cap that
  BY <1>5, IntersectKeeps DEF Intersect
<1>6. ASSUME NEW x \in Item, Add(x) \/ GetOrAdd(x)
      PROVE  SetKept /\ SetEffect
  <2>1. last'[3] \in BOOLEAN
    <3>1. last' = <<"add", x, TRUE>>
      BY <1>1, <1>2, <1>6
    <3> QED BY <3>1
  <2>2. SetKept
    BY <1>1, <1>2, <1>6, <2>1 DEF SetKept
  <2>3. SetEffect
    BY <1>1, <1>2, <1>6 DEF SetEffect
  <2> QED BY <2>2, <2>3
<1>7. ASSUME NEW x \in Item, Remove(x)
      PROVE  SetKept /\ SetEffect
  <2>1. last'[3] \in BOOLEAN
    <3>1. last' = <<"remove", x, x \in Members(set)>>
      BY <1>3, <1>7
    <3> QED BY <3>1
  <2>2. SetKept
    BY <1>3, <1>7, <2>1 DEF SetKept
  <2>3. SetEffect
    BY <1>3, <1>7 DEF SetEffect
  <2> QED BY <2>2, <2>3
<1>8. ASSUME NEW x \in Item, Contains(x)
      PROVE  SetKept /\ SetEffect
  <2>1. last'[3] \in BOOLEAN
    <3>1. last' = <<"contains", x, x \in Members(set)>>
      BY <1>4, <1>8
    <3> QED BY <3>1
  <2>2. SetKept
    BY <1>4, <1>8, <2>1 DEF SetKept
  <2>3. SetEffect
    BY <1>4, <1>8 DEF SetEffect
  <2> QED BY <2>2, <2>3
<1>9. ASSUME NEW that \in SUBSET Item, Intersect(that)
      PROVE  SetKept /\ SetEffect
  <2>1. last'[3] \in BOOLEAN
    <3>1. last' = <<"intersect", that, TRUE>>
      BY <1>5, <1>9
    <3> QED BY <3>1
  <2>2. SetKept
    BY <1>5, <1>9, <2>1 DEF SetKept
  <2>3. SetEffect
    BY <1>5, <1>9 DEF SetEffect
  <2> QED BY <2>2, <2>3
<1> QED BY <1>6, <1>7, <1>8, <1>9 DEF SetNext

LEMMA SetStep == SetIInv /\ [SetNext]_setVars => SetIInv'
<1> SUFFICES ASSUME SetIInv, [SetNext]_setVars PROVE SetIInv'
  OBVIOUS
<1>1. /\ UNCHANGED <<hash, occ>> /\ last'[3] \in BOOLEAN
      /\ TableInv(set') /\ Snug(set')
  BY SetSteps DEF SetIInv, SetKept, setVars
<1>2. TableInv(set)'
  <2>1. IsTable(set)'
    BY <1>1 DEF TableInv, IsTable, TableOK, Slots
  <2>2. Counted(set)' /\ Distinct(set)' /\ Roomy(set)'
    BY <1>1 DEF TableInv, Counted, Distinct, Roomy, Occupied, Deleted, Slots
  <2>3. Tagged(set)'
    BY <1>1 DEF TableInv, Tagged, Occupied, Slots
  <2>4. Reached(set)'
    BY <1>1 DEF TableInv, Reached, At, Unbroken, Occupied, Slots
  <2> QED BY <2>1, <2>2, <2>3, <2>4 DEF TableInv
<1> QED BY <1>1, <1>2 DEF SetIInv, HashesOK, Snug

LEMMA SetIInvAlways == SetSpec => []SetIInv
BY SetInitial, SetStep, PTL DEF SetSpec

LEMMA SetInvHolds == SetIInv => SetInv
<1> SUFFICES ASSUME SetIInv PROVE SetInv
  OBVIOUS
<1>1. /\ HashesOK /\ last[3] \in BOOLEAN /\ TableInv(set) /\ Snug(set)
      /\ IsTable(set) /\ Counted(set) /\ Roomy(set)
  BY DEF SetIInv, TableInv
<1>2. TableOK(set)
  BY <1>1 DEF IsTable
<1>3. CountsRight(set)
  BY <1>1, MembersCounted DEF CountsRight, Counted, Deleted
<1>4. SearchesEnd(set) /\ FindsMembers(set)
  BY <1>1, SearchStops, SearchFinds DEF SearchesEnd, FindsMembers
<1>5. Bounded(set)
  <2>1. set.count \in Nat /\ set.deleted \in Nat /\ set.size \in Nat
    BY <1>2, SizesArePowers DEF TableOK
  <2> QED BY <1>1, <2>1, MinSizeIsSize DEF Bounded, Snug
<1> QED BY <1>1, <1>2, <1>3, <1>4, <1>5 DEF SetInv, Sound, HashesOK

(* In every reachable state of a set the counts are those of the slots, no *)
(* item is held twice, every search ends and finds exactly the items that  *)
(* are held, and the table is proportional to its contents: for any number *)
(* of items and any hash function.                                         *)
THEOREM SetIsSound == SetSpec => []SetInv
BY SetIInvAlways, SetInvHolds, PTL

(* Set<T> implements a mathematical set: an addition adds the item and no  *)
(* other, a removal takes out that item alone, and contains and remove     *)
(* answer for the items that are there.                                    *)
THEOREM SetIsASet == SetSpec => ImplementsSet
<1>1. SetInit => AbsSet!Init
  <2> SUFFICES ASSUME SetInit PROVE AbsSet!Init
    OBVIOUS
  <2>1. Members(set) = {}
    BY EmptyKeeps, MinSizeIsSize DEF SetInit
  <2> QED BY <2>1 DEF SetInit, AbsSet!Init
<1>2. SetIInv /\ [SetNext]_setVars => [AbsSet!Next]_(AbsSet!vars)
  <2> SUFFICES ASSUME SetIInv, [SetNext]_setVars
               PROVE  [AbsSet!Next]_(AbsSet!vars)
    OBVIOUS
  <2>1. Members(set)' = Members(set')
    BY DEF Members, Occupied, Slots
  <2>2. CASE UNCHANGED setVars
    BY <2>2 DEF setVars, AbsSet!vars, Members, Occupied, Slots
  <2>3. CASE SetNext
    BY <2>1, <2>3, SetSteps DEF SetEffect, AbsSet!Next, AbsSet!Add, AbsSet!Remove,
       AbsSet!Contains, AbsSet!Intersect, AbsSet!vars
  <2> QED BY <2>2, <2>3
<1> QED BY <1>1, <1>2, SetIInvAlways, PTL DEF SetSpec, ImplementsSet, AbsSet!Spec
=============================================================================
