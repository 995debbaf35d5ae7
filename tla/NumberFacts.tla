---------------------------- MODULE NumberFacts ----------------------------
(***************************************************************************)
(* Facts about naturals and integers that the other proofs rest on:        *)
(* induction and recursion in forms that the provers can instantiate, and  *)
(* divisibility.                                                           *)
(***************************************************************************)
EXTENDS Integers, WellFoundedInduction, TLAPS

-----------------------------------------------------------------------------
(* Induction.  Over sets instead of predicates, which the provers can      *)
(* instantiate, from the well-foundedness of < on Nat.                     *)

(* Every nonempty set of naturals has a least element.                     *)
LEMMA LeastNat ==
  ASSUME NEW T, T \subseteq Nat, T # {}
  PROVE  \E x \in T : \A y \in T : x <= y
<1>1. \E x \in T : \A y \in T : ~(<<y, x>> \in OpToRel(<, Nat))
  <2> DEFINE R == OpToRel(<, Nat)
  <2>1. IsWellFoundedOn(R, Nat)
    BY NatLessThanWellFounded, Zenon
  <2> HIDE DEF R
  <2>2. \E x \in T : \A y \in T : ~(<<y, x>> \in R)
    BY <2>1, WFMin
  <2> QED
    BY <2>2, Zenon DEF R
<1>2. \A x, y \in T : ~(<<y, x>> \in OpToRel(<, Nat)) => x <= y
  BY DEF OpToRel
<1> QED
  BY <1>1, <1>2, Zenon

(* A set of naturals that holds 0 and every successor holds them all.      *)
LEMMA SetInduction ==
  ASSUME NEW S, S \subseteq Nat, 0 \in S, \A n \in S : n + 1 \in S
  PROVE  S = Nat
<1> SUFFICES ASSUME Nat \ S # {}
             PROVE  FALSE
  OBVIOUS
<1>1. PICK x \in Nat \ S : \A y \in Nat \ S : x <= y
  BY LeastNat
<1>2. x # 0
  OBVIOUS
<1>3. x - 1 \in Nat /\ x - 1 \notin Nat \ S
  BY <1>1, <1>2
<1> QED
  BY <1>3

(* The same up to a bound.                                                 *)
LEMMA BoundedInduction ==
  ASSUME NEW N \in Nat, NEW S, 0 \in S, \A n \in 0..N-1 : n \in S => n + 1 \in S
  PROVE  0..N \subseteq S
<1> DEFINE T == {n \in Nat : n <= N => n \in S}
<1>1. 0 \in T
  OBVIOUS
<1>2. \A n \in T : n + 1 \in T
  OBVIOUS
<1>3. T = Nat
  <2>1. T \subseteq Nat
    OBVIOUS
  <2> HIDE DEF T
  <2> QED
    BY <1>1, <1>2, <2>1, SetInduction
<1> QED
  BY <1>3

(* A function on 0..N given by its first value and a step exists.          *)
LEMMA RecursiveFunction ==
  ASSUME NEW N \in Nat, NEW S, NEW b \in S, NEW G \in [S -> S]
  PROVE  \E f \in [0..N -> S] :
           f = [k \in 0..N |-> IF k = 0 THEN b ELSE G[f[k-1]]]
<1> DEFINE Good == {n \in Nat : \E f \in [0..n -> S] :
              f = [k \in 0..n |-> IF k = 0 THEN b ELSE G[f[k-1]]]}
<1>1. 0 \in Good
  <2> DEFINE f == [k \in 0..0 |-> b]
  <2>1. f \in [0..0 -> S]
    OBVIOUS
  <2>2. f = [k \in 0..0 |-> IF k = 0 THEN b ELSE G[f[k-1]]]
    OBVIOUS
  <2> QED
    BY <2>1, <2>2
<1>2. ASSUME NEW n \in Good
      PROVE  n + 1 \in Good
  <2>1. PICK f \in [0..n -> S] :
              f = [k \in 0..n |-> IF k = 0 THEN b ELSE G[f[k-1]]]
    OBVIOUS
  <2> DEFINE g == [k \in 0..n+1 |-> IF k = n+1 THEN G[f[n]] ELSE f[k]]
  <2>2. g \in [0..n+1 -> S]
    OBVIOUS
  <2>3. ASSUME NEW k \in 0..n+1
        PROVE  g[k] = IF k = 0 THEN b ELSE G[g[k-1]]
    <3>1. CASE k = n+1
      <4>1. g[k-1] = f[n] /\ k # 0
        BY <3>1
      <4> QED
        BY <4>1, <3>1
    <3>2. CASE k # n+1
      <4>1. k \in 0..n /\ g[k] = f[k]
        BY <3>2
      <4>2. f[k] = IF k = 0 THEN b ELSE G[f[k-1]]
        BY <4>1, <2>1
      <4>3. k # 0 => g[k-1] = f[k-1]
        BY <4>1
      <4> QED
        BY <4>1, <4>2, <4>3
    <3> QED
      BY <3>1, <3>2
  <2>4. g = [k \in 0..n+1 |-> IF k = 0 THEN b ELSE G[g[k-1]]]
    <3> HIDE DEF g
    <3>1. g = [k \in 0..n+1 |-> g[k]]
      BY <2>2
    <3> QED
      BY <3>1, <2>3
  <2>5. n \in Nat
    OBVIOUS
  <2> HIDE DEF g
  <2> QED
    BY <2>2, <2>4, <2>5
<1>3. N \in Good
  <2> HIDE DEF Good
  <2>1. Good \subseteq Nat
    BY DEF Good
  <2> QED
    BY <1>1, <1>2, <2>1, SetInduction
<1> QED
  BY <1>3

-----------------------------------------------------------------------------
(* Divisibility.                                                           *)

Divides(m, a) == \E q \in Int : a = m * q

(* Division with remainder.                                                *)
LEMMA DivMod ==
  ASSUME NEW m \in Nat, m # 0, NEW a \in Int
  PROVE  a \div m \in Int /\ a % m \in 0..m-1 /\ a = m * (a \div m) + (a % m)
<1>1. a \div m \in Int /\ a % m \in 0..m-1
  OBVIOUS
<1>2. a = m * (a \div m) + (a % m)
  OBVIOUS
<1> QED
  BY <1>1, <1>2

(* The residue differs from the number by a multiple of the modulus.       *)
LEMMA Residue ==
  ASSUME NEW m \in Nat, m # 0, NEW a \in Int
  PROVE  \E q \in Int : a % m = a + m * q
<1>1. a % m = a + m * (-(a \div m)) /\ -(a \div m) \in Int
  <2>1. a \div m \in Int /\ a = m * (a \div m) + (a % m) /\ a % m \in Int
    BY DivMod
  <2> QED
    BY <2>1
<1> QED
  BY <1>1

(* Of the numbers below m two are equal if m divides their difference.     *)
LEMMA DividesSmall ==
  ASSUME NEW m \in Nat, m # 0, NEW a \in 0..m-1, NEW b \in 0..m-1,
         Divides(m, a - b)
  PROVE  a = b
<1>1. PICK q \in Int : a - b = m * q
  BY DEF Divides
<1>2. q = 0
  <2>1. -m < m * q /\ m * q < m
    BY <1>1
  <2>2. q >= 1 => m * q >= m
    OBVIOUS
  <2>3. q <= -1 => m * q <= -m
    OBVIOUS
  <2> QED
    BY <2>1, <2>2, <2>3
<1> QED
  BY <1>1, <1>2

(* Equal residues, and a difference that m divides, are the same.          *)
LEMMA SameResidue ==
  ASSUME NEW m \in Nat, m # 0, NEW a \in Int, NEW b \in Int
  PROVE  a % m = b % m <=> Divides(m, a - b)
<1>1. PICK q \in Int : a % m = a + m * q
  BY Residue
<1>2. PICK r \in Int : b % m = b + m * r
  BY Residue
<1>3. a % m \in 0..m-1 /\ b % m \in 0..m-1
  BY DivMod
<1>4. ASSUME a % m = b % m
      PROVE  Divides(m, a - b)
  <2>1. a - b = m * (r - q)
    BY <1>1, <1>2, <1>4
  <2> QED
    BY <2>1 DEF Divides
<1>5. ASSUME Divides(m, a - b)
      PROVE  a % m = b % m
  <2>1. PICK s \in Int : a - b = m * s
    BY <1>5 DEF Divides
  <2>2. (a + m * q) - (b + m * r) = m * (s + q - r)
    BY <2>1
  <2>3. Divides(m, (a % m) - (b % m))
    BY <1>1, <1>2, <2>2 DEF Divides
  <2> QED
    BY <2>3, <1>3, DividesSmall
<1> QED
  BY <1>4, <1>5

(* The residue is the only small number that differs by a multiple.        *)
LEMMA ResidueUnique ==
  ASSUME NEW m \in Nat, m # 0, NEW a \in Int, NEW r \in 0..m-1,
         Divides(m, a - r)
  PROVE  a % m = r
<1>1. r \in Int /\ r % m = r
  OBVIOUS
<1>2. a % m = r % m
  BY <1>1, SameResidue
<1> QED
  BY <1>1, <1>2

(* A modulus divides exactly the numbers of residue 0.                     *)
LEMMA DividesResidue ==
  ASSUME NEW m \in Nat, m # 0, NEW a \in Int
  PROVE  Divides(m, a) <=> a % m = 0
<1>1. 0 \in Int /\ 0 % m = 0
  OBVIOUS
<1>2. a % m = 0 % m <=> Divides(m, a - 0)
  BY <1>1, SameResidue
<1>3. a - 0 = a
  OBVIOUS
<1> QED
  BY <1>1, <1>2, <1>3
=============================================================================
