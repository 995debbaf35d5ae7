--------------------------- MODULE CrossTagProofs ---------------------------
(***************************************************************************)
(* The Montgomery ladder multiplies, for every curve, base point and       *)
(* scalar, and the tag of a search is the tag of the set-up exactly for    *)
(* the entry's z or the opposite one.  What is assumed is only what        *)
(* CrossTag assumes: Fermat's theorem for the two moduli, and that chord   *)
(* and tangent add associatively.  Closure of the curve, the opposite of   *)
(* a point, Montgomery's formulas with their exceptional points, and the   *)
(* ladder over the bits of the scalar are proved.                          *)
(*                                                                         *)
(* Sections: fields; points; multiples; DoubleAndAdd; powers of two; the   *)
(* state machine.                                                          *)
(***************************************************************************)
EXTENDS CrossTag, NumberFacts

-----------------------------------------------------------------------------
(* Fields.                                                                 *)

(* A power is a residue.                                                   *)
LEMMA PowerType ==
  ASSUME NEW m \in Nat, m # 0, NEW a \in Int, NEW e \in Nat
  PROVE  Power(a, e, m) \in 0..m-1
<1> DEFINE S == 0..m-1
           b == 1 % m
           G == [x \in S |-> (a * x) % m]
<1>1. b \in S
  BY DivMod
<1>2. G \in [S -> S]
  <2>1. ASSUME NEW x \in S
        PROVE  (a * x) % m \in S
    <3>1. a * x \in Int
      OBVIOUS
    <3> QED
      BY <3>1, DivMod
  <2> QED
    BY <2>1
<1>3. PICK f \in [0..e -> S] :
        f = [k \in 0..e |-> IF k = 0 THEN b ELSE G[f[k-1]]]
  <2> HIDE DEF S, b, G
  <2> QED
    BY <1>1, <1>2, RecursiveFunction
<1>4. f = [k \in 0..e |-> IF k = 0 THEN 1 % m ELSE (a * f[k-1]) % m]
  <2>1. ASSUME NEW k \in 0..e
        PROVE  (IF k = 0 THEN b ELSE G[f[k-1]])
                 = (IF k = 0 THEN 1 % m ELSE (a * f[k-1]) % m)
    <3>1. k # 0 => f[k-1] \in S
      OBVIOUS
    <3> QED
      BY <3>1
  <2> QED
    BY <1>3, <2>1
<1> DEFINE pow == CHOOSE g : g = [k \in 0..e |-> IF k = 0 THEN 1 % m
                                                 ELSE (a * g[k-1]) % m]
<1>5. pow = [k \in 0..e |-> IF k = 0 THEN 1 % m ELSE (a * pow[k-1]) % m]
  BY <1>4
<1>6. \A k \in 0..e : pow[k] \in S
  <2> HIDE DEF pow
  <2>1. ASSUME NEW k \in 0..e
        PROVE  pow[k] = IF k = 0 THEN 1 % m ELSE (a * pow[k-1]) % m
    BY <1>5
  <2> DEFINE Good == {k \in 0..e : pow[k] \in S}
  <2>2. 0 \in Good
    BY <2>1, <1>1
  <2>3. ASSUME NEW k \in 0..e-1, k \in Good
        PROVE  k + 1 \in Good
    <3>1. k + 1 \in 0..e /\ pow[k+1] = (a * pow[k]) % m
      BY <2>1
    <3>2. a * pow[k] \in Int
      BY <2>3
    <3>3. (a * pow[k]) % m \in S
      BY <3>2, DivMod
    <3> QED
      BY <3>1, <3>3
  <2>4. 0..e \subseteq Good
    <3> HIDE DEF Good
    <3> QED
      BY <2>2, <2>3, BoundedInduction
  <2> QED
    BY <2>4
<1>7. Power(a, e, m) = pow[e]
  BY DEF Power
<1> QED
  BY <1>6, <1>7

(* The moduli are positive.                                                *)
LEMMA Moduli ==
  ASSUME NEW m \in {Prime, ECC_Prime}
  PROVE  m \in Nat /\ m # 0 /\ m > 2
BY ModuliAssumption

(* Fermat's power inverts.                                                 *)
LEMMA FermatInverse ==
  ASSUME NEW m \in {Prime, ECC_Prime}, NEW d \in 1..m-1
  PROVE  /\ Power(d, m - 2, m) \in 0..m-1
         /\ \E q \in Int : d * Power(d, m - 2, m) = 1 + m * q
<1>1. m \in Nat /\ m > 2 /\ m # 0 /\ d \in Int /\ m - 2 \in Nat
  BY Moduli
<1> DEFINE r == Power(d, m - 2, m)
<1>2. r \in 0..m-1
  BY <1>1, PowerType
<1>3. (d * r) % m = 1
  BY FermatAssumption
<1> HIDE DEF r
<1>4. d * r \in Int
  BY <1>1, <1>2
<1>5. PICK q \in Int : (d * r) % m = d * r + m * q
  BY <1>1, <1>4, Residue
<1>6. d * r = 1 + m * (-q) /\ -q \in Int
  BY <1>1, <1>2, <1>3, <1>5
<1> QED
  BY <1>2, <1>6 DEF r

(* A product that a modulus divides has a factor that it divides.          *)
LEMMA NoZeroDivisors ==
  ASSUME NEW m \in {Prime, ECC_Prime}, NEW a \in Int, NEW b \in Int,
         Divides(m, a * b), ~Divides(m, a)
  PROVE  Divides(m, b)
<1>1. m \in Nat /\ m # 0
  BY Moduli
<1> DEFINE d == a % m
<1>2. PICK q \in Int : d = a + m * q
  BY <1>1, Residue
<1>3. d \in 1..m-1
  <2>1. d \in 0..m-1
    BY <1>1, DivMod
  <2>2. d # 0
    <3> SUFFICES ASSUME d = 0 PROVE Divides(m, a)
      OBVIOUS
    <3>1. a = m * (-q) /\ -q \in Int
      BY <1>1, <1>2
    <3> QED
      BY <3>1 DEF Divides
  <2> QED
    BY <2>1, <2>2
<1> HIDE DEF d
<1>4. PICK r \in Int, s \in Int : d * r = 1 + m * s
  <2>1. Power(d, m - 2, m) \in Int
    BY <1>1, <1>3, FermatInverse
  <2> QED
    BY <1>3, <2>1, FermatInverse
<1>5. PICK t \in Int : a * b = m * t
  BY DEF Divides
<1>6. b = m * (t * r + q * b * r - s * b)
  <2>1. (d * r) * b = b + m * (s * b)
    BY <1>4, <1>1
  <2>2. (d * r) * b = (a * b) * r + m * (q * b * r)
    BY <1>2, <1>1
  <2>3. b = m * (t * r) + m * (q * b * r) - m * (s * b)
    BY <2>1, <2>2, <1>5, <1>1
  <2> QED
    BY <2>3, <1>1
<1>7. t * r + q * b * r - s * b \in Int
  OBVIOUS
<1> QED
  BY <1>6, <1>7 DEF Divides

(* A square that a modulus divides is that of a number that it divides.    *)
LEMMA SquareZero ==
  ASSUME NEW m \in {Prime, ECC_Prime}, NEW a \in Int, Divides(m, a * a)
  PROVE  Divides(m, a)
BY NoZeroDivisors

(* No modulus divides 1, 2 or 4.                                           *)
LEMMA SmallUnits ==
  ASSUME NEW m \in {Prime, ECC_Prime}
  PROVE  ~Divides(m, 1) /\ ~Divides(m, 2) /\ ~Divides(m, 4)
<1>1. m \in Nat /\ m # 0 /\ m > 2
  BY Moduli
<1>2. ~Divides(m, 1)
  <2>1. 0 \in 0..m-1 /\ 1 \in 0..m-1 /\ 1 - 0 = 1
    BY <1>1
  <2> QED
    BY <2>1, <1>1, DividesSmall
<1>3. ~Divides(m, 2)
  <2> SUFFICES ASSUME Divides(m, 2) PROVE FALSE
    OBVIOUS
  <2>1. 0 \in 0..m-1 /\ 2 \in 0..m-1
    BY <1>1
  <2>2. Divides(m, 2 - 0)
    OBVIOUS
  <2>3. 2 = 0
    BY ONLY <2>1, <2>2, <1>1, DividesSmall
  <2> QED
    BY <2>3
<1>4. ~Divides(m, 4)
  <2>1. 2 * 2 = 4 /\ 2 \in Int
    OBVIOUS
  <2> QED
    BY <2>1, <1>3, SquareZero
<1> QED
  BY <1>2, <1>3, <1>4

-----------------------------------------------------------------------------
(* Points.                                                                 *)

Cubic(x) == x * (x * x + A * x + 1)

OnCurve(x, y) == Divides(ECC_Prime, y * y - Cubic(x))

LEMMA CurveType ==
  /\ ECC_Prime \in Nat /\ ECC_Prime # 0 /\ ECC_Prime > 2
  /\ A \in Int
  /\ Coordinates \subseteq Int
  /\ Coordinates = 0..ECC_Prime-1
<1>1. ECC_Prime \in Nat /\ ECC_Prime # 0 /\ ECC_Prime > 2 /\ a24 \in Int
  BY ModuliAssumption
<1>2. 4 * a24 - 2 \in Int
  BY <1>1
<1>3. A \in Int
  BY <1>1, <1>2, DivMod DEF A
<1> QED
  BY <1>1, <1>3 DEF Coordinates

(* Over divides, unless by a multiple of the prime.                        *)
LEMMA OverDivides ==
  ASSUME NEW a \in Int, NEW d \in Int, ~Divides(ECC_Prime, d)
  PROVE  /\ Over(a, d) \in Coordinates
         /\ \E q \in Int : Over(a, d) * d = a + ECC_Prime * q
<1> DEFINE p == ECC_Prime
           c == d % p
           r == Power(c, p - 2, p)
<1>1. p \in Nat /\ p # 0 /\ p \in {Prime, ECC_Prime}
  BY CurveType
<1>2. PICK q \in Int : c = d + p * q
  BY <1>1, Residue
<1>3. c \in 1..p-1
  <2>1. c \in 0..p-1
    BY <1>1, DivMod
  <2>2. c # 0
    <3> SUFFICES ASSUME c = 0 PROVE Divides(p, d)
      OBVIOUS
    <3>1. d = p * (-q) /\ -q \in Int
      BY <1>1, <1>2
    <3> QED
      BY <3>1 DEF Divides
  <2> QED
    BY <2>1, <2>2
<1> HIDE DEF c
<1>4. r \in 0..p-1 /\ \E s \in Int : c * r = 1 + p * s
  BY <1>1, <1>3, FermatInverse
<1>5. Over(a, d) = (a * r) % p
  BY DEF Over, c
<1> HIDE DEF r, p
<1>6. PICK s \in Int : c * r = 1 + p * s
  BY <1>4
<1>7. a * r \in Int
  BY <1>4, <1>1
<1>8. PICK t \in Int : (a * r) % p = a * r + p * t
  BY <1>1, <1>7, Residue
<1>9. (a * r) % p \in 0..p-1
  BY <1>1, <1>7, DivMod
<1>10. (a * r + p * t) * d = a + p * (a * s - a * q * r + t * d)
  <2>1. r * d = 1 + p * s - p * q * r
    BY <1>1, <1>2, <1>4, <1>6
  <2>2. (a * r + p * t) * d = a * (r * d) + p * t * d
    BY <1>1, <1>4
  <2> QED
    BY <2>1, <2>2, <1>1, <1>4
<1>11. a * s - a * q * r + t * d \in Int
  BY <1>4
<1> QED
  BY <1>5, <1>8, <1>9, <1>10, <1>11 DEF p, Coordinates

(* The conditions under which a pair is the sum, by a line of slope l.     *)
OnLine(x1, y1, x2, l, x3, y3) ==
  /\ Divides(ECC_Prime, x3 - (l * l - A - x1 - x2))
  /\ Divides(ECC_Prime, y3 - (l * (x1 - x3) - y1))

(* The pair that AddPoints computes from a slope.                          *)
LEMMA LineSum ==
  ASSUME NEW x1 \in Coordinates, NEW y1 \in Coordinates,
         NEW x2 \in Coordinates, NEW l \in Int
  PROVE  LET x3 == (l * l - A - x1 - x2) % ECC_Prime
             y3 == (l * (x1 - x3) - y1) % ECC_Prime
         IN x3 \in Coordinates /\ y3 \in Coordinates
            /\ OnLine(x1, y1, x2, l, x3, y3)
<1> DEFINE p == ECC_Prime
           u == l * l - A - x1 - x2
           x3 == u % p
           v == l * (x1 - x3) - y1
           y3 == v % p
<1>1. p \in Nat /\ p # 0 /\ x1 \in Int /\ y1 \in Int /\ x2 \in Int /\ A \in Int
  BY CurveType
<1>2. u \in Int
  BY <1>1
<1> HIDE DEF u
<1>3. x3 \in 0..p-1 /\ x3 \in Int
  BY <1>1, <1>2, DivMod
<1>4. Divides(p, x3 - u)
  <2>1. PICK q \in Int : x3 = u + p * q
    BY <1>1, <1>2, Residue
  <2>2. x3 - u = p * q
    BY <2>1, <1>1, <1>2
  <2> QED
    BY <2>2 DEF Divides
<1> HIDE DEF x3
<1>5. v \in Int
  BY <1>1, <1>3
<1> HIDE DEF v
<1>6. y3 \in 0..p-1
  BY <1>1, <1>5, DivMod
<1>7. Divides(p, y3 - v)
  <2>1. PICK q \in Int : y3 = v + p * q
    BY <1>1, <1>5, Residue
  <2>2. y3 - v = p * q
    BY <2>1, <1>1, <1>5
  <2> QED
    BY <2>2 DEF Divides
<1> HIDE DEF y3
<1>8. x3 \in Coordinates /\ y3 \in Coordinates /\ OnLine(x1, y1, x2, l, x3, y3)
  BY <1>3, <1>4, <1>6, <1>7 DEF OnLine, u, v, Coordinates
<1> QED
  BY <1>8 DEF x3, y3, u, v

(* A pair is not the point at infinity.                                    *)
LEMMA PairFinite ==
  ASSUME NEW x, NEW y
  PROVE  <<x, y>> # Infinity
BY DEF Infinity

(* Infinity is neutral.                                                    *)
LEMMA AddInfinity ==
  ASSUME NEW q
  PROVE  AddPoints(Infinity, q) = q /\ AddPoints(q, Infinity) = q
BY DEF AddPoints

(* Points of the same x and opposite y add to infinity.                    *)
LEMMA AddOpposite ==
  ASSUME NEW x \in Coordinates, NEW y1 \in Coordinates, NEW y2 \in Coordinates,
         (y1 + y2) % ECC_Prime = 0
  PROVE  AddPoints(<<x, y1>>, <<x, y2>>) = Infinity
BY PairFinite DEF AddPoints

(* Points of different x add along the chord.                              *)
LEMMA AddChord ==
  ASSUME NEW x1 \in Coordinates, NEW y1 \in Coordinates,
         NEW x2 \in Coordinates, NEW y2 \in Coordinates, x1 # x2
  PROVE  \E l \in Int, x3 \in Coordinates, y3 \in Coordinates :
           /\ AddPoints(<<x1, y1>>, <<x2, y2>>) = <<x3, y3>>
           /\ OnLine(x1, y1, x2, l, x3, y3)
           /\ Divides(ECC_Prime, l * (x2 - x1) - (y2 - y1))
<1>1. /\ ECC_Prime \in Nat /\ ECC_Prime # 0 /\ Coordinates = 0..ECC_Prime-1
      /\ x1 \in Int /\ y1 \in Int /\ x2 \in Int /\ y2 \in Int
  BY CurveType
<1> DEFINE l == Over(y2 - y1, x2 - x1)
<1>2. ~Divides(ECC_Prime, x2 - x1)
  BY <1>1, DividesSmall
<1>3. l \in Coordinates /\ \E q \in Int : l * (x2 - x1) = (y2 - y1) + ECC_Prime * q
  <2>1. y2 - y1 \in Int /\ x2 - x1 \in Int
    BY <1>1
  <2> QED
    BY <2>1, <1>2, OverDivides
<1>4. l \in Int /\ Divides(ECC_Prime, l * (x2 - x1) - (y2 - y1))
  <2> HIDE DEF l
  <2>1. l \in Int
    BY <1>3, CurveType
  <2>2. PICK q \in Int : l * (x2 - x1) = (y2 - y1) + ECC_Prime * q
    BY <1>3
  <2>3. l * (x2 - x1) - (y2 - y1) = ECC_Prime * q
    BY <2>1, <2>2, <1>1
  <2> QED
    BY <2>1, <2>3 DEF Divides
<1> DEFINE x3 == (l * l - A - x1 - x2) % ECC_Prime
           y3 == (l * (x1 - x3) - y1) % ECC_Prime
<1>5. AddPoints(<<x1, y1>>, <<x2, y2>>) = <<x3, y3>>
  BY PairFinite DEF AddPoints
<1>6. x3 \in Coordinates /\ y3 \in Coordinates /\ OnLine(x1, y1, x2, l, x3, y3)
  <2> HIDE DEF l
  <2> QED
    BY <1>4, LineSum
<1> HIDE DEF x3, y3, l
<1> QED
  BY <1>4, <1>5, <1>6

(* A point that is not its own opposite is doubled along the tangent.      *)
LEMMA AddTangent ==
  ASSUME NEW x \in Coordinates, NEW y \in Coordinates,
         (y + y) % ECC_Prime # 0
  PROVE  \E l \in Int, x3 \in Coordinates, y3 \in Coordinates :
           /\ AddPoints(<<x, y>>, <<x, y>>) = <<x3, y3>>
           /\ OnLine(x, y, x, l, x3, y3)
           /\ Divides(ECC_Prime, l * (2 * y) - (3 * x * x + 2 * A * x + 1))
<1>1. /\ ECC_Prime \in Nat /\ ECC_Prime # 0 /\ A \in Int
      /\ x \in Int /\ y \in Int
  BY CurveType
<1> DEFINE l == Over(3 * x * x + 2 * A * x + 1, 2 * y)
<1>2. ~Divides(ECC_Prime, 2 * y)
  <2> SUFFICES ASSUME Divides(ECC_Prime, 2 * y) PROVE FALSE
    OBVIOUS
  <2>1. Divides(ECC_Prime, (y + y) - 0)
    <3>1. PICK q \in Int : 2 * y = ECC_Prime * q
      BY DEF Divides
    <3>2. (y + y) - 0 = ECC_Prime * q
      BY <3>1, <1>1
    <3> QED
      BY <3>2 DEF Divides
  <2>2. (y + y) % ECC_Prime = 0 % ECC_Prime
    <3>1. y + y \in Int /\ 0 \in Int
      BY <1>1
    <3> QED
      BY <2>1, <3>1, <1>1, SameResidue
  <2>3. 0 % ECC_Prime = 0
    BY <1>1
  <2> QED
    BY <2>2, <2>3
<1>3. l \in Coordinates
      /\ \E q \in Int : l * (2 * y) = (3 * x * x + 2 * A * x + 1) + ECC_Prime * q
  <2>1. 3 * x * x + 2 * A * x + 1 \in Int /\ 2 * y \in Int
    BY <1>1
  <2> QED
    BY <2>1, <1>2, OverDivides
<1>4. l \in Int /\ Divides(ECC_Prime, l * (2 * y) - (3 * x * x + 2 * A * x + 1))
  <2> HIDE DEF l
  <2>1. l \in Int
    BY <1>3, CurveType
  <2>2. PICK q \in Int :
          l * (2 * y) = (3 * x * x + 2 * A * x + 1) + ECC_Prime * q
    BY <1>3
  <2>3. l * (2 * y) - (3 * x * x + 2 * A * x + 1) = ECC_Prime * q
    BY <2>1, <2>2, <1>1
  <2> QED
    BY <2>1, <2>3 DEF Divides
<1> DEFINE x3 == (l * l - A - x - x) % ECC_Prime
           y3 == (l * (x - x3) - y) % ECC_Prime
<1>5. AddPoints(<<x, y>>, <<x, y>>) = <<x3, y3>>
  BY PairFinite DEF AddPoints
<1>6. x3 \in Coordinates /\ y3 \in Coordinates /\ OnLine(x, y, x, l, x3, y3)
  <2> HIDE DEF l
  <2> QED
    BY <1>4, LineSum
<1> HIDE DEF x3, y3, l
<1> QED
  BY <1>4, <1>5, <1>6

(* Two points of the curve of the same x are equal or opposite.            *)
LEMMA SameX ==
  ASSUME NEW x \in Coordinates, NEW y1 \in Coordinates, NEW y2 \in Coordinates,
         OnCurve(x, y1), OnCurve(x, y2)
  PROVE  y1 = y2 \/ (y1 + y2) % ECC_Prime = 0
<1> DEFINE p == ECC_Prime
<1>1. /\ p \in Nat /\ p # 0 /\ p \in {Prime, ECC_Prime} /\ Coordinates = 0..p-1
      /\ y1 \in Int /\ y2 \in Int /\ x \in Int /\ A \in Int
  BY CurveType
<1>2. Cubic(x) \in Int
  BY <1>1 DEF Cubic
<1>3. PICK a \in Int : y1 * y1 - Cubic(x) = p * a
  BY DEF OnCurve, Divides
<1>4. PICK b \in Int : y2 * y2 - Cubic(x) = p * b
  BY DEF OnCurve, Divides
<1> HIDE DEF p
<1>5. (y1 - y2) * (y1 + y2) = p * (a - b)
  <2>1. (y1 - y2) * (y1 + y2) = y1 * y1 - y2 * y2
    BY <1>1
  <2> QED
    BY <2>1, <1>1, <1>2, <1>3, <1>4
<1>6. Divides(p, (y1 - y2) * (y1 + y2))
  BY <1>5 DEF Divides
<1>7. CASE Divides(p, y1 - y2)
  BY <1>7, <1>1, DividesSmall
<1>8. CASE ~Divides(p, y1 - y2)
  <2>1. y1 - y2 \in Int /\ y1 + y2 \in Int
    BY <1>1
  <2>2. Divides(p, y1 + y2)
    BY <1>6, <1>8, <1>1, <2>1, NoZeroDivisors
  <2>3. Divides(p, (y1 + y2) - 0)
    BY <2>2, <2>1
  <2>4. (y1 + y2) % p = 0 % p
    <3>1. 0 \in Int
      OBVIOUS
    <3> QED
      BY <2>1, <2>3, <3>1, <1>1, SameResidue
  <2>5. 0 % p = 0
    BY <1>1
  <2> QED
    BY <2>4, <2>5 DEF p
<1> QED
  BY <1>7, <1>8

(* The third point of a chord is on the curve.                             *)
LEMMA ChordClosed ==
  ASSUME NEW x1 \in Int, NEW y1 \in Int, NEW x2 \in Int, NEW y2 \in Int,
         NEW x3 \in Int, NEW y3 \in Int, NEW l \in Int,
         OnCurve(x1, y1), OnCurve(x2, y2), OnLine(x1, y1, x2, l, x3, y3),
         Divides(ECC_Prime, l * (x2 - x1) - (y2 - y1)),
         ~Divides(ECC_Prime, x2 - x1)
  PROVE  OnCurve(x3, y3)
<1> DEFINE p == ECC_Prime
           B == l * l - x1 - x2 - x3
           Line(x) == l * (x - x1) + y1
           G(x) == x * x * x + B * x * x + x - Line(x) * Line(x)
<1>1. p \in Nat /\ p # 0 /\ p \in {Prime, ECC_Prime} /\ A \in Int
  BY CurveType
<1>2. PICK a1 \in Int : y1 * y1 - Cubic(x1) = p * a1
  BY DEF OnCurve, Divides
<1>3. PICK a2 \in Int : y2 * y2 - Cubic(x2) = p * a2
  BY DEF OnCurve, Divides
<1>4. PICK b \in Int : l * (x2 - x1) - (y2 - y1) = p * b
  BY DEF Divides
<1>5. PICK c \in Int : x3 - (l * l - A - x1 - x2) = p * c
  BY DEF OnLine, Divides
<1>6. PICK e \in Int : y3 - (l * (x1 - x3) - y1) = p * e
  BY DEF OnLine, Divides
<1> HIDE DEF p
<1>7. B = A - p * c
  BY <1>1, <1>5
<1>8. (x2 - x1) * G(x3) = (x2 - x3) * G(x1) + (x3 - x1) * G(x2)
  OBVIOUS
<1>9. B \in Int /\ Line(x2) \in Int /\ Line(x3) \in Int
  OBVIOUS
<1>10. Line(x1) = y1 /\ Line(x2) = y2 + p * b /\ Line(x3) = p * e - y3
  BY <1>1, <1>4, <1>6
<1> HIDE DEF B, Line
<1>11. G(x1) = p * (-a1 - c * x1 * x1)
  <2>1. G(x1) = x1 * x1 * x1 + (A - p * c) * x1 * x1 + x1 - y1 * y1
    BY <1>7, <1>10
  <2>2. @ = Cubic(x1) - p * c * x1 * x1 - y1 * y1
    BY <1>1 DEF Cubic
  <2> QED
    BY <2>1, <2>2, <1>1, <1>2 DEF Cubic
<1>12. G(x2) = p * (-a2 - 2 * y2 * b - p * b * b - c * x2 * x2)
  <2>1. G(x2) = x2 * x2 * x2 + (A - p * c) * x2 * x2 + x2
                  - (y2 + p * b) * (y2 + p * b)
    BY <1>7, <1>10
  <2>2. @ = (Cubic(x2) - y2 * y2) - p * (c * x2 * x2 + 2 * y2 * b + p * b * b)
    BY <1>1 DEF Cubic
  <2>3. Cubic(x2) - y2 * y2 = - (p * a2)
    BY <1>1, <1>3 DEF Cubic
  <2> QED
    BY <2>1, <2>2, <2>3, <1>1
<1>13. Cubic(x3) - y3 * y3 = G(x3) + p * (c * x3 * x3 - 2 * e * y3 + p * e * e)
  <2>1. G(x3) = x3 * x3 * x3 + (A - p * c) * x3 * x3 + x3
                  - (p * e - y3) * (p * e - y3)
    BY <1>7, <1>10
  <2> QED
    BY <2>1, <1>1 DEF Cubic
<1> DEFINE g1 == -a1 - c * x1 * x1
           g2 == -a2 - 2 * y2 * b - p * b * b - c * x2 * x2
           g3 == c * x3 * x3 - 2 * e * y3 + p * e * e
           z == y3 * y3 - Cubic(x3)
<1>14. g1 \in Int /\ g2 \in Int /\ g3 \in Int /\ z \in Int /\ G(x3) \in Int
  BY <1>1, <1>9 DEF Cubic
<1>15. G(x1) = p * g1 /\ G(x2) = p * g2 /\ -z = G(x3) + p * g3
  <2>1. -z = Cubic(x3) - y3 * y3
    BY <1>1 DEF Cubic
  <2> QED
    BY <1>11, <1>12, <1>13, <2>1
<1> HIDE DEF g1, g2, g3, z, G
<1>16. (x2 - x1) * z = p * (-((x2 - x3) * g1 + (x3 - x1) * g2 + (x2 - x1) * g3))
  <2>1. (x2 - x1) * z = -((x2 - x1) * G(x3)) - (x2 - x1) * (p * g3)
    <3>1. z = -G(x3) - p * g3
      BY <1>14, <1>15, <1>1
    <3>2. (x2 - x1) * z = (x2 - x1) * (-G(x3) - p * g3)
      BY <3>1
    <3> QED
      BY <3>2, <1>14, <1>1
  <2>2. (x2 - x1) * G(x3) = (x2 - x3) * (p * g1) + (x3 - x1) * (p * g2)
    BY <1>8, <1>15
  <2> QED
    BY <2>1, <2>2, <1>14, <1>1
<1>17. -((x2 - x3) * g1 + (x3 - x1) * g2 + (x2 - x1) * g3) \in Int
  BY <1>14
<1>18. Divides(p, (x2 - x1) * z)
  BY <1>16, <1>17 DEF Divides
<1>19. Divides(p, z)
  <2>1. x2 - x1 \in Int /\ ~Divides(p, x2 - x1)
    BY DEF p
  <2> QED
    BY <2>1, <1>18, <1>14, <1>1, NoZeroDivisors
<1> QED
  BY <1>19 DEF OnCurve, z, p

(* The third point of a tangent is on the curve.                           *)
LEMMA TangentClosed ==
  ASSUME NEW x \in Int, NEW y \in Int, NEW x3 \in Int, NEW y3 \in Int,
         NEW l \in Int, OnCurve(x, y), OnLine(x, y, x, l, x3, y3),
         Divides(ECC_Prime, l * (2 * y) - (3 * x * x + 2 * A * x + 1))
  PROVE  OnCurve(x3, y3)
<1> DEFINE p == ECC_Prime
           B == l * l - x - x - x3
           Line(t) == l * (t - x) + y
           G(t) == t * t * t + B * t * t + t - Line(t) * Line(t)
           H == 3 * x * x + 2 * B * x + 1 - l * (2 * y)
<1>1. p \in Nat /\ A \in Int
  BY CurveType
<1>2. PICK a \in Int : y * y - Cubic(x) = p * a
  BY DEF OnCurve, Divides
<1>3. PICK b \in Int : l * (2 * y) - (3 * x * x + 2 * A * x + 1) = p * b
  BY DEF Divides
<1>4. PICK c \in Int : x3 - (l * l - A - x - x) = p * c
  BY DEF OnLine, Divides
<1>5. PICK e \in Int : y3 - (l * (x - x3) - y) = p * e
  BY DEF OnLine, Divides
<1> HIDE DEF p
<1>6. B = A - p * c
  BY <1>1, <1>4
<1>7. G(x3) = G(x) + H * (x3 - x)
  OBVIOUS
<1>8. B \in Int /\ Line(x3) \in Int
  OBVIOUS
<1>9. Line(x) = y /\ Line(x3) = p * e - y3
  BY <1>1, <1>5
<1> HIDE DEF B, Line
<1>10. G(x) = p * (-a - c * x * x)
  <2>1. G(x) = x * x * x + (A - p * c) * x * x + x - y * y
    BY <1>6, <1>9
  <2> QED
    BY <2>1, <1>1, <1>2 DEF Cubic
<1>11. H = p * (-b - 2 * c * x)
  <2>1. H = 3 * x * x + 2 * (A - p * c) * x + 1 - l * (2 * y)
    BY <1>6
  <2> QED
    BY <2>1, <1>1, <1>3
<1>12. Cubic(x3) - y3 * y3 = G(x3) + p * (c * x3 * x3 - 2 * e * y3 + p * e * e)
  <2>1. G(x3) = x3 * x3 * x3 + (A - p * c) * x3 * x3 + x3
                  - (p * e - y3) * (p * e - y3)
    BY <1>6, <1>9
  <2> QED
    BY <2>1, <1>1 DEF Cubic
<1>13. y3 * y3 - Cubic(x3)
         = p * (-((-a - c * x * x) + (-b - 2 * c * x) * (x3 - x)
                  + (c * x3 * x3 - 2 * e * y3 + p * e * e)))
  <2>1. G(x3) = p * (-a - c * x * x) + p * (-b - 2 * c * x) * (x3 - x)
    BY <1>7, <1>10, <1>11
  <2> HIDE DEF G
  <2>2. y3 * y3 - Cubic(x3)
          = -(G(x3) + p * (c * x3 * x3 - 2 * e * y3 + p * e * e))
    BY <1>12, <1>1, <2>1 DEF Cubic
  <2> QED
    BY <2>1, <2>2, <1>1
<1>14. -((-a - c * x * x) + (-b - 2 * c * x) * (x3 - x)
         + (c * x3 * x3 - 2 * e * y3 + p * e * e)) \in Int
  BY <1>1
<1> QED
  BY <1>13, <1>14 DEF OnCurve, Divides, p

(* The x coordinate of a double: Montgomery's doubling formula.            *)
LEMMA DoublingFormula ==
  ASSUME NEW x \in Int, NEW y \in Int, NEW x3 \in Int, NEW y3 \in Int,
         NEW l \in Int, OnCurve(x, y), OnLine(x, y, x, l, x3, y3),
         Divides(ECC_Prime, l * (2 * y) - (3 * x * x + 2 * A * x + 1))
  PROVE  Divides(ECC_Prime, 4 * Cubic(x) * x3 - (x * x - 1) * (x * x - 1))
<1> DEFINE p == ECC_Prime
           D == 3 * x * x + 2 * A * x + 1
<1>1. p \in Nat /\ A \in Int
  BY CurveType
<1>2. PICK a \in Int : y * y - Cubic(x) = p * a
  BY DEF OnCurve, Divides
<1>3. PICK b \in Int : l * (2 * y) - D = p * b
  BY DEF Divides
<1>4. PICK c \in Int : x3 - (l * l - A - x - x) = p * c
  BY DEF OnLine, Divides
<1> HIDE DEF p
<1>5. Cubic(x) \in Int /\ D \in Int
  BY <1>1 DEF Cubic
<1>6. D * D - 4 * Cubic(x) * (A + 2 * x) = (x * x - 1) * (x * x - 1)
  BY <1>1 DEF Cubic
<1> DEFINE f == Cubic(x)
<1>7. 4 * (y * y) * x3
        = (x * x - 1) * (x * x - 1)
            + p * (2 * D * b + p * b * b - 4 * a * (A + 2 * x) + 4 * (y * y) * c)
  <2> HIDE DEF f, D
  <2>1. 4 * (y * y) * x3 = (l * (2 * y)) * (l * (2 * y))
                             - 4 * (y * y) * (A + 2 * x) + 4 * (y * y) * (p * c)
    <3>1. x3 = l * l - A - x - x + p * c
      BY <1>4, <1>1
    <3>2. 4 * (y * y) * x3 = 4 * (y * y) * (l * l - A - x - x + p * c)
      BY <3>1
    <3> QED
      BY <3>2, <1>1
  <2>2. l * (2 * y) = D + p * b
    BY <1>3, <1>1, <1>5
  <2>3. y * y = f + p * a
    BY <1>2, <1>1, <1>5 DEF f
  <2>4. 4 * (y * y) * (A + 2 * x) = 4 * (f + p * a) * (A + 2 * x)
    BY <2>3
  <2>5. 4 * (y * y) * x3 = (D + p * b) * (D + p * b)
                             - 4 * (f + p * a) * (A + 2 * x) + 4 * (y * y) * (p * c)
    BY <2>1, <2>2, <2>4
  <2>6. @ = (D * D - 4 * f * (A + 2 * x))
             + p * (2 * D * b + p * b * b - 4 * a * (A + 2 * x) + 4 * (y * y) * c)
    BY <1>1, <1>5 DEF f
  <2> QED
    BY <2>5, <2>6, <1>6 DEF f
<1>8. 4 * f * x3 - (x * x - 1) * (x * x - 1)
        = p * (2 * D * b + p * b * b - 4 * a * (A + 2 * x) + 4 * (y * y) * c
                 - 4 * a * x3)
  <2> HIDE DEF f, D
  <2>1. f = y * y - p * a
    BY <1>2, <1>1, <1>5 DEF f
  <2>2. 4 * f * x3 = 4 * (y * y - p * a) * x3
    BY <2>1
  <2>3. @ = 4 * (y * y) * x3 - 4 * p * a * x3
    BY <1>1
  <2> QED
    BY <2>2, <2>3, <1>7, <1>1, <1>5
<1>9. 2 * D * b + p * b * b - 4 * a * (A + 2 * x) + 4 * (y * y) * c
        - 4 * a * x3 \in Int
  BY <1>1, <1>5
<1> QED
  BY <1>8, <1>9 DEF Divides, p

(* The x coordinates of sum and difference of two points: Montgomery's     *)
(* formula of differential addition.                                       *)
LEMMA DifferenceFormula ==
  ASSUME NEW x1 \in Int, NEW y1 \in Int, NEW x2 \in Int, NEW y2 \in Int,
         NEW z2 \in Int, Divides(ECC_Prime, y2 + z2),
         NEW x3 \in Int, NEW y3 \in Int, NEW l \in Int,
         NEW x4 \in Int, NEW y4 \in Int, NEW k \in Int,
         OnCurve(x1, y1), OnCurve(x2, y2),
         OnLine(x1, y1, x2, l, x3, y3), OnLine(x1, y1, x2, k, x4, y4),
         Divides(ECC_Prime, l * (x2 - x1) - (y2 - y1)),
         Divides(ECC_Prime, k * (x2 - x1) - (z2 - y1)),
         ~Divides(ECC_Prime, x2 - x1)
  PROVE  Divides(ECC_Prime, x3 * x4 * ((x2 - x1) * (x2 - x1))
                              - (x1 * x2 - 1) * (x1 * x2 - 1))
<1> DEFINE p == ECC_Prime
           d == x2 - x1
           S == (A + x1 + x2) * (d * d)
           f1 == Cubic(x1)
           f2 == Cubic(x2)
           w == (x1 * x2 - 1) * (x1 * x2 - 1)
<1>1. p \in Nat /\ p \in {Prime, ECC_Prime} /\ A \in Int
  BY CurveType
<1>2. /\ d \in Int /\ S \in Int /\ f1 \in Int /\ f2 \in Int /\ w \in Int
      /\ (f1 + f2 - S) * (f1 + f2 - S) - 4 * f1 * f2 = (d * d) * w
  <2>1. f1 + f2 - S = (x1 + x2) * (x1 * x2 + 1) + 2 * A * (x1 * x2)
    BY <1>1 DEF Cubic
  <2>2. f1 * f2 = (x1 * x2) * ((x1 * x2) * (x1 * x2) + A * (x1 * x2) * (x1 + x2)
           + (x1 + x2) * (x1 + x2) - 2 * (x1 * x2) + A * A * (x1 * x2)
           + A * (x1 + x2) + 1)
    BY <1>1 DEF Cubic
  <2>3. d * d = (x1 + x2) * (x1 + x2) - 4 * (x1 * x2)
    BY <1>1
  <2>4. ASSUME NEW s \in Int, NEW m \in Int
        PROVE  (s * (m + 1) + 2 * A * m) * (s * (m + 1) + 2 * A * m)
                 - 4 * (m * (m * m + A * m * s + s * s - 2 * m + A * A * m + A * s + 1))
                 = (s * s - 4 * m) * ((m - 1) * (m - 1))
    BY <1>1
  <2>5. d \in Int /\ S \in Int /\ f1 \in Int /\ f2 \in Int /\ w \in Int
    BY <1>1 DEF Cubic
  <2>6. (f1 + f2 - S) * (f1 + f2 - S) - 4 * (f1 * f2) = (d * d) * w
    <3> DEFINE s == x1 + x2
               m == x1 * x2
    <3>1. s \in Int /\ m \in Int
      OBVIOUS
    <3>2. f1 + f2 - S = s * (m + 1) + 2 * A * m
      BY <2>1
    <3>3. f1 * f2 = m * (m * m + A * m * s + s * s - 2 * m + A * A * m + A * s + 1)
      BY <2>2
    <3>4. d * d = s * s - 4 * m
      BY <2>3
    <3>5. w = (m - 1) * (m - 1)
      OBVIOUS
    <3> HIDE DEF s, m, d, S, f1, f2, w
    <3> QED
      BY <2>4, <3>1, <3>2, <3>3, <3>4, <3>5
  <2> HIDE DEF d, S, f1, f2, w
  <2> QED
    BY <2>5, <2>6
<1>3. PICK a1 \in Int : y1 * y1 - f1 = p * a1
  BY DEF OnCurve, Divides
<1>4. PICK a2 \in Int : y2 * y2 - f2 = p * a2
  BY DEF OnCurve, Divides
<1>5. PICK b \in Int : l * d - (y2 - y1) = p * b
  BY DEF Divides
<1>6. PICK g \in Int : k * d - (z2 - y1) = p * g
  BY DEF Divides
<1>7. PICK c \in Int : x3 - (l * l - A - x1 - x2) = p * c
  BY DEF OnLine, Divides
<1>8. PICK e \in Int : x4 - (k * k - A - x1 - x2) = p * e
  BY DEF OnLine, Divides
<1>9. PICK h \in Int : y2 + z2 = p * h
  BY DEF Divides
<1> DEFINE u == (y2 - y1) * (y2 - y1) - S
           v == (y2 + y1) * (y2 + y1) - S
<1> HIDE DEF p
<1>10. PICK q \in Int : x3 * (d * d) = u + p * q
  <2>1. l * d = (y2 - y1) + p * b
    BY <1>1, <1>5
  <2>2. x3 * (d * d) = (l * d) * (l * d) - S + p * c * (d * d)
    <3>1. x3 = l * l - A - x1 - x2 + p * c
      BY <1>1, <1>7
    <3>2. x3 * (d * d) = (l * l - A - x1 - x2 + p * c) * (d * d)
      BY <3>1
    <3> QED
      BY <3>2, <1>1
  <2>3. x3 * (d * d) = u + p * (2 * (y2 - y1) * b + p * b * b + c * (d * d))
    <3>1. x3 * (d * d) = ((y2 - y1) + p * b) * ((y2 - y1) + p * b) - S
                            + p * c * (d * d)
      BY <2>1, <2>2
    <3> QED
      BY <3>1, <1>1
  <2>4. 2 * (y2 - y1) * b + p * b * b + c * (d * d) \in Int
    BY <1>1
  <2> HIDE DEF d, u
  <2> QED
    BY <2>3, <2>4
<1>11. PICK r \in Int : x4 * (d * d) = v + p * r
  <2>1. k * d = -(y2 + y1) + p * (g + h)
    BY <1>1, <1>6, <1>9
  <2>2. x4 * (d * d) = (k * d) * (k * d) - S + p * e * (d * d)
    <3>1. x4 = k * k - A - x1 - x2 + p * e
      BY <1>1, <1>8
    <3>2. x4 * (d * d) = (k * k - A - x1 - x2 + p * e) * (d * d)
      BY <3>1
    <3> QED
      BY <3>2, <1>1
  <2>3. x4 * (d * d) = v + p * (-2 * (y2 + y1) * (g + h)
                                + p * (g + h) * (g + h) + e * (d * d))
    <3>1. x4 * (d * d) = (-(y2 + y1) + p * (g + h)) * (-(y2 + y1) + p * (g + h)) - S
                            + p * e * (d * d)
      BY <2>1, <2>2
    <3> QED
      BY <3>1, <1>1
  <2>4. -2 * (y2 + y1) * (g + h) + p * (g + h) * (g + h) + e * (d * d) \in Int
    BY <1>1
  <2> HIDE DEF d, v
  <2> QED
    BY <2>3, <2>4
<1>12. PICK t \in Int : u * v = (d * d) * w + p * t
  <2> DEFINE Y1 == y1 * y1
             Y2 == y2 * y2
  <2>1. u * v = (Y1 + Y2 - S) * (Y1 + Y2 - S) - 4 * Y1 * Y2
    <3> HIDE DEF S
    <3> QED
      BY <1>2
  <2>2. Y1 = f1 + p * a1 /\ Y2 = f2 + p * a2 /\ Y1 \in Int /\ Y2 \in Int
    BY <1>1, <1>2, <1>3, <1>4
  <2> HIDE DEF Y1, Y2, d, S, f1, f2, u, v, w
  <2>3. (Y1 + Y2 - S) * (Y1 + Y2 - S) - 4 * Y1 * Y2
          = (f1 + f2 - S) * (f1 + f2 - S) - 4 * f1 * f2
              + p * (2 * (f1 + f2 - S) * (a1 + a2) + p * (a1 + a2) * (a1 + a2)
                     - 4 * f1 * a2 - 4 * f2 * a1 - 4 * p * a1 * a2)
    <3>1. (Y1 + Y2 - S) * (Y1 + Y2 - S) - 4 * Y1 * Y2
            = ((f1 + p * a1) + (f2 + p * a2) - S) * ((f1 + p * a1) + (f2 + p * a2) - S)
                - 4 * (f1 + p * a1) * (f2 + p * a2)
      BY <2>2
    <3> QED
      BY <3>1, <1>1, <1>2
  <2>4. 2 * (f1 + f2 - S) * (a1 + a2) + p * (a1 + a2) * (a1 + a2)
          - 4 * f1 * a2 - 4 * f2 * a1 - 4 * p * a1 * a2 \in Int
    BY <1>1, <1>2
  <2> QED
    BY <2>1, <2>3, <2>4, <1>2
<1>13. u \in Int /\ v \in Int
  <2> HIDE DEF S
  <2> QED
    BY <1>2
<1> HIDE DEF d, S, f1, f2, u, v, w
<1>14. (d * d) * (x3 * x4 * (d * d) - w) = p * (t + u * r + v * q + p * q * r)
  <2>1. (d * d) * (x3 * x4 * (d * d) - w)
          = (x3 * (d * d)) * (x4 * (d * d)) - (d * d) * w
    BY <1>2
  <2>2. (x3 * (d * d)) * (x4 * (d * d)) = (u + p * q) * (v + p * r)
    BY <1>10, <1>11
  <2>3. (u + p * q) * (v + p * r) = u * v + p * (u * r + v * q + p * q * r)
    BY <1>13, <1>1
  <2> QED
    BY <2>1, <2>2, <2>3, <1>12, <1>1, <1>2, <1>13
<1>15. t + u * r + v * q + p * q * r \in Int
  BY <1>1, <1>13
<1> DEFINE z == x3 * x4 * (d * d) - w
<1>16. z \in Int
  BY <1>2
<1>17. Divides(p, d * (d * z))
  <2>1. d * (d * z) = (d * d) * z
    BY <1>2, <1>16
  <2> QED
    BY <2>1, <1>14, <1>15 DEF Divides
<1> HIDE DEF z
<1>18. ~Divides(p, d)
  BY DEF d, p
<1>19. d * z \in Int
  BY <1>2, <1>16
<1>20. Divides(p, d * z)
  BY <1>17, <1>18, <1>19, <1>1, <1>2, NoZeroDivisors
<1>21. Divides(p, z)
  BY <1>20, <1>18, <1>16, <1>1, <1>2, NoZeroDivisors
<1> QED
  BY <1>21 DEF z, d, w, p

(* The points of the curve.                                                *)
Points ==
  {Infinity} \cup {q \in Coordinates \X Coordinates : OnCurve(q[1], q[2])}

LEMMA PointCases ==
  ASSUME NEW q
  PROVE  q \in Points <=>
           \/ q = Infinity
           \/ \E x \in Coordinates, y \in Coordinates : q = <<x, y>> /\ OnCurve(x, y)
BY DEF Points

(* The sum of points is a point.                                           *)
LEMMA AddClosed ==
  ASSUME NEW q \in Points, NEW r \in Points
  PROVE  AddPoints(q, r) \in Points
<1>1. CASE q = Infinity \/ r = Infinity
  BY <1>1, AddInfinity
<1>2. CASE q # Infinity /\ r # Infinity
  <2>1. PICK x1 \in Coordinates, y1 \in Coordinates : q = <<x1, y1>> /\ OnCurve(x1, y1)
    BY <1>2, PointCases
  <2>2. PICK x2 \in Coordinates, y2 \in Coordinates : r = <<x2, y2>> /\ OnCurve(x2, y2)
    BY <1>2, PointCases
  <2>3. x1 \in Int /\ y1 \in Int /\ x2 \in Int /\ y2 \in Int
    BY CurveType
  <2>4. CASE x1 # x2
    <3>1. PICK l \in Int, x3 \in Coordinates, y3 \in Coordinates :
             /\ AddPoints(q, r) = <<x3, y3>>
             /\ OnLine(x1, y1, x2, l, x3, y3)
             /\ Divides(ECC_Prime, l * (x2 - x1) - (y2 - y1))
      BY <2>1, <2>2, <2>4, AddChord
    <3>2. ~Divides(ECC_Prime, x2 - x1)
      BY <2>4, CurveType, DividesSmall
    <3>3. x3 \in Int /\ y3 \in Int
      BY CurveType
    <3>4. OnCurve(x3, y3)
      BY <2>1, <2>2, <2>3, <3>1, <3>2, <3>3, ChordClosed
    <3> QED
      BY <3>1, <3>4, PointCases
  <2>5. CASE x1 = x2 /\ (y1 + y2) % ECC_Prime = 0
    <3>1. AddPoints(q, r) = Infinity
      BY <2>1, <2>2, <2>5, AddOpposite
    <3> QED
      BY <3>1, PointCases
  <2>6. CASE x1 = x2 /\ (y1 + y2) % ECC_Prime # 0
    <3>1. y1 = y2
      BY <2>1, <2>2, <2>6, SameX
    <3>2. PICK l \in Int, x3 \in Coordinates, y3 \in Coordinates :
             /\ AddPoints(q, r) = <<x3, y3>>
             /\ OnLine(x1, y1, x1, l, x3, y3)
             /\ Divides(ECC_Prime, l * (2 * y1) - (3 * x1 * x1 + 2 * A * x1 + 1))
      BY <2>1, <2>2, <2>6, <3>1, AddTangent
    <3>3. x3 \in Int /\ y3 \in Int
      BY CurveType
    <3>4. OnCurve(x3, y3)
      BY <2>1, <2>3, <3>2, <3>3, TangentClosed
    <3> QED
      BY <3>2, <3>4, PointCases
  <2> QED
    BY <2>4, <2>5, <2>6
<1> QED
  BY <1>1, <1>2

-----------------------------------------------------------------------------
(* Multiples of the base point.                                            *)

LEMMA BaseIsPoint ==
  BasePoint \in Points
<1>1. /\ ECC_Prime \in Nat /\ ECC_Prime # 0
      /\ ecc_basep \in Coordinates /\ base_y \in Coordinates
      /\ ecc_basep \in Int /\ base_y \in Int /\ A \in Int
  BY CurveAssumption, CurveType
<1>2. base_y * base_y \in Int /\ Cubic(ecc_basep) \in Int
  BY <1>1 DEF Cubic
<1>3. (base_y * base_y) % ECC_Prime = Cubic(ecc_basep) % ECC_Prime
  BY CurveAssumption DEF Cubic
<1>4. OnCurve(ecc_basep, base_y)
  BY <1>1, <1>2, <1>3, SameResidue DEF OnCurve
<1> QED
  BY <1>1, <1>4, PointCases DEF BasePoint

LEMMA OrderType ==
  Prime \in Nat /\ Prime # 0 /\ Prime > 2 /\ Prime \in {Prime, ECC_Prime}
BY ModuliAssumption

(* The function that Multiple defines by recursion.                        *)
LEMMA MultipleType ==
  /\ Multiple \in [0..Prime -> Points]
  /\ Multiple[0] = Infinity
  /\ \A k \in 1..Prime : Multiple[k] = AddPoints(Multiple[k-1], BasePoint)
<1> DEFINE G == [q \in Points |-> AddPoints(q, BasePoint)]
           Step(f, k) == IF k = 0 THEN Infinity ELSE AddPoints(f[k-1], BasePoint)
<1>1. G \in [Points -> Points] /\ Infinity \in Points
  BY AddClosed, BaseIsPoint, PointCases
<1>2. PICK f \in [0..Prime -> Points] :
        f = [k \in 0..Prime |-> IF k = 0 THEN Infinity ELSE G[f[k-1]]]
  <2>1. Prime \in Nat
    BY OrderType
  <2> HIDE DEF G
  <2> QED
    BY ONLY <1>1, <2>1, RecursiveFunction
<1>3. f = [k \in 0..Prime |-> Step(f, k)]
  <2>1. ASSUME NEW k \in 0..Prime
        PROVE  (IF k = 0 THEN Infinity ELSE G[f[k-1]]) = Step(f, k)
    <3>1. k # 0 => f[k-1] \in Points
      BY OrderType
    <3> QED
      BY <3>1
  <2> QED
    BY <1>2, <2>1
<1>4. Multiple = [k \in 0..Prime |-> Step(Multiple, k)]
  BY <1>3 DEF Multiple
<1>5. \A k \in 0..Prime : Multiple[k] = Step(Multiple, k)
  BY <1>4
<1>6. Multiple[0] = Infinity
  BY <1>5, OrderType
<1>7. \A k \in 1..Prime : Multiple[k] = AddPoints(Multiple[k-1], BasePoint)
  BY <1>5
<1>8. \A k \in 0..Prime : Multiple[k] \in Points
  <2> DEFINE Good == {k \in 0..Prime : Multiple[k] \in Points}
  <2>1. 0 \in Good
    BY <1>1, <1>6, OrderType
  <2>2. ASSUME NEW k \in 0..Prime-1, k \in Good
        PROVE  k + 1 \in Good
    <3>1. k + 1 \in 1..Prime /\ Multiple[k+1] = AddPoints(Multiple[k], BasePoint)
      BY <1>7, OrderType
    <3> QED
      BY <2>2, <3>1, AddClosed, BaseIsPoint
  <2>3. 0..Prime \subseteq Good
    <3> HIDE DEF Good
    <3> QED
      BY <2>1, <2>2, OrderType, BoundedInduction
  <2> QED
    BY <2>3
<1>9. Multiple \in [0..Prime -> Points]
  <2> HIDE DEF Step
  <2> QED
    BY <1>4, <1>8
<1> QED
  BY <1>6, <1>7, <1>9

(* The multiple of any integer.                                            *)
Mul(k) == Multiple[k % Prime]

LEMMA MulPoint ==
  ASSUME NEW k \in Int
  PROVE  Mul(k) \in Points
<1>1. k % Prime \in 0..Prime-1
  BY OrderType, DivMod
<1> QED
  BY <1>1, OrderType, MultipleType DEF Mul

(* Congruent integers have the same multiple.                              *)
LEMMA MulSame ==
  ASSUME NEW j \in Int, NEW k \in Int, Divides(Prime, j - k)
  PROVE  Mul(j) = Mul(k)
<1>1. j % Prime = k % Prime
  BY OrderType, SameResidue
<1> QED
  BY <1>1 DEF Mul

(* The multiple is infinity for the multiples of the order only.           *)
LEMMA MulInfinite ==
  ASSUME NEW k \in Int
  PROVE  Mul(k) = Infinity <=> Divides(Prime, k)
<1>1. k % Prime \in 0..Prime-1
  BY OrderType, DivMod
<1>2. k % Prime = 0 <=> Divides(Prime, k)
  BY OrderType, DividesResidue
<1>3. k % Prime # 0 => k % Prime \in 1..Prime-1
  BY <1>1, OrderType
<1>4. k % Prime # 0 => Multiple[k % Prime] # Infinity
  BY <1>3, CurveAssumption
<1> QED
  BY <1>2, <1>4, MultipleType DEF Mul

(* The next multiple.                                                      *)
LEMMA MulNext ==
  ASSUME NEW k \in Int
  PROVE  Mul(k + 1) = AddPoints(Mul(k), BasePoint)
<1> DEFINE r == k % Prime
<1>1. r \in 0..Prime-1
  BY OrderType, DivMod
<1>2. PICK q \in Int : r = k + Prime * q
  BY OrderType, Residue
<1> HIDE DEF r
<1>3. CASE r < Prime - 1
  <2>1. r + 1 \in 0..Prime-1 /\ r + 1 \in 1..Prime
    BY <1>1, <1>3, OrderType
  <2>2. (k + 1) - (r + 1) = Prime * (-q) /\ -q \in Int
    BY <1>1, <1>2, OrderType
  <2>3. Divides(Prime, (k + 1) - (r + 1))
    BY <2>2 DEF Divides
  <2>4. (k + 1) % Prime = r + 1
    <3>1. k + 1 \in Int
      OBVIOUS
    <3> QED
      BY <2>1, <2>3, <3>1, OrderType, ResidueUnique
  <2>5. Multiple[r + 1] = AddPoints(Multiple[r], BasePoint)
    <3>1. (r + 1) - 1 = r
      BY <1>1, OrderType
    <3> QED
      BY <2>1, <3>1, MultipleType
  <2> QED
    BY <2>4, <2>5 DEF Mul, r
<1>4. CASE r = Prime - 1
  <2>1. k + 1 = Prime * (1 - q) /\ 1 - q \in Int
    BY <1>2, <1>4, OrderType
  <2>2. Divides(Prime, k + 1)
    BY <2>1 DEF Divides
  <2>3. Mul(k + 1) = Infinity
    BY <2>2, MulInfinite
  <2>4. Multiple[Prime] = AddPoints(Multiple[Prime-1], BasePoint)
    <3>1. Prime \in 1..Prime
      BY OrderType
    <3> QED
      BY <3>1, MultipleType
  <2> QED
    BY <2>3, <2>4, <1>4, CurveAssumption DEF Mul, r
<1> QED
  BY <1>1, <1>3, <1>4, OrderType

(* The multiple of a sum is the sum of the multiples.                      *)
LEMMA MulAdd ==
  ASSUME NEW j \in Int, NEW k \in Int
  PROVE  AddPoints(Mul(j), Mul(k)) = Mul(j + k)
<1> DEFINE Good == {n \in Nat : AddPoints(Mul(j), Mul(n)) = Mul(j + n)}
<1>1. 0 \in Good
  <2>1. Divides(Prime, 0)
    <3>1. 0 = Prime * 0
      BY OrderType
    <3> QED
      BY <3>1 DEF Divides
  <2>2. Mul(0) = Infinity
    BY <2>1, MulInfinite
  <2>3. j + 0 = j
    OBVIOUS
  <2> QED
    BY <2>2, <2>3, AddInfinity
<1>2. ASSUME NEW n \in Good
      PROVE  n + 1 \in Good
  <2>1. n \in Int /\ n + 1 \in Nat /\ j + n \in Int /\ (j + n) + 1 = j + (n + 1)
    OBVIOUS
  <2>2. Mul(n + 1) = AddPoints(Mul(n), BasePoint)
    BY <2>1, MulNext
  <2>3. Mul(j + (n + 1)) = AddPoints(Mul(j + n), BasePoint)
    <3>1. Mul((j + n) + 1) = AddPoints(Mul(j + n), BasePoint)
      BY <2>1, MulNext
    <3> QED
      BY <2>1, <3>1
  <2>4. AddPoints(Mul(j), AddPoints(Mul(n), BasePoint))
          = AddPoints(AddPoints(Mul(j), Mul(n)), BasePoint)
    <3>1. j % Prime \in 0..Prime /\ n % Prime \in 0..Prime
      <4>1. j % Prime \in 0..Prime-1 /\ n % Prime \in 0..Prime-1
        BY <2>1, OrderType, DivMod
      <4> QED
        BY <4>1, OrderType
    <3> QED
      BY <3>1, GroupAssumption DEF Mul
  <2>5. AddPoints(Mul(j), Mul(n)) = Mul(j + n)
    OBVIOUS
  <2> QED
    BY <2>1, <2>2, <2>3, <2>4, <2>5
<1>3. Good = Nat
  <2>1. Good \subseteq Nat
    OBVIOUS
  <2> HIDE DEF Good
  <2> QED
    BY <1>1, <1>2, <2>1, SetInduction
<1> DEFINE r == k % Prime
<1>4. r \in Nat /\ r \in Int
  <2>1. r \in 0..Prime-1
    BY OrderType, DivMod
  <2> QED
    BY <2>1, OrderType
<1>5. Mul(r) = Mul(k) /\ Mul(j + r) = Mul(j + k)
  <2>1. PICK q \in Int : r = k + Prime * q
    BY OrderType, Residue
  <2> HIDE DEF r
  <2>2. r - k = Prime * q /\ (j + r) - (j + k) = Prime * q
    BY <1>4, <2>1, OrderType
  <2>3. Divides(Prime, r - k) /\ Divides(Prime, (j + r) - (j + k))
    BY <2>2 DEF Divides
  <2>4. j + r \in Int /\ j + k \in Int
    BY <1>4
  <2> QED
    BY <1>4, <2>3, <2>4, MulSame
<1>6. AddPoints(Mul(j), Mul(r)) = Mul(j + r)
  <2>1. r \in Good
    BY <1>3, <1>4
  <2> QED
    BY <2>1
<1> QED
  BY <1>5, <1>6

(* A finite multiple is no point of order two: neither coordinate is 0.    *)
LEMMA MulFinite ==
  ASSUME NEW k \in Int, ~Divides(Prime, k)
  PROVE  \E x \in Coordinates, y \in Coordinates :
           /\ Mul(k) = <<x, y>> /\ OnCurve(x, y)
           /\ (y + y) % ECC_Prime # 0 /\ ~Divides(ECC_Prime, y)
           /\ ~Divides(ECC_Prime, x)
<1>1. PICK x \in Coordinates, y \in Coordinates : Mul(k) = <<x, y>> /\ OnCurve(x, y)
  BY MulPoint, MulInfinite, PointCases
<1>2. /\ ECC_Prime \in Nat /\ ECC_Prime # 0 /\ ECC_Prime \in {Prime, ECC_Prime}
      /\ x \in Int /\ y \in Int /\ A \in Int
  BY CurveType
<1>3. (y + y) % ECC_Prime # 0
  <2> SUFFICES ASSUME (y + y) % ECC_Prime = 0 PROVE FALSE
    OBVIOUS
  <2>1. Mul(k + k) = Infinity
    <3>1. AddPoints(<<x, y>>, <<x, y>>) = Infinity
      BY AddOpposite
    <3> QED
      BY <3>1, <1>1, MulAdd
  <2>2. Divides(Prime, 2 * k)
    <3>1. k + k = 2 * k /\ k + k \in Int
      OBVIOUS
    <3> QED
      BY <3>1, <2>1, MulInfinite
  <2>3. Divides(Prime, k)
    BY <2>2, OrderType, SmallUnits, NoZeroDivisors
  <2> QED
    BY <2>3
<1>4. ~Divides(ECC_Prime, y)
  <2> SUFFICES ASSUME Divides(ECC_Prime, y) PROVE FALSE
    OBVIOUS
  <2>1. PICK q \in Int : y = ECC_Prime * q
    BY DEF Divides
  <2>2. y + y = ECC_Prime * (q + q) /\ q + q \in Int
    BY <2>1, <1>2
  <2>3. Divides(ECC_Prime, y + y)
    BY <2>2 DEF Divides
  <2>4. y + y \in Int
    BY <1>2
  <2> QED
    BY <2>3, <2>4, <1>2, <1>3, DividesResidue
<1>5. ~Divides(ECC_Prime, x)
  <2> SUFFICES ASSUME Divides(ECC_Prime, x) PROVE FALSE
    OBVIOUS
  <2>1. PICK q \in Int : x = ECC_Prime * q
    BY DEF Divides
  <2>2. PICK a \in Int : y * y - Cubic(x) = ECC_Prime * a
    BY <1>1 DEF OnCurve, Divides
  <2>3. y * y = ECC_Prime * (a + q * (x * x + A * x + 1))
    <3>1. Cubic(x) = ECC_Prime * (q * (x * x + A * x + 1))
      BY <1>2, <2>1 DEF Cubic
    <3>2. Cubic(x) \in Int
      BY <1>2 DEF Cubic
    <3> QED
      BY <3>1, <3>2, <2>2, <1>2
  <2>4. a + q * (x * x + A * x + 1) \in Int
    BY <1>2
  <2>5. Divides(ECC_Prime, y * y)
    BY <2>3, <2>4 DEF Divides
  <2> QED
    BY <2>5, <1>2, <1>4, SquareZero
<1> QED
  BY <1>1, <1>3, <1>4, <1>5

(* Opposite multiples share the x coordinate and differ in the sign of y.  *)
LEMMA MulOpposite ==
  ASSUME NEW j \in Int, NEW k \in Int, Divides(Prime, j + k),
         NEW x \in Coordinates, NEW y \in Coordinates, Mul(j) = <<x, y>>
  PROVE  \E z \in Coordinates :
           Mul(k) = <<x, z>> /\ OnCurve(x, z) /\ (y + z) % ECC_Prime = 0
<1>1. ~Divides(Prime, j)
  BY MulInfinite, PairFinite
<1>2. ~Divides(Prime, k)
  <2> SUFFICES ASSUME Divides(Prime, k) PROVE FALSE
    OBVIOUS
  <2>1. PICK q \in Int : k = Prime * q
    BY DEF Divides
  <2>2. PICK r \in Int : j + k = Prime * r
    BY DEF Divides
  <2>3. j = Prime * (r - q) /\ r - q \in Int
    BY <2>1, <2>2, OrderType
  <2> QED
    BY <2>3, <1>1 DEF Divides
<1>3. /\ OnCurve(x, y) /\ (y + y) % ECC_Prime # 0
  BY <1>1, MulFinite
<1>4. PICK u \in Coordinates, z \in Coordinates : Mul(k) = <<u, z>> /\ OnCurve(u, z)
  BY <1>2, MulFinite
<1>5. AddPoints(<<x, y>>, <<u, z>>) = Infinity
  <2>1. j + k \in Int
    OBVIOUS
  <2>2. Mul(j + k) = Infinity
    BY <2>1, MulInfinite
  <2> QED
    BY <2>2, <1>4, MulAdd
<1>6. u = x
  BY <1>5, AddChord, PairFinite
<1>7. y # z
  BY <1>3, <1>5, <1>6, AddTangent, PairFinite
<1>8. (y + z) % ECC_Prime = 0
  BY <1>3, <1>4, <1>6, <1>7, SameX
<1> QED
  BY <1>4, <1>6, <1>8

(* The x coordinate tells a multiple up to its sign.                       *)
LEMMA MulSameX ==
  ASSUME NEW j \in Int, NEW k \in Int, ~Divides(Prime, j), ~Divides(Prime, k)
  PROVE  Mul(j)[1] = Mul(k)[1] <=> Divides(Prime, j - k) \/ Divides(Prime, j + k)
<1>1. PICK x \in Coordinates, y \in Coordinates :
        Mul(j) = <<x, y>> /\ OnCurve(x, y)
  BY MulFinite
<1>2. PICK u \in Coordinates, v \in Coordinates :
        Mul(k) = <<u, v>> /\ OnCurve(u, v)
  BY MulFinite
<1>3. Divides(Prime, j - k) => x = u
  BY <1>1, <1>2, MulSame
<1>4. Divides(Prime, j + k) => x = u
  BY <1>1, <1>2, MulOpposite
<1>5. ASSUME x = u
      PROVE  Divides(Prime, j - k) \/ Divides(Prime, j + k)
  <2>1. CASE (y + v) % ECC_Prime = 0
    <3>1. AddPoints(<<x, y>>, <<x, v>>) = Infinity
      BY <2>1, AddOpposite
    <3>2. Mul(j + k) = Infinity
      BY <3>1, <1>1, <1>2, <1>5, MulAdd
    <3>3. j + k \in Int
      OBVIOUS
    <3> QED
      BY <3>2, <3>3, MulInfinite
  <2>2. CASE y = v
    <3>1. -k \in Int /\ Divides(Prime, k + (-k))
      <4>1. -k \in Int /\ k + (-k) = Prime * 0
        BY OrderType
      <4> QED
        BY <4>1 DEF Divides
    <3>2. PICK z \in Coordinates :
            Mul(-k) = <<x, z>> /\ (v + z) % ECC_Prime = 0
      BY <3>1, <1>2, <1>5, MulOpposite
    <3>3. AddPoints(<<x, y>>, <<x, z>>) = Infinity
      BY <2>2, <3>2, AddOpposite
    <3>4. Mul(j + (-k)) = Infinity
      BY <3>1, <3>2, <3>3, <1>1, MulAdd
    <3>5. j + (-k) = j - k /\ j + (-k) \in Int
      OBVIOUS
    <3>6. Divides(Prime, j + (-k))
      BY <3>4, <3>5, MulInfinite
    <3> QED
      BY <3>5, <3>6
  <2> QED
    BY <2>1, <2>2, <1>1, <1>2, <1>5, SameX
<1>6. Mul(j)[1] = x /\ Mul(k)[1] = u
  BY <1>1, <1>2
<1> QED
  BY <1>3, <1>4, <1>5, <1>6

-----------------------------------------------------------------------------
(* DoubleAndAdd.                                                           *)

LEMMA FieldType ==
  ASSUME NEW a \in Int
  PROVE  /\ Field(a) \in Coordinates /\ Field(a) \in Int
         /\ \E q \in Int : Field(a) = a + ECC_Prime * q
BY CurveType, Residue, DivMod DEF Field, Coordinates

(* What the four results are, modulo the prime.                            *)
LEMMA DoubleAndAddResults ==
  ASSUME NEW P2x \in Coordinates, NEW P2z \in Coordinates,
         NEW P3x \in Coordinates, NEW P3z \in Coordinates, NEW X1 \in Coordinates
  PROVE  \E P4x \in Coordinates, P4z \in Coordinates,
            P5x \in Coordinates, P5z \in Coordinates :
           /\ DoubleAndAdd(<<P2x, P2z>>, <<P3x, P3z>>, X1) = <<<<P4x, P4z>>, <<P5x, P5z>>>>
           /\ Divides(ECC_Prime, P4x - (P2x * P2x - P2z * P2z) * (P2x * P2x - P2z * P2z))
           /\ Divides(ECC_Prime,
                P4z - 4 * (P2x * P2z) * (P2x * P2x + A * (P2x * P2z) + P2z * P2z))
           /\ Divides(ECC_Prime, P5x - 4 * ((P2x * P3x - P2z * P3z) * (P2x * P3x - P2z * P3z)))
           /\ Divides(ECC_Prime,
                P5z - X1 * (4 * ((P3x * P2z - P3z * P2x) * (P3x * P2z - P3z * P2x))))
<1> DEFINE p == ECC_Prime
           s == Square(P2x + P2z)
           d == Square(P2x - P2z)
           c == Field((P3x - P3z) * (P2x + P2z))
           u == Field((P3x + P3z) * (P2x - P2z))
           e == Field(s - d)
           P4x == Field(s * d)
           P4z == Field(e * (d + a24 * e))
           P5x == Square(c + u)
           w == Square(c - u)
           P5z == Field(X1 * w)
<1>1. /\ p \in Nat /\ p # 0 /\ P2x \in Int /\ P2z \in Int /\ P3x \in Int
      /\ P3z \in Int /\ X1 \in Int /\ A \in Int
  BY CurveType
<1>2. a24 \in Int
  BY ModuliAssumption
<1>3. DoubleAndAdd(<<P2x, P2z>>, <<P3x, P3z>>, X1) = <<<<P4x, P4z>>, <<P5x, P5z>>>>
  BY DEF DoubleAndAdd
<1>4. PICK q1 \in Int : s = (P2x + P2z) * (P2x + P2z) + p * q1
  <2>1. (P2x + P2z) * (P2x + P2z) \in Int
    BY <1>1
  <2> QED
    BY <2>1, FieldType DEF Square
<1>5. PICK q2 \in Int : d = (P2x - P2z) * (P2x - P2z) + p * q2
  <2>1. (P2x - P2z) * (P2x - P2z) \in Int
    BY <1>1
  <2> QED
    BY <2>1, FieldType DEF Square
<1>6. PICK q3 \in Int : c = (P3x - P3z) * (P2x + P2z) + p * q3
  <2>1. (P3x - P3z) * (P2x + P2z) \in Int
    BY <1>1
  <2> QED
    BY <2>1, FieldType
<1>7. PICK q4 \in Int : u = (P3x + P3z) * (P2x - P2z) + p * q4
  <2>1. (P3x + P3z) * (P2x - P2z) \in Int
    BY <1>1
  <2> QED
    BY <2>1, FieldType
<1>8. s \in Int /\ d \in Int /\ c \in Int /\ u \in Int
  BY <1>1, <1>4, <1>5, <1>6, <1>7
<1> HIDE DEF s, d, c, u, p
<1>9. PICK q5 \in Int : e \in Int /\ e = (s - d) + p * q5
  <2>1. s - d \in Int
    BY <1>8
  <2> QED
    BY <2>1, FieldType DEF p
<1>10. PICK q6 \in Int : P4x \in Coordinates /\ P4x = s * d + p * q6
  <2>1. s * d \in Int
    BY <1>8
  <2> QED
    BY <2>1, FieldType DEF p
<1>11. PICK q8 \in Int : P5x \in Coordinates /\ P5x = (c + u) * (c + u) + p * q8
  <2>1. (c + u) * (c + u) \in Int
    BY <1>8
  <2> QED
    BY <2>1, FieldType DEF p, Square
<1>12. PICK q9 \in Int : w \in Int /\ w = (c - u) * (c - u) + p * q9
  <2>1. (c - u) * (c - u) \in Int
    BY <1>8
  <2> QED
    BY <2>1, FieldType DEF p, Square
<1> HIDE DEF e, w, P4x, P5x
<1>13. PICK q7 \in Int : P4z \in Coordinates /\ P4z = e * (d + a24 * e) + p * q7
  <2>1. e * (d + a24 * e) \in Int
    BY <1>2, <1>8, <1>9
  <2> QED
    BY <2>1, FieldType DEF p
<1>14. PICK q10 \in Int : P5z \in Coordinates /\ P5z = X1 * w + p * q10
  <2>1. X1 * w \in Int
    BY <1>1, <1>12
  <2> QED
    BY <2>1, FieldType DEF p
<1> HIDE DEF P4z, P5z
<1>15. PICK q11 \in Int : A = (4 * a24 - 2) + p * q11
  <2>1. 4 * a24 - 2 \in Int
    BY <1>2
  <2> QED
    BY <2>1, <1>1, Residue DEF A, p
<1>16. Divides(p, P4x - (P2x * P2x - P2z * P2z) * (P2x * P2x - P2z * P2z))
  <2> DEFINE m == P2x + P2z
             n == P2x - P2z
  <2>1. m \in Int /\ n \in Int /\ m * n = P2x * P2x - P2z * P2z
    BY <1>1
  <2>2. s = m * m + p * q1 /\ d = n * n + p * q2
    BY <1>4, <1>5
  <2> HIDE DEF m, n
  <2>3. P4x - (m * n) * (m * n)
          = p * (m * m * q2 + n * n * q1 + p * q1 * q2 + q6)
    BY <1>1, <1>10, <2>1, <2>2
  <2>4. m * m * q2 + n * n * q1 + p * q1 * q2 + q6 \in Int
    BY <1>1, <2>1
  <2> QED
    BY <2>1, <2>3, <2>4 DEF Divides
<1>17. Divides(p, P4z - 4 * (P2x * P2z) * (P2x * P2x + A * (P2x * P2z) + P2z * P2z))
  <2> DEFINE v == P2x * P2z
             n == (P2x - P2z) * (P2x - P2z)
             q == q1 - q2 + q5
  <2>1. v \in Int /\ n \in Int /\ q \in Int /\ P2x * P2x + P2z * P2z = n + 2 * v
    BY <1>1
  <2>2. d = n + p * q2
    BY <1>5
  <2>3. e = 4 * v + p * q
    BY <1>1, <1>4, <1>5, <1>9
  <2> HIDE DEF v, n, q
  <2>4. 4 * v * (n + 2 * v + A * v) = 4 * v * (n + a24 * (4 * v)) + p * (4 * v * v * q11)
    <3>1. A * v = (4 * a24 - 2) * v + p * q11 * v
      BY <1>15, <1>1, <1>2, <2>1
    <3>2. n + 2 * v + A * v = n + a24 * (4 * v) + p * q11 * v
      BY <3>1, <1>1, <1>2, <2>1
    <3>3. 4 * v * (n + 2 * v + A * v) = 4 * v * (n + a24 * (4 * v) + p * q11 * v)
      BY <3>2
    <3> QED
      BY <3>3, <1>1, <1>2, <2>1
  <2>5. P4z = (4 * v + p * q) * (n + p * q2 + a24 * (4 * v + p * q)) + p * q7
    BY <1>13, <2>2, <2>3
  <2>6. P4z = 4 * v * (n + a24 * (4 * v))
               + p * (4 * v * (q2 + a24 * q) + q * (n + p * q2 + a24 * (4 * v + p * q))
                      + q7)
    BY <2>5, <1>1, <1>2, <2>1
  <2>7. P4z - 4 * v * (n + 2 * v + A * v)
          = p * (4 * v * (q2 + a24 * q) + q * (n + p * q2 + a24 * (4 * v + p * q))
                   + q7 - 4 * v * v * q11)
    BY <2>4, <2>6, <1>1, <1>2, <2>1
  <2>8. 4 * v * (q2 + a24 * q) + q * (n + p * q2 + a24 * (4 * v + p * q))
          + q7 - 4 * v * v * q11 \in Int
    BY <1>1, <1>2, <2>1
  <2>9. P2x * P2x + A * v + P2z * P2z = n + 2 * v + A * v
    BY <2>1, <1>1
  <2>10. Divides(p, P4z - 4 * v * (P2x * P2x + A * v + P2z * P2z))
    BY <2>7, <2>8, <2>9 DEF Divides
  <2> QED
    BY <2>10 DEF v
<1>18. Divides(p, P5x - 4 * ((P2x * P3x - P2z * P3z) * (P2x * P3x - P2z * P3z)))
  <2> DEFINE g == P2x * P3x - P2z * P3z
             q == q3 + q4
  <2>1. g \in Int /\ q \in Int
    BY <1>1
  <2>2. c + u = 2 * g + p * q
    BY <1>1, <1>6, <1>7
  <2> HIDE DEF g, q
  <2>3. P5x = (2 * g + p * q) * (2 * g + p * q) + p * q8
    BY <1>11, <2>2
  <2>4. P5x - 4 * (g * g) = p * (4 * g * q + p * q * q + q8)
    BY <2>3, <2>1, <1>1
  <2>5. 4 * g * q + p * q * q + q8 \in Int
    BY <2>1, <1>1
  <2>6. Divides(p, P5x - 4 * (g * g))
    BY <2>4, <2>5 DEF Divides
  <2> QED
    BY <2>6 DEF g
<1>19. Divides(p, P5z - X1 * (4 * ((P3x * P2z - P3z * P2x) * (P3x * P2z - P3z * P2x))))
  <2> DEFINE g == P3x * P2z - P3z * P2x
             q == q3 - q4
  <2>1. g \in Int /\ q \in Int
    BY <1>1
  <2>2. c - u = 2 * g + p * q
    BY <1>1, <1>6, <1>7
  <2> HIDE DEF g, q
  <2>3. P5z = X1 * ((2 * g + p * q) * (2 * g + p * q) + p * q9) + p * q10
    BY <1>12, <1>14, <2>2
  <2>4. P5z - X1 * (4 * (g * g)) = p * (X1 * (4 * g * q + p * q * q + q9) + q10)
    BY <2>3, <2>1, <1>1
  <2>5. X1 * (4 * g * q + p * q * q + q9) + q10 \in Int
    BY <2>1, <1>1
  <2>6. Divides(p, P5z - X1 * (4 * (g * g)))
    BY <2>4, <2>5 DEF Divides
  <2> QED
    BY <2>6 DEF g
<1> HIDE DEF P4x, P4z, P5x, P5z
<1>20. DoubleAndAdd(<<P2x, P2z>>, <<P3x, P3z>>, X1) = <<<<P4x, P4z>>, <<P5x, P5z>>>>
  BY <1>3
<1> QED
  BY <1>10, <1>11, <1>13, <1>14, <1>16, <1>17, <1>18, <1>19, <1>20 DEF p

(* A product of units is a unit.                                           *)
LEMMA UnitProduct ==
  ASSUME NEW m \in {Prime, ECC_Prime}, NEW a \in Int, NEW b \in Int,
         ~Divides(m, a), ~Divides(m, b)
  PROVE  ~Divides(m, a * b)
BY NoZeroDivisors

(* What is congruent to a unit is a unit.                                  *)
LEMMA UnitCongruent ==
  ASSUME NEW m \in {Prime, ECC_Prime}, NEW a \in Int, NEW b \in Int,
         Divides(m, a - b), ~Divides(m, b)
  PROVE  ~Divides(m, a)
<1> SUFFICES ASSUME Divides(m, a) PROVE FALSE
  OBVIOUS
<1>1. PICK q \in Int : a - b = m * q
  BY DEF Divides
<1>2. PICK r \in Int : a = m * r
  BY DEF Divides
<1>3. b = m * (r - q) /\ r - q \in Int
  BY <1>1, <1>2, Moduli
<1> QED
  BY <1>3 DEF Divides

(* Stands, by divisibility.                                                *)
LEMMA StandsCases ==
  ASSUME NEW X \in Coordinates, NEW W \in Coordinates, NEW k \in Int
  PROVE  /\ Divides(Prime, k) =>
              (Stands(<<X, W>>, k) <=>
                 Divides(ECC_Prime, W) /\ ~Divides(ECC_Prime, X))
         /\ ~Divides(Prime, k) =>
              (Stands(<<X, W>>, k) <=>
                 /\ ~Divides(ECC_Prime, W)
                 /\ Divides(ECC_Prime, X - Mul(k)[1] * W))
<1>1. /\ ECC_Prime \in Nat /\ ECC_Prime # 0 /\ Coordinates = 0..ECC_Prime-1
      /\ X \in Int /\ W \in Int
  BY CurveType
<1>2. Divides(ECC_Prime, W) <=> W = 0
  <2>1. W % ECC_Prime = W
    BY <1>1
  <2> QED
    BY <2>1, <1>1, DividesResidue
<1>3. Divides(ECC_Prime, X) <=> X = 0
  <2>1. X % ECC_Prime = X
    BY <1>1
  <2> QED
    BY <2>1, <1>1, DividesResidue
<1>4. ASSUME Divides(Prime, k)
      PROVE  Stands(<<X, W>>, k) <=> W = 0 /\ X # 0
  BY <1>4, MulInfinite DEF Stands, Mul
<1>5. ASSUME ~Divides(Prime, k)
      PROVE  Stands(<<X, W>>, k) <=>
               W # 0 /\ Divides(ECC_Prime, X - Mul(k)[1] * W)
  <2>1. Stands(<<X, W>>, k) <=> W # 0 /\ X = Field(Mul(k)[1] * W)
    BY <1>5, MulInfinite DEF Stands, Mul
  <2>2. PICK x \in Coordinates : Mul(k)[1] = x
    BY <1>5, MulFinite
  <2>3. x \in Int /\ x * W \in Int
    <3>1. x \in Int
      BY CurveType
    <3> QED
      BY <3>1, <1>1
  <2>4. X % ECC_Prime = X
    BY <1>1
  <2>5. X % ECC_Prime = (x * W) % ECC_Prime <=> Divides(ECC_Prime, X - x * W)
    BY <1>1, <2>3, SameResidue
  <2> QED
    BY <2>1, <2>2, <2>4, <2>5 DEF Field
<1> QED
  BY <1>2, <1>3, <1>4, <1>5

(* The first result stands for the double, infinity included.              *)
LEMMA DoubleStands ==
  ASSUME NEW P2x \in Coordinates, NEW P2z \in Coordinates,
         NEW P4x \in Coordinates, NEW P4z \in Coordinates, NEW k \in Int,
         Stands(<<P2x, P2z>>, k),
         Divides(ECC_Prime,
           P4x - (P2x * P2x - P2z * P2z) * (P2x * P2x - P2z * P2z)),
         Divides(ECC_Prime,
           P4z - 4 * (P2x * P2z) * (P2x * P2x + A * (P2x * P2z) + P2z * P2z))
  PROVE  Stands(<<P4x, P4z>>, 2 * k)
<1> DEFINE p == ECC_Prime
           n == P2x * P2x - P2z * P2z
<1>1. /\ p \in Nat /\ p # 0 /\ p \in {Prime, ECC_Prime} /\ A \in Int
      /\ P2x \in Int /\ P2z \in Int /\ P4x \in Int /\ P4z \in Int
  BY CurveType
<1>2. PICK a \in Int :
        P4z - 4 * (P2x * P2z) * (P2x * P2x + A * (P2x * P2z) + P2z * P2z) = p * a
  BY DEF Divides
<1>3. PICK b \in Int : P4x - n * n = p * b
  BY DEF Divides
<1>4. 2 * k \in Int /\ n \in Int
  BY <1>1
<1>5. CASE Divides(Prime, k)
  <2>1. Divides(p, P2z) /\ ~Divides(p, P2x)
    BY <1>5, StandsCases
  <2>2. PICK c \in Int : P2z = p * c
    BY <2>1 DEF Divides
  <2> HIDE DEF p
  <2>3. P4z = p * (a + 4 * (P2x * c) * (P2x * P2x + A * (P2x * P2z) + P2z * P2z))
    <3>1. P4z = p * a + 4 * (P2x * P2z) * (P2x * P2x + A * (P2x * P2z) + P2z * P2z)
      BY <1>1, <1>2
    <3>2. P2x * P2z = P2x * (p * c)
      BY <2>2
    <3> DEFINE s == P2x * P2x + A * (P2x * P2z) + P2z * P2z
    <3>3. s \in Int
      BY <1>1
    <3>4. 4 * (P2x * P2z) * s = 4 * (P2x * (p * c)) * s
      BY <3>2
    <3> HIDE DEF s
    <3>5. P4z = p * a + 4 * (P2x * (p * c)) * s
      BY <3>1, <3>4 DEF s
    <3>6. P4z = p * (a + 4 * (P2x * c) * s)
      BY <3>3, <3>5, <1>1
    <3> QED
      BY <3>6 DEF s
  <2>4. a + 4 * (P2x * c) * (P2x * P2x + A * (P2x * P2z) + P2z * P2z) \in Int
    BY <1>1
  <2>5. Divides(p, P4z)
    BY <2>3, <2>4 DEF Divides
  <2>6. ~Divides(p, n)
    <3> SUFFICES ASSUME Divides(p, n) PROVE FALSE
      OBVIOUS
    <3>1. PICK d \in Int : n = p * d
      BY DEF Divides
    <3>2. P2x * P2x = p * (d + c * P2z) /\ d + c * P2z \in Int
      BY <3>1, <2>2, <1>1
    <3>3. Divides(p, P2x * P2x)
      BY <3>2 DEF Divides
    <3> QED
      BY <3>3, <2>1, <1>1, SquareZero
  <2> HIDE DEF n
  <2>7. ~Divides(p, P4x)
    <3>1. ~Divides(p, n * n) /\ n * n \in Int
      BY <2>6, <1>1, <1>4, SquareZero
    <3>2. Divides(p, P4x - n * n)
      BY <1>3 DEF Divides
    <3> QED
      BY <3>1, <3>2, <1>1, UnitCongruent
  <2>8. Divides(Prime, 2 * k)
    <3>1. PICK d \in Int : k = Prime * d
      BY <1>5 DEF Divides
    <3>2. 2 * k = Prime * (2 * d)
      BY <3>1, OrderType
    <3> QED
      BY <3>2 DEF Divides
  <2> QED
    BY <2>5, <2>7, <2>8, <1>4, StandsCases DEF p
<1>6. CASE ~Divides(Prime, k)
  <2>1. PICK x \in Coordinates, y \in Coordinates :
          /\ Mul(k) = <<x, y>> /\ OnCurve(x, y)
          /\ (y + y) % ECC_Prime # 0 /\ ~Divides(ECC_Prime, y)
    BY <1>6, MulFinite
  <2>2. PICK l \in Int, x3 \in Coordinates, y3 \in Coordinates :
          /\ AddPoints(<<x, y>>, <<x, y>>) = <<x3, y3>>
          /\ OnLine(x, y, x, l, x3, y3)
          /\ Divides(ECC_Prime, l * (2 * y) - (3 * x * x + 2 * A * x + 1))
    BY <2>1, AddTangent
  <2>3. x \in Int /\ y \in Int /\ x3 \in Int /\ y3 \in Int
    BY CurveType
  <2>4. Mul(2 * k)[1] = x3
    <3>1. k + k = 2 * k
      OBVIOUS
    <3>2. Mul(k + k) = <<x3, y3>>
      BY <2>1, <2>2, MulAdd
    <3> QED
      BY <3>1, <3>2
  <2>5. ~Divides(Prime, 2 * k)
    BY <1>6, OrderType, SmallUnits, UnitProduct
  <2> DEFINE f == Cubic(x)
             m == (x * x - 1) * (x * x - 1)
             z4 == (P2z * P2z) * (P2z * P2z)
  <2>6. PICK c \in Int : 4 * f * x3 - m = p * c
    <3>1. Divides(ECC_Prime, 4 * Cubic(x) * x3 - (x * x - 1) * (x * x - 1))
      BY <2>1, <2>2, <2>3, DoublingFormula
    <3> QED
      BY <3>1 DEF Divides
  <2>7. ~Divides(p, P2z) /\ \E d \in Int : P2x - x * P2z = p * d
    <3>1. ~Divides(p, P2z) /\ Divides(p, P2x - Mul(k)[1] * P2z)
      BY <1>6, StandsCases
    <3>2. Mul(k)[1] = x
      BY <2>1
    <3> QED
      BY <3>1, <3>2 DEF Divides
  <2>8. PICK d \in Int : P2x - x * P2z = p * d
    BY <2>7
  <2>9. ~Divides(p, f)
    <3> SUFFICES ASSUME Divides(p, f) PROVE FALSE
      OBVIOUS
    <3>1. PICK s \in Int : f = p * s
      BY DEF Divides
    <3>2. PICK t \in Int : y * y - f = p * t
      BY <2>1 DEF OnCurve, Divides
    <3> HIDE DEF f, p
    <3>3. y * y = p * (s + t) /\ s + t \in Int
      BY <3>1, <3>2, <1>1, <2>3
    <3>4. Divides(p, y * y)
      BY <3>3 DEF Divides
    <3>5. Divides(p, y)
      BY <3>4, <2>3, <1>1, SquareZero
    <3> QED
      BY <3>5, <2>1 DEF p
  <2>10. f \in Int /\ m \in Int /\ z4 \in Int
    BY <1>1, <2>3 DEF Cubic
  <2> HIDE DEF p
  <2>11. P2x = x * P2z + p * d
    BY <2>8, <1>1, <2>3
  <2>12. PICK g \in Int : P4z = 4 * f * z4 + p * g
    <3> DEFINE S(t) == 4 * (t * P2z) * (t * t + A * (t * P2z) + P2z * P2z)
               t1 == x * P2z
               e == p * d
               r == 4 * P2z * (t1 * t1 + A * (t1 * P2z) + P2z * P2z)
                      + 4 * ((t1 + e) * P2z) * (2 * t1 + e + A * P2z)
    <3>1. S(t1) = 4 * f * z4
      BY <1>1, <2>3 DEF Cubic
    <3>2. t1 \in Int /\ e \in Int
      BY <1>1, <2>3
    <3>3. S(t1 + e) = S(t1) + e * r
      <4> HIDE DEF t1, e
      <4> QED
        BY <3>2, <1>1
    <3>4. P4z = S(P2x) + p * a
      BY <1>1, <1>2
    <3>5. P2x = t1 + e
      BY <2>11
    <3>6. r \in Int
      <4> HIDE DEF t1, e
      <4> QED
        BY <3>2, <1>1
    <3> HIDE DEF S, t1, r
    <3>7. P4z = 4 * f * z4 + (p * d) * r + p * a
      BY <3>1, <3>3, <3>4, <3>5
    <3> HIDE DEF e
    <3>8. P4z = 4 * f * z4 + p * (d * r + a) /\ d * r + a \in Int
      <4> HIDE DEF f, z4
      <4> QED
        BY <3>6, <3>7, <1>1, <2>10
    <3> QED
      BY <3>8
  <2>13. PICK h \in Int : P4x = m * z4 + p * h
    <3> DEFINE t1 == x * P2z
               e == p * d
               n1 == t1 * t1 - P2z * P2z
               r == 2 * t1 + e
    <3>1. t1 \in Int /\ e \in Int
      BY <1>1, <2>3
    <3>2. n1 * n1 = m * z4
      BY <1>1, <2>3
    <3>3. n = n1 + e * r
      <4>1. P2x = t1 + e
        BY <2>11
      <4> HIDE DEF t1, e
      <4> QED
        BY <4>1, <3>1, <1>1
    <3>4. n1 \in Int /\ r \in Int
      <4> HIDE DEF t1, e
      <4> QED
        BY <3>1, <1>1
    <3> HIDE DEF n1, r, t1, n, m, z4
    <3>5. P4x = (n1 + e * r) * (n1 + e * r) + p * b
      BY <1>1, <1>3, <1>4, <3>3
    <3>6. P4x = n1 * n1 + p * (2 * n1 * d * r + p * d * d * r * r + b)
      BY <3>5, <3>4, <1>1
    <3>7. 2 * n1 * d * r + p * d * d * r * r + b \in Int
      BY <3>4, <1>1
    <3> QED
      BY <3>2, <3>6, <3>7
  <2> HIDE DEF f, m, z4
  <2>14. P4x - x3 * P4z = p * (h - c * z4 - x3 * g)
    <3>1. m = 4 * f * x3 - p * c
      BY <2>6, <1>1, <2>3, <2>10
    <3>2. m * z4 = (4 * f * x3 - p * c) * z4
      BY <3>1
    <3>3. x3 * P4z = x3 * (4 * f * z4 + p * g)
      BY <2>12
    <3> QED
      BY <3>2, <3>3, <2>13, <1>1, <2>3, <2>10
  <2>15. h - c * z4 - x3 * g \in Int
    BY <2>3, <2>10
  <2>16. Divides(p, P4x - x3 * P4z)
    BY <2>14, <2>15 DEF Divides
  <2>17. ~Divides(p, P4z)
    <3>1. ~Divides(p, 4 * f) /\ 4 * f \in Int
      <4>1. 4 \in Int /\ ~Divides(p, 4)
        BY <1>1, SmallUnits
      <4>2. ~Divides(p, 4 * f)
        BY <4>1, <2>9, <2>10, <1>1, UnitProduct
      <4> QED
        BY <4>2, <2>10
    <3>2. ~Divides(p, z4)
      <4>1. ~Divides(p, P2z * P2z) /\ P2z * P2z \in Int
        BY <2>7, <1>1, UnitProduct
      <4> QED
        BY <4>1, <1>1, UnitProduct DEF z4
    <3>3. ~Divides(p, 4 * f * z4) /\ 4 * f * z4 \in Int
      BY <3>1, <3>2, <2>10, <1>1, UnitProduct
    <3>4. P4z - 4 * f * z4 = p * g
      BY <2>12, <1>1, <3>3
    <3>5. Divides(p, P4z - 4 * f * z4)
      BY <3>4 DEF Divides
    <3> QED
      BY <3>3, <3>5, <1>1, UnitCongruent
  <2> QED
    BY <2>4, <2>5, <2>16, <2>17, <1>4, StandsCases DEF p
<1> QED
  BY <1>5, <1>6

(* Of two opposite multiples x squared is not 1: twice such a point would  *)
(* be of order two.                                                        *)
LEMMA NotOne ==
  ASSUME NEW k \in Int, ~Divides(Prime, k),
         NEW x \in Coordinates, NEW y \in Coordinates, Mul(k) = <<x, y>>
  PROVE  ~Divides(ECC_Prime, x * x - 1)
<1> SUFFICES ASSUME Divides(ECC_Prime, x * x - 1) PROVE FALSE
  OBVIOUS
<1> DEFINE p == ECC_Prime
<1>1. /\ p \in Nat /\ p # 0 /\ p \in {Prime, ECC_Prime} /\ A \in Int
      /\ x \in Int /\ y \in Int
  BY CurveType
<1>2. OnCurve(x, y) /\ (y + y) % ECC_Prime # 0 /\ ~Divides(p, y)
  BY MulFinite
<1>3. PICK l \in Int, x3 \in Coordinates, y3 \in Coordinates :
        /\ AddPoints(<<x, y>>, <<x, y>>) = <<x3, y3>>
        /\ OnLine(x, y, x, l, x3, y3)
        /\ Divides(ECC_Prime, l * (2 * y) - (3 * x * x + 2 * A * x + 1))
  BY <1>2, AddTangent
<1>4. x3 \in Int /\ y3 \in Int
  BY CurveType
<1>5. Mul(2 * k) = <<x3, y3>>
  <2>1. k + k = 2 * k
    OBVIOUS
  <2>2. Mul(k + k) = <<x3, y3>>
    BY <1>3, MulAdd
  <2> QED
    BY <2>1, <2>2
<1>6. ~Divides(p, x3)
  <2>1. ~Divides(Prime, 2 * k) /\ 2 * k \in Int
    BY OrderType, SmallUnits, UnitProduct
  <2> QED
    BY <2>1, <1>5, MulFinite
<1> DEFINE f == Cubic(x)
<1>7. PICK c \in Int : 4 * f * x3 - (x * x - 1) * (x * x - 1) = p * c
  <2>1. Divides(ECC_Prime, 4 * Cubic(x) * x3 - (x * x - 1) * (x * x - 1))
    BY <1>1, <1>2, <1>3, <1>4, DoublingFormula
  <2> QED
    BY <2>1 DEF Divides
<1>8. PICK e \in Int : x * x - 1 = p * e
  BY DEF Divides
<1>9. PICK t \in Int : y * y - f = p * t
  BY <1>2 DEF OnCurve, Divides
<1>10. f \in Int
  BY <1>1 DEF Cubic
<1> HIDE DEF f, p
<1>11. 4 * (y * y) * x3 = p * (4 * t * x3 + c + e * (p * e))
  <2>1. 4 * f * x3 = (p * e) * (p * e) + p * c
    <3>1. 4 * f * x3 = (x * x - 1) * (x * x - 1) + p * c
      BY <1>7, <1>1, <1>4, <1>10
    <3> QED
      BY <3>1, <1>8
  <2>2. y * y = f + p * t
    BY <1>9, <1>1, <1>10
  <2>3. 4 * (y * y) * x3 = 4 * (f + p * t) * x3
    BY <2>2
  <2> QED
    BY <2>1, <2>3, <1>1, <1>4, <1>10
<1>12. 4 * t * x3 + c + e * (p * e) \in Int
  BY <1>1, <1>4
<1>13. Divides(p, 4 * (y * y) * x3)
  BY <1>11, <1>12 DEF Divides
<1>14. ~Divides(p, 4 * (y * y)) /\ 4 * (y * y) \in Int
  <2>1. 4 \in Int /\ ~Divides(p, 4) /\ y * y \in Int
    BY <1>1, SmallUnits
  <2>2. ~Divides(p, y * y)
    BY <1>1, <1>2, UnitProduct DEF p
  <2>3. ~Divides(p, 4 * (y * y))
    BY <2>1, <2>2, <1>1, UnitProduct
  <2> QED
    BY <2>1, <2>3
<1> QED
  BY <1>13, <1>14, <1>4, <1>6, <1>1, NoZeroDivisors DEF p

(* The second result of DoubleAndAdd, from u = P2x P3x - P2z P3z and       *)
(* v = P3x P2z - P3z P2x.                                                  *)
SecondResult(X1, u, v, P5x, P5z) ==
  /\ Divides(ECC_Prime, P5x - 4 * (u * u))
  /\ Divides(ECC_Prime, P5z - X1 * (4 * (v * v)))

(* u and v from which it gets the affine coordinate x.                     *)
HasRatio(X1, u, v, x) == Divides(ECC_Prime, u * u - x * X1 * (v * v))

(* u and v if one of the points added is infinity, w a unit.               *)
NextToBase(X1, w, u, v) ==
  \E a \in Int, c \in Int, s \in {1, -1} :
    u = X1 * w + ECC_Prime * a /\ v = s * w + ECC_Prime * c

(* The second result has the coordinate that u and v give it.              *)
LEMMA SumResult ==
  ASSUME NEW X1 \in Int, NEW u \in Int, NEW v \in Int, NEW x \in Int,
         NEW P5x \in Int, NEW P5z \in Int,
         SecondResult(X1, u, v, P5x, P5z), HasRatio(X1, u, v, x),
         ~Divides(ECC_Prime, X1), ~Divides(ECC_Prime, v)
  PROVE  ~Divides(ECC_Prime, P5z) /\ Divides(ECC_Prime, P5x - x * P5z)
<1> DEFINE p == ECC_Prime
<1>1. p \in Nat /\ p # 0 /\ p \in {Prime, ECC_Prime}
  BY CurveType
<1>2. PICK a \in Int : P5x - 4 * (u * u) = p * a
  BY DEF Divides, SecondResult
<1>3. PICK b \in Int : P5z - X1 * (4 * (v * v)) = p * b
  BY DEF Divides, SecondResult
<1>4. PICK c \in Int : u * u - x * X1 * (v * v) = p * c
  BY DEF Divides, HasRatio
<1>5. ~Divides(p, X1) /\ ~Divides(p, v)
  OBVIOUS
<1> HIDE DEF p
<1>6. ~Divides(p, X1 * (4 * (v * v))) /\ X1 * (4 * (v * v)) \in Int
  <2> DEFINE vv == v * v
             v4 == 4 * vv
  <2>1. vv \in Int /\ v4 \in Int /\ X1 * v4 \in Int /\ 4 \in Int
    OBVIOUS
  <2>2. ~Divides(p, vv)
    BY <1>1, <1>5, UnitProduct
  <2>3. ~Divides(p, 4)
    BY <1>1, SmallUnits
  <2> HIDE DEF vv
  <2>4. ~Divides(p, v4)
    BY <1>1, <2>1, <2>2, <2>3, UnitProduct
  <2> HIDE DEF v4
  <2>5. ~Divides(p, X1 * v4)
    BY <1>1, <1>5, <2>1, <2>4, UnitProduct
  <2> QED
    BY <2>1, <2>5 DEF v4, vv
<1>7. ~Divides(p, P5z)
  <2>1. Divides(p, P5z - X1 * (4 * (v * v)))
    BY DEF p, SecondResult
  <2> QED
    BY <1>1, <1>6, <2>1, UnitCongruent
<1>8. P5x - x * P5z = p * (a + 4 * c - x * b)
  <2>1. P5x = 4 * (u * u) + p * a
    BY <1>1, <1>2
  <2>2. P5z = X1 * (4 * (v * v)) + p * b
    BY <1>1, <1>3
  <2>3. x * P5z = x * (X1 * (4 * (v * v)) + p * b)
    BY <2>2
  <2>4. u * u = x * X1 * (v * v) + p * c
    BY <1>1, <1>4
  <2>5. P5x = 4 * (x * X1 * (v * v) + p * c) + p * a
    BY <2>1, <2>4
  <2> QED
    BY <2>3, <2>5, <1>1
<1>9. Divides(p, P5x - x * P5z)
  <2>1. a + 4 * c - x * b \in Int
    OBVIOUS
  <2> QED
    BY <1>8, <2>1 DEF Divides
<1> QED
  BY <1>7, <1>9 DEF p

(* The sum, if one of the two is infinity and the other therefore the base *)
(* or its opposite.                                                        *)
LEMMA SumWithInfinity ==
  ASSUME NEW X1 \in Int, NEW w \in Int, NEW u \in Int, NEW v \in Int,
         NextToBase(X1, w, u, v), ~Divides(ECC_Prime, w)
  PROVE  ~Divides(ECC_Prime, v) /\ HasRatio(X1, u, v, X1)
<1> DEFINE p == ECC_Prime
<1>1. p \in Nat /\ p # 0 /\ p \in {Prime, ECC_Prime}
  BY CurveType
<1>2. PICK a \in Int, c \in Int, s \in {1, -1} :
        u = X1 * w + p * a /\ v = s * w + p * c /\ ~Divides(p, w)
  BY DEF NextToBase
<1> HIDE DEF p
<1>3. ~Divides(p, v)
  <2> SUFFICES ASSUME Divides(p, v) PROVE FALSE
    OBVIOUS
  <2>1. PICK q \in Int : v = p * q
    BY DEF Divides
  <2>2. w = p * (s * (q - c)) /\ s * (q - c) \in Int
    <3>1. CASE s = 1
      BY <3>1, <2>1, <1>1, <1>2
    <3>2. CASE s = -1
      BY <3>2, <2>1, <1>1, <1>2
    <3> QED
      BY <3>1, <3>2
  <2> QED
    BY <2>2, <1>2 DEF Divides
<1>4. u * u - X1 * X1 * (v * v)
        = p * (2 * X1 * w * a + p * a * a - X1 * X1 * (2 * s * w * c + p * c * c))
  <2>1. v * v = w * w + p * (2 * s * w * c + p * c * c)
    <3>1. v * v = (s * w + p * c) * (s * w + p * c)
      BY <1>2
    <3>2. CASE s = 1
      BY <3>1, <3>2, <1>1
    <3>3. CASE s = -1
      BY <3>1, <3>3, <1>1
    <3> QED
      BY <3>2, <3>3
  <2>2. u * u = (X1 * w + p * a) * (X1 * w + p * a)
    BY <1>2
  <2>3. X1 * X1 * (v * v) = X1 * X1 * (w * w + p * (2 * s * w * c + p * c * c))
    BY <2>1
  <2> DEFINE u2 == u * u
             v2 == X1 * X1 * (v * v)
             us == (X1 * w + p * a) * (X1 * w + p * a)
             vs == X1 * X1 * (w * w + p * (2 * s * w * c + p * c * c))
             rest == p * (2 * X1 * w * a + p * a * a - X1 * X1 * (2 * s * w * c + p * c * c))
  <2>4. us - vs = rest
    <3>1. s \in Int
      OBVIOUS
    <3> QED
      BY ONLY <3>1, <1>1, X1 \in Int, w \in Int, a \in Int, c \in Int DEF us, vs, rest
  <2>5. u2 = us /\ v2 = vs
    BY <2>2, <2>3
  <2> HIDE DEF u2, v2, us, vs, rest
  <2>6. u2 - v2 = rest
    BY <2>4, <2>5
  <2> QED
    BY <2>6 DEF u2, v2, rest
<1>5. 2 * X1 * w * a + p * a * a - X1 * X1 * (2 * s * w * c + p * c * c) \in Int
  BY <1>1
<1>6. Divides(p, u * u - X1 * X1 * (v * v))
  BY <1>4, <1>5 DEF Divides
<1> QED
  BY <1>3, <1>6 DEF p, HasRatio

(* The second result when the sum is infinity: opposite points.            *)
LEMMA OppositeResult ==
  ASSUME NEW X1 \in Int, NEW u \in Int, NEW v \in Int,
         NEW P5x \in Int, NEW P5z \in Int,
         SecondResult(X1, u, v, P5x, P5z),
         ~Divides(ECC_Prime, u), Divides(ECC_Prime, v)
  PROVE  Divides(ECC_Prime, P5z) /\ ~Divides(ECC_Prime, P5x)
<1> DEFINE p == ECC_Prime
<1>1. p \in Nat /\ p # 0 /\ p \in {Prime, ECC_Prime}
  BY CurveType
<1>2. PICK b \in Int : P5z - X1 * (4 * (v * v)) = p * b
  BY DEF Divides, SecondResult
<1>3. PICK c \in Int : v = p * c
  BY DEF Divides
<1>4. ~Divides(p, u) /\ Divides(p, P5x - 4 * (u * u))
  BY DEF SecondResult
<1> HIDE DEF p
<1>5. P5z = p * (b + X1 * (4 * (c * (p * c))))
  <2>1. P5z = X1 * (4 * (v * v)) + p * b
    BY <1>1, <1>2
  <2>2. P5z = X1 * (4 * ((p * c) * (p * c))) + p * b
    BY <2>1, <1>3
  <2> QED
    BY <2>2, <1>1
<1>6. b + X1 * (4 * (c * (p * c))) \in Int
  BY <1>1
<1>7. Divides(p, P5z)
  BY <1>5, <1>6 DEF Divides
<1>8. ~Divides(p, P5x)
  <2> DEFINE uu == u * u
             u4 == 4 * uu
  <2>1. uu \in Int /\ u4 \in Int /\ 4 \in Int
    OBVIOUS
  <2>2. ~Divides(p, uu)
    BY <1>1, <1>4, UnitProduct
  <2>3. ~Divides(p, 4)
    BY <1>1, SmallUnits
  <2>4. Divides(p, P5x - u4)
    BY <1>4
  <2> HIDE DEF uu
  <2>5. ~Divides(p, u4)
    BY <1>1, <2>1, <2>2, <2>3, UnitProduct
  <2> HIDE DEF u4
  <2> QED
    BY <1>1, <2>1, <2>4, <2>5, UnitCongruent
<1> QED
  BY <1>7, <1>8 DEF p

(* The x coordinates of the sum of two finite multiples and of their       *)
(* difference, if neither is infinity.                                     *)
LEMMA SumOfFinite ==
  ASSUME NEW j \in Int, NEW k \in Int, ~Divides(Prime, j), ~Divides(Prime, k),
         ~Divides(Prime, j + k), ~Divides(Prime, j - k)
  PROVE  LET d == Mul(k)[1] - Mul(j)[1]
             m == Mul(j)[1] * Mul(k)[1] - 1
         IN /\ ~Divides(ECC_Prime, d)
            /\ Divides(ECC_Prime, Mul(j + k)[1] * Mul(j - k)[1] * (d * d) - m * m)
<1>1. PICK x1 \in Coordinates, y1 \in Coordinates :
        Mul(j) = <<x1, y1>> /\ OnCurve(x1, y1)
  BY MulFinite
<1>2. PICK x2 \in Coordinates, y2 \in Coordinates :
        Mul(k) = <<x2, y2>> /\ OnCurve(x2, y2)
  BY MulFinite
<1>3. x1 \in Int /\ y1 \in Int /\ x2 \in Int /\ y2 \in Int
  BY CurveType
<1>4. x1 # x2
  BY <1>1, <1>2, MulSameX
<1>5. ~Divides(ECC_Prime, x2 - x1)
  BY <1>4, CurveType, DividesSmall
<1>6. -k \in Int /\ Divides(Prime, k + (-k)) /\ j + (-k) = j - k
  <2>1. -k \in Int /\ k + (-k) = Prime * 0 /\ j + (-k) = j - k
    BY OrderType
  <2> QED
    BY <2>1 DEF Divides
<1>7. PICK z2 \in Coordinates :
        Mul(-k) = <<x2, z2>> /\ (y2 + z2) % ECC_Prime = 0
  BY <1>2, <1>6, MulOpposite
<1>8. z2 \in Int /\ y2 + z2 \in Int
  <2>1. z2 \in Int
    BY CurveType
  <2> QED
    BY <2>1, <1>3
<1>9. Divides(ECC_Prime, y2 + z2)
  BY <1>7, <1>8, CurveType, DividesResidue
<1>10. PICK l \in Int, x3 \in Coordinates, y3 \in Coordinates :
         /\ AddPoints(<<x1, y1>>, <<x2, y2>>) = <<x3, y3>>
         /\ OnLine(x1, y1, x2, l, x3, y3)
         /\ Divides(ECC_Prime, l * (x2 - x1) - (y2 - y1))
  BY <1>4, AddChord
<1>11. PICK n \in Int, x4 \in Coordinates, y4 \in Coordinates :
         /\ AddPoints(<<x1, y1>>, <<x2, z2>>) = <<x4, y4>>
         /\ OnLine(x1, y1, x2, n, x4, y4)
         /\ Divides(ECC_Prime, n * (x2 - x1) - (z2 - y1))
  BY <1>4, AddChord
<1>12. x3 \in Int /\ y3 \in Int /\ x4 \in Int /\ y4 \in Int
  BY CurveType
<1>13. Mul(j + k) = <<x3, y3>> /\ Mul(j - k) = <<x4, y4>>
  <2>1. Mul(j + k) = <<x3, y3>>
    BY <1>1, <1>2, <1>10, MulAdd
  <2>2. Mul(j + (-k)) = <<x4, y4>>
    BY <1>1, <1>6, <1>7, <1>11, MulAdd
  <2> QED
    BY <2>1, <2>2, <1>6
<1>14. Divides(ECC_Prime, x3 * x4 * ((x2 - x1) * (x2 - x1))
                            - (x1 * x2 - 1) * (x1 * x2 - 1))
  BY <1>1, <1>2, <1>3, <1>5, <1>8, <1>9, <1>10, <1>11, <1>12, DifferenceFormula
<1>15. /\ Mul(j)[1] = x1 /\ Mul(k)[1] = x2
       /\ Mul(j + k)[1] = x3 /\ Mul(j - k)[1] = x4
  BY <1>1, <1>2, <1>13
<1> QED
  BY <1>5, <1>14, <1>15

(* What DoubleAndAdd computes second from two pairs of coordinates.        *)
SumFormula(P2x, P2z, P3x, P3z, X1, P5x, P5z) ==
  /\ Divides(ECC_Prime,
       P5x - 4 * ((P2x * P3x - P2z * P3z) * (P2x * P3x - P2z * P3z)))
  /\ Divides(ECC_Prime,
       P5z - X1 * (4 * ((P3x * P2z - P3z * P2x) * (P3x * P2z - P3z * P2x))))

(* The second result stands for the sum, whichever of the two points or    *)
(* of their sum is infinity, if they differ by the point with the affine   *)
(* coordinate X1 or by its opposite.                                       *)
LEMMA SumStands ==
  ASSUME NEW P2x \in Coordinates, NEW P2z \in Coordinates,
         NEW P3x \in Coordinates, NEW P3z \in Coordinates,
         NEW P5x \in Coordinates, NEW P5z \in Coordinates, NEW X1 \in Coordinates,
         NEW j \in Int, NEW k \in Int, NEW b \in Int,
         ~Divides(Prime, b), X1 = Mul(b)[1], k = j + b \/ j = k + b,
         Stands(<<P2x, P2z>>, j), Stands(<<P3x, P3z>>, k),
         SumFormula(P2x, P2z, P3x, P3z, X1, P5x, P5z)
  PROVE  Stands(<<P5x, P5z>>, j + k)
<1> DEFINE p == ECC_Prime
           u == P2x * P3x - P2z * P3z
           v == P3x * P2z - P3z * P2x
<1>1. /\ p \in Nat /\ p # 0 /\ p \in {Prime, ECC_Prime}
      /\ P2x \in Int /\ P2z \in Int /\ P3x \in Int /\ P3z \in Int
      /\ P5x \in Int /\ P5z \in Int /\ X1 \in Int
  BY CurveType
<1>2. ~Divides(p, X1)
  BY MulFinite
<1>3. u \in Int /\ v \in Int
  BY <1>1
<1>4. SecondResult(X1, u, v, P5x, P5z)
  BY DEF SecondResult, SumFormula
<1>5. j + k \in Int /\ j - k \in Int
  OBVIOUS
<1>6. ASSUME NEW w \in Int, NextToBase(X1, w, u, v), ~Divides(p, w),
             ~Divides(Prime, j + k), Mul(j + k)[1] = X1
      PROVE  Stands(<<P5x, P5z>>, j + k)
  <2> HIDE DEF u, v
  <2>1. ~Divides(p, v) /\ HasRatio(X1, u, v, X1)
    BY <1>1, <1>3, <1>6, SumWithInfinity
  <2>2. ~Divides(p, P5z) /\ Divides(p, P5x - X1 * P5z)
    BY <1>1, <1>2, <1>3, <1>4, <2>1, SumResult
  <2> QED
    BY <1>5, <1>6, <2>2, StandsCases
<1>7. CASE Divides(Prime, j)
  <2>1. Divides(p, P2z) /\ ~Divides(p, P2x)
    BY <1>7, StandsCases
  <2>2. ~Divides(Prime, k) /\ (Divides(Prime, k - b) \/ Divides(Prime, k + b))
    <3>1. k - b = j \/ k + b = j
      OBVIOUS
    <3>2. Divides(Prime, k - b) \/ Divides(Prime, k + b)
      BY <3>1, <1>7
    <3>3. ASSUME Divides(Prime, k)
          PROVE  FALSE
      <4>1. PICK q \in Int : k = Prime * q
        BY <3>3 DEF Divides
      <4>2. PICK r \in Int : j = Prime * r
        BY <1>7 DEF Divides
      <4>3. b = Prime * (q - r) \/ b = Prime * (r - q)
        BY <4>1, <4>2, OrderType
      <4> QED
        BY <4>3 DEF Divides
    <3> QED
      BY <3>2, <3>3
  <2>3. Mul(k)[1] = X1
    BY <2>2, MulSameX
  <2>4. Mul(j + k) = Mul(k) /\ ~Divides(Prime, j + k)
    <3>1. (j + k) - k = j
      OBVIOUS
    <3>2. Mul(j + k) = Mul(k)
      BY <3>1, <1>5, <1>7, MulSame
    <3> QED
      BY <3>2, <2>2, <1>5, MulInfinite
  <2>5. ~Divides(p, P3z) /\ Divides(p, P3x - X1 * P3z)
    BY <2>2, <2>3, StandsCases
  <2>6. PICK c \in Int : P2z = p * c
    BY <2>1 DEF Divides
  <2>7. PICK e \in Int : P3x - X1 * P3z = p * e
    BY <2>5 DEF Divides
  <2> DEFINE w == P2x * P3z
             al == P2x * e - c * P3z
             be == P3x * c
  <2>8. w \in Int /\ al \in Int /\ be \in Int /\ -1 \in {1, -1}
    BY <1>1
  <2>9. ~Divides(p, w)
    BY <1>1, <2>1, <2>5, UnitProduct
  <2>10. u = X1 * w + p * al
    <3> HIDE DEF p
    <3>1. P3x = X1 * P3z + p * e
      BY <1>1, <2>7
    <3>2. u = P2x * (X1 * P3z + p * e) - (p * c) * P3z
      BY <3>1, <2>6
    <3> QED
      BY <3>2, <1>1
  <2>11. v = (-1) * w + p * be
    <3> HIDE DEF p
    <3>1. v = P3x * (p * c) - P3z * P2x
      BY <2>6
    <3> QED
      BY <3>1, <1>1
  <2>12. NextToBase(X1, w, u, v)
    <3> HIDE DEF u, v, w, al, be
    <3> QED
      BY <2>8, <2>10, <2>11 DEF NextToBase
  <2> HIDE DEF u, v, w
  <2> QED
    BY <1>6, <2>3, <2>4, <2>8, <2>9, <2>12
<1>8. CASE Divides(Prime, k)
  <2>1. Divides(p, P3z) /\ ~Divides(p, P3x)
    BY <1>8, StandsCases
  <2>2. ~Divides(Prime, j) /\ (Divides(Prime, j - b) \/ Divides(Prime, j + b))
    <3>1. j - b = k \/ j + b = k
      OBVIOUS
    <3>2. Divides(Prime, j - b) \/ Divides(Prime, j + b)
      BY <3>1, <1>8
    <3>3. ASSUME Divides(Prime, j)
          PROVE  FALSE
      <4>1. PICK q \in Int : j = Prime * q
        BY <3>3 DEF Divides
      <4>2. PICK r \in Int : k = Prime * r
        BY <1>8 DEF Divides
      <4>3. b = Prime * (q - r) \/ b = Prime * (r - q)
        BY <4>1, <4>2, OrderType
      <4> QED
        BY <4>3 DEF Divides
    <3> QED
      BY <3>2, <3>3
  <2>3. Mul(j)[1] = X1
    BY <2>2, MulSameX
  <2>4. Mul(j + k) = Mul(j) /\ ~Divides(Prime, j + k)
    <3>1. (j + k) - j = k
      OBVIOUS
    <3>2. Mul(j + k) = Mul(j)
      BY <3>1, <1>5, <1>8, MulSame
    <3> QED
      BY <3>2, <2>2, <1>5, MulInfinite
  <2>5. ~Divides(p, P2z) /\ Divides(p, P2x - X1 * P2z)
    BY <2>2, <2>3, StandsCases
  <2>6. PICK c \in Int : P3z = p * c
    BY <2>1 DEF Divides
  <2>7. PICK e \in Int : P2x - X1 * P2z = p * e
    BY <2>5 DEF Divides
  <2> DEFINE w == P3x * P2z
             al == e * P3x - P2z * c
             be == -(c * P2x)
  <2>8. w \in Int /\ al \in Int /\ be \in Int /\ 1 \in {1, -1}
    BY <1>1
  <2>9. ~Divides(p, w)
    BY <1>1, <2>1, <2>5, UnitProduct
  <2>10. u = X1 * w + p * al
    <3> HIDE DEF p
    <3>1. P2x = X1 * P2z + p * e
      BY <1>1, <2>7
    <3>2. u = (X1 * P2z + p * e) * P3x - P2z * (p * c)
      BY <3>1, <2>6
    <3> QED
      BY <3>2, <1>1
  <2>11. v = 1 * w + p * be
    <3> HIDE DEF p
    <3>1. v = P3x * P2z - (p * c) * P2x
      BY <2>6
    <3> QED
      BY <3>1, <1>1
  <2>12. NextToBase(X1, w, u, v)
    <3> HIDE DEF u, v, w, al, be
    <3> QED
      BY <2>8, <2>10, <2>11 DEF NextToBase
  <2> HIDE DEF u, v, w
  <2> QED
    BY <1>6, <2>3, <2>4, <2>8, <2>9, <2>12
<1>9. CASE ~Divides(Prime, j) /\ ~Divides(Prime, k)
  <2>1. PICK x1 \in Coordinates, y1 \in Coordinates : Mul(j) = <<x1, y1>>
    BY <1>9, MulFinite
  <2>2. PICK x2 \in Coordinates, y2 \in Coordinates : Mul(k) = <<x2, y2>>
    BY <1>9, MulFinite
  <2>3. x1 \in Int /\ x2 \in Int /\ Mul(j)[1] = x1 /\ Mul(k)[1] = x2
    <3>1. x1 \in Int /\ x2 \in Int
      BY CurveType
    <3> QED
      BY <3>1, <2>1, <2>2
  <2>4. /\ ~Divides(p, P2z) /\ Divides(p, P2x - x1 * P2z)
        /\ ~Divides(p, P3z) /\ Divides(p, P3x - x2 * P3z)
    BY <1>9, <2>3, StandsCases
  <2>5. PICK d \in Int : P2x - x1 * P2z = p * d
    BY <2>4 DEF Divides
  <2>6. PICK e \in Int : P3x - x2 * P3z = p * e
    BY <2>4 DEF Divides
  <2> DEFINE w == P2z * P3z
             al == x1 * P2z * e + d * P3x
             be == e * P2z - P3z * d
             m == x1 * x2 - 1
             n == x2 - x1
  <2>7. w \in Int /\ al \in Int /\ be \in Int /\ m \in Int /\ n \in Int
    BY <1>1, <2>3
  <2>8. ~Divides(p, w)
    BY <1>1, <2>4, UnitProduct
  <2>9. u = w * m + p * al
    <3> HIDE DEF p
    <3>1. P2x = x1 * P2z + p * d
      BY <1>1, <2>3, <2>5
    <3>2. P3x = x2 * P3z + p * e
      BY <1>1, <2>3, <2>6
    <3>3. P2x * P3x = x1 * P2z * P3x + p * (d * P3x)
      <4>1. P2x * P3x = (x1 * P2z + p * d) * P3x
        BY <3>1
      <4> QED
        BY <4>1, <1>1, <2>3
    <3>4. x1 * P2z * P3x = x1 * P2z * (x2 * P3z + p * e)
      BY <3>2
    <3>5. u = x1 * P2z * (x2 * P3z + p * e) + p * (d * P3x) - P2z * P3z
      BY <3>3, <3>4, <1>1, <2>3
    <3> QED
      BY <3>5, <1>1, <2>3
  <2>10. v = w * n + p * be
    <3> HIDE DEF p
    <3>1. P2x = x1 * P2z + p * d
      BY <1>1, <2>3, <2>5
    <3>2. P3x = x2 * P3z + p * e
      BY <1>1, <2>3, <2>6
    <3>3. v = (x2 * P3z + p * e) * P2z - P3z * (x1 * P2z + p * d)
      BY <3>1, <3>2
    <3> QED
      BY <3>3, <1>1, <2>3
  <2> HIDE DEF u, v, w, al, be
  <2>11. CASE Divides(Prime, j + k)
    <3>1. x2 = x1
      BY <2>3, <2>11, <1>9, MulSameX
    <3>2. ~Divides(p, m)
      BY <2>1, <3>1, <1>9, NotOne
    <3>3. ~Divides(p, u)
      <4> HIDE DEF m, n, p
      <4>1. ~Divides(p, w * m) /\ w * m \in Int
        <5>1. p \in {Prime, ECC_Prime} /\ w \in Int /\ m \in Int
                /\ ~Divides(p, w) /\ ~Divides(p, m)
          BY <2>7, <2>8, <3>2, <1>1
        <5>2. ~Divides(p, w * m)
          BY ONLY <5>1, UnitProduct
        <5> QED
          BY <5>1, <5>2
      <4>2. u - w * m = p * al
        BY <2>7, <2>9, <4>1, <1>1
      <4>3. Divides(p, u - w * m)
        BY <4>2, <2>7 DEF Divides
      <4> QED
        BY <4>1, <4>3, <1>1, <1>3, UnitCongruent
    <3>4. Divides(p, v)
      <4>1. n = 0
        BY <3>1, <2>3
      <4> HIDE DEF p, n
      <4>2. v = p * be
        BY <4>1, <2>7, <2>10, <1>1
      <4> QED
        BY <4>2, <2>7 DEF Divides
    <3>5. Divides(p, P5z) /\ ~Divides(p, P5x)
      BY <1>1, <1>3, <1>4, <3>3, <3>4, OppositeResult
    <3> QED
      BY <3>5, <2>11, <1>5, StandsCases
  <2>12. CASE ~Divides(Prime, j + k)
    <3>1. ~Divides(Prime, j - k) /\ Mul(j - k)[1] = X1
      <4>1. CASE j = k + b
        <5>1. j - k = b
          BY <4>1
        <5> QED
          BY <5>1
      <4>2. CASE k = j + b
        <5>1. Divides(Prime, (j - k) + b)
          <6>1. (j - k) + b = Prime * 0
            BY <4>2, OrderType
          <6> QED
            BY <6>1 DEF Divides
        <5>2. ~Divides(Prime, j - k)
          <6> SUFFICES ASSUME Divides(Prime, j - k) PROVE FALSE
            OBVIOUS
          <6>1. PICK q \in Int : j - k = Prime * q
            BY DEF Divides
          <6>2. b = Prime * (-q) /\ -q \in Int
            BY <6>1, <4>2, OrderType
          <6> QED
            BY <6>2 DEF Divides
        <5> QED
          BY <5>1, <5>2, <1>5, MulSameX
      <4> QED
        BY <4>1, <4>2
    <3>2. PICK x3 \in Coordinates : Mul(j + k)[1] = x3
      BY <2>12, <1>5, MulFinite
    <3>3. x3 \in Int
      BY CurveType
    <3>4. ~Divides(p, n) /\ Divides(p, x3 * X1 * (n * n) - m * m)
      BY <1>9, <2>3, <2>12, <3>1, <3>2, SumOfFinite
    <3>5. PICK c \in Int : x3 * X1 * (n * n) - m * m = p * c
      BY <3>4 DEF Divides
    <3> HIDE DEF n, m, p
    <3>6. ~Divides(p, v)
      <4>1. ~Divides(p, w * n) /\ w * n \in Int
        <5>1. p \in {Prime, ECC_Prime} /\ w \in Int /\ n \in Int
                /\ ~Divides(p, w) /\ ~Divides(p, n)
          BY <2>7, <2>8, <3>4, <1>1
        <5>2. ~Divides(p, w * n)
          BY ONLY <5>1, UnitProduct
        <5> QED
          BY <5>1, <5>2
      <4>2. v - w * n = p * be
        BY <2>7, <2>10, <4>1, <1>1
      <4>3. Divides(p, v - w * n)
        BY <4>2, <2>7 DEF Divides
      <4> QED
        BY <4>1, <4>3, <1>1, <1>3, UnitCongruent
    <3>7. \E q \in Int : u * u - x3 * X1 * (v * v) = p * q
      <4>1. u * u = w * w * (m * m) + p * (2 * w * m * al + p * al * al)
        <5>1. u * u = (w * m + p * al) * (w * m + p * al)
          BY <2>9
        <5> QED
          BY <5>1, <2>7, <1>1
      <4>2. v * v = w * w * (n * n) + p * (2 * w * n * be + p * be * be)
        <5>1. v * v = (w * n + p * be) * (w * n + p * be)
          BY <2>10
        <5> QED
          BY <5>1, <2>7, <1>1
      <4>3. m * m = x3 * X1 * (n * n) - p * c
        BY <3>5, <3>3, <2>7, <1>1
      <4>4. w * w * (m * m) = w * w * (x3 * X1 * (n * n) - p * c)
        BY <4>3
      <4>5. x3 * X1 * (v * v)
              = x3 * X1 * (w * w * (n * n) + p * (2 * w * n * be + p * be * be))
        BY <4>2
      <4> DEFINE e1 == 2 * w * m * al + p * al * al
                 e2 == 2 * w * n * be + p * be * be
      <4>6. e1 \in Int /\ e2 \in Int
        BY <2>7, <1>1
      <4> HIDE DEF e1, e2
      <4>7. u * u = w * w * (x3 * X1 * (n * n) - p * c) + p * e1
        BY <4>1, <4>4 DEF e1
      <4>8. x3 * X1 * (v * v) = x3 * X1 * (w * w * (n * n) + p * e2)
        BY <4>5 DEF e2
      <4> DEFINE q == e1 - x3 * X1 * e2 - w * w * c
                 uu == u * u
                 vv == x3 * X1 * (v * v)
                 rhs == w * w * (x3 * X1 * (n * n) - p * c) + p * e1
                 lhs == x3 * X1 * (w * w * (n * n) + p * e2)
      <4>9. rhs - lhs = p * q /\ q \in Int
        BY <4>6, <3>3, <2>7, <1>1
      <4>10. uu = rhs /\ vv = lhs
        BY <4>7, <4>8
      <4> HIDE DEF q, uu, vv, rhs, lhs
      <4>11. uu - vv = p * q
        BY <4>9, <4>10
      <4> QED
        BY <4>9, <4>11 DEF uu, vv
    <3>9. HasRatio(X1, u, v, x3)
      BY <3>7 DEF Divides, HasRatio, p
    <3>10. ~Divides(p, P5z) /\ Divides(p, P5x - x3 * P5z)
      <4>1. ~Divides(ECC_Prime, X1) /\ ~Divides(ECC_Prime, v)
        BY <1>2, <3>6 DEF p
      <4>2. ~Divides(ECC_Prime, P5z) /\ Divides(ECC_Prime, P5x - x3 * P5z)
        BY <1>1, <1>3, <1>4, <3>3, <3>9, <4>1, SumResult
      <4> QED
        BY <4>2 DEF p
    <3> QED
      BY <3>2, <3>10, <2>12, <1>5, StandsCases DEF p
  <2> QED
    BY <2>11, <2>12
<1> QED
  BY <1>7, <1>8, <1>9

-----------------------------------------------------------------------------
(* Powers of two, and the bits of a scalar.                                *)

(* The function that Pow2 defines by recursion.                            *)
LEMMA Pow2Values ==
  /\ Pow2[0] = 1
  /\ \A j \in 0..Prime-1 : Pow2[j+1] = 2 * Pow2[j]
  /\ \A j \in 0..Prime : Pow2[j] \in Nat /\ Pow2[j] > j
<1> DEFINE G == [x \in Nat |-> 2 * x]
           Step(f, j) == IF j = 0 THEN 1 ELSE 2 * f[j-1]
<1>1. G \in [Nat -> Nat] /\ 1 \in Nat /\ Prime \in Nat
  BY OrderType
<1>2. PICK f \in [0..Prime -> Nat] :
        f = [j \in 0..Prime |-> IF j = 0 THEN 1 ELSE G[f[j-1]]]
  <2> DEFINE one == 1
             S == Nat
  <2>1. one \in S /\ Prime \in Nat /\ G \in [S -> S]
    BY <1>1
  <2> HIDE DEF G, one, S
  <2>2. \E f \in [0..Prime -> S] :
          f = [j \in 0..Prime |-> IF j = 0 THEN one ELSE G[f[j-1]]]
    BY ONLY <2>1, RecursiveFunction
  <2> QED
    BY <2>2 DEF one, S
<1>3. f = [j \in 0..Prime |-> Step(f, j)]
  <2>1. ASSUME NEW j \in 0..Prime
        PROVE  (IF j = 0 THEN 1 ELSE G[f[j-1]]) = Step(f, j)
    <3>1. j # 0 => f[j-1] \in Nat
      BY <1>1
    <3> QED
      BY <3>1
  <2> QED
    BY <1>2, <2>1
<1>4. Pow2 = [j \in 0..Prime |-> Step(Pow2, j)]
  BY <1>3 DEF Pow2
<1>5. \A j \in 0..Prime : Pow2[j] = Step(Pow2, j)
  BY <1>4
<1>6. Pow2[0] = 1
  BY <1>5, <1>1
<1>7. \A j \in 0..Prime-1 : Pow2[j+1] = 2 * Pow2[j]
  <2>1. ASSUME NEW j \in 0..Prime-1
        PROVE  Pow2[j+1] = 2 * Pow2[j]
    <3>1. j + 1 \in 0..Prime /\ j + 1 # 0 /\ (j + 1) - 1 = j
      BY <1>1
    <3> QED
      BY <3>1, <1>5
  <2> QED
    BY <2>1
<1>8. \A j \in 0..Prime : Pow2[j] \in Nat /\ Pow2[j] > j
  <2> DEFINE Good == {j \in 0..Prime : Pow2[j] \in Nat /\ Pow2[j] > j}
  <2>1. 0 \in Good
    BY <1>1, <1>6
  <2>2. ASSUME NEW j \in 0..Prime-1, j \in Good
        PROVE  j + 1 \in Good
    BY <1>1, <1>7, <2>2
  <2>3. 0..Prime \subseteq Good
    <3> HIDE DEF Good
    <3> QED
      BY <1>1, <2>1, <2>2, BoundedInduction
  <2> QED
    BY <2>3
<1> QED
  BY <1>6, <1>7, <1>8

(* The leading bit exists, and no bit above it is set.                     *)
LEMMA TopBitRight ==
  ASSUME NEW s \in Scalars
  PROVE  /\ TopBit(s) \in 0..Prime-1
         /\ s \div Pow2[TopBit(s) + 1] = 0
<1>1. Prime \in Nat /\ s \in 0..Prime-1 /\ s \in Nat
  BY OrderType DEF Scalars
<1> DEFINE least == IF s = 0 THEN 1 ELSE s
           Above == {j \in 0..s : s < Pow2[j+1]}
<1>2. \A j \in 0..s : /\ j \in 0..Prime-1 /\ j + 1 \in 0..Prime
                      /\ Pow2[j] \in Nat /\ Pow2[j+1] \in Nat
                      /\ Pow2[j+1] = 2 * Pow2[j] /\ Pow2[j+1] > j + 1
  BY <1>1, Pow2Values
<1>3. s \in Above
  BY <1>1, <1>2
<1>4. PICK t \in Above : \A j \in Above : t <= j
  <2>1. Above \subseteq Nat /\ Above # {}
    BY <1>3, <1>1
  <2> HIDE DEF Above
  <2> QED
    BY <2>1, LeastNat
<1>5. Pow2[t] <= least
  <2>1. CASE t = 0
    BY <2>1, <1>1, Pow2Values
  <2>2. CASE t # 0
    <3>1. t - 1 \in 0..s /\ t - 1 \notin Above /\ (t - 1) + 1 = t
      BY <2>2, <1>1, <1>4
    <3>2. ~(s < Pow2[t])
      BY <3>1
    <3> QED
      BY <3>2, <1>1, <1>2
  <2> QED
    BY <2>1, <2>2
<1>6. t \in 0..s /\ Pow2[t] <= least /\ s < Pow2[t+1]
  BY <1>4, <1>5
<1> DEFINE top == TopBit(s)
<1>7. top \in 0..s /\ s < Pow2[top+1]
  BY <1>6 DEF TopBit
<1> HIDE DEF top
<1>8. top \in 0..Prime-1 /\ Pow2[top+1] \in Nat
  BY <1>1, <1>2, <1>7
<1>9. s \div Pow2[top+1] = 0
  BY <1>1, <1>7, <1>8
<1> QED
  BY <1>8, <1>9 DEF top

(* A quotient is what leaves a remainder below the divisor.                *)
LEMMA QuotientUnique ==
  ASSUME NEW m \in Nat, m # 0, NEW a \in Int, NEW q \in Int, NEW r \in 0..m-1,
         a = m * q + r
  PROVE  a \div m = q
<1>1. r \in Int /\ a - r = m * q
  OBVIOUS
<1>2. a % m = r
  BY <1>1, ResidueUnique DEF Divides
<1>3. a \div m \in Int /\ a = m * (a \div m) + (a % m)
  BY DivMod
<1>4. m * (a \div m) = m * q
  BY <1>1, <1>2, <1>3
<1> QED
  BY <1>3, <1>4

(* The next bit is appended to the bits that are done.                     *)
LEMMA BitStep ==
  ASSUME NEW s \in Scalars, NEW j \in 0..Prime-1
  PROVE  /\ s \div Pow2[j+1] \in Nat
         /\ s \div Pow2[j] = 2 * (s \div Pow2[j+1]) + Bit(s, j)
<1> DEFINE m == Pow2[j]
           d == s \div m
           e == d \div 2
           b == d % 2
           r == s % m
<1>1. m \in Nat /\ m # 0 /\ s \in Nat /\ Pow2[j+1] = 2 * m
  <2>1. j \in 0..Prime /\ j \in Nat
    BY OrderType
  <2> QED
    BY <2>1, OrderType, Pow2Values DEF Scalars
<1> HIDE DEF m
<1>2. d \in Nat /\ r \in 0..m-1 /\ s = m * d + r
  <2>1. d \in Int /\ r \in 0..m-1 /\ s = m * d + r
    <3>1. s \in Int
      BY <1>1
    <3> QED
      BY ONLY <1>1, <3>1, DivMod DEF d, r
  <2>2. d < 0 => m * d <= -m
    BY <1>1, <2>1
  <2> HIDE DEF d, r
  <2> QED
    BY <1>1, <2>1, <2>2
<1> HIDE DEF d, r
<1>3. e \in Nat /\ b \in 0..1 /\ d = 2 * e + b
  BY <1>2
<1> HIDE DEF e, b
<1>4. s = (2 * m) * e + (m * b + r)
  BY <1>1, <1>2, <1>3
<1>5. m * b + r \in 0..(2*m)-1
  <2>1. CASE b = 0
    BY <2>1, <1>1, <1>2
  <2>2. CASE b = 1
    BY <2>2, <1>1, <1>2
  <2> QED
    BY <1>3, <2>1, <2>2
<1>6. s \div (2 * m) = e
  <2>1. 2 * m \in Nat /\ 2 * m # 0 /\ s \in Int /\ e \in Int
    BY <1>1, <1>3
  <2> DEFINE mm == 2 * m
             rr == m * b + r
  <2>2. s = mm * e + rr /\ rr \in 0..mm-1 /\ mm \in Nat /\ mm # 0
    BY <1>4, <1>5, <2>1
  <2> HIDE DEF mm, rr
  <2>3. s \div mm = e
    BY <2>1, <2>2, QuotientUnique
  <2> QED
    BY <2>3 DEF mm
<1>7. Bit(s, j) = b
  BY DEF Bit, b, d, m
<1> QED
  BY <1>1, <1>3, <1>6, <1>7 DEF d, m

-----------------------------------------------------------------------------
(* The calls of the state machine.                                         *)

Units == 1..Prime-1

(* Scalars that are not zero.                                              *)
LEMMA UnitType ==
  ASSUME NEW s \in Units
  PROVE  s \in Int /\ s \in Scalars /\ s # 0 /\ ~Divides(Prime, s)
<1>1. Prime \in Nat /\ Prime # 0 /\ s \in Int /\ s \in 0..Prime-1 /\ s # 0
  BY OrderType DEF Units
<1>2. s % Prime = s
  BY <1>1
<1>3. ~Divides(Prime, s)
  BY <1>1, <1>2, DividesResidue
<1> QED
  BY <1>1, <1>3 DEF Scalars

(* A product of scalars is reduced, and only zero if a factor is.          *)
LEMMA ECC_MULRight ==
  ASSUME NEW a \in Int, NEW c \in Int
  PROVE  /\ ECC_MUL(a, c) \in Scalars /\ ECC_MUL(a, c) \in Int
         /\ Divides(Prime, ECC_MUL(a, c) - a * c)
         /\ (~Divides(Prime, a) /\ ~Divides(Prime, c)) => ECC_MUL(a, c) \in Units
<1> DEFINE n == a * c
<1>1. n \in Int /\ Prime \in Nat /\ Prime # 0 /\ Prime \in {Prime, ECC_Prime}
  BY OrderType
<1>2. (~Divides(Prime, a) /\ ~Divides(Prime, c)) => ~Divides(Prime, n)
  BY <1>1, UnitProduct
<1> HIDE DEF n
<1>3. n % Prime \in 0..Prime-1
  BY <1>1, DivMod
<1>4. PICK q \in Int : n % Prime = n + Prime * q
  BY <1>1, Residue
<1>5. Divides(Prime, (n % Prime) - n)
  <2>1. (n % Prime) - n = Prime * q
    BY <1>1, <1>4
  <2> QED
    BY <2>1 DEF Divides
<1>6. ~Divides(Prime, n) => n % Prime # 0
  BY <1>1, DividesResidue
<1>7. ECC_MUL(a, c) = n % Prime
  BY DEF ECC_MUL, n
<1>8. ~Divides(Prime, n) => n % Prime \in Units
  BY <1>1, <1>3, <1>6 DEF Units
<1>9. n % Prime \in Int /\ n % Prime \in Scalars
  BY <1>1, <1>3 DEF Scalars
<1> QED
  BY <1>2, <1>5, <1>7, <1>8, <1>9 DEF n

(* What EDB_SetUp stores in the row is a unit, and times the z of the      *)
(* entry it is the factor of the id again.                                 *)
LEMMA RowInverts ==
  ASSUME NEW x \in Units, NEW z \in Units
  PROVE  LET y == ECC_MUL(x, ECC_FPINV(z))
         IN y \in Units /\ Divides(Prime, y * z - x)
<1> DEFINE r == ECC_FPINV(z)
           y == ECC_MUL(x, r)
<1>1. /\ Prime \in Nat /\ Prime # 0 /\ Prime > 2 /\ Prime \in {Prime, ECC_Prime}
      /\ x \in Int /\ z \in Int /\ ~Divides(Prime, x)
  BY OrderType, UnitType
<1>2. /\ r \in 0..Prime-1
      /\ \E q \in Int : z * r = 1 + Prime * q
  BY <1>1, FermatInverse DEF ECC_FPINV, Units
<1> HIDE DEF r
<1>3. PICK q \in Int : z * r = 1 + Prime * q
  BY <1>2
<1>4. r \in Int
  BY <1>1, <1>2
<1>5. ~Divides(Prime, r)
  <2> SUFFICES ASSUME Divides(Prime, r) PROVE FALSE
    OBVIOUS
  <2>1. PICK t \in Int : r = Prime * t
    BY DEF Divides
  <2>2. z * (Prime * t) = 1 + Prime * q
    BY <1>3, <2>1
  <2>3. 1 = Prime * (z * t - q) /\ z * t - q \in Int
    BY <1>1, <2>2
  <2>4. Divides(Prime, 1)
    BY <2>3 DEF Divides
  <2>5. 1 % Prime = 1 /\ 1 \in Int
    BY <1>1
  <2> QED
    BY <1>1, <2>4, <2>5, DividesResidue
<1>6. y \in Units /\ y \in Int /\ Divides(Prime, y - x * r)
  BY <1>1, <1>4, <1>5, ECC_MULRight
<1> HIDE DEF y
<1>7. PICK t \in Int : y - x * r = Prime * t
  BY <1>6 DEF Divides
<1>8. y * z - x = Prime * (t * z + x * q)
  <2>1. y = x * r + Prime * t
    BY <1>1, <1>4, <1>6, <1>7
  <2>2. y * z = (x * r + Prime * t) * z
    BY <2>1
  <2>3. y * z = x * (z * r) + Prime * (t * z)
    BY <2>2, <1>1, <1>4
  <2>4. y * z = x * (1 + Prime * q) + Prime * (t * z)
    BY <2>3, <1>3
  <2> QED
    BY <2>4, <1>1
<1>9. t * z + x * q \in Int
  BY <1>1
<1>10. Divides(Prime, y * z - x)
  BY <1>8, <1>9 DEF Divides
<1> QED
  BY <1>6, <1>10 DEF y, r

(* The multiple 1 is the base point.                                       *)
LEMMA MulOne ==
  Mul(1)[1] = ecc_basep /\ 1 \in Int /\ ~Divides(Prime, 1)
<1>1. Prime \in Nat /\ Prime > 2 /\ 1 \in Units /\ 1 % Prime = 1 /\ 1 \in 1..Prime
  BY OrderType DEF Units
<1>2. Multiple[1] = AddPoints(Infinity, BasePoint)
  <2>1. Multiple[1] = AddPoints(Multiple[1-1], BasePoint) /\ 1 - 1 = 0
    BY <1>1, MultipleType
  <2> QED
    BY <2>1, MultipleType
<1>3. Multiple[1] = BasePoint
  BY <1>2 DEF AddPoints
<1> QED
  BY <1>1, <1>3, UnitType DEF Mul, BasePoint

(* The ladder starts with infinity and with its base.                      *)
LEMMA CallStands ==
  ASSUME NEW s \in Scalars, NEW b \in Int, ~Divides(Prime, b),
         NEW c \in Coordinates, c = Mul(b)[1]
  PROVE  LET done == s \div Pow2[TopBit(s) + 1]
         IN Stands(<<1, 0>>, done * b) /\ Stands(<<c, 1>>, (done + 1) * b)
<1>1. s \div Pow2[TopBit(s) + 1] = 0
  BY TopBitRight
<1>2. 0 * b = 0 /\ (0 + 1) * b = b
  OBVIOUS
<1>3. /\ ECC_Prime \in Nat /\ ECC_Prime # 0 /\ ECC_Prime > 2
      /\ Coordinates = 0..ECC_Prime-1 /\ c \in Int
  BY CurveType
<1>4. 0 \in Coordinates /\ 1 \in Coordinates /\ 0 \in Int /\ 1 \in Int
  BY <1>3
<1>5. Divides(ECC_Prime, 0) /\ ~Divides(ECC_Prime, 1) /\ Divides(Prime, 0)
  <2>1. 1 % ECC_Prime = 1 /\ 0 = ECC_Prime * 0 /\ 0 = Prime * 0
    BY <1>3, OrderType
  <2>2. ~Divides(ECC_Prime, 1)
    BY <2>1, <1>3, <1>4, DividesResidue
  <2> QED
    BY <2>1, <2>2, <1>4 DEF Divides
<1>6. Stands(<<1, 0>>, 0)
  BY <1>4, <1>5, StandsCases
<1>7. Divides(ECC_Prime, c - c * 1)
  <2>1. c - c * 1 = 0
    BY <1>3
  <2> QED
    BY <2>1, <1>5
<1>8. Stands(<<c, 1>>, b)
  BY <1>4, <1>5, <1>7, StandsCases
<1> QED
  BY <1>1, <1>2, <1>6, <1>8

(* A step of the ladder: what stood for j and k, which differ by the       *)
(* multiple of the base, now stands for 2 j and j + k.                     *)
LEMMA LadderStep ==
  ASSUME NEW q2 \in Coordinates \X Coordinates,
         NEW q3 \in Coordinates \X Coordinates, NEW X1 \in Coordinates,
         NEW j \in Int, NEW k \in Int, NEW b \in Int,
         ~Divides(Prime, b), X1 = Mul(b)[1], k = j + b \/ j = k + b,
         Stands(q2, j), Stands(q3, k)
  PROVE  /\ DoubleAndAdd(q2, q3, X1)
              \in (Coordinates \X Coordinates) \X (Coordinates \X Coordinates)
         /\ Stands(DoubleAndAdd(q2, q3, X1)[1], 2 * j)
         /\ Stands(DoubleAndAdd(q2, q3, X1)[2], j + k)
<1>1. PICK P2x \in Coordinates, P2z \in Coordinates : q2 = <<P2x, P2z>>
  OBVIOUS
<1>2. PICK P3x \in Coordinates, P3z \in Coordinates : q3 = <<P3x, P3z>>
  OBVIOUS
<1>3. PICK P4x \in Coordinates, P4z \in Coordinates,
            P5x \in Coordinates, P5z \in Coordinates :
           /\ DoubleAndAdd(<<P2x, P2z>>, <<P3x, P3z>>, X1) = <<<<P4x, P4z>>, <<P5x, P5z>>>>
           /\ Divides(ECC_Prime, P4x - (P2x * P2x - P2z * P2z) * (P2x * P2x - P2z * P2z))
           /\ Divides(ECC_Prime,
                P4z - 4 * (P2x * P2z) * (P2x * P2x + A * (P2x * P2z) + P2z * P2z))
           /\ Divides(ECC_Prime,
                P5x - 4 * ((P2x * P3x - P2z * P3z) * (P2x * P3x - P2z * P3z)))
           /\ Divides(ECC_Prime,
                P5z - X1 * (4 * ((P3x * P2z - P3z * P2x) * (P3x * P2z - P3z * P2x))))
  BY DoubleAndAddResults
<1>4. Stands(<<P4x, P4z>>, 2 * j)
  BY <1>1, <1>3, DoubleStands
<1>5. Stands(<<P5x, P5z>>, j + k)
  <2>1. SumFormula(P2x, P2z, P3x, P3z, X1, P5x, P5z)
    BY <1>3 DEF SumFormula
  <2> QED
    BY <1>1, <1>2, <2>1, SumStands
<1> QED
  BY <1>1, <1>2, <1>3, <1>4, <1>5

(* The end of ScalarMul divides out the projective coordinate.             *)
LEMMA AffineRight ==
  ASSUME NEW q \in Coordinates \X Coordinates, NEW k \in Int, ~Divides(Prime, k),
         Stands(q, k)
  PROVE  Affine(q) = Mul(k)[1] /\ Affine(q) \in Coordinates
<1>1. PICK X \in Coordinates, W \in Coordinates : q = <<X, W>>
  OBVIOUS
<1>2. PICK x \in Coordinates : Mul(k)[1] = x
  BY MulFinite
<1>3. /\ ECC_Prime \in Nat /\ ECC_Prime # 0 /\ ECC_Prime \in {Prime, ECC_Prime}
      /\ Coordinates = 0..ECC_Prime-1 /\ X \in Int /\ W \in Int /\ x \in Int
  BY CurveType
<1>4. ~Divides(ECC_Prime, W) /\ Divides(ECC_Prime, X - x * W)
  BY <1>1, <1>2, StandsCases
<1>5. W \in 1..ECC_Prime-1
  <2>1. W # 0
    <3>1. 0 = ECC_Prime * 0 /\ 0 \in Int
      BY <1>3
    <3> QED
      BY <3>1, <1>4 DEF Divides
  <2> QED
    BY <2>1, <1>3
<1> DEFINE r == Power(W, ECC_Prime - 2, ECC_Prime)
<1>6. r \in 0..ECC_Prime-1 /\ \E t \in Int : W * r = 1 + ECC_Prime * t
  BY <1>3, <1>5, FermatInverse
<1> HIDE DEF r
<1>7. PICK t \in Int : W * r = 1 + ECC_Prime * t
  BY <1>6
<1>8. PICK n \in Int : X - x * W = ECC_Prime * n
  BY <1>4 DEF Divides
<1>9. r \in Int /\ X * r \in Int
  <2>1. r \in Int
    BY <1>3, <1>6
  <2> QED
    BY <2>1, <1>3
<1>10. X * r - x = ECC_Prime * (n * r + x * t)
  <2>1. X = x * W + ECC_Prime * n
    BY <1>3, <1>8
  <2>2. X * r = (x * W + ECC_Prime * n) * r
    BY <2>1
  <2>3. X * r = x * (W * r) + ECC_Prime * (n * r)
    BY <2>2, <1>3, <1>9
  <2>4. X * r = x * (1 + ECC_Prime * t) + ECC_Prime * (n * r)
    BY <2>3, <1>7
  <2> QED
    BY <2>4, <1>3, <1>9
<1>11. Divides(ECC_Prime, X * r - x)
  <2>1. n * r + x * t \in Int
    BY <1>3, <1>9
  <2> QED
    BY <2>1, <1>10 DEF Divides
<1>12. (X * r) % ECC_Prime = x
  BY <1>3, <1>9, <1>11, ResidueUnique
<1>13. Affine(q) = (X * r) % ECC_Prime
  BY <1>1 DEF Affine, Field, r
<1> QED
  BY <1>2, <1>12, <1>13

-----------------------------------------------------------------------------
(* The state machine.                                                      *)

(* The inductive invariant: inputs are units, the row holds xid / z, every *)
(* finished product is the x coordinate of the multiple that its call asks *)
(* for, and a running call has the scalar and the base of its stage.       *)

ScalarOfStage ==
  CASE stage = "xtag" -> ECC_MUL(kx, xid)
    [] stage = "xtoken" -> ECC_MUL(kx, fw1)
    [] OTHER -> yid

InputsAreUnits == {kx, xid, zw, fw1} \subseteq Units

StageOrder ==
  /\ pc = "encode" => stage = "xtag"
  /\ stage = "tested" => pc = "form"

RowRight == pc # "encode" => yid = ECC_MUL(xid, ECC_FPINV(zw))

ProductsRight ==
  /\ stage # "xtag" => product["xtag"] = Mul(kx * xid)[1]
  /\ stage \in {"tag", "tested"} => product["xtoken"] = Mul(kx * fw1)[1]
  /\ stage = "tested" => product["tag"] = Mul(yid * (kx * fw1))[1]

CallRight ==
  pc = "ladder" => sca = ScalarOfStage /\ base = Mul(StartMultiple)[1]

IInv ==
  /\ TypeOK /\ InputsAreUnits /\ StageOrder /\ RowRight
  /\ ProductsRight /\ CallRight /\ LadderRight

(* What the invariant says of the scalars and of the start.                *)
LEMMA StageUnits ==
  ASSUME IInv
  PROVE  /\ kx \in Int /\ xid \in Int /\ zw \in Int /\ fw1 \in Int
         /\ ~Divides(Prime, kx) /\ ~Divides(Prime, xid)
         /\ ~Divides(Prime, zw) /\ ~Divides(Prime, fw1)
         /\ kx * fw1 \in Int /\ ~Divides(Prime, kx * fw1)
         /\ kx * xid \in Int /\ ~Divides(Prime, kx * xid)
         /\ StartMultiple \in Int /\ ~Divides(Prime, StartMultiple)
         /\ pc # "encode" => ScalarOfStage \in Units /\ yid \in Units
<1>1. /\ kx \in Int /\ xid \in Int /\ zw \in Int /\ fw1 \in Int
      /\ ~Divides(Prime, kx) /\ ~Divides(Prime, xid)
      /\ ~Divides(Prime, zw) /\ ~Divides(Prime, fw1)
  BY UnitType DEF IInv, InputsAreUnits
<1>2. /\ kx * fw1 \in Int /\ ~Divides(Prime, kx * fw1)
      /\ kx * xid \in Int /\ ~Divides(Prime, kx * xid)
  BY <1>1, OrderType, UnitProduct
<1>3. StartMultiple \in Int /\ ~Divides(Prime, StartMultiple)
  BY <1>2, MulOne DEF StartMultiple
<1>4. ECC_MUL(kx, xid) \in Units /\ ECC_MUL(kx, fw1) \in Units
  BY <1>1, ECC_MULRight
<1>5. pc # "encode" => yid \in Units
  BY RowInverts DEF IInv, InputsAreUnits, RowRight
<1> QED
  BY <1>1, <1>2, <1>3, <1>4, <1>5 DEF ScalarOfStage

LEMMA InitIInv == Init => IInv
<1> SUFFICES ASSUME Init PROVE IInv
  OBVIOUS
<1>1. /\ Prime \in Nat /\ Prime > 2 /\ ECC_Prime \in Nat /\ ECC_Prime > 2
  BY OrderType, CurveType
<1>2. /\ 0 \in Scalars /\ 0 \in Coordinates /\ 0 \in -1..Prime-1
  BY <1>1 DEF Scalars, Coordinates
<1>3. TypeOK
  <2>1. product \in [Stages -> Coordinates]
    BY <1>2 DEF Init
  <2>2. {kx, xid, zw, fw1, yid, sca} \subseteq Scalars
    BY <1>2 DEF Init
  <2> QED
    BY <1>2, <2>1, <2>2 DEF Init, TypeOK, Stages
<1>4. InputsAreUnits
  BY <1>1 DEF Init, InputsAreUnits, Units, Scalars
<1>5. StageOrder /\ RowRight /\ ProductsRight /\ CallRight /\ LadderRight
  BY DEF Init, StageOrder, RowRight, ProductsRight, CallRight, LadderRight
<1> QED
  BY <1>3, <1>4, <1>5 DEF IInv

(* EDB_SetUp fills the row.                                                *)
LEMMA EncodeStep ==
  ASSUME IInv, EncodeEntry
  PROVE  IInv'
<1>1. yid' \in Scalars
  <2> DEFINE y == ECC_MUL(xid, ECC_FPINV(zw))
  <2>1. xid \in Units /\ zw \in Units
    BY DEF IInv, InputsAreUnits
  <2>2. y \in Units
    BY <2>1, RowInverts
  <2> QED
    BY <2>2, UnitType DEF EncodeEntry
<1>2. TypeOK'
  BY <1>1 DEF IInv, TypeOK, EncodeEntry, inputs, ladder
<1>3. (InputsAreUnits /\ StageOrder /\ RowRight)'
  BY DEF IInv, InputsAreUnits, StageOrder, RowRight, EncodeEntry, inputs, ladder
<1>4. (ProductsRight /\ CallRight /\ LadderRight)'
  BY DEF IInv, StageOrder, ProductsRight, CallRight, LadderRight, EncodeEntry,
         inputs, ladder
<1> QED
  BY <1>2, <1>3, <1>4 DEF IInv

(* A call of ScalarMul with the scalar and the base of its stage.          *)
LEMMA CallStep ==
  ASSUME IInv, pc = "form", stage # "tested",
         NEW c \in Coordinates, c = Mul(StartMultiple)[1],
         Call(ScalarOfStage, c)
  PROVE  IInv'
<1> DEFINE s == ScalarOfStage
           b == StartMultiple
<1>1. s \in Scalars /\ b \in Int /\ ~Divides(Prime, b)
  BY StageUnits, UnitType
<1>2. /\ UNCHANGED <<kx, xid, zw, fw1, yid, stage, product>>
      /\ sca' = s /\ base' = c /\ scalen' = TopBit(s)
      /\ p1' = <<c, 1>> /\ p2' = <<1, 0>> /\ pc' = "ladder"
  BY DEF Call, inputs
<1>3. StartMultiple' = b /\ ScalarOfStage' = s
  BY <1>2 DEF StartMultiple, ScalarOfStage
<1> HIDE DEF s, b
<1>4. TypeOK'
  <2>1. TopBit(s) \in 0..Prime-1
    BY <1>1, TopBitRight
  <2>2. TopBit(s) \in -1..Prime-1
    BY <2>1, OrderType
  <2>3. 0 \in Coordinates /\ 1 \in Coordinates
    BY CurveType
  <2> QED
    BY <1>1, <1>2, <2>2, <2>3 DEF IInv, TypeOK
<1>5. (InputsAreUnits /\ StageOrder /\ RowRight)'
  BY <1>2 DEF IInv, InputsAreUnits, StageOrder, RowRight
<1>6. (ProductsRight /\ CallRight)'
  BY <1>2, <1>3 DEF IInv, ProductsRight, CallRight, b
<1>7. LadderRight'
  <2>1. c = Mul(b)[1]
    BY DEF b
  <2>2. LET done == s \div Pow2[TopBit(s) + 1]
        IN Stands(<<1, 0>>, done * b) /\ Stands(<<c, 1>>, (done + 1) * b)
    BY <1>1, <2>1, CallStands
  <2> QED
    BY <1>2, <1>3, <2>2 DEF LadderRight
<1> QED
  BY <1>4, <1>5, <1>6, <1>7 DEF IInv

LEMMA FormStep ==
  ASSUME IInv, FormXtag \/ FormToken \/ FormTag
  PROVE  IInv'
<1>1. CASE FormXtag
  <2>1. /\ pc = "form" /\ stage = "xtag" /\ Call(ScalarOfStage, ecc_basep)
        /\ StartMultiple = 1
    BY <1>1 DEF FormXtag, ScalarOfStage, StartMultiple
  <2> QED
    BY <2>1, MulOne, CurveAssumption, CallStep
<1>2. CASE FormToken
  <2>1. /\ pc = "form" /\ stage = "xtoken" /\ Call(ScalarOfStage, ecc_basep)
        /\ StartMultiple = 1
    BY <1>2 DEF FormToken, ScalarOfStage, StartMultiple
  <2> QED
    BY <2>1, MulOne, CurveAssumption, CallStep
<1>3. CASE FormTag
  <2>1. /\ pc = "form" /\ stage = "tag" /\ StartMultiple = kx * fw1
        /\ Call(ScalarOfStage, product["xtoken"])
    BY <1>3 DEF FormTag, ScalarOfStage, StartMultiple
  <2>2. product["xtoken"] \in Coordinates /\ product["xtoken"] = Mul(kx * fw1)[1]
    BY <2>1 DEF IInv, TypeOK, Stages, ProductsRight
  <2> QED
    BY <2>1, <2>2, CallStep
<1> QED
  BY <1>1, <1>2, <1>3

(* A bit of the scalar, in one of the two orders of the points.            *)
LEMMA BitInvariant ==
  ASSUME IInv, LadderOne \/ LadderZero
  PROVE  IInv'
<1> DEFINE b == StartMultiple
           d == sca \div Pow2[scalen + 1]
           s == sca
           t == scalen
<1>1. /\ pc = "ladder" /\ scalen >= 0 /\ scalen' = scalen - 1
      /\ UNCHANGED <<kx, xid, zw, fw1, yid, stage, pc, sca, base, product>>
  BY DEF LadderOne, LadderZero, inputs
<1>2. /\ s \in Scalars /\ t \in 0..Prime-1 /\ base \in Coordinates
      /\ p1 \in Coordinates \X Coordinates /\ p2 \in Coordinates \X Coordinates
  BY <1>1, OrderType DEF IInv, TypeOK
<1>3. b \in Int /\ ~Divides(Prime, b) /\ base = Mul(b)[1]
  BY <1>1, StageUnits DEF IInv, CallRight
<1>4. Stands(p2, d * b) /\ Stands(p1, (d + 1) * b)
  BY <1>1 DEF IInv, LadderRight
<1>5. d \in Nat /\ sca \div Pow2[scalen] = 2 * d + Bit(s, t)
  BY <1>2, BitStep
<1>6. /\ (scalen' + 1) = scalen
      /\ StartMultiple' = b /\ ScalarOfStage' = ScalarOfStage
  <2>1. t \in Int
    BY <1>2, OrderType
  <2> QED
    BY <1>1, <2>1 DEF StartMultiple, ScalarOfStage
<1>7. ASSUME /\ p1' \in Coordinates \X Coordinates
             /\ p2' \in Coordinates \X Coordinates
             /\ Stands(p2', (2 * d + Bit(s, t)) * b)
             /\ Stands(p1', (2 * d + Bit(s, t) + 1) * b)
      PROVE  IInv'
  <2>1. TypeOK'
    <3>1. scalen' \in -1..Prime-1
      BY <1>1, <1>2, OrderType
    <3> QED
      BY <1>1, <1>7, <3>1 DEF IInv, TypeOK
  <2>2. (InputsAreUnits /\ StageOrder /\ RowRight)'
    BY <1>1 DEF IInv, InputsAreUnits, StageOrder, RowRight
  <2>3. (ProductsRight /\ CallRight)'
    BY <1>1, <1>6 DEF IInv, ProductsRight, CallRight
  <2>4. sca' \div Pow2[scalen' + 1] = 2 * d + Bit(s, t)
    BY <1>1, <1>5, <1>6
  <2>5. LadderRight'
    <3> HIDE DEF b, d, s, t
    <3> QED
      BY <1>6, <1>7, <2>4 DEF LadderRight
  <2> QED
    BY <2>1, <2>2, <2>3, <2>5 DEF IInv
<1> DEFINE j == d * b
           k == (d + 1) * b
<1>8. /\ j \in Int /\ k \in Int /\ k = j + b
      /\ 2 * k = (2 * d + 1 + 1) * b /\ k + j = (2 * d + 1) * b
      /\ 2 * j = (2 * d + 0) * b /\ j + k = (2 * d + 0 + 1) * b
  <2> HIDE DEF b, d
  <2> QED
    BY <1>3, <1>5
<1>9. CASE LadderOne
  <2>1. /\ Bit(s, t) = 1
        /\ p1' = DoubleAndAdd(p1, p2, base)[1] /\ p2' = DoubleAndAdd(p1, p2, base)[2]
    BY <1>9 DEF LadderOne
  <2> HIDE DEF b, d, s, t
  <2>2. Stands(p1, k) /\ Stands(p2, j)
    BY <1>4
  <2> HIDE DEF j, k
  <2>3. /\ DoubleAndAdd(p1, p2, base)
              \in (Coordinates \X Coordinates) \X (Coordinates \X Coordinates)
        /\ Stands(DoubleAndAdd(p1, p2, base)[1], 2 * k)
        /\ Stands(DoubleAndAdd(p1, p2, base)[2], k + j)
    BY <1>2, <1>3, <1>8, <2>2, LadderStep
  <2> QED
    BY <1>7, <1>8, <2>1, <2>3
<1>10. CASE LadderZero
  <2>1. /\ Bit(s, t) = 0
        /\ p2' = DoubleAndAdd(p2, p1, base)[1] /\ p1' = DoubleAndAdd(p2, p1, base)[2]
    BY <1>10 DEF LadderZero
  <2> HIDE DEF b, d, s, t
  <2>2. Stands(p1, k) /\ Stands(p2, j)
    BY <1>4
  <2> HIDE DEF j, k
  <2>3. /\ DoubleAndAdd(p2, p1, base)
              \in (Coordinates \X Coordinates) \X (Coordinates \X Coordinates)
        /\ Stands(DoubleAndAdd(p2, p1, base)[1], 2 * j)
        /\ Stands(DoubleAndAdd(p2, p1, base)[2], j + k)
    BY <1>2, <1>3, <1>8, <2>2, LadderStep
  <2> QED
    BY <1>7, <1>8, <2>1, <2>3
<1> QED
  BY <1>9, <1>10

(* After bit 0 the product is that of the scalar and the base.             *)
LEMMA EndInvariant ==
  ASSUME IInv, LadderEnd
  PROVE  IInv'
<1> DEFINE b == StartMultiple
           s == sca
           x == Affine(p2)
<1>1. /\ pc = "ladder" /\ scalen < 0
      /\ UNCHANGED <<kx, xid, zw, fw1, yid, sca, scalen, base, p1, p2>>
      /\ product' = [product EXCEPT ![stage] = x]
      /\ stage' = NextStage /\ pc' = "form"
  BY DEF LadderEnd, inputs, ladder
<1>2. /\ s \in Scalars /\ scalen = -1
      /\ p2 \in Coordinates \X Coordinates
      /\ stage \in Stages /\ product \in [Stages -> Coordinates]
  BY <1>1, OrderType DEF IInv, TypeOK, StageOrder
<1>3. b \in Int /\ ~Divides(Prime, b) /\ s = ScalarOfStage /\ s \in Units
  BY <1>1, StageUnits DEF IInv, CallRight
<1>4. sca \div Pow2[scalen + 1] = s
  <2>1. Pow2[scalen + 1] = 1
    BY <1>2, Pow2Values
  <2> QED
    BY <2>1, <1>3, UnitType
<1>5. Stands(p2, s * b)
  BY <1>1, <1>4 DEF IInv, LadderRight
<1>6. s * b \in Int /\ ~Divides(Prime, s * b)
  <2> HIDE DEF s, b
  <2>1. s \in Int /\ ~Divides(Prime, s)
    BY <1>3, UnitType
  <2> QED
    BY <1>3, <2>1, OrderType, UnitProduct
<1>7. x = Mul(s * b)[1] /\ x \in Coordinates
  BY <1>2, <1>5, <1>6, AffineRight
<1> HIDE DEF x
<1>8. CASE stage = "xtag"
  <2>1. x = Mul(kx * xid)[1]
    <3>1. b = 1 /\ s = ECC_MUL(kx, xid)
      BY <1>8, <1>3 DEF StartMultiple, ScalarOfStage
    <3>2. Divides(Prime, s * b - kx * xid) /\ kx * xid \in Int
      <4>1. /\ kx \in Int /\ xid \in Int /\ kx * xid \in Int
            /\ ECC_MUL(kx, xid) \in Int
            /\ Divides(Prime, ECC_MUL(kx, xid) - kx * xid)
        BY StageUnits, ECC_MULRight
      <4>2. s * b = ECC_MUL(kx, xid)
        BY <3>1, <4>1
      <4> QED
        BY <4>1, <4>2
    <3>3. Mul(s * b) = Mul(kx * xid)
      <4> HIDE DEF s, b
      <4> QED
        BY <3>2, <1>6, MulSame
    <3> QED
      BY <3>3, <1>7
  <2>2. stage' = "xtoken" /\ product'["xtag"] = Mul(kx * xid)[1]
    BY <1>1, <1>2, <1>8, <2>1 DEF NextStage
  <2>3. ProductsRight'
    BY <1>1, <2>2 DEF ProductsRight
  <2>4. (TypeOK /\ StageOrder)'
    BY <1>1, <1>2, <1>7, <2>2 DEF IInv, TypeOK, StageOrder, Stages
  <2>5. (InputsAreUnits /\ RowRight /\ CallRight /\ LadderRight)'
    BY <1>1 DEF IInv, InputsAreUnits, RowRight, CallRight, LadderRight
  <2> QED
    BY <2>3, <2>4, <2>5 DEF IInv
<1>9. CASE stage = "xtoken"
  <2>1. x = Mul(kx * fw1)[1]
    <3>1. b = 1 /\ s = ECC_MUL(kx, fw1)
      BY <1>9, <1>3 DEF StartMultiple, ScalarOfStage
    <3>2. Divides(Prime, s * b - kx * fw1) /\ kx * fw1 \in Int
      <4>1. /\ kx \in Int /\ fw1 \in Int /\ kx * fw1 \in Int
            /\ ECC_MUL(kx, fw1) \in Int
            /\ Divides(Prime, ECC_MUL(kx, fw1) - kx * fw1)
        BY StageUnits, ECC_MULRight
      <4>2. s * b = ECC_MUL(kx, fw1)
        BY <3>1, <4>1
      <4> QED
        BY <4>1, <4>2
    <3>3. Mul(s * b) = Mul(kx * fw1)
      <4> HIDE DEF s, b
      <4> QED
        BY <3>2, <1>6, MulSame
    <3> QED
      BY <3>3, <1>7
  <2>2. /\ stage' = "tag" /\ product'["xtoken"] = Mul(kx * fw1)[1]
        /\ product'["xtag"] = Mul(kx * xid)[1]
    BY <1>1, <1>2, <1>9, <2>1 DEF NextStage, IInv, ProductsRight, Stages
  <2>3. ProductsRight'
    BY <1>1, <2>2 DEF ProductsRight
  <2>4. (TypeOK /\ StageOrder)'
    BY <1>1, <1>2, <1>7, <2>2 DEF IInv, TypeOK, StageOrder, Stages
  <2>5. (InputsAreUnits /\ RowRight /\ CallRight /\ LadderRight)'
    BY <1>1 DEF IInv, InputsAreUnits, RowRight, CallRight, LadderRight
  <2> QED
    BY <2>3, <2>4, <2>5 DEF IInv
<1>10. CASE stage = "tag"
  <2>1. x = Mul(yid * (kx * fw1))[1]
    BY <1>3, <1>7, <1>10 DEF StartMultiple, ScalarOfStage
  <2>2. /\ stage' = "tested" /\ product'["tag"] = Mul(yid * (kx * fw1))[1]
        /\ product'["xtag"] = Mul(kx * xid)[1]
        /\ product'["xtoken"] = Mul(kx * fw1)[1]
    BY <1>1, <1>2, <1>10, <2>1 DEF NextStage, IInv, ProductsRight, Stages
  <2>3. ProductsRight'
    BY <1>1, <2>2 DEF ProductsRight
  <2>4. (TypeOK /\ StageOrder)'
    BY <1>1, <1>2, <1>7, <2>2 DEF IInv, TypeOK, StageOrder, Stages
  <2>5. (InputsAreUnits /\ RowRight /\ CallRight /\ LadderRight)'
    BY <1>1 DEF IInv, InputsAreUnits, RowRight, CallRight, LadderRight
  <2> QED
    BY <2>3, <2>4, <2>5 DEF IInv
<1> QED
  BY <1>2, <1>8, <1>9, <1>10 DEF Stages

LEMMA Inductive == Spec => []IInv
<1>1. Init => IInv
  BY InitIInv
<1>2. IInv /\ [Next]_vars => IInv'
  <2> SUFFICES ASSUME IInv, [Next]_vars
               PROVE  IInv'
    OBVIOUS
  <2>1. CASE EncodeEntry
    BY <2>1, EncodeStep
  <2>2. CASE FormXtag \/ FormToken \/ FormTag
    BY <2>2, FormStep
  <2>3. CASE LadderOne \/ LadderZero
    BY <2>3, BitInvariant
  <2>4. CASE LadderEnd
    BY <2>4, EndInvariant
  <2>5. CASE UNCHANGED vars
    <3>1. (TypeOK /\ InputsAreUnits /\ StageOrder /\ RowRight)'
      BY <2>5 DEF vars, inputs, ladder, IInv, TypeOK, InputsAreUnits, StageOrder,
                  RowRight
    <3>2. (ProductsRight /\ CallRight)'
      BY <2>5 DEF vars, inputs, ladder, IInv, ProductsRight, CallRight,
                  ScalarOfStage, StartMultiple
    <3>3. LadderRight'
      BY <2>5 DEF vars, inputs, ladder, IInv, LadderRight, StartMultiple
    <3> QED
      BY <3>1, <3>2, <3>3 DEF IInv
  <2> QED
    BY <2>1, <2>2, <2>3, <2>4, <2>5 DEF Next
<1> QED
  BY <1>1, <1>2, PTL DEF Spec

(* Scalars stay below the order of the base point, coordinates below the   *)
(* prime of the field, whichever way EDB_SetUp and EDB_Search hand the     *)
(* results of ECC_MUL, ECC_FPINV and ScalarMul to each other.              *)
THEOREM TypeCorrect == Spec => []TypeOK
<1>1. IInv => TypeOK
  BY DEF IInv
<1> QED
  BY <1>1, Inductive, PTL

(* ScalarMul is right at each bit, for every curve, base point and scalar: *)
(* the two points of the ladder stand for the multiples by the bits that   *)
(* are done and by one more, when either of them is infinity too.          *)
THEOREM LadderMultiplies == Spec => []LadderRight
<1>1. IInv => LadderRight
  BY DEF IInv
<1> QED
  BY <1>1, Inductive, PTL

(* The tags, in units modulo the order.                                    *)
LEMMA TagsMeetUnits ==
  ASSUME NEW k \in Units, NEW x \in Units, NEW z \in Units, NEW f \in Units,
         NEW y \in Units, Divides(Prime, y * z - x)
  PROVE  Mul(y * (k * f))[1] = Mul(k * x)[1] <=> f = z \/ f + z = Prime
<1>1. /\ Prime \in Nat /\ Prime # 0 /\ Prime \in {Prime, ECC_Prime}
      /\ k \in Int /\ x \in Int /\ z \in Int /\ f \in Int /\ y \in Int
      /\ ~Divides(Prime, k) /\ ~Divides(Prime, x) /\ ~Divides(Prime, f)
      /\ ~Divides(Prime, y)
  BY OrderType, UnitType
<1>2. PICK q \in Int : y * z - x = Prime * q
  BY DEF Divides
<1> DEFINE kf == k * f
           kx0 == k * x
           g == y * kf
           ky == k * y
           minus == f - z
           plus == f + z
<1>3. /\ kf \in Int /\ kx0 \in Int /\ g \in Int /\ ky \in Int
      /\ minus \in Int /\ plus \in Int
  BY <1>1
<1>4. g - kx0 = ky * minus + Prime * (k * q)
  <2>1. x = y * z - Prime * q
    BY <1>1, <1>2
  <2>2. k * x = k * (y * z - Prime * q)
    BY <2>1
  <2> QED
    BY <2>2, <1>1
<1>5. g + kx0 = ky * plus - Prime * (k * q)
  <2>1. x = y * z - Prime * q
    BY <1>1, <1>2
  <2>2. k * x = k * (y * z - Prime * q)
    BY <2>1
  <2> QED
    BY <2>2, <1>1
<1>6. /\ ~Divides(Prime, kf) /\ ~Divides(Prime, kx0) /\ ~Divides(Prime, ky)
  BY <1>1, UnitProduct
<1>7. minus = 0 <=> f = z
  BY <1>1
<1>8. /\ minus > -Prime /\ minus < Prime /\ plus > 0 /\ plus < 2 * Prime
  BY <1>1 DEF Units
<1>9. k * q \in Int
  BY <1>1
<1>10. ~Divides(Prime, g)
  <2> HIDE DEF kf
  <2> QED
    BY <1>1, <1>3, <1>6, UnitProduct
<1>11. Mul(g)[1] = Mul(kx0)[1] <=> Divides(Prime, g - kx0) \/ Divides(Prime, g + kx0)
  <2> HIDE DEF g, kx0
  <2> QED
    BY <1>3, <1>6, <1>10, MulSameX
<1> HIDE DEF g, kx0, ky, kf
<1>12. Divides(Prime, g - kx0) <=> Divides(Prime, minus)
  <2>1. ASSUME Divides(Prime, g - kx0)
        PROVE  Divides(Prime, minus)
    <3>1. PICK t \in Int : g - kx0 = Prime * t
      BY <2>1 DEF Divides
    <3>2. ky * minus = Prime * (t - k * q) /\ t - k * q \in Int
      BY <3>1, <1>1, <1>3, <1>4, <1>9
    <3>3. Divides(Prime, ky * minus)
      BY <3>2 DEF Divides
    <3> HIDE DEF minus
    <3> QED
      BY <3>3, <1>1, <1>3, <1>6, NoZeroDivisors
  <2>2. ASSUME Divides(Prime, minus)
        PROVE  Divides(Prime, g - kx0)
    <3>1. PICK t \in Int : minus = Prime * t
      BY <2>2 DEF Divides
    <3> HIDE DEF minus
    <3>2. ky * minus = ky * (Prime * t)
      BY <3>1
    <3>3. g - kx0 = Prime * (ky * t + k * q) /\ ky * t + k * q \in Int
      BY <3>2, <1>1, <1>3, <1>4, <1>9
    <3> QED
      BY <3>3 DEF Divides
  <2> QED
    BY <2>1, <2>2
<1>13. Divides(Prime, g + kx0) <=> Divides(Prime, plus)
  <2>1. ASSUME Divides(Prime, g + kx0)
        PROVE  Divides(Prime, plus)
    <3>1. PICK t \in Int : g + kx0 = Prime * t
      BY <2>1 DEF Divides
    <3>2. ky * plus = Prime * (t + k * q) /\ t + k * q \in Int
      BY <3>1, <1>1, <1>3, <1>5, <1>9
    <3>3. Divides(Prime, ky * plus)
      BY <3>2 DEF Divides
    <3> HIDE DEF plus
    <3> QED
      BY <3>3, <1>1, <1>3, <1>6, NoZeroDivisors
  <2>2. ASSUME Divides(Prime, plus)
        PROVE  Divides(Prime, g + kx0)
    <3>1. PICK t \in Int : plus = Prime * t
      BY <2>2 DEF Divides
    <3> HIDE DEF plus
    <3>2. ky * plus = ky * (Prime * t)
      BY <3>1
    <3>3. g + kx0 = Prime * (ky * t - k * q) /\ ky * t - k * q \in Int
      BY <3>2, <1>1, <1>3, <1>5, <1>9
    <3> QED
      BY <3>3 DEF Divides
  <2> QED
    BY <2>1, <2>2
<1>14. Divides(Prime, minus) <=> minus = 0
  <2>1. f \in 0..Prime-1 /\ z \in 0..Prime-1
    BY <1>1 DEF Units
  <2>2. Divides(Prime, minus) => f = z
    BY <2>1, <1>1, DividesSmall
  <2>3. minus = 0 => Divides(Prime, minus)
    <3>1. 0 = Prime * 0 /\ 0 \in Int
      BY <1>1
    <3> QED
      BY <3>1 DEF Divides
  <2> QED
    BY <2>2, <2>3, <1>7
<1>15. Divides(Prime, plus) <=> plus = Prime
  <2> HIDE DEF plus
  <2>1. ASSUME Divides(Prime, plus)
        PROVE  plus = Prime
    <3>1. PICK t \in Int : plus = Prime * t
      BY <2>1 DEF Divides
    <3>2. t <= 0 => Prime * t <= 0
      BY <1>1
    <3>3. t >= 2 => Prime * t >= 2 * Prime
      BY <1>1
    <3>4. t = 1
      BY <3>1, <3>2, <3>3, <1>3, <1>8, <1>1
    <3> QED
      BY <3>1, <3>4, <1>1
  <2>2. ASSUME plus = Prime
        PROVE  Divides(Prime, plus)
    <3>1. Prime = Prime * 1 /\ 1 \in Int
      BY <1>1
    <3> QED
      BY <2>2, <3>1 DEF Divides
  <2> QED
    BY <2>1, <2>2
<1> QED
  BY <1>7, <1>11, <1>12, <1>13, <1>14, <1>15 DEF g, kx0, kf

(* The tag of a search is the tag that the set-up put into the filter      *)
(* exactly if search and entry have the same z or opposite ones, for every *)
(* key, id and curve.                                                      *)
THEOREM TagsMeetExactly == Spec => []TagsMeet
<1>1. IInv => TagsMeet
  <2> SUFFICES ASSUME IInv, stage = "tested"
               PROVE  product["tag"] = product["xtag"]
                        <=> fw1 = zw \/ fw1 + zw = Prime
    BY DEF TagsMeet
  <2>1. pc # "encode"
    BY DEF IInv, StageOrder
  <2>2. kx \in Units /\ xid \in Units /\ zw \in Units /\ fw1 \in Units
    BY DEF IInv, InputsAreUnits
  <2>3. yid \in Units /\ Divides(Prime, yid * zw - xid)
    BY <2>1, <2>2, RowInverts DEF IInv, RowRight
  <2>4. /\ product["tag"] = Mul(yid * (kx * fw1))[1]
        /\ product["xtag"] = Mul(kx * xid)[1]
    BY DEF IInv, ProductsRight
  <2> QED
    BY <2>2, <2>3, <2>4, TagsMeetUnits
<1> QED
  BY <1>1, Inductive, PTL
=============================================================================
