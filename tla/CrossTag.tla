------------------------------ MODULE CrossTag ------------------------------
(***************************************************************************)
(* The arithmetic that makes set-up and search agree on a cross tag, for   *)
(* one keyword and one id.  EDB_SetUp stores y = xid / z in the row and    *)
(* puts the tag (kx * xid) G into the Bloom filter.  EDB_Search forms the  *)
(* token (kx * z) G and multiplies it by y: the tag again, if its z is the *)
(* one of the entry.                                                       *)
(*                                                                         *)
(* Scalars are computed modulo Prime, the order of G, and coordinates      *)
(* modulo ECC_Prime.  ScalarMul is the Montgomery ladder over the x        *)
(* coordinate, projective until its end.  The numbers are small here, the  *)
(* formulas those of the code; the widths of the byte strings are not      *)
(* modelled.                                                               *)
(***************************************************************************)
EXTENDS Integers

CONSTANTS ECC_Prime,   (* coordinates are integers modulo ECC_Prime        *)
          Prime,       (* the order of the base point                      *)
          a24,         (* (A + 2) / 4 of the curve y^2 = x^3 + A x^2 + x   *)
          ecc_basep,   (* x coordinate of the base point ...               *)
          base_y       (* ... and its y coordinate, for the reference      *)

Coordinates == 0..ECC_Prime-1
Scalars     == 0..Prime-1

(* a to the power e modulo m.                                              *)
Power(a, e, m) ==
  LET pow[k \in 0..e] == IF k = 0 THEN 1 % m ELSE (a * pow[k-1]) % m
  IN pow[e]

-----------------------------------------------------------------------------
(* The reference: points of the curve by chord and tangent.                *)

A == (4 * a24 - 2) % ECC_Prime
Infinity == <<>>

Over(a, d) == (a * Power(d % ECC_Prime, ECC_Prime - 2, ECC_Prime)) % ECC_Prime

AddPoints(p, q) ==
  LET slope == IF p = q
               THEN Over(3 * p[1] * p[1] + 2 * A * p[1] + 1, 2 * p[2])
               ELSE Over(q[2] - p[2], q[1] - p[1])
      x == (slope * slope - A - p[1] - q[1]) % ECC_Prime
  IN CASE p = Infinity -> q
       [] q = Infinity -> p
       [] p # Infinity /\ q # Infinity /\ p[1] = q[1]
            /\ (p[2] + q[2]) % ECC_Prime = 0 -> Infinity
       [] OTHER -> <<x, (slope * (p[1] - x) - p[2]) % ECC_Prime>>

BasePoint == <<ecc_basep, base_y>>

(* The multiples of the base point.                                        *)
Multiple[k \in 0..Prime] ==
  IF k = 0 THEN Infinity ELSE AddPoints(Multiple[k-1], BasePoint)

ASSUME ModuliAssumption ==
  /\ ECC_Prime \in Nat /\ ECC_Prime > 2
  /\ Prime \in Nat /\ Prime > 2
  /\ a24 \in Nat

(* The base point is on the curve, and Prime is its order.                 *)
ASSUME CurveAssumption ==
  /\ ecc_basep \in Coordinates /\ base_y \in Coordinates
  /\ (base_y * base_y) % ECC_Prime
       = (ecc_basep * (ecc_basep * ecc_basep + A * ecc_basep + 1)) % ECC_Prime
  /\ Multiple[Prime] = Infinity
  /\ \A k \in 1..Prime-1 : Multiple[k] # Infinity

(* Both moduli are primes, so that ECC_FPINV and ScalarMul, which raise to *)
(* the power m - 2, do invert.                                             *)
ASSUME FermatAssumption ==
  \A m \in {Prime, ECC_Prime} :
    \A d \in 1..m-1 : (d * Power(d, m - 2, m)) % m = 1

(* Addition by chord and tangent is associative on the multiples.          *)
ASSUME GroupAssumption ==
  \A j, k \in 0..Prime :
    AddPoints(Multiple[j], AddPoints(Multiple[k], BasePoint))
      = AddPoints(AddPoints(Multiple[j], Multiple[k]), BasePoint)

-----------------------------------------------------------------------------
VARIABLES
  kx, xid,           (* factors of the cross keyword and of the id         *)
  zw, fw1,           (* z of the entry, and z that the search computes     *)
  yid,               (* what the row holds of the id                       *)
  stage,             (* which product is formed, or that all are           *)
  pc,
  sca, scalen,       (* ScalarMul: scalar, next bit                        *)
  base, p1, p2,      (* base coordinate; the points of the ladder          *)
  product            (* results of the calls of ScalarMul                  *)

inputs == <<kx, xid, zw, fw1>>
ladder == <<sca, scalen, base, p1, p2>>
vars == <<inputs, yid, stage, pc, ladder, product>>

Stages == {"xtag", "xtoken", "tag"}

Init ==
  /\ kx \in Scalars \ {0} /\ xid \in Scalars \ {0}
  /\ zw \in Scalars \ {0} /\ fw1 \in Scalars \ {0}
  /\ yid = 0
  /\ stage = "xtag" /\ pc = "encode"
  /\ sca = 0 /\ scalen = 0 /\ base = 0 /\ p1 = <<0, 0>> /\ p2 = <<0, 0>>
  /\ product = [s \in Stages |-> 0]

(* Mutant of ECC_MUL: the modulus of the coordinates.                      *)
ECC_MULField(a, c) == (a * c) % ECC_Prime

ECC_MUL(a, c) == (a * c) % Prime

(* The inverse, by Fermat: InvExp is Prime - 2.                            *)
ECC_FPINV(a) == Power(a, Prime - 2, Prime)

(* The first half of EDB_SetUp: y goes into the row.                       *)
EncodeEntry ==
  /\ pc = "encode"
  /\ yid' = ECC_MUL(xid, ECC_FPINV(zw))
  /\ pc' = "form"
  /\ UNCHANGED <<inputs, stage, ladder, product>>

Pow2[j \in 0..Prime] == IF j = 0 THEN 1 ELSE 2 * Pow2[j-1]

(* The position of the leading bit.                                        *)
TopBit(s) ==
  CHOOSE j \in 0..s : Pow2[j] <= (IF s = 0 THEN 1 ELSE s) /\ s < Pow2[j+1]

Call(s, c) ==
  /\ sca' = s /\ base' = c
  /\ scalen' = TopBit(s)
  /\ p1' = <<c, 1>> /\ p2' = <<1, 0>>
  /\ pc' = "ladder"
  /\ UNCHANGED <<inputs, yid, stage, product>>

(* EDB_SetUp forms the tag of keyword and id ...                           *)
FormXtag ==
  /\ pc = "form" /\ stage = "xtag"
  /\ Call(ECC_MUL(kx, xid), ecc_basep)

(* ... EDB_Search the token of keyword and counter ...                     *)
FormToken ==
  /\ pc = "form" /\ stage = "xtoken"
  /\ Call(ECC_MUL(kx, fw1), ecc_basep)

(* ... and the tag it looks up.                                            *)
FormTag ==
  /\ pc = "form" /\ stage = "tag"
  /\ Call(yid, product["xtoken"])

-----------------------------------------------------------------------------
(* ScalarMul                                                               *)

Field(a) == a % ECC_Prime
Square(a) == Field(a * a)

(* Mutant of DoubleAndAdd: the wrong square in the doubling.               *)
DoubleAndAddOther(q2, q3, X1) ==
  LET sum2  == Square(q2[1] + q2[2])
      diff2 == Square(q2[1] - q2[2])
      cross == Field((q3[1] - q3[2]) * (q2[1] + q2[2]))
      dual  == Field((q3[1] + q3[2]) * (q2[1] - q2[2]))
      e     == Field(sum2 - diff2)
  IN <<<<Field(sum2 * diff2), Field(e * (sum2 + a24 * e))>>,
       <<Square(cross + dual), Field(X1 * Square(cross - dual))>>>>

(* The double of q2, and the sum of q2 and q3, which differ by X1.         *)
DoubleAndAdd(q2, q3, X1) ==
  LET sum2  == Square(q2[1] + q2[2])
      diff2 == Square(q2[1] - q2[2])
      cross == Field((q3[1] - q3[2]) * (q2[1] + q2[2]))
      dual  == Field((q3[1] + q3[2]) * (q2[1] - q2[2]))
      e     == Field(sum2 - diff2)
  IN <<<<Field(sum2 * diff2), Field(e * (diff2 + a24 * e))>>,
       <<Square(cross + dual), Field(X1 * Square(cross - dual))>>>>

Bit(s, j) == (s \div Pow2[j]) % 2

(* A bit of the scalar; the code handles bit 0 after its loop.             *)
LadderOne ==
  /\ pc = "ladder" /\ scalen >= 0 /\ Bit(sca, scalen) = 1
  /\ p1' = DoubleAndAdd(p1, p2, base)[1] /\ p2' = DoubleAndAdd(p1, p2, base)[2]
  /\ scalen' = scalen - 1
  /\ UNCHANGED <<inputs, yid, stage, pc, sca, base, product>>

LadderZero ==
  /\ pc = "ladder" /\ scalen >= 0 /\ Bit(sca, scalen) = 0
  /\ p2' = DoubleAndAdd(p2, p1, base)[1] /\ p1' = DoubleAndAdd(p2, p1, base)[2]
  /\ scalen' = scalen - 1
  /\ UNCHANGED <<inputs, yid, stage, pc, sca, base, product>>

(* Mutant of Affine: the product is not reduced.                           *)
AffineWide(p) == p[1] * Power(p[2], ECC_Prime - 2, ECC_Prime)

Affine(p) == Field(p[1] * Power(p[2], ECC_Prime - 2, ECC_Prime))

NextStage ==
  CASE stage = "xtag" -> "xtoken" [] stage = "xtoken" -> "tag"
    [] stage = "tag" -> "tested"

LadderEnd ==
  /\ pc = "ladder" /\ scalen < 0
  /\ product' = [product EXCEPT ![stage] = Affine(p2)]
  /\ stage' = NextStage
  /\ pc' = "form"
  /\ UNCHANGED <<inputs, yid, ladder>>

Next ==
  \/ EncodeEntry
  \/ FormXtag \/ FormToken \/ FormTag
  \/ LadderOne \/ LadderZero \/ LadderEnd

Spec == Init /\ [][Next]_vars

-----------------------------------------------------------------------------
(* Properties                                                              *)

(* Scalars stay below the order, coordinates below the field's prime.      *)
TypeOK ==
  /\ {kx, xid, zw, fw1, yid, sca} \subseteq Scalars
  /\ stage \in Stages \cup {"tested"} /\ pc \in {"encode", "form", "ladder"}
  /\ base \in Coordinates /\ scalen \in -1..Prime-1
  /\ p1 \in Coordinates \X Coordinates /\ p2 \in Coordinates \X Coordinates
  /\ product \in [Stages -> Coordinates]

(* A projective pair stands for the multiple k of the base point.          *)
Stands(p, k) ==
  LET point == Multiple[k % Prime]
  IN IF point = Infinity THEN p[2] = 0 /\ p[1] # 0
     ELSE p[2] # 0 /\ p[1] = Field(point[1] * p[2])

(* The multiple of the base point that the ladder starts from.             *)
StartMultiple == IF stage = "tag" THEN kx * fw1 ELSE 1

(* At every bit p2 and p1 are the multiples by the bits of the scalar that *)
(* are done, and by one more: the ladder multiplies for every scalar and   *)
(* every base, and never meets a case its formulas do not cover.           *)
LadderRight ==
  pc = "ladder" =>
    LET done == sca \div Pow2[scalen + 1]
    IN /\ Stands(p2, done * StartMultiple)
       /\ Stands(p1, (done + 1) * StartMultiple)

(* The tag that a search forms is the one that the set-up put into the     *)
(* filter exactly if search and entry have the same z, or opposite ones,   *)
(* which the x coordinate does not tell apart.                             *)
TagsMeet ==
  stage = "tested" =>
    (product["tag"] = product["xtag"] <=> fw1 = zw \/ fw1 + zw = Prime)

=============================================================================
