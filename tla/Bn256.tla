-------------------------------- MODULE Bn256 --------------------------------
(***************************************************************************)
(* crypto/bn256/google: gfP2 = GF(p)[i], i^2 = -1, the curve y^2 = x^3 + b *)
(* over GF(p) and the encodings, with the tower, the twist and the pairing *)
(* of Bn256Tower over them.  As in the code a coefficient is an integer    *)
(* that additions, subtractions, negations and the product with xi = i + 9 *)
(* leave unreduced and that only products take modulo P, so a test for     *)
(* zero may look at an unreduced number.                                   *)
(*                                                                         *)
(* BnU is the parameter u of the family and XiReal the 9 of xi.  With      *)
(* u = 1 the family gives P = 103 and Order = 97, which leaves all control *)
(* of the code in place and fits the integers of the model checker.        *)
(***************************************************************************)
EXTENDS Integers, Sequences

CONSTANTS BnU,           \* u, the parameter of the curve family
          P,             \* the prime
          Order,         \* the number of elements of the groups
          XiReal,        \* the real part of xi
          CurveB,        \* b
          CurveX,        \* the coordinates of the generator of G1
          CurveY,
          TwistX,        \* and of G2, elements of gfP2
          TwistY,
          SixuPlus2NAF   \* the digits of 6u+2, lowest first

ASSUME FamilyAssumption ==
    /\ P = 36 * BnU^4 + 36 * BnU^3 + 24 * BnU^2 + 6 * BnU + 1
    /\ Order = 36 * BnU^4 + 36 * BnU^3 + 18 * BnU^2 + 6 * BnU + 1

(* big.Int.Mod. *)
Mod(a) == a % P

(* big.Int.ModInverse, P being prime. *)
Inverses == [a \in 0..(P - 1) |-> CHOOSE b \in 0..(P - 1) : (a = 0 /\ b = 0) \/ Mod(a * b) = 1]
ModInverse(a) == Inverses[Mod(a)]

-----------------------------------------------------------------------------
(* gfP2: x*i + y. *)

gfP2(x, y) == [x |-> x, y |-> y]
Zero2 == gfP2(0, 0)
One2 == gfP2(0, 1)
Minimal2(a) == gfP2(Mod(a.x), Mod(a.y))
IsZero2(a) == a.x = 0 /\ a.y = 0

(* Bits drops the sign: -1 has the words of 1. *)
IsOne2(a) == a.x = 0 /\ a.y \in {1, -1}
Conjugate2(a) == gfP2(-a.x, a.y)
Negative2(a) == gfP2(-a.x, -a.y)
Add2(a, b) == gfP2(a.x + b.x, a.y + b.y)
Sub2(a, b) == gfP2(a.x - b.x, a.y - b.y)
Double2(a) == gfP2(2 * a.x, 2 * a.y)
Mul2(a, b) == gfP2(Mod(a.x * b.y + b.x * a.y), Mod(a.y * b.y - a.x * b.x))

(* The code leaves the product unreduced; the model reduces it, since the  *)
(* products of such products would leave the model checker's integers.     *)
MulScalar2(a, b) == gfP2(Mod(a.x * b), Mod(a.y * b))
MulXi2(a) == gfP2(XiReal * a.x + a.y, XiReal * a.y - a.x)
Square2(a) == gfP2(Mod(2 * a.x * a.y), Mod((a.y - a.x) * (a.x + a.y)))
Invert2(a) ==
    LET inv == ModInverse(Mod(a.y * a.y + a.x * a.x))
    IN  gfP2(Mod(-a.x * inv), Mod(a.y * inv))

(* The bits of power from the highest: square, and multiply where it is set. *)
RECURSIVE Exp2(_, _)
Exp2(a, power) ==
    IF power = 0 THEN One2
    ELSE LET t == Square2(Exp2(a, power \div 2))
         IN  IF power % 2 = 1 THEN Mul2(t, a) ELSE t

(* The constants of constants.go. *)
Xi == gfP2(1, XiReal)
XiToPMinus1Over6 == Exp2(Xi, (P - 1) \div 6)
XiToPMinus1Over3 == Exp2(Xi, (P - 1) \div 3)
XiToPMinus1Over2 == Exp2(Xi, (P - 1) \div 2)
XiTo2PMinus2Over3 == Exp2(Xi, (2 * P - 2) \div 3)
XiToPSquaredMinus1Over3 == Exp2(Xi, (P * P - 1) \div 3).y
XiTo2PSquaredMinus2Over3 == Exp2(Xi, (2 * P * P - 2) \div 3).y
XiToPSquaredMinus1Over6 == Exp2(Xi, (P * P - 1) \div 6).y

(* twist.go: b/xi. *)
TwistB == Mul2(gfP2(0, CurveB), Invert2(Xi))

INSTANCE Bn256Tower

-----------------------------------------------------------------------------
(* curve.go.  The field t is never read and is left out. *)

curvePoint(x, y, z) == [x |-> x, y |-> y, z |-> z]
CurveGen == curvePoint(CurveX, CurveY, 1)
NewCurvePoint == curvePoint(0, 0, 0)

IsOnCurve(c) == Mod(Mod(c.y * c.y) - Mod(c.x * c.x) * c.x - CurveB) = 0
IsInfinity(c) == c.z = 0

(* aliased: the receiver is a, whose y has been overwritten with the y of  *)
(* the result when it is read for z.                                       *)
CurveDouble(a, aliased) ==
    LET A == Mod(a.x * a.x)
        B == Mod(a.y * a.y)
        C == Mod(B * B)
        d == 2 * (Mod((a.x + B) * (a.x + B)) - A - C)
        e == 3 * A
        x == Mod(e * e) - 2 * d
        y == Mod(e * (d - x)) - 8 * C
    IN  curvePoint(x, y, 2 * Mod((IF aliased THEN y ELSE a.y) * a.z))

CurveAdd(a, b, aliased) ==
    LET z1z1 == Mod(a.z * a.z)
        z2z2 == Mod(b.z * b.z)
        u1 == Mod(a.x * z2z2)
        u2 == Mod(b.x * z1z1)
        s1 == Mod(a.y * Mod(b.z * z2z2))
        s2 == Mod(b.y * Mod(a.z * z1z1))
        h == u2 - u1
        i == Mod(4 * h * h)
        j == Mod(h * i)
        r == 2 * (s2 - s1)
        v == Mod(u1 * i)
        x == Mod(r * r) - j - 2 * v
        y == Mod(r * (v - x)) - 2 * Mod(s1 * j)
        z == Mod((Mod((a.z + b.z) * (a.z + b.z)) - z1z1 - z2z2) * h)
    IN  CASE IsInfinity(a) -> b
          [] IsInfinity(b) /\ ~IsInfinity(a) -> a
          [] ~IsInfinity(a) /\ ~IsInfinity(b) /\ h = 0 /\ s2 - s1 = 0 -> CurveDouble(a, aliased)
          [] OTHER -> curvePoint(x, y, z)

(* Double and add from the highest bit; the sum starts at infinity. *)
RECURSIVE CurveMul(_, _)
CurveMul(a, scalar) ==
    IF scalar = 0 THEN CurveDouble(NewCurvePoint, FALSE)
    ELSE With(CurveMul(a, scalar \div 2), LAMBDA sum :
         With(CurveDouble(sum, FALSE), LAMBDA t : IF scalar % 2 = 1 THEN CurveAdd(t, a, FALSE) ELSE t))

(* z = -1 has the words of 1, too. *)
CurveMakeAffine(c) ==
    LET zInv == ModInverse(c.z)
        zInv2 == Mod(zInv * zInv)
    IN  CASE c.z \in {1, -1} -> c
          [] c.z \notin {1, -1} /\ IsInfinity(c) -> curvePoint(0, 1, 0)
          [] OTHER -> curvePoint(Mod(c.x * zInv2), Mod(Mod(c.y * zInv) * zInv2), 1)

(* A mutant: the point itself. *)
CurveNegativeNot(a) == a

CurveNegative(a) == [a EXCEPT !.y = -a.y]

-----------------------------------------------------------------------------
TwistGen == twistPoint(TwistX, TwistY, One2, One2)

(* bn256.go.  An encoding is the list of its numbers, one per 32 bytes. *)

Marshal1(p) ==
    IF IsInfinity(p) THEN <<0, 0>> ELSE LET a == CurveMakeAffine(p) IN <<Mod(a.x), Mod(a.y)>>

Refused == [err |-> TRUE, p |-> 0]

Unmarshal1(m) ==
    CASE Len(m) # 2 \/ \E i \in 1..Len(m) : m[i] >= P -> Refused
      [] Len(m) = 2 /\ m = <<0, 0>> -> [err |-> FALSE, p |-> curvePoint(0, 1, 0)]
      [] OTHER -> LET c == curvePoint(m[1], m[2], 1)
                  IN  IF IsOnCurve(c) THEN [err |-> FALSE, p |-> c] ELSE Refused

Marshal2(p) ==
    IF TwistIsInfinity(p) THEN <<0, 0, 0, 0>>
    ELSE LET a == TwistMakeAffine(p) IN <<Mod(a.x.x), Mod(a.x.y), Mod(a.y.x), Mod(a.y.y)>>

Unmarshal2(m) ==
    CASE Len(m) # 4 \/ \E i \in 1..Len(m) : m[i] >= P -> Refused
      [] Len(m) = 4 /\ m = <<0, 0, 0, 0>> -> [err |-> FALSE, p |-> twistPoint(Zero2, One2, Zero2, Zero2)]
      [] OTHER -> LET c == twistPoint(gfP2(m[1], m[2]), gfP2(m[3], m[4]), One2, One2)
                  IN  IF TwistIsOnCurve(c) THEN [err |-> FALSE, p |-> c] ELSE Refused

Numbers2(a) == <<a.x, a.y>>
Numbers6(a) == Numbers2(a.x) \o Numbers2(a.y) \o Numbers2(a.z)
MarshalT(p) == LET e == Minimal12(p) IN Numbers6(e.x) \o Numbers6(e.y)

(* No coordinate is compared with P and no element is checked. *)
UnmarshalT(m) ==
    LET g(i) == gfP2(m[i], m[i + 1])
    IN  gfP12(gfP6(g(1), g(3), g(5)), gfP6(g(7), g(9), g(11)))

PairWith(naf, g1, g2) == OptimalAte(naf, g2, CurveMakeAffine(g1), IsInfinity(g1))
Pair(g1, g2) == PairWith(SixuPlus2NAF, g1, g2)

RECURSIVE PairingProduct(_, _)
PairingProduct(a, b) ==
    IF a = <<>> THEN One12
    ELSE LET rest == PairingProduct(SubSeq(a, 1, Len(a) - 1), SubSeq(b, 1, Len(b) - 1))
             p == a[Len(a)]
             q == b[Len(b)]
         IN  IF IsInfinity(p) \/ TwistIsInfinity(q) THEN rest
             ELSE With(Miller(SixuPlus2NAF, q, CurveMakeAffine(p)), LAMBDA e : Mul12(rest, e))

PairingCheck(a, b) == \E acc \in {PairingProduct(a, b)} : IsOne12(FinalExponentiation(acc))

-----------------------------------------------------------------------------
(* Reference definitions: affine chord and tangent, and powers of omega.   *)

Infinity == <<0, 0>>
AffineSum(a, b) ==
    LET slope == IF a = b THEN 3 * a[1] * a[1] * ModInverse(2 * a[2]) ELSE (b[2] - a[2]) * ModInverse(b[1] - a[1])
        s == Mod(slope)
        x == Mod(s * s - a[1] - b[1])
    IN  CASE a = Infinity -> b
          [] b = Infinity /\ a # Infinity -> a
          [] a # Infinity /\ b # Infinity /\ a[1] = b[1] /\ Mod(a[2] + b[2]) = 0 -> Infinity
          [] OTHER -> <<x, Mod(s * (a[1] - x) - a[2])>>

RECURSIVE Multiple1(_)
Multiple1(k) ==
    IF k = 0 THEN Infinity
    ELSE With(With(Multiple1(k \div 2), LAMBDA h : AffineSum(h, h)),
              LAMBDA t : IF k % 2 = 0 THEN t ELSE AffineSum(t, <<CurveX, CurveY>>))
Group1 == {Multiple1(k) : k \in 0..(Order - 1)}

Infinity2 == <<0, 0, 0, 0>>
AffineSum2(m, n) ==
    LET a == [x |-> gfP2(m[1], m[2]), y |-> gfP2(m[3], m[4])]
        b == [x |-> gfP2(n[1], n[2]), y |-> gfP2(n[3], n[4])]
        s == IF m = n THEN Mul2(Mul2(gfP2(0, 3), Mul2(a.x, a.x)), Invert2(Add2(a.y, a.y)))
             ELSE Mul2(Sub2(b.y, a.y), Invert2(Sub2(b.x, a.x)))
        x == Minimal2(Sub2(Sub2(Mul2(s, s), a.x), b.x))
        y == Minimal2(Sub2(Mul2(s, Sub2(a.x, x)), a.y))
    IN  CASE m = Infinity2 -> n
          [] n = Infinity2 /\ m # Infinity2 -> m
          [] m # Infinity2 /\ n # Infinity2 /\ a.x = b.x /\ Minimal2(Add2(a.y, b.y)) = Zero2 -> Infinity2
          [] OTHER -> <<x.x, x.y, y.x, y.y>>

RECURSIVE Multiple2(_)
Multiple2(k) ==
    IF k = 0 THEN Infinity2
    ELSE With(With(Multiple2(k \div 2), LAMBDA h : AffineSum2(h, h)),
              LAMBDA t : IF k % 2 = 0 THEN t ELSE AffineSum2(t, <<TwistX.x, TwistX.y, TwistY.x, TwistY.y>>))
Group2 == {Multiple2(k) : k \in 0..(Order - 1)}

(* An element of gfP12 as its coefficients of omega^0 .. omega^5, and the  *)
(* product of two of them, omega^6 being xi.                                *)
Coefficients(a) == <<a.y.z, a.x.z, a.y.y, a.x.y, a.y.x, a.x.x>>
RECURSIVE SumOver(_, _, _, _)
SumOver(a, b, k, i) ==
    IF i > 6 THEN Zero2
    ELSE LET j == k - i + 1
             term == IF j >= 1 THEN Mul2(a[i], b[j]) ELSE Mul2(Xi, Mul2(a[i], b[j + 6]))
         IN  Add2(term, SumOver(a, b, k, i + 1))
Product(a, b) ==
    LET c(k) == Minimal2(SumOver(a, b, k, 1))
    IN  <<c(1), c(2), c(3), c(4), c(5), c(6)>>
Reduced(a) == Coefficients(Minimal12(a))

GtOne == Reduced(One12)
GtGen == Reduced(Pair(CurveGen, TwistGen))
RECURSIVE PowerT(_)
PowerT(k) ==
    IF k = 0 THEN GtOne
    ELSE With(With(PowerT(k \div 2), LAMBDA h : Product(h, h)),
              LAMBDA s : IF k % 2 = 0 THEN s ELSE Product(s, GtGen))

=============================================================================
