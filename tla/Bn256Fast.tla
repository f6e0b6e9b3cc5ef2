------------------------------ MODULE Bn256Fast ------------------------------
(***************************************************************************)
(* crypto/bn256/cloudflare, which bn256_fast.go selects on amd64 and arm64 *)
(* in place of crypto/bn256/google: elements of GF(p) in Montgomery form   *)
(* and always reduced, the curve with scalars decomposed along a lattice,  *)
(* the twist and the pairing of Bn256Tower over them, and the encodings.   *)
(* MontR is R, 2^256 in the code, and an element is one word of it.        *)
(***************************************************************************)
EXTENDS Bn256

CONSTANTS MontR,    \* R
          rN1,      \* 1/R
          r2,       \* R^2
          r3        \* R^3, each modulo P

ASSUME MontgomeryAssumption ==
    Mod(rN1 * MontR) = 1 /\ r2 = Mod(MontR * MontR) /\ r3 = Mod(r2 * MontR) /\ rN1 \in 0..(P - 1)

(* gfp.go and gfp_decl.go. *)
gfpAdd(a, b) == Mod(a + b)
gfpSub(a, b) == Mod(a - b)
gfpMul(a, b) == Mod(Mod(a * b) * rN1)
a \oplus b == gfpAdd(a, b)
a \ominus b == gfpSub(a, b)
a \odot b == gfpMul(a, b)
gfpNeg(a) == Mod(-a)
montEncode(a) == a \odot r2
montDecode(a) == a \odot 1
newGFp(x) == montEncode(Mod(x))

(* The bits of p-2 from the lowest; the powers of f and the product so far. *)
RECURSIVE InvertBits(_, _, _)
InvertBits(bits, sum, power) ==
    IF bits = 0 THEN sum
    ELSE InvertBits(bits \div 2, IF bits % 2 = 1 THEN sum \odot power ELSE sum, power \odot power)

gfpInvert(f) == InvertBits(P - 2, rN1, f) \odot r3

(* Unmarshal adds the bytes to what the element holds. *)
gfpUnmarshal(e, in) ==
    LET v == (e + in) % MontR
    IN  [err |-> v >= P, v |-> v]

-----------------------------------------------------------------------------
(* gfp2.go. *)

FZero2 == gfP2(0, 0)
FOne2 == gfP2(0, newGFp(1))
FIsZero2(a) == a = FZero2
FIsOne2(a) == a = FOne2
FAdd2(a, b) == gfP2(a.x \oplus b.x, a.y \oplus b.y)
FSub2(a, b) == gfP2(a.x \ominus b.x, a.y \ominus b.y)
FDouble2(a) == FAdd2(a, a)
FNeg2(a) == gfP2(gfpNeg(a.x), gfpNeg(a.y))
FConjugate2(a) == gfP2(gfpNeg(a.x), a.y)
FMul2(a, b) == gfP2((a.x \odot b.y) \oplus (b.x \odot a.y), (a.y \odot b.y) \ominus (a.x \odot b.x))
FMulScalar2(a, b) == gfP2(a.x \odot b, a.y \odot b)
FMulXi2(a) == gfP2(Mod(XiReal * a.x) \oplus a.y, Mod(XiReal * a.y) \ominus a.x)
FSquare2(a) ==
    LET t == a.x \odot a.y
    IN  gfP2(t \oplus t, (a.y \ominus a.x) \odot (a.x \oplus a.y))
FInvert2(a) ==
    LET inv == gfpInvert((a.x \odot a.x) \oplus (a.y \odot a.y))
    IN  gfP2(gfpNeg(a.x) \odot inv, a.y \odot inv)
FReduced2(a) == a

(* constants.go: the constants of the tower in Montgomery form. *)
Encode2(a) == gfP2(montEncode(a.x), montEncode(a.y))
FTwistB == Encode2(TwistB)

Fast == INSTANCE Bn256Tower WITH
            Zero2 <- FZero2, One2 <- FOne2, IsZero2 <- FIsZero2, IsOne2 <- FIsOne2, Add2 <- FAdd2,
            Sub2 <- FSub2, Double2 <- FDouble2, Negative2 <- FNeg2, Conjugate2 <- FConjugate2,
            Mul2 <- FMul2, MulScalar2 <- FMulScalar2, MulXi2 <- FMulXi2, Square2 <- FSquare2,
            Invert2 <- FInvert2, Minimal2 <- FReduced2, TwistB <- FTwistB,
            XiToPMinus1Over6 <- Encode2(XiToPMinus1Over6), XiToPMinus1Over3 <- Encode2(XiToPMinus1Over3),
            XiToPMinus1Over2 <- Encode2(XiToPMinus1Over2), XiTo2PMinus2Over3 <- Encode2(XiTo2PMinus2Over3),
            XiToPSquaredMinus1Over3 <- montEncode(XiToPSquaredMinus1Over3),
            XiTo2PSquaredMinus2Over3 <- montEncode(XiTo2PSquaredMinus2Over3),
            XiToPSquaredMinus1Over6 <- montEncode(XiToPSquaredMinus1Over6)

-----------------------------------------------------------------------------
(* lattice.go, for the endomorphism of G1. *)

Vectors == << <<6 * BnU * BnU + 2 * BnU, 6 * BnU * BnU + 4 * BnU + 1>>,
              <<6 * BnU * BnU + 6 * BnU + 2, -(6 * BnU * BnU - 1)>> >>
LatticeInverse == <<6 * BnU * BnU - 1, 6 * BnU * BnU + 4 * BnU + 1>>
Det == 2 * Order

(* Rounds up from Order / 2 on, whatever the denominator. *)
Round(num, denom) == (num \div denom) + (IF num % denom > Order \div 2 THEN 1 ELSE 0)

Decompose(k) ==
    LET c == [i \in 1..2 |-> Round(k * LatticeInverse[i], Det)]
        out(i) == -(c[1] * Vectors[1][i] + c[2] * Vectors[2][i]) + 2 * Vectors[1][i]
    IN  <<out(1) + k, out(2)>>

(* The digits, lowest first: bit i of both parts. *)
RECURSIVE Multi(_, _)
Multi(x, y) ==
    IF x = 0 /\ y = 0 THEN <<>> ELSE <<(x % 2) + 2 * (y % 2)>> \o Multi(x \div 2, y \div 2)

-----------------------------------------------------------------------------
(* curve.go. *)

FCurveGen == curvePoint(newGFp(CurveX), newGFp(CurveY), newGFp(1))
FNewCurvePoint == curvePoint(0, 0, 0)
FInfinity == curvePoint(0, newGFp(1), 0)

FCurveDouble(a, aliased) ==
    LET A == a.x \odot a.x
        B == a.y \odot a.y
        C == B \odot B
        s == (((a.x \oplus B) \odot (a.x \oplus B)) \ominus A) \ominus C
        d == s \oplus s
        e == (A \oplus A) \oplus A
        x == (e \odot e) \ominus (d \oplus d)
        y == (e \odot (d \ominus x)) \ominus Mod(8 * C)
        t == (IF aliased THEN y ELSE a.y) \odot a.z
    IN  curvePoint(x, y, t \oplus t)

FCurveAdd(a, b, aliased) ==
    LET z12 == a.z \odot a.z
        z22 == b.z \odot b.z
        u1 == a.x \odot z22
        u2 == b.x \odot z12
        s1 == a.y \odot (b.z \odot z22)
        s2 == b.y \odot (a.z \odot z12)
        h == u2 \ominus u1
        i == (h \oplus h) \odot (h \oplus h)
        j == h \odot i
        t == s2 \ominus s1
        r == t \oplus t
        v == u1 \odot i
        x == ((r \odot r) \ominus j) \ominus (v \oplus v)
        w == s1 \odot j
        y == (r \odot (v \ominus x)) \ominus (w \oplus w)
        z == ((((a.z \oplus b.z) \odot (a.z \oplus b.z)) \ominus z12) \ominus z22) \odot h
    IN  CASE IsInfinity(a) -> b
          [] IsInfinity(b) /\ ~IsInfinity(a) -> a
          [] ~IsInfinity(a) /\ ~IsInfinity(b) /\ h = 0 /\ t = 0 -> FCurveDouble(a, aliased)
          [] OTHER -> curvePoint(x, y, z)

(* The digits of the two parts together, from the highest; precomp holds a, *)
(* its image under the endomorphism and their sum.                          *)
RECURSIVE FMulDigits(_, _)
FMulDigits(precomp, digits) ==
    IF digits = <<>> THEN FInfinity
    ELSE With(With(FMulDigits(precomp, Tail(digits)), LAMBDA sum : FCurveDouble(sum, FALSE)),
              LAMBDA t : IF Head(digits) = 0 THEN t ELSE FCurveAdd(t, precomp[Head(digits)], FALSE))

FCurveMul(a, scalar) ==
    LET image == [a EXCEPT !.x = a.x \odot montEncode(XiTo2PSquaredMinus2Over3)]
        d == Decompose(scalar)
    IN  FMulDigits(<<a, image, FCurveAdd(a, image, FALSE)>>, Multi(d[1], d[2]))

FCurveMakeAffine(c) ==
    LET zInv == gfpInvert(c.z)
        zInv2 == zInv \odot zInv
    IN  CASE c.z = newGFp(1) -> c
          [] c.z = 0 -> FInfinity
          [] OTHER -> curvePoint(c.x \odot zInv2, (c.y \odot zInv) \odot zInv2, newGFp(1))

FIsOnCurve(c) ==
    LET a == FCurveMakeAffine(c)
    IN  IsInfinity(a) \/ a.y \odot a.y = ((a.x \odot a.x) \odot a.x) \oplus newGFp(CurveB)

FCurveNeg(a) == [a EXCEPT !.y = gfpNeg(a.y)]

-----------------------------------------------------------------------------
(* gfp6.go and gfp12.go over gfP2 in Montgomery form. *)

FMul6(a, b) == Fast!Mul6(a, b)
FSquare6(a) == Fast!Square6(a)
FInvert6(a) == Fast!Invert6(a)
FFrobenius6(a) == Fast!Frobenius6(a)
FFrobeniusP2_6(a) == Fast!FrobeniusP2_6(a)
FSquare12(a) == Fast!Square12(a)
FInvert12(a) == Fast!Invert12(a)
FFrobenius12(a) == Fast!Frobenius12(a)
FFrobeniusP2_12(a) == Fast!FrobeniusP2_12(a)

-----------------------------------------------------------------------------
(* twist.go and optate.go over gfP2 in Montgomery form. *)

FNewTwistPoint == twistPoint(FZero2, FZero2, FZero2, FZero2)
FTwistGen == twistPoint(Encode2(TwistX), Encode2(TwistY), FOne2, FOne2)
FTwistIsInfinity(c) == Fast!TwistIsInfinity(c)
FTwistAdd(c, a, b, aliased) == Fast!TwistAdd(c, a, b, aliased)
FTwistMul(a, scalar) == Fast!TwistMul(a, scalar)
FTwistIsOnCurve(c) ==
    LET a == Fast!TwistMakeAffine(c) IN FTwistIsInfinity(a) \/ Fast!TwistIsOnCurve(a)

(* The code sets t to 0 and leaves z. *)
FTwistNeg(a) == Fast!TwistNegative(a)

(* z stays 0, and a point with z = 1 keeps its t. *)
FTwistMakeAffine(c) == Fast!TwistMakeAffine(c)
FTwistDouble(c, a, aliased) == Fast!TwistDouble(c, a, aliased)
FLineFunctionAdd(r, p, q, rr) == Fast!LineFunctionAdd(r, p, q, rr)
FLineFunctionDouble(r, q) == Fast!LineFunctionDouble(r, q)
FMulLine(ret, l) == Fast!MulLine(ret, l)
FMiller(q, p) == With(FCurveMakeAffine(p), LAMBDA b : Fast!Miller(SixuPlus2NAF, q, b))
FFinalExponentiation(in) == Fast!FinalExponentiation(in)
FOptimalAte(a, b) ==
    With(FCurveMakeAffine(b), LAMBDA affine : Fast!OptimalAte(SixuPlus2NAF, a, affine, IsInfinity(b)))

-----------------------------------------------------------------------------
(* bn256.go. *)

FMarshal1(p) ==
    LET a == FCurveMakeAffine(p)
    IN  IF IsInfinity(a) THEN <<0, 0>> ELSE <<montDecode(a.x), montDecode(a.y)>>

(* x and y are cleared first; what follows the 64 bytes is left over. *)
FUnmarshal1(e, m) ==
    IF Len(m) < 2 \/ \E i \in 1..2 : gfpUnmarshal(0, m[i]).err THEN Refused
    ELSE LET c == curvePoint(montEncode(m[1]), montEncode(m[2]), newGFp(1))
         IN  CASE c.x = 0 /\ c.y = 0 -> [err |-> FALSE, p |-> FInfinity]
               [] ~(c.x = 0 /\ c.y = 0) /\ FIsOnCurve(c) -> [err |-> FALSE, p |-> c]
               [] OTHER -> Refused

FMarshal2(p) ==
    LET a == FTwistMakeAffine(p)
    IN  IF FTwistIsInfinity(a) THEN <<0, 0, 0, 0>>
        ELSE <<montDecode(a.x.x), montDecode(a.x.y), montDecode(a.y.x), montDecode(a.y.y)>>

(* Nothing is cleared: the bytes are added to what the receiver e holds. *)
FUnmarshal2(e, m) ==
    IF Len(m) < 4 THEN Refused
    ELSE LET u == <<gfpUnmarshal(e.x.x, m[1]), gfpUnmarshal(e.x.y, m[2]),
                    gfpUnmarshal(e.y.x, m[3]), gfpUnmarshal(e.y.y, m[4])>>
             x == Encode2(gfP2(u[1].v, u[2].v))
             y == Encode2(gfP2(u[3].v, u[4].v))
             c == twistPoint(x, y, FOne2, FOne2)
         IN  CASE \E i \in 1..4 : u[i].err -> Refused
               [] (\A i \in 1..4 : ~u[i].err) /\ FIsZero2(x) /\ FIsZero2(y) ->
                      [err |-> FALSE, p |-> twistPoint(FZero2, FOne2, FZero2, FZero2)]
               [] (\A i \in 1..4 : ~u[i].err) /\ ~(FIsZero2(x) /\ FIsZero2(y)) /\ FTwistIsOnCurve(c) ->
                      [err |-> FALSE, p |-> c]
               [] OTHER -> Refused

FPair(g1, g2) == FOptimalAte(g2, g1)

RECURSIVE FPairingProduct(_, _)
FPairingProduct(a, b) ==
    IF a = <<>> THEN Fast!One12
    ELSE LET n == Len(a)
             rest == FPairingProduct(SubSeq(a, 1, n - 1), SubSeq(b, 1, n - 1))
         IN  IF IsInfinity(a[n]) \/ FTwistIsInfinity(b[n]) THEN rest
             ELSE With(FMiller(b[n], a[n]), LAMBDA e : Fast!Mul12(rest, e))

FPairingCheck(a, b) == \E acc \in {FPairingProduct(a, b)} : Fast!IsOne12(FFinalExponentiation(acc))

FExp(e, k) == Fast!Exp12(e, k)
FMulT(a, b) == Fast!Mul12(a, b)
(* A mutant: the negative of the field. *)
FNegTNegative(a) == gfP12(Fast!Negative6(a.x), Fast!Negative6(a.y))

FNegT(a) == Fast!Conjugate12(a)

FMarshalT(p) ==
    LET d(i) == montDecode((Numbers6(p.x) \o Numbers6(p.y))[i])
    IN  <<d(1), d(2), d(3), d(4), d(5), d(6), d(7), d(8), d(9), d(10), d(11), d(12)>>

(* Each coordinate must be below p; the receiver must be a new element. *)
FUnmarshalT(m) ==
    LET g(i) == Encode2(gfP2(m[i], m[i + 1]))
    IN  IF Len(m) < 12 \/ \E i \in 1..12 : gfpUnmarshal(0, m[i]).err THEN Refused
        ELSE [err |-> FALSE, p |-> gfP12(gfP6(g(1), g(3), g(5)), gfP6(g(7), g(9), g(11)))]
=============================================================================
