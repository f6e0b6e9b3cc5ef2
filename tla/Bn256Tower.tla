----------------------------- MODULE Bn256Tower -----------------------------
(***************************************************************************)
(* gfp6.go, gfp12.go, twist.go and optate.go of crypto/bn256: the fields   *)
(* gfP6 = gfP2[tau], tau^3 = xi, and gfP12 = gfP6[omega], omega^2 = tau,   *)
(* the points of the twist y^2 = x^3 + b/xi over gfP2 in Jacobian          *)
(* coordinates, and the optimal ate pairing.  The two libraries, google    *)
(* (bn256_slow.go) and cloudflare (bn256_fast.go), compute them with the   *)
(* same formulas over different representations of gfP2, so gfP2 is a      *)
(* parameter: its operations, its constants and those of the curve.        *)
(*                                                                         *)
(* A method sets its receiver; the operators return what it is set to, and *)
(* take the receiver where something of it survives or where it may be one *)
(* of the operands.  The field t of a twist point is read by the Miller    *)
(* loop and is stale after Add and Double.                                 *)
(***************************************************************************)
EXTENDS Integers, Sequences

CONSTANTS Zero2, One2,
          Add2(_, _), Sub2(_, _), Double2(_), Negative2(_), Conjugate2(_),
          Mul2(_, _), Square2(_), MulXi2(_), MulScalar2(_, _), Invert2(_),
          Minimal2(_),    \* the reduced form
          IsZero2(_), IsOne2(_),
          XiToPMinus1Over6, XiToPMinus1Over3, XiToPMinus1Over2, XiTo2PMinus2Over3,
          XiToPSquaredMinus1Over3, XiTo2PSquaredMinus2Over3, XiToPSquaredMinus1Over6,
          BnU, Order, TwistB

(* Use(a), with a computed once and before Use is. *)
With(a, Use(_)) == CHOOSE r \in {Use(x) : x \in {a}} : TRUE

-----------------------------------------------------------------------------
(* gfP6: x*tau^2 + y*tau + z. *)

gfP6(x, y, z) == [x |-> x, y |-> y, z |-> z]
Zero6 == gfP6(Zero2, Zero2, Zero2)
One6 == gfP6(Zero2, Zero2, One2)
Minimal6(a) == gfP6(Minimal2(a.x), Minimal2(a.y), Minimal2(a.z))
IsZero6(a) == IsZero2(a.x) /\ IsZero2(a.y) /\ IsZero2(a.z)
IsOne6(a) == IsZero2(a.x) /\ IsZero2(a.y) /\ IsOne2(a.z)
Negative6(a) == gfP6(Negative2(a.x), Negative2(a.y), Negative2(a.z))

Frobenius6(a) ==
    gfP6(Mul2(Conjugate2(a.x), XiTo2PMinus2Over3), Mul2(Conjugate2(a.y), XiToPMinus1Over3), Conjugate2(a.z))

FrobeniusP2_6(a) ==
    gfP6(MulScalar2(a.x, XiTo2PSquaredMinus2Over3), MulScalar2(a.y, XiToPSquaredMinus1Over3), a.z)

Add6(a, b) == gfP6(Add2(a.x, b.x), Add2(a.y, b.y), Add2(a.z, b.z))
Sub6(a, b) == gfP6(Sub2(a.x, b.x), Sub2(a.y, b.y), Sub2(a.z, b.z))
Double6(a) == gfP6(Double2(a.x), Double2(a.y), Double2(a.z))

(* Karatsuba: six products instead of nine. *)
Mul6(a, b) ==
    LET v0 == Mul2(a.z, b.z)
        v1 == Mul2(a.y, b.y)
        v2 == Mul2(a.x, b.x)
        tz == Sub2(Sub2(Mul2(Add2(a.x, a.y), Add2(b.x, b.y)), v1), v2)
        ty == Sub2(Sub2(Mul2(Add2(a.y, a.z), Add2(b.y, b.z)), v0), v1)
        tx == Sub2(Add2(Sub2(Mul2(Add2(a.x, a.z), Add2(b.x, b.z)), v0), v1), v2)
    IN  gfP6(tx, Add2(ty, MulXi2(v2)), Add2(MulXi2(tz), v0))

MulScalar6(a, b) == gfP6(Mul2(a.x, b), Mul2(a.y, b), Mul2(a.z, b))
MulGFP6(a, b) == gfP6(MulScalar2(a.x, b), MulScalar2(a.y, b), MulScalar2(a.z, b))
MulTau6(a) == gfP6(a.y, a.z, MulXi2(a.x))

Square6(a) ==
    LET v0 == Square2(a.z)
        v1 == Square2(a.y)
        v2 == Square2(a.x)
        c0 == Sub2(Sub2(Square2(Add2(a.x, a.y)), v1), v2)
        c1 == Sub2(Sub2(Square2(Add2(a.y, a.z)), v0), v1)
        c2 == Sub2(Add2(Sub2(Square2(Add2(a.x, a.z)), v0), v1), v2)
    IN  gfP6(c2, Add2(c1, MulXi2(v2)), Add2(MulXi2(c0), v0))

Invert6(a) ==
    LET A == Sub2(Square2(a.z), MulXi2(Mul2(a.x, a.y)))
        B == Sub2(MulXi2(Square2(a.x)), Mul2(a.y, a.z))
        C == Sub2(Square2(a.y), Mul2(a.x, a.z))
        F == Invert2(Add2(Add2(MulXi2(Mul2(C, a.y)), Mul2(A, a.z)), MulXi2(Mul2(B, a.x))))
    IN  gfP6(Mul2(C, F), Mul2(B, F), Mul2(A, F))

-----------------------------------------------------------------------------
(* gfP12: x*omega + y. *)

gfP12(x, y) == [x |-> x, y |-> y]
One12 == gfP12(Zero6, One6)
Minimal12(a) == gfP12(Minimal6(a.x), Minimal6(a.y))
IsZero12(a) == LET e == Minimal12(a) IN IsZero6(e.x) /\ IsZero6(e.y)
IsOne12(a) == LET e == Minimal12(a) IN IsZero6(e.x) /\ IsOne6(e.y)

(* What the receiver is set to; the code returns its argument instead, and *)
(* no caller uses the value it returns.                                     *)
Conjugate12(a) == gfP12(Negative6(a.x), a.y)
Frobenius12(a) == gfP12(MulScalar6(Frobenius6(a.x), XiToPMinus1Over6), Frobenius6(a.y))
FrobeniusP2_12(a) == gfP12(MulGFP6(FrobeniusP2_6(a.x), XiToPSquaredMinus1Over6), FrobeniusP2_6(a.y))
Add12(a, b) == gfP12(Add6(a.x, b.x), Add6(a.y, b.y))
Mul12(f, g) ==
    With(f, LAMBDA a :
    With(g, LAMBDA b :
         gfP12(Add6(Mul6(a.x, b.y), Mul6(b.x, a.y)), Add6(Mul6(a.y, b.y), MulTau6(Mul6(a.x, b.x))))))

(* The code multiplies its receiver and ignores a; its only caller passes  *)
(* the receiver for a.                                                      *)
MulScalar12(e, b) == gfP12(Mul6(e.x, b), Mul6(e.y, b))

Square12(f) ==
    With(f, LAMBDA a :
    With(Mul6(a.x, a.y), LAMBDA v0 :
         gfP12(Double6(v0), Sub6(Sub6(Mul6(Add6(a.x, a.y), Add6(a.y, MulTau6(a.x))), v0), MulTau6(v0)))))

Invert12(a) ==
    LET t == Sub6(Square6(a.y), MulTau6(Square6(a.x)))
    IN  MulScalar12(gfP12(Negative6(a.x), a.y), Invert6(t))

RECURSIVE Exp12(_, _)
Exp12(a, power) ==
    IF power = 0 THEN One12
    ELSE With(With(Exp12(a, power \div 2), Square12), LAMBDA t : IF power % 2 = 1 THEN Mul12(t, a) ELSE t)

-----------------------------------------------------------------------------
(* twist.go *)

twistPoint(x, y, z, t) == [x |-> x, y |-> y, z |-> z, t |-> t]
NewTwistPoint == twistPoint(Zero2, Zero2, Zero2, Zero2)
TwistIsInfinity(c) == IsZero2(c.z)

(* c is the receiver, whose t stays. *)
TwistDouble(c, a, aliased) ==
    LET A == Square2(a.x)
        B == Square2(a.y)
        C == Square2(B)
        d == Double2(Sub2(Sub2(Square2(Add2(a.x, B)), A), C))
        e == Add2(Add2(A, A), A)
        x == Sub2(Square2(e), Add2(d, d))
        y == Sub2(Mul2(e, Sub2(d, x)), Double2(Double2(Double2(C))))
        t == Mul2(IF aliased THEN y ELSE a.y, a.z)
    IN  twistPoint(x, y, Add2(t, t), c.t)

TwistAdd(c, a, b, aliased) ==
    LET z1z1 == Square2(a.z)
        z2z2 == Square2(b.z)
        u1 == Mul2(a.x, z2z2)
        u2 == Mul2(b.x, z1z1)
        s1 == Mul2(a.y, Mul2(b.z, z2z2))
        s2 == Mul2(b.y, Mul2(a.z, z1z1))
        h == Sub2(u2, u1)
        i == Square2(Add2(h, h))
        j == Mul2(h, i)
        t == Sub2(s2, s1)
        r == Add2(t, t)
        v == Mul2(u1, i)
        x == Sub2(Sub2(Square2(r), j), Add2(v, v))
        y == Sub2(Mul2(r, Sub2(v, x)), Double2(Mul2(s1, j)))
        z == Mul2(Sub2(Sub2(Square2(Add2(a.z, b.z)), z1z1), z2z2), h)
    IN  CASE TwistIsInfinity(a) -> b
          [] TwistIsInfinity(b) /\ ~TwistIsInfinity(a) -> a
          [] ~TwistIsInfinity(a) /\ ~TwistIsInfinity(b) /\ IsZero2(h) /\ IsZero2(t) -> TwistDouble(c, a, aliased)
          [] OTHER -> twistPoint(x, y, z, c.t)

RECURSIVE TwistMulFrom(_, _)
TwistMulFrom(a, scalar) ==
    IF scalar = 0 THEN TwistDouble(NewTwistPoint, NewTwistPoint, FALSE)
    ELSE With(TwistMulFrom(a, scalar \div 2), LAMBDA sum :
         With(TwistDouble(NewTwistPoint, sum, FALSE), LAMBDA t :
              IF scalar % 2 = 1 THEN TwistAdd(sum, t, a, FALSE) ELSE t))

TwistMul(a, scalar) == TwistMulFrom(a, scalar)

(* On the curve and in the subgroup of order Order. *)
TwistIsOnCurve(c) ==
    LET yy == Sub2(Sub2(Square2(c.y), Mul2(Square2(c.x), c.x)), TwistB)
    IN  IsZero2(Minimal2(yy)) /\ IsZero2(TwistMul(c, Order).z)

TwistMakeAffine(c) ==
    LET zInv == Invert2(c.z)
        zInv2 == Square2(zInv)
    IN  CASE IsOne2(c.z) -> c
          [] ~IsOne2(c.z) /\ TwistIsInfinity(c) -> twistPoint(Zero2, One2, Zero2, Zero2)
          [] OTHER -> twistPoint(Mul2(c.x, zInv2), Mul2(Mul2(c.y, zInv), zInv2), One2, One2)

TwistNegative(a) == twistPoint(a.x, Negative2(a.y), a.z, Zero2)
-----------------------------------------------------------------------------
(* optate.go.  A line is the triple a, b, c; rOut the new point. *)

LineFunctionAdd(r, p, q, r2) ==
    With(Sub2(Mul2(p.x, r.t), r.x), LAMBDA H :
    With(Square2(H), LAMBDA I :
    With(Double2(Add2(I, I)), LAMBDA E :
    With(Sub2(Sub2(Mul2(Sub2(Sub2(Square2(Add2(p.y, r.z)), r2), r.t), r.t), r.y), r.y), LAMBDA L1 :
    With(Sub2(Sub2(Square2(Add2(r.z, H)), r.t), I), LAMBDA z :
    LET J == Mul2(H, E)
        V == Mul2(r.x, E)
        x == Sub2(Sub2(Sub2(Square2(L1), J), V), V)
        y == Sub2(Mul2(Sub2(V, x), L1), Double2(Mul2(r.y, J)))
        t == Square2(z)
        w == Sub2(Sub2(Square2(Add2(p.y, z)), r2), t)
    IN  [a |-> Sub2(Double2(Mul2(L1, p.x)), w), b |-> Double2(MulScalar2(Negative2(L1), q.x)),
         c |-> Double2(MulScalar2(z, q.y)), rOut |-> twistPoint(x, y, z, t)])))))

LineFunctionDouble(r, q) ==
    With(Square2(r.x), LAMBDA A :
    With(Square2(r.y), LAMBDA B :
    With(Square2(B), LAMBDA C :
    With(Double2(Sub2(Sub2(Square2(Add2(r.x, B)), A), C)), LAMBDA D :
    With(Add2(Add2(A, A), A), LAMBDA E :
    LET G == Square2(E)
        x == Sub2(Sub2(G, D), D)
        z == Sub2(Sub2(Square2(Add2(r.y, r.z)), B), r.t)
        y == Sub2(Mul2(Sub2(D, x), E), Double2(Double2(Double2(C))))
        a == Sub2(Sub2(Square2(Add2(r.x, E)), A), G)
    IN  [a |-> Sub2(a, Double2(Double2(B))),
         b |-> MulScalar2(Negative2(Double2(Mul2(E, r.t))), q.x),
         c |-> MulScalar2(Double2(Mul2(z, r.t)), q.y), rOut |-> twistPoint(x, y, z, Square2(z))])))))

MulLine(ret, l) ==
    LET a2 == Mul6(gfP6(Zero2, l.a, l.b), ret.x)
        t3 == MulScalar6(ret.y, l.c)
        x == Mul6(Add6(ret.x, ret.y), gfP6(Zero2, l.a, Add2(l.b, l.c)))
    IN  gfP12(Sub6(Sub6(x, a2), t3), Add6(t3, MulTau6(a2)))

(* Digit i - 1 of naf, with the accumulator and the point so far. *)
MillerDigit(naf, i, ret, r, a, b) ==
    With(LineFunctionDouble(r, b), LAMBDA l :
    With(MulLine(IF i # Len(naf) THEN Square12(ret) ELSE ret, l), LAMBDA doubled :
         IF naf[i - 1] = 0 THEN [ret |-> doubled, r |-> l.rOut]
         ELSE With(LineFunctionAdd(l.rOut, IF naf[i - 1] = 1 THEN a ELSE TwistNegative(a), b, Square2(a.y)),
                   LAMBDA k : [ret |-> MulLine(doubled, k), r |-> k.rOut])))

RECURSIVE MillerLoop(_, _, _, _, _, _)
MillerLoop(naf, i, ret, r, a, b) ==
    IF i = 1 THEN [ret |-> ret, r |-> r]
    ELSE With(MillerDigit(naf, i, ret, r, a, b), LAMBDA n : MillerLoop(naf, i - 1, n.ret, n.r, a, b))

(* The line through the point of loop and q. *)
LineTo(loop, q, b) ==
    With(LineFunctionAdd(loop.r, q, b, Square2(q.y)), LAMBDA l : [ret |-> MulLine(loop.ret, l), r |-> l.rOut])

(* b is the affine form of the point of G1. *)
Miller(naf, q, b) ==
    With(TwistMakeAffine(q), LAMBDA a :
    With(With(MillerLoop(naf, Len(naf), One12, a, a, b), LAMBDA loop :
              LineTo(loop, twistPoint(Mul2(Conjugate2(a.x), XiToPMinus1Over3),
                                      Mul2(Conjugate2(a.y), XiToPMinus1Over2), One2, One2), b)), LAMBDA l1 :
         LineTo(l1, twistPoint(MulScalar2(a.x, XiToPSquaredMinus1Over3), a.y, One2, One2), b).ret))

(* The easy part, to the power (p^6 - 1)(p^2 + 1), and the hard part. *)
EasyPart(in) ==
    With(Mul12(Conjugate12(in), Invert12(in)), LAMBDA f : Mul12(f, FrobeniusP2_12(f)))

(* t1 and its powers u, u^2 and u^3. *)
PowersOfU(t1) ==
    With(Exp12(t1, BnU), LAMBDA fu :
    With(Exp12(fu, BnU), LAMBDA fu2 : [one |-> t1, two |-> fu, three |-> fu2, four |-> Exp12(fu2, BnU)]))

FrobeniusPowers(f) ==
    [y0 |-> With(FrobeniusP2_12(f.one), LAMBDA fp2 : Mul12(Mul12(Frobenius12(f.one), fp2), Frobenius12(fp2))),
     y1 |-> Conjugate12(f.one),
     y2 |-> FrobeniusP2_12(f.three),
     y3 |-> Conjugate12(Frobenius12(f.two)),
     y4 |-> Conjugate12(Mul12(f.two, Frobenius12(f.three))),
     y5 |-> Conjugate12(f.three),
     y6 |-> Conjugate12(Mul12(f.four, Frobenius12(f.four)))]

Chain(y) ==
    With(Mul12(Mul12(Square12(y.y6), y.y4), y.y5), LAMBDA t0 :
         Square12(Mul12(Square12(Mul12(Mul12(y.y3, y.y5), t0)), Mul12(t0, y.y2))))

HardPart(t1) ==
    With(With(PowersOfU(t1), FrobeniusPowers), LAMBDA y :
    With(Chain(y), LAMBDA c : Mul12(Square12(Mul12(c, y.y1)), Mul12(c, y.y0))))

FinalExponentiation(in) == With(EasyPart(in), HardPart)

OptimalAte(naf, a, b, bIsInfinity) ==
    IF TwistIsInfinity(a) \/ bIsInfinity THEN One12
    ELSE With(Miller(naf, a, b), FinalExponentiation)

=============================================================================
