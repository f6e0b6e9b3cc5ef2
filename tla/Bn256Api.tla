------------------------------ MODULE Bn256Api ------------------------------
(***************************************************************************)
(* The groups G1, G2 and GT of crypto/bn256 as a caller uses them, through *)
(* either library: bn256_fast.go and bn256_slow.go pick one when the       *)
(* program is built, so nodes of one chain may run different ones and must *)
(* compute the same bytes.  st is one caller: two registers of G1 or of    *)
(* G2, each with the exponent it should hold, or a pairing and the         *)
(* operations of GT on it, or bytes to decode.                             *)
(***************************************************************************)
EXTENDS Bn256Fast

CONSTANTS Scalars,       \* the scalars callers multiply by
          Pairs,         \* the pairs of scalars whose multiples are paired
          Encodings1,    \* the encodings of G1 given to Unmarshal
          Encodings2,    \* and of G2
          OtherNAF,      \* other signed digits of 6u+2
          MaxScalar,     \* the largest scalar decomposed
          MaxOps         \* the operations of one caller

VARIABLE st

Libraries == {"google", "cloudflare"}
Slow == st.lib = "google"
Registers == {1, 2}

(* The exponent of a register about which nothing is said. *)
Unknown == -1

Start(lib) ==
    LET g1 == IF lib = "google" THEN CurveGen ELSE FCurveGen
        g2 == IF lib = "google" THEN TwistGen ELSE FTwistGen
        n1 == IF lib = "google" THEN NewCurvePoint ELSE FNewCurvePoint
        n2 == IF lib = "google" THEN NewTwistPoint ELSE FNewTwistPoint
    IN  {[lib |-> lib, group |-> "G1", reg |-> <<g1, n1>>, log |-> <<1, 0>>, ops |-> 0],
         [lib |-> lib, group |-> "G2", reg |-> <<g2, n2>>, log |-> <<1, 0>>, ops |-> 0]}
        \cup {[lib |-> lib, group |-> "pair", a |-> k[1], b |-> k[2], neg |-> n, ops |-> 0] :
                  k \in Pairs, n \in {FALSE, lib = "cloudflare"}}
        \cup {[lib |-> lib, group |-> "bytes1", m |-> m, ops |-> 0] : m \in Encodings1}
        \cup {[lib |-> lib, group |-> "bytes2", m |-> m, ops |-> 0] : m \in Encodings2}

Init ==
    st \in UNION {Start(lib) : lib \in Libraries}
           \cup {[lib |-> "cloudflare", group |-> "scalar", k |-> k, ops |-> 0] : k \in 0..MaxScalar}

In(group) == st.group = group /\ st.ops < MaxOps
Set(r, p, k) == st' = [st EXCEPT !.reg[r] = p, !.log[r] = k, !.ops = @ + 1]
Times(k, l) == IF l = Unknown THEN Unknown ELSE (k * l) % Order
Plus(k, l) == IF Unknown \in {k, l} THEN Unknown ELSE (k + l) % Order

(* "BUG(agl): this function is not complete: a==b fails": when the receiver *)
(* is a itself, the doubling of equal points reads what it has overwritten. *)
SumOf(r, s, t) ==
    IF r = s /\ st.log[s] = st.log[t] /\ st.log[s] # 0 THEN Unknown ELSE Plus(st.log[s], st.log[t])

-----------------------------------------------------------------------------
(* G1. *)

ScalarMult1(r, s, k) ==
    /\ In("G1")
    /\ Set(r, IF Slow THEN CurveMul(st.reg[s], k) ELSE FCurveMul(st.reg[s], k), Times(k, st.log[s]))

ScalarBaseMult1(r, k) ==
    /\ In("G1")
    /\ Set(r, IF Slow THEN CurveMul(CurveGen, k) ELSE FCurveMul(FCurveGen, k), k % Order)

AddTo1(r, s, t) ==
    /\ In("G1")
    /\ Set(r, IF Slow THEN CurveAdd(st.reg[s], st.reg[t], r = s) ELSE FCurveAdd(st.reg[s], st.reg[t], r = s),
           SumOf(r, s, t))

Neg1(r, s) ==
    /\ In("G1")
    /\ Set(r, IF Slow THEN CurveNegative(st.reg[s]) ELSE FCurveNeg(st.reg[s]), Times(Order - 1, st.log[s]))

(* Marshal makes its point affine. *)
MarshalReg1(r) ==
    /\ In("G1")
    /\ Set(r, CASE Slow /\ IsInfinity(st.reg[r]) -> st.reg[r]
                [] Slow /\ ~IsInfinity(st.reg[r]) -> CurveMakeAffine(st.reg[r])
                [] OTHER -> FCurveMakeAffine(st.reg[r]), st.log[r])

-----------------------------------------------------------------------------
(* G2. *)

ScalarMult2(r, s, k) ==
    /\ In("G2")
    /\ Set(r, IF Slow THEN TwistMul(st.reg[s], k) ELSE FTwistMul(st.reg[s], k), Times(k, st.log[s]))

ScalarBaseMult2(r, k) ==
    /\ In("G2")
    /\ Set(r, IF Slow THEN TwistMul(TwistGen, k) ELSE FTwistMul(FTwistGen, k), k % Order)

AddTo2(r, s, t) ==
    /\ In("G2")
    /\ Set(r, IF Slow THEN TwistAdd(st.reg[r], st.reg[s], st.reg[t], r = s)
              ELSE FTwistAdd(st.reg[r], st.reg[s], st.reg[t], r = s), SumOf(r, s, t))

(* Only cloudflare has it. *)
Neg2(r, s) == In("G2") /\ ~Slow /\ Set(r, FTwistNeg(st.reg[s]), Times(Order - 1, st.log[s]))

MarshalReg2(r) ==
    /\ In("G2")
    /\ Set(r, CASE Slow /\ TwistIsInfinity(st.reg[r]) -> st.reg[r]
                [] Slow /\ ~TwistIsInfinity(st.reg[r]) -> TwistMakeAffine(st.reg[r])
                [] OTHER -> FTwistMakeAffine(st.reg[r]), st.log[r])

-----------------------------------------------------------------------------
(* GT. *)

G1Of(k) == IF Slow THEN CurveMul(CurveGen, k) ELSE FCurveMul(FCurveGen, k)
G2Of(k) == IF Slow THEN TwistMul(TwistGen, k) ELSE FTwistMul(FTwistGen, k)
G2Arg == With(G2Of(st.b), LAMBDA q : IF st.neg THEN FTwistNeg(q) ELSE q)

(* Neg leaves z = 1 with t = 0 in an affine point, and the Miller loop     *)
(* starts from that t: such a pairing is not what it should be.            *)
StaleT(q) == st.neg /\ q.z = FOne2

PairOf ==
    /\ st.group = "pair"
    /\ \E p \in {G1Of(st.a)}, q \in {G2Arg} :
         st' = [lib |-> st.lib, group |-> "GT", e |-> IF Slow THEN Pair(p, q) ELSE FPair(p, q),
                log |-> IF StaleT(q) THEN Unknown ELSE (st.a * (IF st.neg THEN Order - st.b ELSE st.b)) % Order,
                ops |-> 0]

SetT(e, k) == st' = [st EXCEPT !.e = e, !.log = IF @ = Unknown THEN @ ELSE k % Order, !.ops = @ + 1]
ScalarMultT(k) == In("GT") /\ SetT(IF Slow THEN Exp12(st.e, k) ELSE FExp(st.e, k), k * st.log)
AddT == In("GT") /\ SetT(IF Slow THEN Mul12(st.e, st.e) ELSE FMulT(st.e, st.e), 2 * st.log)
NegT == In("GT") /\ SetT(IF Slow THEN Invert12(st.e) ELSE FNegT(st.e), (Order - 1) * st.log)
MarshalRegT ==
    In("GT") /\ SetT(IF Slow THEN UnmarshalT(MarshalT(st.e)) ELSE FUnmarshalT(FMarshalT(st.e)).p, st.log)

Next ==
    \/ \E r, s \in Registers, k \in Scalars : ScalarMult1(r, s, k) \/ ScalarMult2(r, s, k)
    \/ \E r \in Registers, k \in Scalars : ScalarBaseMult1(r, k) \/ ScalarBaseMult2(r, k)
    \/ \E r, s, t \in Registers : AddTo1(r, s, t) \/ AddTo2(r, s, t)
    \/ \E r, s \in Registers : Neg1(r, s) \/ Neg2(r, s)
    \/ \E r \in Registers : MarshalReg1(r) \/ MarshalReg2(r)
    \/ PairOf
    \/ \E k \in Scalars : ScalarMultT(k)
    \/ AddT \/ NegT \/ MarshalRegT

-----------------------------------------------------------------------------
Prefix(m, n) == SubSeq(m, 1, IF Len(m) < n THEN Len(m) ELSE n)
Bytes1(p) == IF Slow THEN Marshal1(p) ELSE FMarshal1(p)
Bytes2(p) == IF Slow THEN Marshal2(p) ELSE FMarshal2(p)

(* curve.go and twist.go of both libraries: whatever sequence of operations *)
(* made a register, but one in which Add doubled a point into itself       *)
(* (SumOf), its encoding is that of the multiple of the generator its      *)
(* exponent says, computed by chord and tangent: through infinity, through *)
(* the sums of equal and of opposite points, in the Jacobian form google   *)
(* leaves unreduced, and with cloudflare's decomposed scalars, those of    *)
(* Order and above included.                                               *)
GroupLaw ==
    /\ st.group = "G1" =>
         \A r \in Registers : st.log[r] # Unknown => Bytes1(st.reg[r]) = Multiple1(st.log[r])
    /\ st.group = "G2" =>
         \A r \in Registers : st.log[r] # Unknown => Bytes2(st.reg[r]) = Multiple2(st.log[r])

(* bn256.go, Unmarshal of both libraries: what is accepted is exactly the  *)
(* encodings of group elements (for G2 the points of the twist outside the *)
(* subgroup, too, are refused), and encoding again gives the bytes back;   *)
(* google refuses what is longer, cloudflare leaves the rest.  A receiver  *)
(* of G1 may have been used before; cloudflare's G2 needs a new one.       *)
EncodingExact ==
    /\ st.group = "bytes1" =>
         LET m == IF Slow THEN st.m ELSE Prefix(st.m, 2)
             u == IF Slow THEN Unmarshal1(st.m) ELSE FUnmarshal1(FCurveGen, st.m)
         IN  /\ u.err <=> m \notin Group1
             /\ ~u.err => Bytes1(u.p) = m
    /\ st.group = "bytes2" =>
         LET m == IF Slow THEN st.m ELSE Prefix(st.m, 4)
             u == IF Slow THEN Unmarshal2(st.m) ELSE FUnmarshal2(FNewTwistPoint, st.m)
         IN  /\ u.err <=> m \notin Group2
             /\ ~u.err => Bytes2(u.p) = m

(* optate.go: the pairing is bilinear and not degenerate: the pairing of   *)
(* a*g1 and b*g2 is the (a*b)-th power of that of the generators, which is *)
(* of order Order, and GT's operations follow the exponent, in both        *)
(* libraries with the same bytes.  The reference multiplies coefficient by *)
(* coefficient.                                                            *)
Bilinear ==
    st.group = "GT" /\ st.log # Unknown =>
        /\ Reduced(IF Slow THEN st.e ELSE UnmarshalT(FMarshalT(st.e))) = PowerT(st.log)
        /\ GtGen # GtOne
        /\ (IF Slow THEN IsOne12(st.e) ELSE Fast!IsOne12(st.e)) <=> st.log = 0

(* optate.go, miller: another signed-digit form of 6u+2 gives the same     *)
(* pairing, so no digit, and no digit -1, is mistreated.                   *)
DigitsImmaterial ==
    st.group = "pair" /\ Slow =>
        \A p \in {G1Of(st.a)}, q \in {G2Of(st.b)} :
            Reduced(PairWith(OtherNAF, p, q)) = Reduced(Pair(p, q))

(* bn256.go, PairingCheck: the product of the pairings of a*g1, b*g2 and   *)
(* of c*g1, g2 is one exactly when a*b + c is 0, pairs with infinity among *)
(* them.                                                                   *)
CheckExact ==
    st.group = "pair" /\ ~st.neg =>
        \A c \in {0, (Order - st.a * st.b) % Order, 3} :
        \A ps \in {[i \in 1..2 |-> G1Of(IF i = 1 THEN st.a ELSE c)]},
           qs \in {[i \in 1..2 |-> G2Of(IF i = 1 THEN st.b ELSE 1)]} :
            (IF Slow THEN PairingCheck(ps, qs) ELSE FPairingCheck(ps, qs)) <=> (st.a * st.b + c) % Order = 0

(* What an element of the tower in Montgomery form stands for. *)
Decode2(a) == gfP2(montDecode(a.x), montDecode(a.y))
Decode6(a) == gfP6(Decode2(a.x), Decode2(a.y), Decode2(a.z))
Decode12(a) == gfP12(Decode6(a.x), Decode6(a.y))
DecodePoint(c) == twistPoint(Decode2(c.x), Decode2(c.y), Decode2(c.z), Decode2(c.t))
MinimalPoint(c) == twistPoint(Minimal2(c.x), Minimal2(c.y), Minimal2(c.z), Minimal2(c.t))
MinimalLine(l) == [a |-> Minimal2(l.a), b |-> Minimal2(l.b), c |-> Minimal2(l.c), rOut |-> MinimalPoint(l.rOut)]
DecodeLine(l) == [a |-> Decode2(l.a), b |-> Decode2(l.b), c |-> Decode2(l.c), rOut |-> DecodePoint(l.rOut)]

(* gfp6.go and gfp12.go: on the values of the Miller loop, Square, Invert, *)
(* Frobenius and FrobeniusP2 are the square, the inverse and the powers P  *)
(* and P*P; and the operations of cloudflare on the tower, and its lines,  *)
(* are those of google on what its elements stand for.                     *)
FieldsAgree ==
    /\ st.group = "pair" /\ Slow /\ (st.a * st.b) % Order # 0 =>
        \A f \in {Miller(SixuPlus2NAF, G2Of(st.b), CurveMakeAffine(G1Of(st.a)))} :
            LET c == Coefficients(f)
            IN  /\ Reduced(Square12(f)) = Product(c, c)
                /\ Product(Coefficients(Invert12(f)), c) = GtOne
                /\ Reduced(Frobenius12(f)) = Reduced(Exp12(f, P))
                /\ Reduced(FrobeniusP2_12(f)) = Reduced(Exp12(Frobenius12(f), P))
    /\ st.group = "pair" /\ ~Slow /\ ~st.neg /\ (st.a * st.b) % Order # 0 =>
        \A q \in {FTwistMakeAffine(G2Of(st.b))}, p \in {FCurveMakeAffine(G1Of(st.a))} :
        \A f \in {FMiller(q, p)} : \A g \in {Decode12(f)} :
            LET gq == DecodePoint(q)
                gp == curvePoint(montDecode(p.x), montDecode(p.y), montDecode(p.z))
                twice == FLineFunctionDouble(q, p)
                gtwice == LineFunctionDouble(gq, gp)
                thrice == FLineFunctionAdd(twice.rOut, q, p, FSquare2(q.y))
                gthrice == LineFunctionAdd(gtwice.rOut, gq, gp, Square2(gq.y))
            IN  /\ Decode12(FSquare12(f)) = Minimal12(Square12(g))
                /\ Decode12(FInvert12(f)) = Minimal12(Invert12(g))
                /\ Decode12(FFrobenius12(f)) = Minimal12(Frobenius12(g))
                /\ Decode12(FFrobeniusP2_12(f)) = Minimal12(FrobeniusP2_12(g))
                /\ Decode6(FMul6(f.x, f.y)) = Minimal6(Mul6(g.x, g.y))
                /\ Decode6(FSquare6(f.x)) = Minimal6(Square6(g.x))
                /\ Decode6(FInvert6(f.x)) = Minimal6(Invert6(g.x))
                /\ Decode6(FFrobenius6(f.x)) = Minimal6(Frobenius6(g.x))
                /\ Decode6(FFrobeniusP2_6(f.x)) = Minimal6(FrobeniusP2_6(g.x))
                /\ DecodeLine(twice) = MinimalLine(gtwice)
                /\ DecodeLine(thrice) = MinimalLine(gthrice)
                /\ Decode12(FMulLine(f, twice)) = Minimal12(MulLine(g, gtwice))
                /\ DecodePoint(FTwistDouble(q, q, FALSE)) = MinimalPoint(TwistDouble(gq, gq, FALSE))

(* lattice.go: both parts of every decomposed scalar are natural numbers,  *)
(* since the digits of a negative one would be those of its complement,    *)
(* and short, though the rounding uses half of Order for a denominator of  *)
(* twice Order.                                                            *)
PartsAreNatural ==
    st.group = "scalar" =>
        \A i \in 1..2 : Decompose(st.k)[i] \in 0..(4 * Vectors[1][2])
=============================================================================
