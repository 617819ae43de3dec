------------------------------- MODULE X25519 -------------------------------
(***************************************************************************)
(* akurai-crypto: X25519 (crates/akurai-crypto/src/x25519.rs), the field   *)
(* arithmetic on unreduced limbs, the Montgomery ladder over it, and the   *)
(* addition chain of the inversion.                                        *)
(*                                                                         *)
(* The code has 5 limbs of 51 bits in 64-bit words, p = 2^255 - 19 and     *)
(* a24 = 121665.  Here 2 limbs of Radix bits, p = 2^(2 Radix) - Fold and   *)
(* A24 are parameters: a field small enough to compare every step of a     *)
(* ladder with the group law of the curve.  The chain keeps the exponents  *)
(* of the code, reduced modulo several primes.                             *)
(***************************************************************************)
EXTENDS Integers, Sequences

CONSTANTS Radix, Fold, A24,   \* 51, 19 and 121665 in the code
          WordBits,           \* width of a word, 64 in the code
          Scalars, Points,    \* bound: the scalars and u-coordinates tried
          Primes              \* bound: moduli the exponents are compared by

Base == 2 ^ Radix
P    == Base * Base - Fold
Bits == 2 * Radix             \* 255 in the code

VARIABLES
  pc,             \* "idle", "ladder", "invert", "done"
  k,              \* the clamped scalar
  x1, x2, z2, x3, z3, swap, t,   \* the locals of `ladder`
  out,            \* what x25519 returned
  acc,            \* history: [k >> t] times the point, by the group law
  expo            \* expo[z][m]: the exponent of local z of finvert, modulo m

ladderVars == <<k, x1, x2, z2, x3, z3, swap, t, out, acc>>
vars == <<pc, ladderVars, expo>>

-----------------------------------------------------------------------------
(***************************************************************************)
(* The field: an element is its limbs <<low, high>>, not always reduced    *)
(***************************************************************************)
Value(a) == a[1] + Base * a[2]

FAdd(a, b) == <<a[1] + b[1], a[2] + b[2]>>

\* Variant with a slip: no multiple of p is added.
FSubBare(a, b) == <<a[1] - b[1], a[2] - b[2]>>

\* 2p, limb by limb, is added first.
FSub(a, b) == <<a[1] + 2 * Base - 2 * Fold - b[1], a[2] + 2 * Base - 2 - b[2]>>

\* Carries through the limbs, what leaves the top one comes back Fold times.
Low(v)   == v % Base
Carry(v) == v \div Base
CarryReduce(r0, r1) ==
  LET s1 == r1 + Carry(r0)
      s0 == Low(r0) + Fold * Carry(s1)
  IN <<Low(s0), Low(s1) + Carry(s0)>>

FMul(a, b) == CarryReduce(a[1] * b[1] + Fold * a[2] * b[2], a[1] * b[2] + a[2] * b[1])
FSquare(a) == FMul(a, a)
FMulA24(a) == CarryReduce(A24 * a[1], A24 * a[2])

CarryPropagate(v) == <<Low(v[1]) + Fold * Carry(v[2]), Low(v[2]) + Carry(v[1])>>

\* The representative in 0 .. p - 1: c says whether the value reaches p.
ReduceCanonical(v) ==
  LET l  == CarryPropagate(v)
      c  == Carry(l[2] + Carry(l[1] + Fold))
      l0 == l[1] + Fold * c
  IN <<Low(l0), Low(l[2] + Carry(l0))>>

Encode(v) == Value(ReduceCanonical(v))

CSwapped(sw, a, b) == IF sw = 1 THEN <<b, a>> ELSE <<a, b>>

Mod(v) == v % P

\* z^e modulo p, by squaring; finvert computes it for e = p - 2 by the chain below.
Power[e \in 0 .. P, z \in 0 .. P - 1] ==
  IF e = 0 THEN 1
  ELSE LET h == Power[e \div 2, z]
       IN IF e % 2 = 1 THEN Mod(Mod(h * h) * z) ELSE Mod(h * h)
Inverse(z) == Power[P - 2, Mod(z)]
FInvert(z) == <<Low(Inverse(Value(z))), Carry(Inverse(Value(z)))>>

-----------------------------------------------------------------------------
(***************************************************************************)
(* The group law, for the curve B y^2 = x^3 + A x^2 + x through (u, 1)     *)
(***************************************************************************)
A == 4 * A24 + 2
Infinity == <<>>
CurveB(u) == Mod(u * Mod(u * Mod(u + A) + 1))
Negate(y) == Mod(P - y)

\* The third point of the line through p and q with the given slope, mirrored.
Chord(u, p, q, slope) ==
  LET x == Mod(CurveB(u) * Mod(slope * slope) + 3 * P - A - p[1] - q[1])
  IN <<x, Mod(slope * Mod(p[1] + P - x) + P - p[2])>>

Tangent(u, p) == Mod(Mod(3 * Mod(p[1] * p[1]) + 2 * A * p[1] + 1) * Inverse(2 * Mod(CurveB(u) * p[2])))
Secant(p, q)  == Mod(Mod(q[2] + P - p[2]) * Inverse(q[1] + P - p[1]))

Plus(u, p, q) ==
  IF p = Infinity THEN q
  ELSE IF q = Infinity THEN p
  ELSE IF p[1] # q[1] THEN Chord(u, p, q, Secant(p, q))
  ELSE IF p[2] = Negate(q[2]) THEN Infinity
  ELSE Chord(u, p, q, Tangent(u, p))

\* What one more bit of the scalar makes of a multiple of the point.
MoreBit(u, p, bit) ==
  LET twice == Plus(u, p, p)
  IN IF bit = 1 THEN Plus(u, twice, <<u, 1>>) ELSE twice

\* n times the point (u, 1).
Multiples[n \in 0 .. 2 ^ Bits - 1, u \in 0 .. P - 1] ==
  IF n = 0 THEN Infinity ELSE MoreBit(u, Multiples[n \div 2, u], n % 2)
Multiple(n, u) == Multiples[n, u]

\* The residues (x : z) are the x-coordinate of the point p.
Ratio(x, z, p) ==
  IF p = Infinity THEN Mod(z) = 0 /\ Mod(x) # 0
  ELSE Mod(z) # 0 /\ Mod(x) = Mod(p[1] * Mod(z))

Stands(x, z, p) == Ratio(Value(x), Value(z), p)

\* Montgomery's formulas, which RFC 7748 has the ladder use, on residues.
XZ(p)     == IF p = Infinity THEN <<1, 0>> ELSE <<p[1], 1>>
Square(v) == Mod(v * v)

\* They double the point p to d ...
Doubles(p, d) ==
  LET v  == XZ(p)
      aa == Square(v[1] + v[2])
      bb == Square(v[1] - v[2])
      e  == Mod(aa - bb)
  IN Ratio(aa * bb, e * Mod(aa + A24 * e), d)

\* ... and add p and r, whose difference is the point at u, up to s.
Adds(u, p, r, s) ==
  LET v  == XZ(p)
      w  == XZ(r)
      da == Mod((w[1] - w[2]) * (v[1] + v[2]))
      cb == Mod((w[1] + w[2]) * (v[1] - v[2]))
  IN Ratio(Square(da + cb), u * Square(da - cb), s)

-----------------------------------------------------------------------------
(***************************************************************************)
(* x25519 and ladder                                                       *)
(***************************************************************************)
\* A scalar has one bit more than the field: the top one is cleared, the one
\* below it set, the low three cleared.
DecodeScalar(s) == LET low == s % 2 ^ (Bits - 1) IN 2 ^ (Bits - 1) + 8 * (low \div 8)
\* The bit above the field is ignored; a value from p on is not reduced.
DecodeU(u) == <<Low(u), Low(Carry(u))>>

Init == /\ pc = "idle" /\ k = 0 /\ x1 = <<0, 0>>
        /\ x2 = <<1, 0>> /\ z2 = <<0, 0>> /\ x3 = <<0, 0>> /\ z3 = <<1, 0>>
        /\ swap = 0 /\ t = Bits /\ out = 0 /\ acc = Infinity
        /\ expo = [z |-> [m \in Primes |-> 1]]

Call(s, u) ==
  /\ pc = "idle"
  /\ pc' = "ladder"
  /\ k' = DecodeScalar(s) /\ x1' = DecodeU(u) /\ x3' = DecodeU(u)
  /\ UNCHANGED <<x2, z2, z3, swap, t, out, acc, expo>>

Bit(i) == (k \div 2 ^ i) % 2
U == Mod(Value(x1))
Q == <<U, 1>>

\* One turn of the loop, on the swapped pair.
LadderStep ==
  /\ swap' = Bit(t - 1)
  /\ LET sw == IF swap = Bit(t - 1) THEN 0 ELSE 1
         xs == CSwapped(sw, x2, x3)
         zs == CSwapped(sw, z2, z3)
         a == FAdd(xs[1], zs[1])   b == FSub(xs[1], zs[1])
         c == FAdd(xs[2], zs[2])   d == FSub(xs[2], zs[2])
         aa == FSquare(a)          bb == FSquare(b)
         e == FSub(aa, bb)         da == FMul(d, a)     cb == FMul(c, b)
     IN /\ x3' = FSquare(FAdd(da, cb))
        /\ z3' = FMul(x1, FSquare(FSub(da, cb)))
        /\ x2' = FMul(aa, bb)
        /\ z2' = FMul(e, FAdd(aa, FMulA24(e)))

Step == /\ pc = "ladder" /\ t > 0
        /\ LadderStep
        /\ t' = t - 1
        /\ acc' = MoreBit(U, acc, Bit(t - 1))
        /\ UNCHANGED <<pc, k, x1, out, expo>>

\* The last swap, the division, the canonical bytes.
Return ==
  /\ pc = "ladder" /\ t = 0
  /\ out' = LET x == CSwapped(swap, x2, x3)[1]
                z == CSwapped(swap, z2, z3)[1]
            IN Encode(FMul(x, FInvert(z)))
  /\ pc' = "done"
  /\ UNCHANGED <<k, x1, x2, z2, x3, z3, swap, t, acc, expo>>

-----------------------------------------------------------------------------
(***************************************************************************)
(* What mathematics says of the field and the curve, no code in it         *)
(***************************************************************************)
\* P is prime: its residues have inverses, by Fermat's theorem.
FieldLaw ==
  /\ Inverse(0) = 0
  /\ \A z \in 1 .. P - 1 : Inverse(z) \in 0 .. P - 1 /\ Mod(z * Inverse(z)) = 1

Prefixes    == {DecodeScalar(s) \div 2 ^ i : s \in Scalars, i \in 0 .. Bits}
Coordinates == {Mod(Value(DecodeU(v))) : v \in Points}

\* With a multiple p of the point and its successor r, the formulas double
\* either of them, and add them up.
MontgomeryLaw ==
  \A u \in Coordinates, n \in Prefixes :
    LET q == <<u, 1>>
        p == Multiple(n, u)
        r == Plus(u, p, q)
        twice == Plus(u, p, p)
        odd == Plus(u, twice, q)
    IN Doubles(p, twice) /\ Adds(u, p, r, odd) /\ Doubles(r, Plus(u, odd, q))

-----------------------------------------------------------------------------
(***************************************************************************)
(* finvert                                                                 *)
(***************************************************************************)
\* A line of finvert: dst = src squared n times, times mul.
Line(dst, src, n, mul) == [dst |-> dst, src |-> src, n |-> n, mul |-> mul]
One == "one"

Chain == << Line("z2",       "z",        1,   One),
            Line("t",        "z2",       2,   One),
            Line("z9",       "t",        0,   "z"),
            Line("z11",      "z9",       0,   "z2"),
            Line("z2_5_0",   "z11",      1,   "z9"),
            Line("z2_10_0",  "z2_5_0",   5,   "z2_5_0"),
            Line("z2_20_0",  "z2_10_0",  10,  "z2_10_0"),
            Line("z2_40_0",  "z2_20_0",  20,  "z2_20_0"),
            Line("z2_50_0",  "z2_40_0",  10,  "z2_10_0"),
            Line("z2_100_0", "z2_50_0",  50,  "z2_50_0"),
            Line("z2_200_0", "z2_100_0", 100, "z2_100_0"),
            Line("t250",     "z2_200_0", 50,  "z2_50_0"),
            Line("inverse",  "t250",     5,   "z11") >>

Doublings[n \in 0 .. 255, m \in Primes] == IF n = 0 THEN 1 ELSE (2 * Doublings[n - 1, m]) % m
TwoTo(n, m) == Doublings[n, m]

Lines == DOMAIN expo
Invert ==
  /\ pc \in {"idle", "invert"}
  /\ \E i \in 1 .. Len(Chain) :
       LET l == Chain[i] IN
       /\ l.dst \notin Lines /\ \A j \in 1 .. i - 1 : Chain[j].dst \in Lines
       /\ expo' = [z \in Lines \cup {l.dst} |->
                     IF z \in Lines THEN expo[z]
                     ELSE [m \in Primes |->
                             (expo[l.src][m] * TwoTo(l.n, m)
                              + (IF l.mul = One THEN 0 ELSE expo[l.mul][m])) % m]]
  /\ pc' = "invert"
  /\ UNCHANGED ladderVars

Next == \/ \E s \in Scalars, u \in Points : Call(s, u)
        \/ Step \/ Return \/ Invert

Spec == Init /\ [][Next]_vars

-----------------------------------------------------------------------------
(***************************************************************************)
(* Properties                                                              *)
(***************************************************************************)
Pair == <<CSwapped(swap, x2, x3), CSwapped(swap, z2, z3)>>

\* RFC 7748: at every step of the ladder, whatever the limbs carry beyond their
\* bits, the two projective points are [k >> t] and [(k >> t) + 1] times the
\* point; no limb is negative or leaves half a word ("limbs stay bounded for
\* the next mul/square"); and x25519 returns the canonical x-coordinate of the
\* product, 0 for the point at infinity.
LadderComputes ==
  /\ \A v \in {x2, z2, x3, z3} : \A i \in {1, 2} : v[i] \in 0 .. 2 ^ (WordBits - 2) - 1
  /\ pc \in {"ladder", "done"} =>
       /\ Stands(Pair[1][1], Pair[2][1], acc)
       /\ Stands(Pair[1][2], Pair[2][2], Plus(U, acc, Q))
  /\ pc = "done" => out = IF acc = Infinity THEN 0 ELSE acc[1]

\* The chain of finvert ends with the exponent p - 2 of the real field: it is
\* 2^255 - 21 modulo every one of Primes, whose product exceeds both.
ChainInverts ==
  "inverse" \in Lines =>
    \A m \in Primes : (expo["inverse"][m] + 21) % m = TwoTo(255, m)

\* What x25519 is made of is right: the ladder over unreduced limbs, and the
\* inversion that ends it.
Computes == LadderComputes /\ ChainInverts
=============================================================================
