------------------------------ MODULE MCCrypto ------------------------------
(***************************************************************************)
(* The handshake on three parties (an initiator, the responder it means,   *)
(* and one whose messages get mixed up with theirs), and the primitives    *)
(* it takes as ideal, each on a scaled-down field, block and word.  The    *)
(* first step of a behaviour decides which of them runs: they share no     *)
(* state.                                                                  *)
(***************************************************************************)
EXTENDS Noise, Integers

CONSTANTS p1, p2, p3,
  FieldRadix, FieldFold, A24, WordBits, Scalars, Points, Primes,   \* of X25519
  MacRadix, MacFold, ByteBits, MacKeys, MaxBlocks, MaxLen,         \* of Aead
  Block, Word, MaxMessage, MaxKey                                  \* of Blake2s

VARIABLES part,
  pc, k, x1, x2, z2, x3, z3, swap, t, out, acc, expo,
  phase, key, h, blocks, tag, sum, sealed, result,
  todo, chain, tlo, thi, buf, data, digests, asked

Curve == INSTANCE X25519 WITH Radix <- FieldRadix, Fold <- FieldFold
Box   == INSTANCE Aead WITH Radix <- MacRadix, Fold <- MacFold, Keys <- MacKeys, pc <- phase, acc <- sum
Hash  == INSTANCE Blake2s WITH h <- chain

curve == <<pc, k, x1, x2, z2, x3, z3, swap, t, out, acc, expo>>
box   == <<phase, key, h, blocks, tag, sum, sealed, result>>
hash  == <<todo, chain, tlo, thi, buf, data, digests, asked>>
all   == <<part, vars, curve, box, hash>>

\* Every clamped value of the multiplier, and two that clamping changes.
SomeKeys == {1, 2, 3, 16, 17, 18, 19, 44, 63} \X {0, 23, 63}

\* Primes below 2^15, whose products stay below 2^31.
SomePrimes == {32749, 32719, 32717, 32713, 32707, 32693, 32687, 32653, 32647,
               32633, 32621, 32611, 32609, 32603, 32587, 32579, 32573, 32569}

\* The most there is in the limbs of an accumulator with a block added.
FullLimbs == <<2 * Box!Base - 2, 3 * Box!Base - 3, 2 * Box!Base - 2>>

\* A block and the bit behind it are shorter than the limbs, the prime is next
\* to their end, and a clamped key leaves them room: the carry that comes back
\* round to the first limb ("each limb <= 2^26, r <= 2^26", chacha20poly1305.rs:89)
\* fits into two.
ASSUME MacAssumption ==
  /\ Box!Base \in Nat \ {0, 1} /\ MacFold \in 1 .. Box!Base
  /\ 2 ^ ByteBits \in Nat \ {0} /\ 2 ^ (ByteBits - 1) \in Nat \ {0}
  /\ 2 * 2 ^ ByteBits * 2 ^ ByteBits <= Box!Base * Box!Base * Box!Base
  /\ Box!TagSpace \in Nat \ {0} /\ MacKeys \subseteq Nat \X Nat
  /\ \A rs \in MacKeys :
       LET d == Box!Product(FullLimbs, Box!Limbs(Box!Clamp(rs[1])))
           top == d[3] + Box!Carry(d[2] + Box!Carry(d[1]))
       IN Box!Base - 1 + MacFold * Box!Carry(top) < Box!Base * Box!Base

\* "t += len" carries once into t[1]: a block is no longer than a word counts,
\* 64 of 2^32 (blake2s.rs, increment_counter).
ASSUME HashAssumption ==
  /\ Block \in Nat \ {0} /\ Word \in Nat \ {0} /\ Block <= Word
  /\ MaxMessage \in Nat /\ MaxKey \in Nat

\* The limbs have room for the sums and products of a ladder step: one carry and
\* its Fold leave less than half a limb behind ("limbs stay bounded for the next
\* mul/square", x25519.rs:34; 19 and 121665 next to limbs of 2^51).
ASSUME LimbAssumption ==
  /\ FieldRadix \in Nat \ {0} /\ FieldFold \in Nat \ {0} /\ Curve!Base \in Nat
  /\ 32 * FieldFold <= Curve!Base /\ A24 \in 0 .. Curve!Base
  /\ 2 ^ (WordBits - 2) \in Nat /\ 2 * Curve!Base <= 2 ^ (WordBits - 2)
  /\ Scalars \subseteq Nat /\ Points \subseteq Nat /\ Primes \subseteq Nat \ {0}

\* The modulus is prime, and Montgomery's formulas are those of the curve.
ASSUME CurveAssumption == Curve!FieldLaw /\ Curve!MontgomeryLaw

\* Recursive definitions, by the equations that define them: 2^n, the doublings
\* the chain is compared with, and the multiples of a point.
ASSUME RecursionAssumption ==
  /\ 2 ^ 0 = 1 /\ \A i \in 0 .. Curve!Bits : 2 ^ i \in Nat \ {0}
  /\ \A i \in 1 .. Curve!Bits : 2 ^ i = 2 * 2 ^ (i - 1)
  /\ \A m \in Primes :
       /\ Curve!TwoTo(0, m) = 1 /\ \A n \in 0 .. 255 : Curve!TwoTo(n, m) \in Nat
       /\ \A n \in 1 .. 255 : Curve!TwoTo(n, m) = (2 * Curve!TwoTo(n - 1, m)) % m
  /\ \A u \in Curve!Coordinates, n \in Curve!Prefixes :
       Curve!Multiple(n, u) = IF n = 0 THEN Curve!Infinity
                              ELSE Curve!MoreBit(u, Curve!Multiple(n \div 2, u), n % 2)

CryptoInit == part \in {"handshake", "curve", "box", "hash"}
              /\ Init /\ Curve!Init /\ Box!Init /\ Hash!Init

CryptoNext ==
  /\ UNCHANGED part
  /\ \/ part = "handshake" /\ Next /\ UNCHANGED <<curve, box, hash>>
     \/ part = "curve" /\ Curve!Next /\ UNCHANGED <<vars, box, hash>>
     \/ part = "box" /\ Box!Next /\ UNCHANGED <<vars, curve, hash>>
     \/ part = "hash" /\ Hash!Next /\ UNCHANGED <<vars, curve, box>>

CryptoSpec == CryptoInit /\ [][CryptoNext]_all

Computes        == Curve!Computes
TagIsPolynomial == Box!TagIsPolynomial
OpensOnlySealed == Box!OpensOnlySealed
DigestsMatch    == Hash!DigestsMatch
=============================================================================
