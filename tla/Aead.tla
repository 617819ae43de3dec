-------------------------------- MODULE Aead --------------------------------
(***************************************************************************)
(* akurai-crypto: ChaCha20-Poly1305                                        *)
(* (crates/akurai-crypto/src/chacha20poly1305.rs): the tag, computed block *)
(* by block on limbs, and the framing of seal and open.                    *)
(*                                                                         *)
(* The tag: the code has 5 limbs of 26 bits, p = 2^130 - 5 and blocks of   *)
(* 16 bytes.  Here 3 limbs of Radix bits, p = 2^(3 Radix) - Fold and       *)
(* blocks of two bytes of ByteBits bits; as in the code a block and the    *)
(* bit behind it are shorter than the limbs.                               *)
(* The framing: the tag is an injective function of the one-time key and   *)
(* what it covers, a byte is a bit, and the keystream a fixed function.    *)
(***************************************************************************)
EXTENDS Integers, Sequences

CONSTANTS Radix, Fold, ByteBits,  \* 26, 5 and 8 in the code
          Keys,                   \* bound: pairs <<r, s>> of one-time keys
          MaxBlocks,              \* bound: blocks of a message
          MaxLen                  \* bound: bytes of a text that is sealed

Base == 2 ^ Radix
P    == Base * Base * Base - Fold
Byte == 0 .. 2 ^ ByteBits - 1
TagSpace == 2 ^ (2 * ByteBits)    \* 2^128 in the code

VARIABLES
  pc,        \* "idle", "mac", "tagged", "sealed", "opened"
  key,       \* the one-time key <<r, s>>
  h,         \* the accumulator: three limbs
  blocks,    \* blocks absorbed
  tag,       \* what poly1305_mac returned
  acc,       \* history: the polynomial of the blocks at r, modulo p
  sealed,    \* the nonce, aad and plaintext given to seal, and what it returned
  result     \* what was given to open, and what it returned

macVars == <<key, h, blocks, tag, acc>>
vars == <<pc, macVars, sealed, result>>

-----------------------------------------------------------------------------
(***************************************************************************)
(* poly1305_mac                                                            *)
(***************************************************************************)
Low(v)   == v % Base
Carry(v) == v \div Base
Limbs(n) == <<Low(n), Low(Carry(n)), Carry(Carry(n))>>
Value(l) == l[1] + Base * (l[2] + Base * l[3])

\* The top bit of every word of r is cleared, and the low one of all but the first.
Clamp(r) == LET half == 2 ^ (ByteBits - 1)
                second == (r \div 2 ^ ByteBits) % half
            IN (r % half) + 2 ^ ByteBits * 2 * (second \div 2)

\* The block and the bit behind its last byte.
Number(block) ==
  IF Len(block) = 1 THEN block[1] + 2 ^ ByteBits
  ELSE block[1] + 2 ^ ByteBits * (block[2] + 2 ^ ByteBits)

\* h * r: what wraps past the top limb comes back Fold times.
Product(a, r) == <<a[1] * r[1] + Fold * (a[2] * r[3] + a[3] * r[2]),
                   a[1] * r[2] + a[2] * r[1] + Fold * a[3] * r[3],
                   a[1] * r[3] + a[2] * r[2] + a[3] * r[1]>>

\* Variant with a slip: the carry out of the top limb is lost.
PropagateDropping(d) ==
  LET d2 == d[2] + Carry(d[1])
      d3 == d[3] + Carry(d2)
  IN <<Low(d[1]), Low(d2), Low(d3)>>

\* The carries of one block; the second limb keeps the last one.
Propagate(d) ==
  LET d2 == d[2] + Carry(d[1])
      d3 == d[3] + Carry(d2)
      d1 == Low(d[1]) + Fold * Carry(d3)
  IN <<Low(d1), Low(d2) + Carry(d1), Low(d3)>>

Absorb(l, block) ==
  LET n == Limbs(Number(block))
      m == <<l[1] + n[1], l[2] + n[2], l[3] + n[3]>>
  IN Propagate(Product(m, Limbs(Clamp(key[1]))))

\* The carries after the last block, from the second limb round to it.
LastCarries(l) ==
  LET l3 == l[3] + Carry(l[2])
      l1 == l[1] + Fold * Carry(l3)
  IN <<Low(l1), Low(l[2]) + Carry(l1), Low(l3)>>

\* h - p, kept when it is not negative.
SelectReduced(l) ==
  LET g2 == l[2] + Carry(l[1] + Fold)
      g3 == l[3] + Carry(g2) - Base
  IN IF g3 < 0 THEN l ELSE <<Low(l[1] + Fold), Low(g2), g3>>

\* The limbs are put side by side with "or": a limb that overflows its bits
\* would run into the next.
SideBySide(l) == Value(<<l[1], Low(l[2]), l[3]>>)
                 + (IF l[2] >= Base /\ l[3] % 2 = 0 THEN Base * Base ELSE 0)

MacTag(l, s) == (SideBySide(SelectReduced(LastCarries(l))) + s) % TagSpace

-----------------------------------------------------------------------------
(***************************************************************************)
(* seal and open                                                           *)
(***************************************************************************)
\* The keystream: block 0 of a nonce gives the one-time key, the text uses the
\* blocks from 1 on, two bytes each.
Keystream(nonce, counter, i) == (nonce * counter + i) % 2
ChaChaXor(nonce, data) ==
  [i \in DOMAIN data |-> (data[i] + Keystream(nonce, 1 + (i - 1) \div 2, (i - 1) % 2)) % 2]

Pad(n) == [i \in 1 .. n % 2 |-> 0]

\* Variant with a slip: the lengths are not authenticated.
MacDataNoLengths(aad, ct) == aad \o Pad(Len(aad)) \o ct \o Pad(Len(ct))

\* What the tag covers: both texts, padded to whole blocks, and their lengths.
MacData(aad, ct) ==
  aad \o Pad(Len(aad)) \o ct \o Pad(Len(ct)) \o <<Len(aad), Len(ct)>>

TagOf(nonce, data) == [otk |-> <<nonce, 0>>, data |-> data]

\* A box is the ciphertext with the tag behind it.
Sealing(nonce, aad, plain) ==
  LET ct == ChaChaXor(nonce, plain) IN Append(ct, TagOf(nonce, MacData(aad, ct)))

Refused == [ok |-> FALSE, text |-> <<>>]
Opening(nonce, aad, box) ==
  LET ct == SubSeq(box, 1, Len(box) - 1) IN
  IF box = <<>> THEN Refused
  ELSE IF box[Len(box)] # TagOf(nonce, MacData(aad, ct)) THEN Refused
  ELSE [ok |-> TRUE, text |-> ChaChaXor(nonce, ct)]

-----------------------------------------------------------------------------
Unset == "unset"

Init == /\ pc = "idle" /\ key = <<0, 0>> /\ h = <<0, 0, 0>> /\ blocks = 0
        /\ tag = 0 /\ acc = 0 /\ sealed = Unset /\ result = Unset

StartMac(rs) ==
  /\ pc = "idle"
  /\ pc' = "mac" /\ key' = rs
  /\ UNCHANGED <<h, blocks, tag, acc, sealed, result>>

\* A whole block, or a shorter last one.
Blocks == {<<a, b>> : a, b \in Byte} \cup {<<a>> : a \in Byte}

Feed(b) ==
  /\ pc = "mac" /\ blocks < MaxBlocks
  /\ h' = Absorb(h, b)
  /\ acc' = ((acc + Number(b)) * Clamp(key[1])) % P
  /\ blocks' = IF Len(b) = 2 THEN blocks + 1 ELSE MaxBlocks
  /\ UNCHANGED <<pc, key, tag, sealed, result>>

Finish ==
  /\ pc = "mac"
  /\ pc' = "tagged"
  /\ tag' = MacTag(h, key[2])
  /\ UNCHANGED <<key, h, blocks, acc, sealed, result>>

Texts == UNION {[1 .. n -> {0, 1}] : n \in 0 .. MaxLen}
Nonces == {1, 2}

Seal(nonce, aad, plain) ==
  /\ pc = "idle"
  /\ pc' = "sealed"
  /\ sealed' = [nonce |-> nonce, aad |-> aad, plain |-> plain, box |-> Sealing(nonce, aad, plain)]
  /\ UNCHANGED <<macVars, result>>

\* The receiver is given some nonce, associated data and ciphertext under the
\* sealed tag: changed, cut, grown, or split between the two in another place.
Open(nonce, aad, box) ==
  /\ pc = "sealed"
  /\ pc' = "opened"
  /\ result' = [nonce |-> nonce, aad |-> aad, box |-> box, plain |-> Opening(nonce, aad, box)]
  /\ UNCHANGED <<macVars, sealed>>

Boxes == {<<>>} \cup {Append(ct, sealed.box[Len(sealed.box)]) : ct \in Texts}

Next == \/ \E rs \in Keys : StartMac(rs)
        \/ \E b \in Blocks : Feed(b)
        \/ Finish
        \/ \E nonce \in Nonces, aad, plain \in Texts : Seal(nonce, aad, plain)
        \/ pc = "sealed" /\ \E nonce \in Nonces, aad \in Texts, box \in Boxes : Open(nonce, aad, box)

Spec == Init /\ [][Next]_vars

-----------------------------------------------------------------------------
(***************************************************************************)
(* Properties                                                              *)
(***************************************************************************)
\* RFC 8439: with carries left in the limbs between blocks, the accumulator is
\* the polynomial of the blocks at r modulo p, its limbs stay within a bit of
\* their width, and the tag is the reduced polynomial plus s, for every length
\* of the last block and also when the accumulator ends between p and 2^130.
TagIsPolynomial ==
  /\ pc \in {"mac", "tagged"} => Value(h) % P = acc /\ \A i \in 1 .. 3 : h[i] \in 0 .. 2 * Base - 1
  /\ pc = "tagged" => tag = (acc + key[2]) % TagSpace

\* "returns plaintext on success": open gives back the plaintext of what was
\* sealed, and refuses everything else under its tag: another nonce, other
\* bytes, other lengths, bytes moved between associated data and ciphertext.
OpensOnlySealed ==
  pc = "opened" =>
    result.plain = IF /\ result.nonce = sealed.nonce /\ result.aad = sealed.aad
                      /\ result.box = sealed.box
                   THEN [ok |-> TRUE, text |-> sealed.plain] ELSE Refused
=============================================================================
