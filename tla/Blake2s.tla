------------------------------ MODULE Blake2s -------------------------------
(***************************************************************************)
(* akurai-crypto: BLAKE2s as a stream (`State`), the keyed hash, HMAC and  *)
(* the Noise HKDF over it (crates/akurai-crypto/src/blake2s.rs, hkdf.rs).  *)
(*                                                                         *)
(* A block is Block bytes (64 in the code), a digest one byte (32), and a  *)
(* counter word counts modulo Word (2^32).  `compress` is an injective     *)
(* function of the chaining value and of what goes into it: the chaining   *)
(* value is the sequence of the calls so far, a digest byte stands for it. *)
(* A byte is a symbol: a message byte, zero, a padded byte, a digest.      *)
(***************************************************************************)
EXTENDS Naturals, Sequences

CONSTANTS Block, Word,
          MaxMessage,    \* bound: bytes of a message
          MaxKey         \* bound: bytes of an HMAC key

VARIABLES
  todo,      \* calls of State still to make, <<>> when idle
  h,         \* the calls of compress so far: <<block, t, last>>
  tlo, thi,  \* the counter t
  buf,       \* buf[..buflen]
  data,      \* what `update` has left of its argument
  digests,   \* results of the hashes done, in order
  asked      \* history: the function that was called, and its arguments

vars == <<todo, h, tlo, thi, buf, data, digests, asked>>

Zero == <<"zero">>
Message(n) == [i \in 1 .. n |-> <<"message", i>>]
KeyBytes(n) == [i \in 1 .. n |-> <<"key", i>>]
DigestOf(log) == <<"digest", log>>
Padded(s) == s \o [i \in 1 .. Block - Len(s) |-> Zero]

\* Calls.  A piece of an argument may be the result of an earlier hash: <<"r", i>>.
New(key)   == [do |-> "new", arg |-> key]
Feed(arg)  == [do |-> "update", arg |-> arg]
Finish     == [do |-> "finalize"]

-----------------------------------------------------------------------------
(***************************************************************************)
(* hash, keyed, hmac and hkdf, as the calls they make                      *)
(***************************************************************************)
Hash(bytes)       == <<New(<<>>), Feed(bytes), Finish>>
KeyedHash(k, msg) == <<New(k), Feed(msg), Finish>>

Xored(pad, bytes) == [i \in DOMAIN bytes |-> <<pad, bytes[i]>>]

\* The pieces of an HMAC with a key of at most a block; the n-th hash of the
\* job is the inner one.
HmacShort(k, msg, n) ==
  <<New(<<>>), Feed(Xored("ipad", Padded(k))), Feed(msg), Finish,
    New(<<>>), Feed(Xored("opad", Padded(k))), Feed(<<<<"r", n>>>>), Finish>>

\* A longer key is hashed first.
HmacCalls(k, msg, n) ==
  IF Len(k) > Block THEN Hash(k) \o HmacShort(<<<<"r", n>>>>, msg, n + 1)
  ELSE HmacShort(k, msg, n)

\* hkdf of N outputs: each HMAC is two hashes; the temporary key is result 2,
\* the outputs are the results 4, 6 and 8.
HkdfCalls(ck, ikm, n) ==
  LET temp == <<<<"r", 2>>>>
      Expand(i) == HmacShort(temp, (IF i = 1 THEN <<>> ELSE <<<<"r", 2 * i>>>>) \o <<<<"out", i>>>>, 2 * i + 1)
  IN HmacCalls(ck, ikm, 1) \o Expand(1)
     \o (IF n >= 2 THEN Expand(2) ELSE <<>>) \o (IF n = 3 THEN Expand(3) ELSE <<>>)

Calls(f) ==
  CASE f.name = "hash"  -> Hash(Message(f.len))
    [] f.name = "keyed" -> KeyedHash(KeyBytes(f.key), Message(f.len))
    [] f.name = "hmac"  -> HmacCalls(KeyBytes(f.key), Message(f.len), 1)
    [] f.name = "hkdf"  -> HkdfCalls(KeyBytes(1), Message(f.len), f.key)

Functions == [name : {"hash"}, key : {0}, len : 0 .. MaxMessage]
             \cup [name : {"keyed"}, key : 1 .. Block, len : 0 .. MaxMessage]
             \cup [name : {"hmac"}, key : 0 .. MaxKey, len : 0 .. MaxMessage]
             \cup [name : {"hkdf"}, key : 1 .. 3, len : 0 .. 1]

NoOne == [name |-> "none", key |-> 0, len |-> 0]

Init == /\ todo = <<>> /\ h = <<>> /\ tlo = 0 /\ thi = 0 /\ buf = <<>>
        /\ data = <<>> /\ digests = <<>> /\ asked = NoOne

Call(f) == /\ todo = <<>>
           /\ todo' = Calls(f) /\ asked' = f /\ digests' = <<>>
           /\ UNCHANGED <<h, tlo, thi, buf, data>>

-----------------------------------------------------------------------------
(***************************************************************************)
(* State                                                                   *)
(***************************************************************************)
Doing(what) == todo # <<>> /\ Head(todo).do = what

\* A byte that stands for the result of an earlier hash of the job.
Result(b)   == IF b[1] = "r" THEN digests[b[2]] ELSE b
Resolved(b) == IF b[1] \in {"ipad", "opad"} THEN <<b[1], Result(b[2])>> ELSE Result(b)

\* The key, padded to a block, goes first; its length is in the parameter block.
StateNew ==
  /\ Doing("new")
  /\ LET key == Head(todo).arg IN
       /\ h' = <<<<"parameters", Len(key)>>>>
       /\ buf' = IF key = <<>> THEN <<>> ELSE Padded(key)
  /\ tlo' = 0 /\ thi' = 0
  /\ todo' = Tail(todo)
  /\ UNCHANGED <<data, digests, asked>>

IncrementCounter(n) ==
  /\ tlo' = (tlo + n) % Word
  /\ thi' = IF tlo' < n THEN (thi + 1) % Word ELSE thi

Compress(block, last) == h' = Append(h, <<block, <<tlo', thi'>>, last>>)

\* update is called: from here on the loop has data.
StartUpdate ==
  /\ Doing("update") /\ data = <<>>
  /\ LET bytes == [i \in DOMAIN Head(todo).arg |-> Resolved(Head(todo).arg[i])] IN
       IF bytes = <<>> THEN todo' = Tail(todo) /\ data' = data
       ELSE todo' = todo /\ data' = bytes
  /\ UNCHANGED <<h, tlo, thi, buf, digests, asked>>

\* What of the data fits behind b; the call is over when nothing is left.
Take(b) ==
  LET room == Block - Len(b)
      n == IF room < Len(data) THEN room ELSE Len(data)
  IN /\ buf' = b \o SubSeq(data, 1, n)
     /\ data' = SubSeq(data, n + 1, Len(data))
     /\ todo' = IF data' = <<>> THEN Tail(todo) ELSE todo

\* Variant with a slip: a buffer that has become full is compressed at once.
UpdateLoopEager ==
  /\ data # <<>>
  /\ IF Len(buf) + Len(data) >= Block
     THEN LET n == Block - Len(buf) IN
          /\ IncrementCounter(Block) /\ Compress(buf \o SubSeq(data, 1, n), FALSE)
          /\ buf' = <<>> /\ data' = SubSeq(data, n + 1, Len(data))
          /\ todo' = IF data' = <<>> THEN Tail(todo) ELSE todo
     ELSE UNCHANGED <<h, tlo, thi>> /\ Take(buf)
  /\ UNCHANGED <<digests, asked>>

\* One turn of the loop: a full buffer is compressed only when more follows.
UpdateLoop ==
  /\ data # <<>>
  /\ \/ /\ Len(buf) = Block
        /\ IncrementCounter(Block) /\ Compress(buf, FALSE)
        /\ Take(<<>>)
     \/ /\ Len(buf) < Block
        /\ UNCHANGED <<h, tlo, thi>>
        /\ Take(buf)
  /\ UNCHANGED <<digests, asked>>

Finalize ==
  /\ Doing("finalize")
  /\ IncrementCounter(Len(buf)) /\ Compress(Padded(buf), TRUE)
  /\ digests' = Append(digests, DigestOf(h'))
  /\ todo' = Tail(todo)
  /\ UNCHANGED <<buf, data, asked>>

Next == \/ \E f \in Functions : Call(f)
        \/ StateNew \/ StartUpdate \/ UpdateLoop \/ Finalize

Spec == Init /\ [][Next]_vars

-----------------------------------------------------------------------------
(***************************************************************************)
(* Properties                                                              *)
(***************************************************************************)
\* The hash as RFC 7693 defines it: the padded key and the bytes, cut into
\* blocks (one at least), the last one flagged, each with the count of bytes
\* up to its end.
Hashed(key, bytes) ==
  LET whole == (IF key = <<>> THEN <<>> ELSE Padded(key)) \o bytes
      n == IF whole = <<>> THEN 1 ELSE (Len(whole) + Block - 1) \div Block
      End(i) == IF i = n THEN Len(whole) ELSE i * Block
  IN DigestOf(<<<<"parameters", Len(key)>>>>
              \o [i \in 1 .. n |-> <<Padded(SubSeq(whole, (i - 1) * Block + 1, End(i))),
                                    <<End(i) % Word, (End(i) \div Word) % Word>>, i = n>>])

\* RFC 2104, and the HKDF of the Noise specification.
HmacOf(key, msg) ==
  LET k == Padded(IF Len(key) > Block THEN <<Hashed(<<>>, key)>> ELSE key)
      inner == Hashed(<<>>, Xored("ipad", k) \o msg)
  IN Hashed(<<>>, Xored("opad", k) \o <<inner>>)

HkdfOf(ck, ikm) ==
  LET temp == <<HmacOf(ck, ikm)>>
      out1 == HmacOf(temp, <<<<"out", 1>>>>)
      out2 == HmacOf(temp, <<out1, <<"out", 2>>>>)
  IN <<out1, out2, HmacOf(temp, <<out2, <<"out", 3>>>>)>>

\* Streamed through a buffer that is compressed one call late, with a counter of
\* two words, in the pieces HMAC and HKDF feed it, every function returns what
\* its definition says: for the empty message, for one that fills its blocks
\* exactly, with the key block, with a key longer than a block.
DigestsMatch ==
  todo = <<>> /\ asked # NoOne =>
    LET f == asked
        Nth(n) == digests[n]
    IN CASE f.name = "hash"  -> Nth(1) = Hashed(<<>>, Message(f.len))
         [] f.name = "keyed" -> Nth(1) = Hashed(KeyBytes(f.key), Message(f.len))
         [] f.name = "hmac"  -> Nth(Len(digests)) = HmacOf(KeyBytes(f.key), Message(f.len))
         [] f.name = "hkdf"  -> \A i \in 1 .. f.key :
                                  Nth(2 + 2 * i) = HkdfOf(KeyBytes(1), Message(f.len))[i]
=============================================================================
