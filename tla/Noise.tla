-------------------------------- MODULE Noise --------------------------------
(***************************************************************************)
(* The Noise_IK handshake of crates/akurai-transport/src/noise.rs between  *)
(* any number of parties, over a wire that repeats messages, delays them,  *)
(* delivers them to the wrong party, and damages or mixes up their fields. *)
(*                                                                         *)
(* The primitives are ideal.  A key pair is its name; DH of two key pairs  *)
(* is the set of both, whichever secret computes it.  A chaining key is    *)
(* the sequence of inputs it absorbed and the transcript hash the sequence *)
(* of data: equal values have equal histories.  Both outputs of one kdf2   *)
(* come from the same inputs, so the chaining key just derived also names  *)
(* the AEAD key derived with it.  A sealed text opens only under its key   *)
(* and its associated data.                                                *)
(***************************************************************************)
EXTENDS Naturals, Sequences, FiniteSets

CONSTANTS
  Parties,   \* static key pairs
  Damaged,   \* a field that no party produced
  Nothing,   \* the empty payload, the empty KDF input, Option::None
  MaxEph     \* bound: ephemeral key pairs drawn, numbered in their order

ASSUME NoiseAssumption ==
  /\ MaxEph \in Nat
  /\ Parties \cap Nat = {}
  /\ Damaged \notin Parties \cup Nat
  /\ Nothing \notin Parties \cup Nat

VARIABLES
  drawn,     \* ephemerals drawn
  begun,     \* messages 1 sent, with who sent them to whom
  pending,   \* Initiator states between message 1 and message 2
  answered,  \* what respond returned, and to which message 1
  finished   \* what finalize returned, and for which message 2

vars == <<drawn, begun, pending, answered, finished>>

-----------------------------------------------------------------------------
(***************************************************************************)
(* Symmetric state                                                         *)
(***************************************************************************)
DH(x, y) == {x, y}

MixHash(t, data)  == [ck |-> t.ck, h |-> Append(t.h, data)]
MixKey(t, input)  == [ck |-> Append(t.ck, input), h |-> t.h]   \* kdf1, kdf2
MixE(t, e)        == MixHash(MixKey(t, e), e)

Seal(t, text)     == [key |-> t.ck, ad |-> t.h, text |-> text]
Opens(t, sealed)  == sealed.key = t.ck /\ sealed.ad = t.h

Prelude(rs) == [ck |-> <<>>, h |-> <<rs>>]

T1(t) == <<1, MixKey(t, Nothing).ck>>
T2(t) == <<2, MixKey(t, Nothing).ck>>

-----------------------------------------------------------------------------
(***************************************************************************)
(* initiate                                                                *)
(***************************************************************************)
Initiator(s, rs, e) ==
  LET afterEs == MixKey(MixE(Prelude(rs), e), DH(e, rs))
      static  == Seal(afterEs, s)
      afterSs == MixKey(MixHash(afterEs, static), DH(s, rs))
      empty   == Seal(afterSs, Nothing)
  IN  [static |-> s, to |-> rs, eph |-> e,
       msg    |-> [e |-> e, static |-> static, empty |-> empty],
       state  |-> MixHash(afterSs, empty)]

-----------------------------------------------------------------------------
(***************************************************************************)
(* respond                                                                 *)
(***************************************************************************)
AfterEs(rs, m) == MixKey(MixE(Prelude(rs), m.e), DH(rs, m.e))
AfterSs(rs, m) == MixKey(MixHash(AfterEs(rs, m), m.static), DH(rs, m.static.text))

\* Variant with a slip, used by no specification: the empty payload is not opened.
AcceptsUnproved(rs, m) == Opens(AfterEs(rs, m), m.static)

Accepts(rs, m) == /\ Opens(AfterEs(rs, m), m.static)
                  /\ Opens(AfterSs(rs, m), m.empty)
                  /\ m.empty.text = Nothing

\* Variant with a slip, used by no specification: the sealed payload of message 1
\* is not absorbed.
AnswerUnabsorbed(rs, m, er) ==
  LET ee == MixKey(MixE(AfterSs(rs, m), er), DH(er, m.e))
  IN  MixKey(MixKey(ee, DH(er, m.static.text)), Nothing)

\* The symmetric state that seals message 2.
Answer(rs, m, er) ==
  LET ee == MixKey(MixE(MixHash(AfterSs(rs, m), m.empty), er), DH(er, m.e))
  IN  MixKey(MixKey(ee, DH(er, m.static.text)), Nothing)

\* Variants with a slip, used by no specification: both ends send under t1; the
\* chaining key of message 1 is split.
ResponderKeysUnswapped(t) == [send |-> T1(t), recv |-> T2(t)]
ResponderKeysEarly(t) == [send |-> <<2, SubSeq(t.ck, 1, 3)>>, recv |-> <<1, SubSeq(t.ck, 1, 3)>>]

ResponderKeys(t) == [send |-> T2(t), recv |-> T1(t)]

Responder(rs, m, er) ==
  LET t == Answer(rs, m, er) IN
  [by |-> rs, request |-> m, eph |-> er, from |-> m.static.text,
   msg |-> [e |-> er, empty |-> Seal(t, Nothing)],
   keys |-> ResponderKeys(t)]

-----------------------------------------------------------------------------
(***************************************************************************)
(* finalize                                                                *)
(***************************************************************************)
Final(i, m) ==
  LET ee == MixKey(MixE(i.state, m.e), DH(i.eph, m.e))
  IN  MixKey(MixKey(ee, DH(i.static, m.e)), Nothing)

Finalizes(i, m) == Opens(Final(i, m), m.empty) /\ m.empty.text = Nothing

InitiatorKeys(t) == [send |-> T1(t), recv |-> T2(t)]

Finished(i, m) == [by |-> i.static, to |-> i.to, request |-> i.msg, answer |-> m,
                   keys |-> InitiatorKeys(Final(i, m))]

-----------------------------------------------------------------------------
(***************************************************************************)
(* The wire: the fields of all messages so far, and a damaged one          *)
(***************************************************************************)
DamagedSeal == [key |-> <<Damaged>>, ad |-> <<>>, text |-> Damaged]

Publics == {i.msg.e : i \in begun} \cup {a.msg.e : a \in answered} \cup {Damaged}

Ciphertexts == {i.msg.static : i \in begun} \cup {i.msg.empty : i \in begun}
               \cup {a.msg.empty : a \in answered} \cup {DamagedSeal}

Messages1 == [e : Publics, static : Ciphertexts, empty : Ciphertexts]
Messages2 == [e : Publics, empty : Ciphertexts]

-----------------------------------------------------------------------------
Init == /\ drawn = 0
        /\ begun = {} /\ pending = {} /\ answered = {} /\ finished = {}

CanDraw == drawn < MaxEph
Draw    == drawn' = drawn + 1

Initiate(s, rs) ==
  /\ CanDraw /\ Draw
  /\ LET i == Initiator(s, rs, drawn') IN
       /\ begun' = begun \cup {i}
       /\ pending' = pending \cup {i}
  /\ UNCHANGED <<answered, finished>>

\* A message that is not accepted leaves nothing behind.
Respond(rs, m) ==
  /\ CanDraw /\ Draw
  /\ Accepts(rs, m)
  /\ answered' = answered \cup {Responder(rs, m, drawn')}
  /\ UNCHANGED <<begun, pending, finished>>

\* finalize consumes the state whether it succeeds or not.
Finalize(i, m) ==
  /\ pending' = pending \ {i}
  /\ finished' = IF Finalizes(i, m) THEN finished \cup {Finished(i, m)} ELSE finished
  /\ UNCHANGED <<drawn, begun, answered>>

Next ==
  \/ \E s \in Parties, rs \in Parties : s # rs /\ Initiate(s, rs)
  \/ \E rs \in Parties, m \in Messages1 : Respond(rs, m)
  \/ \E i \in pending, m \in Messages2 : Finalize(i, m)

Spec == Init /\ [][Next]_vars

-----------------------------------------------------------------------------
(***************************************************************************)
(* Properties                                                              *)
(***************************************************************************)

\* What the two functions hand to their callers is of the right kind: an
\* authenticated peer is a static key pair, whatever arrived.
TypeOK ==
  /\ drawn \in Nat
  /\ pending \subseteq begun
  /\ \A i \in begun : i.static \in Parties /\ i.to \in Parties /\ i.eph \in 1 .. drawn
  /\ \A a \in answered : a.by \in Parties /\ a.from \in Parties /\ a.eph \in 1 .. drawn

\* "The Responder learns and authenticates the Initiator's static key from
\* message 1": respond succeeds only on a message 1 that this very party sent to
\* this very responder, whole and as it was sent, however fields were mixed up.
AnswersAuthentic ==
  \A a \in answered :
    \E i \in begun : i.static = a.from /\ i.to = a.by /\ i.msg = a.request

\* "After two messages both peers hold a matched pair of directional
\* TransportKeys": finalize succeeds only on the answer of the party that was
\* meant, to this message 1 and no other, and what one end sends under the other
\* receives under.
MatchedPair ==
  \A f \in finished :
    \E a \in answered :
      /\ a.by = f.to /\ a.from = f.by
      /\ a.request = f.request /\ a.msg = f.answer
      /\ f.keys.send = a.keys.recv /\ f.keys.recv = a.keys.send
      /\ f.keys.send # f.keys.recv

\* What Tunnel takes for granted: transport keys are as good as the two
\* ephemerals of the exchange.  No two answers ever share keys, not even two to
\* the same message 1, and ends share them only if they saw the same two.
KeysNameTheExchange ==
  /\ \A a, b \in answered : {a.keys.send, a.keys.recv} \cap {b.keys.send, b.keys.recv} # {} => a = b
  /\ \A f \in finished, a \in answered :
       f.keys.send = a.keys.recv <=> f.request.e = a.request.e /\ f.answer.e = a.eph

\* "Both peers absorb the same values in the same order": an undamaged message is
\* accepted, message 1 by the responder it is for and message 2 by the state that
\* waits for it.
IntactAccepted ==
  /\ \A i \in begun : Accepts(i.to, i.msg)
  /\ \A i \in pending, a \in answered : a.request = i.msg => Finalizes(i, a.msg)
=============================================================================
