---------------------------- MODULE CryptoProofs ---------------------------
(***************************************************************************)
(* The cryptography: who answers whom in Noise, for any parties and any    *)
(* number of exchanges; what a sealed box opens to, for any texts; what    *)
(* the limbs of the tag compute, for any prime; what streams of any length *)
(* hash to; and what X25519 returns, for any field and curve.              *)
(*                                                                         *)
(* The transcript hash tells everything.  What seals the payload of a      *)
(* message has absorbed, in order, all that was said before it, and        *)
(* transcripts of the three sealings have different lengths: a ciphertext  *)
(* that opens where message 1 (2) is expected was made by the sealing of   *)
(* a message 1 (2) with the same fields, so fields of different messages   *)
(* never combine into one that is accepted.                                *)
(***************************************************************************)
EXTENDS MCCrypto, SequenceTheorems, TLAPS

-----------------------------------------------------------------------------
(***************************************************************************)
(* Transcripts as tuples                                                   *)
(***************************************************************************)
\* Append, given its result.
LEMMA AppendIs ==
  ASSUME NEW S, NEW s \in Seq(S), NEW x \in S, NEW w \in Seq(S),
         Len(w) = Len(s) + 1, \A i \in 1 .. Len(s) : w[i] = s[i], w[Len(s) + 1] = x
  PROVE  Append(s, x) = w
<1> DEFINE u == Append(s, x)
<1>1. /\ u \in Seq(S) /\ Len(u) = Len(s) + 1
      /\ \A i \in 1 .. Len(s) : u[i] = s[i]
      /\ u[Len(s) + 1] = x
  BY AppendProperties
<1>2. Len(s) \in Nat  BY LenProperties
<1> HIDE DEF u
<1>3. \A i \in 1 .. Len(u) : u[i] = w[i]
  <2> TAKE i \in 1 .. Len(u)
  <2>1. i \in 1 .. Len(s) \/ i = Len(s) + 1  BY <1>1, <1>2
  <2>2. QED  BY <1>1, <2>1
<1>4. u = w  BY <1>1, <1>3, SeqEqual
<1>5. QED  BY <1>4 DEF u

\* Appending to a tuple of one, of two, of three, of four gives the longer tuple.
LEMMA AppendToOne ==
  ASSUME NEW a, NEW b
  PROVE  Append(<<a>>, b) = <<a, b>>
<1> DEFINE S == {a, b}  s == <<a>>  w == <<a, b>>
<1>1. s \in Seq(S)  OBVIOUS
<1>2. w \in Seq(S)  OBVIOUS
<1>3. b \in S  OBVIOUS
<1>4. Len(w) = Len(s) + 1  OBVIOUS
<1>5. \A i \in 1 .. Len(s) : w[i] = s[i]  OBVIOUS
<1>6. w[Len(s) + 1] = b  OBVIOUS
<1> HIDE DEF S, s, w
<1>7. Append(s, b) = w  BY ONLY <1>1, <1>2, <1>3, <1>4, <1>5, <1>6, AppendIs
<1>8. QED  BY <1>7 DEF s, w

\* Likewise for two.
LEMMA AppendToTwo ==
  ASSUME NEW a, NEW b, NEW c
  PROVE  Append(<<a, b>>, c) = <<a, b, c>>
<1> DEFINE S == {a, b, c}  s == <<a, b>>  w == <<a, b, c>>
<1>1. s \in Seq(S)  OBVIOUS
<1>2. w \in Seq(S)  OBVIOUS
<1>3. c \in S  OBVIOUS
<1>4. Len(w) = Len(s) + 1  OBVIOUS
<1>5. \A i \in 1 .. Len(s) : w[i] = s[i]  OBVIOUS
<1>6. w[Len(s) + 1] = c  OBVIOUS
<1> HIDE DEF S, s, w
<1>7. Append(s, c) = w  BY ONLY <1>1, <1>2, <1>3, <1>4, <1>5, <1>6, AppendIs
<1>8. QED  BY <1>7 DEF s, w

\* Likewise for three.
LEMMA AppendToThree ==
  ASSUME NEW a, NEW b, NEW c, NEW d
  PROVE  Append(<<a, b, c>>, d) = <<a, b, c, d>>
<1> DEFINE S == {a, b, c, d}  s == <<a, b, c>>  w == <<a, b, c, d>>
<1>1. s \in Seq(S)  OBVIOUS
<1>2. w \in Seq(S)  OBVIOUS
<1>3. d \in S  OBVIOUS
<1>4. Len(w) = Len(s) + 1  OBVIOUS
<1>5. \A i \in 1 .. Len(s) : w[i] = s[i]  OBVIOUS
<1>6. w[Len(s) + 1] = d  OBVIOUS
<1> HIDE DEF S, s, w
<1>7. Append(s, d) = w  BY ONLY <1>1, <1>2, <1>3, <1>4, <1>5, <1>6, AppendIs
<1>8. QED  BY <1>7 DEF s, w

\* Likewise for four.
LEMMA AppendToFour ==
  ASSUME NEW a, NEW b, NEW c, NEW d, NEW e
  PROVE  Append(<<a, b, c, d>>, e) = <<a, b, c, d, e>>
<1> DEFINE S == {a, b, c, d, e}  s == <<a, b, c, d>>  w == <<a, b, c, d, e>>
<1>1. s \in Seq(S)  OBVIOUS
<1>2. w \in Seq(S)  OBVIOUS
<1>3. e \in S  OBVIOUS
<1>4. Len(w) = Len(s) + 1  OBVIOUS
<1>5. \A i \in 1 .. Len(s) : w[i] = s[i]  OBVIOUS
<1>6. w[Len(s) + 1] = e  OBVIOUS
<1> HIDE DEF S, s, w
<1>7. Append(s, e) = w  BY ONLY <1>1, <1>2, <1>3, <1>4, <1>5, <1>6, AppendIs
<1>8. QED  BY <1>7 DEF s, w

\* Transcripts of different sealings have different lengths.
LEMMA LengthsDiffer ==
  ASSUME NEW a, NEW b, NEW c, NEW d, NEW e, NEW f, NEW g, NEW y
  PROVE  <<a, b, c>> # <<d, e, f, g, y>> /\ <<>> # <<d, e, f, g, y>>
  OBVIOUS

\* What has been absorbed when the static key is sealed ...
LEMMA StaticTranscript ==
  ASSUME NEW rs, NEW m
  PROVE  AfterEs(rs, m).h = <<rs, m.e>>
  BY AppendToOne DEF AfterEs, MixKey, MixE, MixHash, Prelude

\* ... when the empty payload of message 1 is sealed ...
LEMMA EmptyTranscript ==
  ASSUME NEW rs, NEW m
  PROVE  AfterSs(rs, m).h = <<rs, m.e, m.static>>
  BY StaticTranscript, AppendToTwo DEF AfterSs, MixKey, MixHash

\* ... and when that of message 2 is.
LEMMA AnswerTranscript ==
  ASSUME NEW rs, NEW m, NEW er
  PROVE  Answer(rs, m, er).h = <<rs, m.e, m.static, m.empty, er>>
<1> DEFINE w == MixHash(AfterSs(rs, m), m.empty)
<1>1. w.h = Append(<<rs, m.e, m.static>>, m.empty)
  BY EmptyTranscript DEF MixHash
<1>2. Answer(rs, m, er).h = Append(w.h, er)
  BY DEF Answer, MixKey, MixE, MixHash
<1>3. w.h = <<rs, m.e, m.static, m.empty>>
  BY <1>1, AppendToThree
<1>4. QED  BY <1>2, <1>3, AppendToFour

-----------------------------------------------------------------------------
(***************************************************************************)
(* Initiator and responder compute the same                                *)
(***************************************************************************)
\* DH(x, y) and DH(y, x): both ends of a message reach the same state.
LEMMA SameState ==
  ASSUME NEW s, NEW rs, NEW e, NEW i, i = Initiator(s, rs, e)
  PROVE  /\ i.static = s /\ i.to = rs /\ i.eph = e
         /\ i.msg = [e |-> e, static |-> i.msg.static, empty |-> i.msg.empty]
         /\ i.msg.static = Seal(AfterEs(rs, i.msg), s)
         /\ i.msg.empty = Seal(AfterSs(rs, i.msg), Nothing)
         /\ i.state = MixHash(AfterSs(rs, i.msg), i.msg.empty)
<1> DEFINE afterEs == MixKey(MixE(Prelude(rs), e), DH(e, rs))
           static  == Seal(afterEs, s)
           afterSs == MixKey(MixHash(afterEs, static), DH(s, rs))
           empty   == Seal(afterSs, Nothing)
           msg     == [e |-> e, static |-> static, empty |-> empty]
<1>1. /\ i.static = s /\ i.to = rs /\ i.eph = e
      /\ i.msg = msg /\ i.state = MixHash(afterSs, empty)
  BY DEF Initiator
<1>2. msg.e = e /\ msg.static = static /\ msg.empty = empty
  OBVIOUS
<1>3. static.text = s
  BY DEF Seal
<1>4. DH(e, rs) = DH(rs, e) /\ DH(s, rs) = DH(rs, s)
  BY DEF DH
<1> HIDE DEF static, afterSs, empty, msg
<1>5. AfterEs(rs, msg) = afterEs
  BY <1>2, <1>4 DEF AfterEs
<1>6. AfterSs(rs, msg) = afterSs
  BY <1>2, <1>3, <1>4, <1>5 DEF AfterSs, afterSs
<1>7. static = Seal(AfterEs(rs, msg), s) /\ empty = Seal(AfterSs(rs, msg), Nothing)
  BY <1>5, <1>6 DEF static, empty
<1>8. msg = [e |-> e, static |-> msg.static, empty |-> msg.empty]
  BY <1>2 DEF msg
<1>9. QED  BY <1>1, <1>2, <1>6, <1>7, <1>8

\* Both ends of message 2 reach the same state.
LEMMA SameFinalState ==
  ASSUME NEW s, NEW rs, NEW e, NEW m, NEW i, i = Initiator(s, rs, e)
  PROVE  Final(i, m) = Answer(rs, i.msg, m.e)
<1>1. /\ i.static = s /\ i.to = rs /\ i.eph = e
      /\ i.msg = [e |-> e, static |-> i.msg.static, empty |-> i.msg.empty]
      /\ i.msg.static = Seal(AfterEs(rs, i.msg), s)
      /\ i.state = MixHash(AfterSs(rs, i.msg), i.msg.empty)
  BY SameState
<1>2. i.msg.e = e /\ i.msg.static.text = s
  BY <1>1 DEF Seal
<1>3. DH(m.e, i.msg.e) = DH(i.eph, m.e) /\ DH(m.e, i.msg.static.text) = DH(i.static, m.e)
  BY <1>1, <1>2 DEF DH
<1>4. QED  BY <1>1, <1>2, <1>3 DEF Final, Answer

-----------------------------------------------------------------------------
(***************************************************************************)
(* The inductive invariant: everything was made by the three functions     *)
(***************************************************************************)
Made(i) == \E s \in Parties, rs \in Parties, e \in 1 .. drawn : i = Initiator(s, rs, e)

Replied(a) == \E i \in begun, r \in 1 .. drawn : a = Responder(i.to, i.msg, r)

Completed(f) == \E i \in begun, a \in answered :
                  /\ a.by = i.to /\ a.request = i.msg
                  /\ f = Finished(i, a.msg)

Inv == /\ drawn \in Nat
       /\ pending \subseteq begun
       /\ \A i \in begun : Made(i)
       /\ \A a \in answered : Replied(a)
       /\ \A f \in finished : Completed(f)

\* What was begun, spelled out.
LEMMA BegunFacts ==
  ASSUME Inv, NEW i \in begun
  PROVE  /\ i.static \in Parties /\ i.to \in Parties /\ i.eph \in 1 .. drawn
         /\ i = Initiator(i.static, i.to, i.eph)
         /\ i.msg = [e |-> i.eph, static |-> i.msg.static, empty |-> i.msg.empty]
         /\ i.msg.static.text = i.static
         /\ i.msg.static = Seal(AfterEs(i.to, i.msg), i.static)
         /\ i.msg.empty = Seal(AfterSs(i.to, i.msg), Nothing)
         /\ i.msg.static.ad = <<i.to, i.msg.e>>
         /\ i.msg.empty.ad = <<i.to, i.msg.e, i.msg.static>>
<1>1. PICK s \in Parties, rs \in Parties, e \in 1 .. drawn : i = Initiator(s, rs, e)
  BY DEF Inv, Made
<1>2. /\ i.static = s /\ i.to = rs /\ i.eph = e
      /\ i.msg = [e |-> e, static |-> i.msg.static, empty |-> i.msg.empty]
      /\ i.msg.static = Seal(AfterEs(rs, i.msg), s)
      /\ i.msg.empty = Seal(AfterSs(rs, i.msg), Nothing)
  BY <1>1, SameState
<1>3. i.msg.static.text = s /\ i.msg.static.ad = AfterEs(rs, i.msg).h
  BY <1>2 DEF Seal
<1>4. i.msg.empty.ad = AfterSs(rs, i.msg).h
  BY <1>2 DEF Seal
<1>5. QED  BY <1>1, <1>2, <1>3, <1>4, StaticTranscript, EmptyTranscript

\* What was answered, spelled out.
LEMMA AnsweredFacts ==
  ASSUME Inv, NEW a \in answered
  PROVE  /\ a = Responder(a.by, a.request, a.eph)
         /\ a.eph \in 1 .. drawn
         /\ a.msg = [e |-> a.eph, empty |-> a.msg.empty]
         /\ a.msg.empty.ad = <<a.by, a.request.e, a.request.static, a.request.empty, a.eph>>
         /\ a.keys = ResponderKeys(Answer(a.by, a.request, a.eph))
         /\ \E i \in begun : i.to = a.by /\ i.msg = a.request /\ i.static = a.from
<1>1. PICK i \in begun, r \in 1 .. drawn : a = Responder(i.to, i.msg, r)
  BY DEF Inv, Replied
<1>2. /\ a.by = i.to /\ a.request = i.msg /\ a.eph = r /\ a.from = i.msg.static.text
      /\ a.msg = [e |-> r, empty |-> Seal(Answer(i.to, i.msg, r), Nothing)]
      /\ a.keys = ResponderKeys(Answer(i.to, i.msg, r))
  BY <1>1 DEF Responder
<1>3. a.msg.empty.ad = Answer(i.to, i.msg, r).h /\ a.msg.e = r
  BY <1>2 DEF Seal
<1>4. a.from = i.static
  BY <1>2, BegunFacts
<1>5. a.msg = [e |-> a.eph, empty |-> a.msg.empty]
  BY <1>2
<1>6. QED  BY <1>1, <1>2, <1>3, <1>4, <1>5, AnswerTranscript

\* A message 1 that is accepted was sent, as it is, to the one who accepts it.
LEMMA AcceptedWasSent ==
  ASSUME Inv, NEW rs \in Parties, NEW m \in Messages1, Accepts(rs, m)
  PROVE  \E i \in begun : i.to = rs /\ i.msg = m
<1>1. m.empty.ad = <<rs, m.e, m.static>>
  BY EmptyTranscript DEF Accepts, Opens
<1>2. m = [e |-> m.e, static |-> m.static, empty |-> m.empty] /\ m.empty \in Ciphertexts
  BY DEF Messages1
<1>3. CASE \E i \in begun : m.empty = i.msg.static
  <2>1. PICK i \in begun : m.empty.ad = <<i.to, i.msg.e>>
    BY <1>3, BegunFacts
  <2>2. QED  BY <1>1, <2>1
<1>4. CASE \E i \in begun : m.empty = i.msg.empty
  <2>1. PICK i \in begun : m.empty = i.msg.empty
    BY <1>4
  <2>2. /\ i.msg.empty.ad = <<i.to, i.msg.e, i.msg.static>>
        /\ i.msg = [e |-> i.eph, static |-> i.msg.static, empty |-> i.msg.empty]
    BY BegunFacts
  <2>3. i.to = rs /\ i.msg.e = m.e /\ i.msg.static = m.static
    BY <1>1, <2>1, <2>2
  <2>4. i.msg = m
    BY <1>2, <2>1, <2>2, <2>3
  <2>5. QED  BY <2>3, <2>4
<1>5. CASE \E a \in answered : m.empty = a.msg.empty
  <2>1. PICK a \in answered : m.empty.ad =
          <<a.by, a.request.e, a.request.static, a.request.empty, a.eph>>
    BY <1>5, AnsweredFacts
  <2>2. QED  BY <1>1, <2>1
<1>6. CASE m.empty = DamagedSeal
  <2>1. m.empty.ad = <<>>
    BY <1>6 DEF DamagedSeal
  <2>2. QED  BY <1>1, <2>1
<1>7. QED  BY <1>2, <1>3, <1>4, <1>5, <1>6 DEF Ciphertexts

\* A message 2 that is accepted is an answer to the message 1 it is accepted for,
\* by the party that was meant, and both ends computed the same.
LEMMA FinalizedWasAnswered ==
  ASSUME Inv, NEW i \in pending, NEW m \in Messages2, Finalizes(i, m)
  PROVE  \E a \in answered : /\ a.by = i.to /\ a.request = i.msg /\ a.msg = m
                             /\ Final(i, m) = Answer(a.by, a.request, a.eph)
<1>1. /\ i \in begun
      /\ i = Initiator(i.static, i.to, i.eph)
      /\ i.msg = [e |-> i.eph, static |-> i.msg.static, empty |-> i.msg.empty]
  BY BegunFacts DEF Inv
<1>2. Final(i, m) = Answer(i.to, i.msg, m.e)
  BY <1>1, SameFinalState
<1>3. m.empty.ad = <<i.to, i.msg.e, i.msg.static, i.msg.empty, m.e>>
  BY <1>2, AnswerTranscript DEF Finalizes, Opens
<1>4. m = [e |-> m.e, empty |-> m.empty] /\ m.empty \in Ciphertexts
  BY DEF Messages2
<1>5. CASE \E j \in begun : m.empty = j.msg.static
  <2>1. PICK j \in begun : m.empty.ad = <<j.to, j.msg.e>>
    BY <1>5, BegunFacts
  <2>2. QED  BY <1>3, <2>1
<1>6. CASE \E j \in begun : m.empty = j.msg.empty
  <2>1. PICK j \in begun : m.empty.ad = <<j.to, j.msg.e, j.msg.static>>
    BY <1>6, BegunFacts
  <2>2. QED  BY <1>3, <2>1, LengthsDiffer
<1>7. CASE \E a \in answered : m.empty = a.msg.empty
  <2>1. PICK a \in answered : m.empty = a.msg.empty
    BY <1>7
  <2>2. /\ a.msg = [e |-> a.eph, empty |-> a.msg.empty]
        /\ a.msg.empty.ad = <<a.by, a.request.e, a.request.static, a.request.empty, a.eph>>
        /\ \E j \in begun : j.msg = a.request
    BY AnsweredFacts
  <2>3. /\ a.by = i.to /\ a.eph = m.e
        /\ a.request.e = i.msg.e /\ a.request.static = i.msg.static
        /\ a.request.empty = i.msg.empty
    BY <1>3, <2>1, <2>2
  <2>4. a.msg = m
    BY <1>4, <2>1, <2>2, <2>3
  <2>5. a.request = [e |-> a.request.e, static |-> a.request.static, empty |-> a.request.empty]
    <3>1. PICK j \in begun : j.msg = a.request
      BY <2>2
    <3>2. j.msg = [e |-> j.eph, static |-> j.msg.static, empty |-> j.msg.empty]
      BY BegunFacts
    <3>3. QED  BY <3>1, <3>2
  <2>6. i.msg = [e |-> i.msg.e, static |-> i.msg.static, empty |-> i.msg.empty]
    BY <1>1
  <2>7. a.request = i.msg
    BY <2>3, <2>5, <2>6
  <2>8. QED  BY <1>2, <2>3, <2>4, <2>7
<1>8. CASE m.empty = DamagedSeal
  <2>1. m.empty.ad = <<>>
    BY <1>8 DEF DamagedSeal
  <2>2. QED  BY <1>3, <2>1, LengthsDiffer
<1>9. QED  BY <1>4, <1>5, <1>6, <1>7, <1>8 DEF Ciphertexts

-----------------------------------------------------------------------------
(***************************************************************************)
(* Every step keeps it                                                     *)
(***************************************************************************)
\* What was made stays made when the records of it grow.
LEMMA Grows ==
  ASSUME drawn \in Nat, drawn' \in Nat, drawn <= drawn',
         begun \subseteq begun', answered \subseteq answered'
  PROVE  /\ \A i : Made(i) => Made(i)'
         /\ \A a : Replied(a) => Replied(a)'
         /\ \A f : Completed(f) => Completed(f)'
<1>1. 1 .. drawn \subseteq 1 .. drawn'
  OBVIOUS
<1>2. QED  BY <1>1 DEF Made, Replied, Completed

\* initiate draws an ephemeral and records what it made.
LEMMA InitiateKeeps ==
  ASSUME Inv, NEW s \in Parties, NEW rs \in Parties, Initiate(s, rs)
  PROVE  Inv'
<1>0. PICK i : i = Initiator(s, rs, drawn')
  OBVIOUS
<1>1. /\ drawn \in Nat /\ drawn' = drawn + 1
      /\ begun' = begun \cup {i} /\ pending' = pending \cup {i}
      /\ answered' = answered /\ finished' = finished
  BY <1>0 DEF Initiate, Draw, Inv
<1>2. /\ \A j : Made(j) => Made(j)'
      /\ \A a : Replied(a) => Replied(a)'
      /\ \A f : Completed(f) => Completed(f)'
  BY <1>1, Grows
<1>3. Made(i)'
  <2>1. drawn' \in 1 .. drawn'
    BY <1>1
  <2>2. QED  BY <1>0, <2>1 DEF Made
<1>4. drawn' \in Nat /\ pending' \subseteq begun'
  BY <1>1 DEF Inv
<1>5. \A j \in begun' : Made(j)'
  BY <1>1, <1>2, <1>3 DEF Inv
<1>6. \A a \in answered' : Replied(a)'
  BY <1>1, <1>2 DEF Inv
<1>7. \A f \in finished' : Completed(f)'
  BY <1>1, <1>2 DEF Inv
<1>8. QED  BY <1>4, <1>5, <1>6, <1>7 DEF Inv

\* respond answers a message that was sent.
LEMMA RespondKeeps ==
  ASSUME Inv, NEW rs \in Parties, NEW m \in Messages1, Respond(rs, m)
  PROVE  Inv'
<1>0. PICK a : a = Responder(rs, m, drawn')
  OBVIOUS
<1>1. /\ drawn \in Nat /\ drawn' = drawn + 1 /\ Accepts(rs, m)
      /\ answered' = answered \cup {a}
      /\ begun' = begun /\ pending' = pending /\ finished' = finished
  BY <1>0 DEF Respond, Draw, Inv
<1>2. PICK i \in begun : i.to = rs /\ i.msg = m
  BY <1>1, AcceptedWasSent
<1>3. Replied(a)'
  <2>1. drawn' \in 1 .. drawn' /\ i \in begun'
    BY <1>1
  <2>2. a = Responder(i.to, i.msg, drawn')
    BY <1>0, <1>2
  <2>3. QED  BY <2>1, <2>2 DEF Replied
<1>4. /\ \A j : Made(j) => Made(j)'
      /\ \A b : Replied(b) => Replied(b)'
      /\ \A f : Completed(f) => Completed(f)'
  BY <1>1, Grows
<1>5. drawn' \in Nat /\ pending' \subseteq begun'
  BY <1>1 DEF Inv
<1>6. \A j \in begun' : Made(j)'
  BY <1>1, <1>4 DEF Inv
<1>7. \A b \in answered' : Replied(b)'
  BY <1>1, <1>3, <1>4 DEF Inv
<1>8. \A f \in finished' : Completed(f)'
  BY <1>1, <1>4 DEF Inv
<1>9. QED  BY <1>5, <1>6, <1>7, <1>8 DEF Inv

\* finalize completes an exchange that was answered, or drops the state.
LEMMA FinalizeKeeps ==
  ASSUME Inv, NEW i \in pending, NEW m \in Messages2, Finalize(i, m)
  PROVE  Inv'
<1>1. /\ drawn' = drawn /\ begun' = begun /\ answered' = answered
      /\ pending' \subseteq pending
  BY DEF Finalize
<1>2. \A f \in finished' : f \in finished \/ (Finalizes(i, m) /\ f = Finished(i, m))
  BY DEF Finalize
<1>3. Finalizes(i, m) => Completed(Finished(i, m))
  BY FinalizedWasAnswered DEF Completed, Inv
<1>4. \A f \in finished' : Completed(f)
  BY <1>2, <1>3 DEF Inv
<1>5. \A f : Completed(f) => Completed(f)'
  BY <1>1 DEF Completed
<1>6. QED  BY <1>1, <1>4, <1>5 DEF Inv, Made, Replied

\* The invariant holds throughout.
LEMMA Invariance == Spec => []Inv
<1>1. Init => Inv
  BY DEF Init, Inv
<1>2. Inv /\ [Next]_vars => Inv'
  <2> SUFFICES ASSUME Inv, [Next]_vars PROVE Inv'
    OBVIOUS
  <2>1. CASE \E s \in Parties, rs \in Parties : s # rs /\ Initiate(s, rs)
    BY <2>1, InitiateKeeps
  <2>2. CASE \E rs \in Parties, m \in Messages1 : Respond(rs, m)
    BY <2>2, RespondKeeps
  <2>3. CASE \E i \in pending, m \in Messages2 : Finalize(i, m)
    BY <2>3, FinalizeKeeps
  <2>4. CASE UNCHANGED vars
    BY <2>4 DEF vars, Inv, Made, Replied, Completed
  <2>5. QED  BY <2>1, <2>2, <2>3, <2>4 DEF Next
<1>3. QED  BY <1>1, <1>2, PTL DEF Spec

-----------------------------------------------------------------------------
(***************************************************************************)
(* Theorems                                                                *)
(***************************************************************************)
\* Whatever arrives, respond and finalize only ever name static keys of parties.
THEOREM TypeCorrect == Spec => []TypeOK
<1>1. Inv => TypeOK
  <2> SUFFICES ASSUME Inv PROVE TypeOK
    OBVIOUS
  <2>1. \A i \in begun : i.static \in Parties /\ i.to \in Parties /\ i.eph \in 1 .. drawn
    BY BegunFacts
  <2>2. \A a \in answered : a.by \in Parties /\ a.from \in Parties /\ a.eph \in 1 .. drawn
    BY <2>1, AnsweredFacts
  <2>3. QED  BY <2>1, <2>2 DEF TypeOK, Inv
<1>2. QED  BY <1>1, Invariance, PTL

\* For any parties and any number of exchanges, mixed up in any way: respond
\* answers only what the party it authenticates sent to it, as it was sent.
THEOREM Authentic == Spec => []AnswersAuthentic
<1>1. Inv => AnswersAuthentic
  BY AnsweredFacts DEF AnswersAuthentic
<1>2. QED  BY <1>1, Invariance, PTL

\* Likewise, what finalize returns mirrors what respond returned to the party
\* that was meant, for this very exchange.
THEOREM Matched == Spec => []MatchedPair
<1>1. Inv => MatchedPair
  <2> SUFFICES ASSUME Inv, NEW f \in finished
               PROVE  \E a \in answered :
                        /\ a.by = f.to /\ a.from = f.by
                        /\ a.request = f.request /\ a.msg = f.answer
                        /\ f.keys.send = a.keys.recv /\ f.keys.recv = a.keys.send
                        /\ f.keys.send # f.keys.recv
    BY DEF MatchedPair
  <2>1. PICK i \in begun, a \in answered :
          a.by = i.to /\ a.request = i.msg /\ f = Finished(i, a.msg)
    BY DEF Inv, Completed
  <2>2. /\ f.by = i.static /\ f.to = i.to /\ f.request = i.msg /\ f.answer = a.msg
        /\ f.keys = InitiatorKeys(Final(i, a.msg))
    BY <2>1 DEF Finished
  <2>3. /\ i.msg.static.text = i.static
        /\ i = Initiator(i.static, i.to, i.eph)
    BY BegunFacts
  <2>4. /\ a = Responder(a.by, a.request, a.eph)
        /\ a.msg = [e |-> a.eph, empty |-> a.msg.empty]
        /\ a.keys = ResponderKeys(Answer(a.by, a.request, a.eph))
    BY AnsweredFacts
  <2>5. Final(i, a.msg) = Answer(a.by, a.request, a.eph)
    BY <2>1, <2>3, <2>4, SameFinalState
  <2>6. a.from = i.static
    BY <2>1, <2>3, <2>4 DEF Responder
  <2>7. /\ f.keys.send = a.keys.recv /\ f.keys.recv = a.keys.send
        /\ f.keys.send # f.keys.recv
    BY <2>2, <2>4, <2>5 DEF InitiatorKeys, ResponderKeys, T1, T2
  <2>8. QED  BY <2>1, <2>2, <2>6, <2>7
<1>2. QED  BY <1>1, Invariance, PTL

\* Likewise, every undamaged message is accepted where it belongs.
THEOREM Intact == Spec => []IntactAccepted
<1>1. Inv => IntactAccepted
  <2> SUFFICES ASSUME Inv PROVE IntactAccepted
    OBVIOUS
  <2>1. ASSUME NEW i \in begun PROVE Accepts(i.to, i.msg)
    <3>1. /\ i.msg.static = Seal(AfterEs(i.to, i.msg), i.static)
          /\ i.msg.empty = Seal(AfterSs(i.to, i.msg), Nothing)
      BY BegunFacts
    <3>2. QED  BY <3>1 DEF Accepts, Opens, Seal
  <2>2. ASSUME NEW i \in pending, NEW a \in answered, a.request = i.msg
        PROVE  Finalizes(i, a.msg)
    <3>1. i \in begun /\ i = Initiator(i.static, i.to, i.eph)
      BY BegunFacts DEF Inv
    <3>2. /\ a = Responder(a.by, a.request, a.eph)
          /\ a.msg = [e |-> a.eph, empty |-> a.msg.empty]
          /\ \E j \in begun : j.to = a.by /\ j.msg = a.request
      BY AnsweredFacts
    <3>3. a.by = i.to
      <4>1. PICK j \in begun : j.to = a.by /\ j.msg = a.request
        BY <3>2
      <4>2. /\ j.msg.static.ad = <<j.to, j.msg.e>>
            /\ i.msg.static.ad = <<i.to, i.msg.e>>
        BY <3>1, BegunFacts
      <4>3. QED  BY <2>2, <4>1, <4>2
    <3>4. Final(i, a.msg) = Answer(a.by, a.request, a.eph)
      BY <2>2, <3>1, <3>2, <3>3, SameFinalState
    <3>5. a.msg.empty = Seal(Answer(a.by, a.request, a.eph), Nothing)
      BY <3>2 DEF Responder
    <3>6. QED  BY <3>4, <3>5 DEF Finalizes, Opens, Seal
  <2>3. QED  BY <2>1, <2>2 DEF IntactAccepted
<1>2. QED  BY <1>1, Invariance, PTL

-----------------------------------------------------------------------------
(***************************************************************************)
(* The keys of an exchange                                                 *)
(***************************************************************************)
\* What one more input leaves of the chaining key.
LEMMA Appended ==
  ASSUME NEW S, NEW s \in Seq(S), NEW x \in S, NEW w, w = Append(s, x)
  PROVE  /\ w \in Seq(S) /\ Len(w) = Len(s) + 1
         /\ \A i \in 1 .. Len(s) : w[i] = s[i]
         /\ w[Len(s) + 1] = x
  BY AppendProperties

\* From the fourth input of the chaining key on, the first and the fourth stay.
LEMMA Grown ==
  ASSUME NEW S, NEW s \in Seq(S), NEW x \in S, NEW w, w = Append(s, x),
         NEW n \in 4 .. 7, Len(s) = n
  PROVE  w \in Seq(S) /\ Len(w) = n + 1 /\ w[1] = s[1] /\ w[4] = s[4]
<1>1. 1 \in 1 .. n /\ 4 \in 1 .. n
  OBVIOUS
<1> QED BY <1>1, Appended

\* The chaining key behind message 2 tells the ephemerals: what was mixed in
\* first and fourth.
LEMMA ChainTells ==
  ASSUME NEW rs, NEW m, NEW er
  PROVE  LET ck == MixKey(Answer(rs, m, er), Nothing).ck
         IN  ck[1] = m.e /\ ck[4] = er
<1> DEFINE S  == {m.e, DH(rs, m.e), DH(rs, m.static.text), er, DH(er, m.e),
                  DH(er, m.static.text), Nothing}
           c1 == Append(<<>>, m.e)
           c2 == Append(c1, DH(rs, m.e))
           c3 == Append(c2, DH(rs, m.static.text))
           c4 == Append(c3, er)
           c5 == Append(c4, DH(er, m.e))
           c6 == Append(c5, DH(er, m.static.text))
           c7 == Append(c6, Nothing)
           c8 == Append(c7, Nothing)
<1>1. AfterEs(rs, m).ck = c2
  BY DEF AfterEs, MixKey, MixE, MixHash, Prelude
<1>2. AfterSs(rs, m).ck = c3
  BY <1>1 DEF AfterSs, MixKey, MixHash
<1>3. MixKey(Answer(rs, m, er), Nothing).ck = c8
  BY <1>2 DEF Answer, MixKey, MixE, MixHash
<1>4. <<>> \in Seq(S) /\ Len(<<>>) = 0
  OBVIOUS
<1>5. c1 \in Seq(S) /\ Len(c1) = 1 /\ c1[1] = m.e
  <2>1. m.e \in S /\ c1 = Append(<<>>, m.e)
    OBVIOUS
  <2> HIDE DEF S, c1
  <2> QED BY <1>4, <2>1, Appended
<1>6. c2 \in Seq(S) /\ Len(c2) = 2 /\ c2[1] = m.e
  <2>1. DH(rs, m.e) \in S /\ c2 = Append(c1, DH(rs, m.e))
    OBVIOUS
  <2> HIDE DEF S, c2, c1
  <2> QED BY <1>5, <2>1, Appended
<1>7. c3 \in Seq(S) /\ Len(c3) = 3 /\ c3[1] = m.e
  <2>1. DH(rs, m.static.text) \in S /\ c3 = Append(c2, DH(rs, m.static.text))
    OBVIOUS
  <2> HIDE DEF S, c3, c2, c1
  <2> QED BY <1>6, <2>1, Appended
<1>8. c4 \in Seq(S) /\ Len(c4) = 4 /\ c4[1] = m.e /\ c4[4] = er
  <2>1. er \in S /\ c4 = Append(c3, er)
    OBVIOUS
  <2> HIDE DEF S, c4, c3, c2, c1
  <2> QED BY <1>7, <2>1, Appended
<1>9. c5 \in Seq(S) /\ Len(c5) = 5 /\ c5[1] = m.e /\ c5[4] = er
  <2>1. DH(er, m.e) \in S /\ c5 = Append(c4, DH(er, m.e))
    OBVIOUS
  <2> HIDE DEF S, c5, c4, c3, c2, c1
  <2>2. 4 \in 4 .. 7
    OBVIOUS
  <2> QED BY <1>8, <2>1, <2>2, Grown
<1>10. c6 \in Seq(S) /\ Len(c6) = 6 /\ c6[1] = m.e /\ c6[4] = er
  <2>1. DH(er, m.static.text) \in S /\ c6 = Append(c5, DH(er, m.static.text))
    OBVIOUS
  <2> HIDE DEF S, c6, c5, c4, c3, c2, c1
  <2>2. 5 \in 4 .. 7
    OBVIOUS
  <2> QED BY <1>9, <2>1, <2>2, Grown
<1>11. c7 \in Seq(S) /\ Len(c7) = 7 /\ c7[1] = m.e /\ c7[4] = er
  <2>1. Nothing \in S /\ c7 = Append(c6, Nothing)
    OBVIOUS
  <2> HIDE DEF S, c7, c6, c5, c4, c3, c2, c1
  <2>2. 6 \in 4 .. 7
    OBVIOUS
  <2> QED BY <1>10, <2>1, <2>2, Grown
<1>12. c8 \in Seq(S) /\ Len(c8) = 8 /\ c8[1] = m.e /\ c8[4] = er
  <2>1. Nothing \in S /\ c8 = Append(c7, Nothing)
    OBVIOUS
  <2> HIDE DEF S, c8, c7, c6, c5, c4, c3, c2, c1
  <2>2. 7 \in 4 .. 7
    OBVIOUS
  <2> QED BY <1>11, <2>1, <2>2, Grown
<1> HIDE DEF c8
<1> QED BY <1>3, <1>12

\* Likewise the keys, which are tagged with their direction.
LEMMA KeysTell ==
  ASSUME NEW rs, NEW m, NEW er, NEW rs2, NEW m2, NEW er2
  PROVE  LET w == Answer(rs, m, er)  w2 == Answer(rs2, m2, er2) IN
         /\ T1(w) = T1(w2) => m.e = m2.e /\ er = er2
         /\ T2(w) = T2(w2) => m.e = m2.e /\ er = er2
         /\ T1(w) # T2(w2)
  BY ChainTells DEF T1, T2

\* respond draws its ephemeral: no two answers have the same.
OwnEphemeral == \A a, b \in answered : a.eph = b.eph => a = b

LEMMA EphemeralsAreOwn == Spec => []OwnEphemeral
<1>1. Init => OwnEphemeral
  BY DEF Init, OwnEphemeral
<1>2. Inv /\ OwnEphemeral /\ [Next]_vars => OwnEphemeral'
  <2> SUFFICES ASSUME Inv, OwnEphemeral, [Next]_vars PROVE OwnEphemeral'
    OBVIOUS
  <2>1. ASSUME NEW rs \in Parties, NEW m \in Messages1, Respond(rs, m) PROVE OwnEphemeral'
    <3>0. PICK a : a = Responder(rs, m, drawn')
      OBVIOUS
    <3>1. answered' = answered \cup {a} /\ drawn' = drawn + 1 /\ drawn \in Nat
      BY <2>1, <3>0 DEF Respond, Draw, Inv
    <3>2. a.eph = drawn'
      BY <3>0 DEF Responder
    <3>3. \A b \in answered : b.eph \in 1 .. drawn
      BY AnsweredFacts
    <3>4. \A b \in answered : b.eph # a.eph
      BY <3>1, <3>2, <3>3
    <3> QED BY <3>1, <3>4 DEF OwnEphemeral
  <2>2. answered' = answered => OwnEphemeral'
    BY DEF OwnEphemeral
  <2>3. CASE \E s \in Parties, rs \in Parties : s # rs /\ Initiate(s, rs)
    BY <2>2, <2>3 DEF Initiate
  <2>4. CASE \E i \in pending, m \in Messages2 : Finalize(i, m)
    BY <2>2, <2>4 DEF Finalize
  <2>5. CASE UNCHANGED vars
    BY <2>2, <2>5 DEF vars
  <2> QED BY <2>1, <2>3, <2>4, <2>5 DEF Next
<1> QED BY <1>1, <1>2, Invariance, PTL DEF Spec

\* Transport keys are as good as the two ephemerals of their exchange: no two
\* answers share a key, and ends share keys just when they saw the same two.
THEOREM KeysAreEphemerals == Spec => []KeysNameTheExchange
<1>1. Inv /\ OwnEphemeral => KeysNameTheExchange
  <2> SUFFICES ASSUME Inv, OwnEphemeral PROVE KeysNameTheExchange
    OBVIOUS
  <2>1. ASSUME NEW a \in answered
        PROVE  LET w == Answer(a.by, a.request, a.eph)
               IN  a.keys.send = T2(w) /\ a.keys.recv = T1(w)
    <3>1. a.keys = ResponderKeys(Answer(a.by, a.request, a.eph))
      BY AnsweredFacts
    <3> QED BY <3>1 DEF ResponderKeys
  <2>2. ASSUME NEW a \in answered, NEW b \in answered,
               {a.keys.send, a.keys.recv} \cap {b.keys.send, b.keys.recv} # {}
        PROVE  a = b
    <3> DEFINE w == Answer(a.by, a.request, a.eph)  u == Answer(b.by, b.request, b.eph)
    <3>1. a.keys.send = T2(w) /\ a.keys.recv = T1(w) /\ b.keys.send = T2(u) /\ b.keys.recv = T1(u)
      BY <2>1
    <3>2. T1(w) = T1(u) \/ T1(w) = T2(u) \/ T2(w) = T1(u) \/ T2(w) = T2(u)
      BY <2>2, <3>1
    <3>3. a.eph = b.eph
      BY <3>2, KeysTell
    <3> QED BY <3>3 DEF OwnEphemeral
  <2>3. ASSUME NEW f \in finished, NEW a \in answered
        PROVE  f.keys.send = a.keys.recv <=> f.request.e = a.request.e /\ f.answer.e = a.eph
    <3>1. PICK i \in begun, b \in answered :
            b.by = i.to /\ b.request = i.msg /\ f = Finished(i, b.msg)
      BY DEF Inv, Completed
    <3>2. f.request = b.request /\ f.answer = b.msg /\ f.keys.send = T1(Final(i, b.msg))
      BY <3>1 DEF Finished, InitiatorKeys
    <3>3. i = Initiator(i.static, i.to, i.eph)
      BY BegunFacts
    <3>4. b.msg = [e |-> b.eph, empty |-> b.msg.empty]
      BY AnsweredFacts
    <3>5. Final(i, b.msg) = Answer(b.by, b.request, b.eph) /\ f.answer.e = b.eph
      BY <3>1, <3>2, <3>3, <3>4, SameFinalState
    <3>6. a.keys.recv = T1(Answer(a.by, a.request, a.eph))
      BY <2>1
    <3>7. f.keys.send = a.keys.recv => f.request.e = a.request.e /\ f.answer.e = a.eph
      BY <3>2, <3>5, <3>6, KeysTell
    <3>8. f.answer.e = a.eph => f.keys.send = a.keys.recv
      BY <3>2, <3>5, <3>6 DEF OwnEphemeral
    <3> QED BY <3>7, <3>8
  <2> QED BY <2>2, <2>3 DEF KeysNameTheExchange
<1> QED BY <1>1, Invariance, EphemeralsAreOwn, PTL

-----------------------------------------------------------------------------
(***************************************************************************)
(* Sealed boxes: what the tag covers tells the nonce, both texts and where *)
(* one ends, and the keystream added twice is gone.                        *)
(***************************************************************************)
Bit == {0, 1}

LEMMA KeyBit == ASSUME NEW n \in Box!Nonces, NEW c \in Nat, NEW i \in Int
                PROVE  Box!Keystream(n, c, i) \in Bit
<1>1. n * c + i \in Int
  BY DEF Box!Nonces
<1>2. PICK z \in Int : z = n * c + i
  BY <1>1
<1>3. z % 2 \in {0, 1}
  OBVIOUS
<1> QED BY <1>2, <1>3 DEF Box!Keystream, Bit

\* The keystream added twice is gone.
LEMMA XorBack ==
  ASSUME NEW n \in Box!Nonces, NEW s \in Seq(Bit)
  PROVE  /\ Box!ChaChaXor(n, s) \in Seq(Bit) /\ Len(Box!ChaChaXor(n, s)) = Len(s)
         /\ Box!ChaChaXor(n, Box!ChaChaXor(n, s)) = s
<1> DEFINE K(i) == Box!Keystream(n, 1 + (i - 1) \div 2, (i - 1) % 2)
<1>1. PICK m \in Nat : m = Len(s) /\ DOMAIN s = 1 .. m
  OBVIOUS
<1>2. ASSUME NEW i \in 1 .. m PROVE K(i) \in Bit
  <2>1. 1 + (i - 1) \div 2 \in Nat /\ (i - 1) % 2 \in Int
    OBVIOUS
  <2> QED BY <2>1, KeyBit
<1> HIDE DEF K
<1>3. PICK u : u = Box!ChaChaXor(n, s)
  OBVIOUS
<1>4. u = [i \in 1 .. m |-> (s[i] + K(i)) % 2]
  BY <1>1, <1>3 DEF Box!ChaChaXor, K
<1>5. ASSUME NEW i \in 1 .. m PROVE u[i] \in Bit /\ (u[i] + K(i)) % 2 = s[i]
  <2>1. s[i] \in Bit /\ K(i) \in Bit
    BY <1>1, <1>2, ElementOfSeq
  <2> QED BY <1>4, <2>1 DEF Bit
<1>6. u \in Seq(Bit) /\ Len(u) = m /\ DOMAIN u = 1 .. m
  <2>1. u \in [1 .. m -> Bit]
    BY <1>4, <1>5
  <2> QED BY <2>1
<1>7. PICK w : w = Box!ChaChaXor(n, u)
  OBVIOUS
<1>8. w = [i \in 1 .. m |-> (u[i] + K(i)) % 2]
  BY <1>6, <1>7 DEF Box!ChaChaXor, K
<1>9. w \in Seq(Bit) /\ Len(w) = m /\ \A i \in 1 .. m : w[i] = s[i]
  <2>1. \A i \in 1 .. m : w[i] = s[i] /\ s[i] \in Bit
    BY <1>1, <1>5, <1>8, ElementOfSeq
  <2>2. w \in [1 .. m -> Bit]
    BY <1>8, <2>1
  <2> QED BY <2>1, <2>2
<1>10. w = s
  BY <1>1, <1>9, SeqEqual
<1> QED BY <1>1, <1>3, <1>6, <1>7, <1>10

LEMMA PadBits == ASSUME NEW n \in Nat
                 PROVE  Box!Pad(n) \in Seq(Nat) /\ Len(Box!Pad(n)) = n % 2
<1>1. PICK j \in Nat : j = n % 2
  OBVIOUS
<1>2. [i \in 1 .. j |-> 0] \in [1 .. j -> Nat]
  OBVIOUS
<1>3. [i \in 1 .. j |-> 0] \in Seq(Nat) /\ Len([i \in 1 .. j |-> 0]) = j
  BY <1>2
<1> QED BY <1>1, <1>3 DEF Box!Pad

\* Two sequences, r with n elements behind s with m.
Behind(u, s, m, r, n) == /\ u \in Seq(Nat) /\ Len(u) = m + n
                         /\ \A i \in 1 .. m : u[i] = s[i]
                         /\ \A i \in 1 .. n : u[m + i] = r[i]

LEMMA Joined ==
  ASSUME NEW s \in Seq(Nat), NEW r \in Seq(Nat), NEW m \in Nat, NEW n \in Nat,
         Len(s) = m, Len(r) = n
  PROVE  Behind(s \o r, s, m, r, n)
<1>0. PICK u : u = s \o r
  OBVIOUS
<1>1. /\ u \in Seq(Nat) /\ Len(u) = m + n
      /\ \A i \in 1 .. m + n : u[i] = IF i <= m THEN s[i] ELSE r[i - m]
  BY <1>0, ConcatProperties
<1>2. ASSUME NEW i \in 1 .. n PROVE u[m + i] = r[i]
  <2>1. m + i \in 1 .. m + n /\ ~(m + i <= m) /\ (m + i) - m = i
    OBVIOUS
  <2> QED BY <1>1, <2>1
<1> QED BY <1>0, <1>1, <1>2 DEF Behind

\* What the tag covers: the places of the texts and of their lengths, which are
\* known from the lengths alone.
Place(a, c) == a + (a % 2) + c + (c % 2)

Holds(v, x, y, a, c) ==
  /\ v \in Seq(Nat) /\ Len(v) = Place(a, c) + 2
  /\ v[Place(a, c) + 1] = a /\ v[Place(a, c) + 2] = c
  /\ \A i \in 1 .. a : v[i] = x[i]
  /\ \A i \in 1 .. c : v[(a + (a % 2)) + i] = y[i]

LEMMA Covered ==
  ASSUME NEW x \in Seq(Bit), NEW y \in Seq(Bit), NEW a \in Nat, NEW c \in Nat,
         Len(x) = a, Len(y) = c
  PROVE  Holds(Box!MacData(x, y), x, y, a, c)
<1>0. PICK v : v = Box!MacData(x, y)
  OBVIOUS
<1>1. x \in Seq(Nat) /\ y \in Seq(Nat)
  BY SeqMonotonic DEF Bit
<1>2. PICK j \in Nat, l \in Nat : j = a % 2 /\ l = c % 2
  OBVIOUS
<1>3. PICK padA \in Seq(Nat), padC \in Seq(Nat), ends \in Seq(Nat) :
        /\ padA = Box!Pad(a) /\ padC = Box!Pad(c) /\ ends = <<a, c>>
        /\ Len(padA) = j /\ Len(padC) = l /\ Len(ends) = 2 /\ ends[1] = a /\ ends[2] = c
  <2>1. <<a, c>> \in Seq(Nat) /\ Len(<<a, c>>) = 2
    OBVIOUS
  <2> QED BY <1>2, <2>1, PadBits
<1>4. PICK n1 \in Nat, n2 \in Nat, n3 \in Nat : n1 = a + j /\ n2 = n1 + c /\ n3 = n2 + l
  OBVIOUS
<1>5. PICK s1, s2, s3 : s1 = x \o padA /\ s2 = s1 \o y /\ s3 = s2 \o padC
  OBVIOUS
<1>6. Behind(s1, x, a, padA, j)
  BY <1>1, <1>3, <1>5, Joined
<1>7. s1 \in Seq(Nat) /\ Len(s1) = n1
  BY <1>4, <1>6 DEF Behind
<1>8. Behind(s2, s1, n1, y, c)
  BY <1>1, <1>5, <1>7, Joined
<1>9. s2 \in Seq(Nat) /\ Len(s2) = n2
  BY <1>4, <1>8 DEF Behind
<1>10. Behind(s3, s2, n2, padC, l)
  BY <1>3, <1>5, <1>9, Joined
<1>11. s3 \in Seq(Nat) /\ Len(s3) = n3
  BY <1>4, <1>10 DEF Behind
<1>12. v = s3 \o ends
  BY <1>0, <1>3, <1>5 DEF Box!MacData
<1>13. Behind(v, s3, n3, ends, 2)
  BY <1>3, <1>11, <1>12, Joined
<1>14. Place(a, c) = n3 /\ a + (a % 2) = n1
  BY <1>2, <1>4 DEF Place
<1>15. ASSUME NEW i \in 1 .. a PROVE v[i] = x[i]
  <2>1. i \in 1 .. n1 /\ i \in 1 .. n2 /\ i \in 1 .. n3
    BY <1>4
  <2> QED BY <1>6, <1>8, <1>10, <1>13, <2>1 DEF Behind
<1>16. ASSUME NEW i \in 1 .. c PROVE v[n1 + i] = y[i]
  <2>1. n1 + i \in 1 .. n2 /\ n1 + i \in 1 .. n3
    BY <1>4
  <2> QED BY <1>8, <1>10, <1>13, <2>1 DEF Behind
<1>17. v[n3 + 1] = a /\ v[n3 + 2] = c /\ v \in Seq(Nat) /\ Len(v) = n3 + 2
  BY <1>3, <1>13 DEF Behind
<1> QED BY <1>0, <1>14, <1>15, <1>16, <1>17 DEF Holds

\* It tells the two texts apart.
LEMMA MacDataTells ==
  ASSUME NEW x \in Seq(Bit), NEW y \in Seq(Bit), NEW u \in Seq(Bit), NEW w \in Seq(Bit),
         Box!MacData(x, y) = Box!MacData(u, w)
  PROVE  x = u /\ y = w
<1>1. PICK a \in Nat, c \in Nat, b \in Nat, d \in Nat :
        Len(x) = a /\ Len(y) = c /\ Len(u) = b /\ Len(w) = d
  OBVIOUS
<1>2. PICK v : v = Box!MacData(x, y) /\ v = Box!MacData(u, w)
  OBVIOUS
<1>3. Holds(v, x, y, a, c) /\ Holds(v, u, w, b, d)
  BY <1>1, <1>2, Covered
<1>4. a = b /\ c = d
  <2>1. PICK m \in Nat, n \in Nat : Place(a, c) = m /\ Place(b, d) = n
    BY DEF Place
  <2>2. m + 2 = n + 2 /\ v[m + 1] = a /\ v[m + 2] = c /\ v[n + 1] = b /\ v[n + 2] = d
    BY <1>3, <2>1 DEF Holds
  <2>3. m = n
    BY <2>2
  <2> QED BY <2>2, <2>3
<1>5. x = u
  <2>1. \A i \in 1 .. a : x[i] = u[i]
    BY <1>3, <1>4 DEF Holds
  <2> QED BY <1>1, <1>4, <2>1, SeqEqual
<1>6. y = w
  <2>1. \A i \in 1 .. c : y[i] = w[i]
    BY <1>3, <1>4 DEF Holds
  <2> QED BY <1>1, <1>4, <2>1, SeqEqual
<1> QED BY <1>5, <1>6

\* The sealed box.
TypedSeal ==
  /\ sealed.nonce \in Box!Nonces /\ sealed.aad \in Seq(Bit) /\ sealed.plain \in Seq(Bit)
  /\ sealed.box = Box!Sealing(sealed.nonce, sealed.aad, sealed.plain)

\* A box given to open is a ciphertext with the sealed tag behind it, or empty.
Offered(b) == b = <<>> \/ \E ct \in Seq(Bit) : b = Append(ct, sealed.box[Len(sealed.box)])

\* The inductive invariant behind OpensOnlySealed.
Sealings ==
  /\ phase \in {"sealed", "opened"} => TypedSeal
  /\ phase = "opened" => /\ result.nonce \in Box!Nonces /\ result.aad \in Seq(Bit)
                         /\ Offered(result.box)
                         /\ result.plain = Box!Opening(result.nonce, result.aad, result.box)

LEMMA TextBits == Box!Texts \subseteq Seq(Bit)
<1>1. ASSUME NEW n \in Nat, NEW s \in [1 .. n -> {0, 1}] PROVE s \in Seq(Bit)
  BY DEF Bit
<1>2. ASSUME NEW s \in Box!Texts PROVE s \in Seq(Bit)
  <2>1. PICK n \in 0 .. MaxLen : s \in [1 .. n -> {0, 1}]
    BY DEF Box!Texts
  <2>2. n \in Nat
    OBVIOUS
  <2> QED BY <1>1, <2>1, <2>2
<1> QED BY <1>2

\* The elements of b from f to g.
Cut(d, S, b, f, g) == /\ d \in Seq(S) /\ Len(d) = (IF f <= g THEN g - f + 1 ELSE 0)
                      /\ \A i \in 1 .. g - f + 1 : d[i] = b[f + i - 1]

LEMMA SubSeqCuts == ASSUME NEW S, NEW b, NEW f \in Int, NEW g \in Int, \A i \in f .. g : b[i] \in S
                    PROVE  Cut(SubSeq(b, f, g), S, b, f, g)
<1>1. \A i \in 1 .. g - f + 1 : SubSeq(b, f, g)[i] = b[f + i - 1]
  BY SubSeqProperties
<1>2. SubSeq(b, f, g) \in Seq(S) /\ Len(SubSeq(b, f, g)) = (IF f <= g THEN g - f + 1 ELSE 0)
  BY SubSeqProperties
<1> QED BY <1>1, <1>2, Zenon DEF Cut

\* Something behind a sequence, and what lies before it.
LEMMA Fronted ==
  ASSUME NEW S, NEW c \in Seq(S), NEW tg \in S, NEW b, b = Append(c, tg)
  PROVE  b # <<>> /\ b[Len(b)] = tg /\ SubSeq(b, 1, Len(b) - 1) = c
<1>2. PICK n \in Nat : n = Len(c)
  OBVIOUS
<1>3. /\ b \in Seq(S) /\ b # <<>> /\ Len(b) = n + 1
      /\ \A i \in 1 .. n : b[i] = c[i]
      /\ b[n + 1] = tg
  BY <1>2, AppendProperties
<1>5. \A i \in 1 .. n : b[i] \in S
  BY <1>2, <1>3, ElementOfSeq
<1>4. PICK f \in Int, g \in Int : f = 1 /\ g = n
  OBVIOUS
<1>6. PICK d : d = SubSeq(b, f, g)
  OBVIOUS
<1>7. \A i \in f .. g : b[i] \in S
  BY <1>4, <1>5
<1>8. Cut(d, S, b, f, g)
  BY <1>4, <1>6, <1>7, SubSeqCuts
<1>9. /\ d \in Seq(S) /\ Len(d) = (IF f <= g THEN g - f + 1 ELSE 0)
      /\ \A i \in 1 .. g - f + 1 : d[i] = b[f + i - 1]
  BY <1>8 DEF Cut
<1>10. Len(d) = n
  BY <1>4, <1>9
<1>11. \A i \in 1 .. n : d[i] = c[i]
  BY <1>3, <1>4, <1>9
<1>12. d = c
  BY <1>2, <1>9, <1>10, <1>11, SeqEqual
<1>13. g = Len(b) - 1 /\ n + 1 = Len(b)
  BY <1>3, <1>4
<1>14. SubSeq(b, 1, Len(b) - 1) = d
  BY <1>4, <1>6, <1>13
<1>15. b[Len(b)] = tg
  BY <1>3, <1>13
<1> QED BY <1>3, <1>12, <1>14, <1>15

\* A ciphertext and the tag behind it.
LEMMA Boxed ==
  ASSUME NEW c \in Seq(Bit), NEW tg, NEW b, b = Append(c, tg)
  PROVE  b # <<>> /\ b[Len(b)] = tg /\ SubSeq(b, 1, Len(b) - 1) = c
<1>1. PICK S : S = Bit \cup {tg}
  OBVIOUS
<1>2. c \in Seq(S) /\ tg \in S
  BY <1>1, SeqMonotonic
<1> QED BY <1>2, Fronted

LEMMA SealingsOpen == Sealings => OpensOnlySealed
<1> SUFFICES ASSUME Sealings, phase = "opened"
             PROVE  result.plain = IF /\ result.nonce = sealed.nonce /\ result.aad = sealed.aad
                                      /\ result.box = sealed.box
                                   THEN [ok |-> TRUE, text |-> sealed.plain] ELSE Box!Refused
  BY DEF OpensOnlySealed, Box!OpensOnlySealed
<1>1. PICK n, x, p, c : /\ n = sealed.nonce /\ x = sealed.aad /\ p = sealed.plain
                        /\ c = Box!ChaChaXor(n, p)
  OBVIOUS
<1>2. /\ n \in Box!Nonces /\ x \in Seq(Bit) /\ p \in Seq(Bit) /\ c \in Seq(Bit)
      /\ Box!ChaChaXor(n, c) = p
  BY <1>1, XorBack DEF Sealings, TypedSeal
<1>3. PICK tg : tg = Box!TagOf(n, Box!MacData(x, c))
  OBVIOUS
<1>4. PICK o, r : o = sealed.box /\ r = result.box /\ o = Append(c, tg)
  BY <1>1, <1>3 DEF Sealings, TypedSeal, Box!Sealing
<1>5. o # <<>> /\ o[Len(o)] = tg /\ SubSeq(o, 1, Len(o) - 1) = c
  BY <1>2, <1>4, Boxed
<1>6. PICK m, y : m = result.nonce /\ y = result.aad /\ m \in Box!Nonces /\ y \in Seq(Bit)
  BY DEF Sealings
<1>7. CASE r = <<>>
  BY <1>4, <1>5, <1>7 DEF Sealings, Box!Opening
<1>8. CASE r # <<>>
  <2>1. PICK d \in Seq(Bit) : r = Append(d, tg)
    BY <1>4, <1>5, <1>8 DEF Sealings, Offered
  <2>2. r[Len(r)] = tg /\ SubSeq(r, 1, Len(r) - 1) = d
    BY <2>1, Boxed
  <2>3. result.plain = IF tg # Box!TagOf(m, Box!MacData(y, d)) THEN Box!Refused
                       ELSE [ok |-> TRUE, text |-> Box!ChaChaXor(m, d)]
    BY <1>4, <1>6, <1>8, <2>2 DEF Sealings, Box!Opening
  <2>4. r = o <=> d = c
    BY <1>4, <1>5, <2>1, <2>2
  <2>5. tg = Box!TagOf(m, Box!MacData(y, d)) <=> m = n /\ y = x /\ d = c
    <3>1. ASSUME tg = Box!TagOf(m, Box!MacData(y, d)) PROVE m = n /\ y = x /\ d = c
      <4>1. <<m, 0>> = <<n, 0>> /\ Box!MacData(y, d) = Box!MacData(x, c)
        BY <1>3, <3>1 DEF Box!TagOf
      <4> QED BY <1>2, <1>6, <4>1, MacDataTells
    <3> QED BY <1>3, <3>1
  <2> QED BY <1>1, <1>2, <1>4, <1>6, <2>3, <2>4, <2>5
<1> QED BY <1>7, <1>8

LEMMA SealingsStay == ASSUME Sealings, [Box!Next]_box PROVE Sealings'
<1>1. CASE UNCHANGED <<phase, sealed, result>>
  BY <1>1 DEF Sealings, TypedSeal, Offered
<1>2. CASE phase' \in {"mac", "tagged"}
  BY <1>2 DEF Sealings
<1>3. ASSUME NEW n \in Box!Nonces, NEW x \in Box!Texts, NEW p \in Box!Texts, Box!Seal(n, x, p)
      PROVE  Sealings'
  <2>1. /\ phase' = "sealed"
        /\ sealed'.nonce = n /\ sealed'.aad = x /\ sealed'.plain = p
        /\ sealed'.box = Box!Sealing(n, x, p)
    BY <1>3 DEF Box!Seal
  <2> QED BY <2>1, TextBits DEF Sealings, TypedSeal
<1>4. ASSUME phase = "sealed", NEW n \in Box!Nonces, NEW x \in Box!Texts, NEW b \in Box!Boxes,
             Box!Open(n, x, b)
      PROVE  Sealings'
  <2>1. /\ phase' = "opened" /\ sealed' = sealed
        /\ result'.nonce = n /\ result'.aad = x /\ result'.box = b
        /\ result'.plain = Box!Opening(n, x, b)
    BY <1>4 DEF Box!Open
  <2>2. TypedSeal /\ x \in Seq(Bit)
    BY <1>4, TextBits DEF Sealings
  <2>3. Offered(b)
    BY TextBits DEF Box!Boxes, Offered
  <2> QED BY <2>1, <2>2, <2>3 DEF Sealings, TypedSeal, Offered
<1> QED
  BY <1>1, <1>2, <1>3, <1>4 DEF Box!Next, Box!StartMac, Box!Feed, Box!Finish, box

\* open gives back the plaintext of what was sealed and refuses everything else
\* under its tag, for texts of any length.
THEOREM SealedOnly == CryptoSpec => []OpensOnlySealed
<1>1. CryptoInit => Sealings
  <2>1. CryptoInit => phase = "idle"
    BY DEF CryptoInit, Box!Init
  <2> QED BY <2>1 DEF Sealings
<1>2. Sealings /\ [CryptoNext]_all => Sealings'
  <2>1. [CryptoNext]_all => [Box!Next]_box
    BY DEF CryptoNext, all
  <2> QED BY <2>1, SealingsStay
<1> QED BY <1>1, <1>2, SealingsOpen, PTL DEF CryptoSpec

-----------------------------------------------------------------------------
(***************************************************************************)
(* Division: the quotient and the rest, and what leaves the rest alone.    *)
(***************************************************************************)
LEMMA Euclid == ASSUME NEW v \in Int, NEW b \in Nat \ {0}
                PROVE  \E q \in Int, r \in 0 .. b - 1 : v = b * q + r /\ v \div b = q /\ v % b = r
<1>1. PICK q \in Int, r \in 0 .. b - 1 : q = v \div b /\ r = v % b
  OBVIOUS
<1>2. v % b = v - b * (v \div b)
  OBVIOUS
<1>3. r = v - b * q
  BY <1>1, <1>2
<1>4. v = b * q + r
  BY <1>1, <1>3
<1> QED BY <1>1, <1>4

LEMMA Divided == ASSUME NEW v \in Nat, NEW b \in Nat \ {0}
                 PROVE  v \div b \in Nat /\ v % b \in 0 .. b - 1 /\ v = b * (v \div b) + (v % b)
<1>1. PICK q \in Int, r \in 0 .. b - 1 : v = b * q + r /\ v \div b = q /\ v % b = r
  BY Euclid
<1>2. v \div b \in Nat /\ v % b \in 0 .. b - 1
  OBVIOUS
<1> QED BY <1>1, <1>2

LEMMA ModShift == ASSUME NEW v \in Int, NEW z \in Int, NEW b \in Nat \ {0}
                  PROVE  (v + b * z) % b = v % b
<1>1. PICK q \in Int, r \in 0 .. b - 1 : v = b * q + r /\ v \div b = q /\ v % b = r
  BY Euclid
<1>2. PICK u \in Int : u = v + b * z
  OBVIOUS
<1>3. PICK j \in Int : j = q + z
  BY <1>1
<1>5. u = b * j + r
  BY <1>1, <1>2, <1>3
<1>4. u % b = r
  BY <1>1, <1>3, <1>5
<1> QED BY <1>1, <1>2, <1>4

LEMMA Monotone == ASSUME NEW v \in Nat, NEW w \in Nat, v <= w, NEW b \in Nat \ {0}
                  PROVE  v \div b <= w \div b
<1>1. PICK q \in Int, r \in 0 .. b - 1 : v = b * q + r /\ v \div b = q /\ v % b = r
  BY Euclid
<1>2. PICK p \in Int, s \in 0 .. b - 1 : w = b * p + s /\ w \div b = p /\ w % b = s
  BY Euclid
<1>3. b * q <= b * p + (b - 1)
  BY <1>1, <1>2
<1>4. q <= p
  <2>1. ASSUME p + 1 <= q PROVE FALSE
    <3>1. b * (p + 1) <= b * q
      BY <1>1, <1>2, <2>1
    <3> QED BY <1>1, <1>2, <1>3, <3>1
  <2> QED BY <1>1, <1>2, <2>1
<1> QED BY <1>1, <1>2, <1>4

LEMMA Times == ASSUME NEW v \in Nat, NEW w \in Nat, v <= w, NEW b \in Nat
                  PROVE  v * b <= w * b /\ b * v <= b * w /\ v * b \in Nat
OBVIOUS

-----------------------------------------------------------------------------
(***************************************************************************)
(* The tag.  A multiplication and its carries change the number in the     *)
(* limbs by multiples of the prime only; the carry out of the top is small *)
(* enough for the next block, because fuller limbs have larger carries and *)
(* the fullest have small ones; the carries after the last block leave one *)
(* digit in each limb, and what they make is at most one prime too large.  *)
(***************************************************************************)
\* Limbs with bounds.
Numerals(l, b1, b2, b3) == /\ l[1] \in 0 .. b1 /\ l[2] \in 0 .. b2 /\ l[3] \in 0 .. b3

\* The lemmas that follow are about these numbers.
Sizes(B, F) == B = Box!Base /\ F = MacFold /\ B \in Nat \ {0, 1} /\ F \in 1 .. B

LEMMA Sized == \E B, F : Sizes(B, F)
BY MacAssumption DEF MacAssumption, Sizes

LEMMA Split == ASSUME NEW v \in Nat
               PROVE  /\ Box!Low(v) \in 0 .. Box!Base - 1 /\ Box!Carry(v) \in Nat
                      /\ v = Box!Low(v) + Box!Base * Box!Carry(v)
<1>1. PICK b \in Nat \ {0} : b = Box!Base
  BY MacAssumption DEF MacAssumption
<1>2. v \div b \in Nat /\ v % b \in 0 .. b - 1 /\ v = b * (v \div b) + (v % b)
  BY Divided
<1>3. PICK x \in Nat, y \in 0 .. b - 1 : x = v \div b /\ y = v % b
  BY <1>2
<1>4. v = y + b * x
  BY <1>2, <1>3
<1> QED BY <1>1, <1>3, <1>4 DEF Box!Low, Box!Carry

\* The limbs of a number are its digits.
LEMMA Digits ==
  ASSUME NEW n \in Nat
  PROVE  /\ Box!Value(Box!Limbs(n)) = n
         /\ Box!Limbs(n)[1] \in 0 .. Box!Base - 1 /\ Box!Limbs(n)[2] \in 0 .. Box!Base - 1
         /\ Box!Limbs(n)[3] \in Nat
         /\ n < Box!Base * Box!Base * Box!Base => Box!Limbs(n)[3] \in 0 .. Box!Base - 1
<1>1. PICK B, F : Sizes(B, F)
  BY Sized
<1>2. PICK x \in 0 .. B - 1, c \in Nat : x = Box!Low(n) /\ c = Box!Carry(n) /\ n = x + B * c
  BY <1>1, Split DEF Sizes
<1>3. PICK y \in 0 .. B - 1, z \in Nat : y = Box!Low(c) /\ z = Box!Carry(c) /\ c = y + B * z
  BY <1>1, Split DEF Sizes
<1>4. PICK l : l = Box!Limbs(n) /\ l[1] = x /\ l[2] = y /\ l[3] = z
  <2>1. Box!Limbs(n) = <<x, y, z>>
    BY <1>2, <1>3 DEF Box!Limbs
  <2>2. <<x, y, z>>[1] = x /\ <<x, y, z>>[2] = y /\ <<x, y, z>>[3] = z
    OBVIOUS
  <2> QED BY <2>1, <2>2
<1>5. Box!Value(l) = n
  BY <1>1, <1>2, <1>3, <1>4 DEF Box!Value, Sizes
<1>6. ASSUME n < B * B * B PROVE z \in 0 .. B - 1
  <2>1. ASSUME z >= B PROVE FALSE
    <3>1. B * z >= B * B
      BY <1>1, <2>1 DEF Sizes
    <3>2. c >= B * B
      BY <1>1, <1>3, <3>1 DEF Sizes
    <3>3. B * c >= B * (B * B)
      BY <1>1, <1>2, <3>2 DEF Sizes
    <3> QED BY <1>1, <1>2, <1>6, <3>3 DEF Sizes
  <2> QED BY <1>1, <1>3, <2>1 DEF Sizes
<1> QED BY <1>1, <1>4, <1>5, <1>6 DEF Sizes

\* A triple of naturals is its elements.
Natural(d) == d[1] \in Nat /\ d[2] \in Nat /\ d[3] \in Nat

\* The carry out of the top limb.
TopCarry(d) == Box!Carry(d[3] + Box!Carry(d[2] + Box!Carry(d[1])))

\* Carries keep the number, but for multiples of the prime.
LEMMA Carried ==
  ASSUME NEW d, Natural(d)
  PROVE  /\ TopCarry(d) \in Nat
         /\ Box!Value(d) = Box!Value(Box!Propagate(d)) + Box!P * TopCarry(d)
         /\ Box!Propagate(d)[1] \in 0 .. Box!Base - 1 /\ Box!Propagate(d)[3] \in 0 .. Box!Base - 1
         /\ Box!Propagate(d)[2] \in Nat
         /\ Box!Base - 1 + MacFold * TopCarry(d) < Box!Base * Box!Base =>
              Box!Propagate(d)[2] \in 0 .. 2 * Box!Base - 2
<1>1. PICK B, F : Sizes(B, F)
  BY Sized
<1>2. PICK d1 \in Nat, d2 \in Nat, d3 \in Nat : d1 = d[1] /\ d2 = d[2] /\ d3 = d[3]
  BY DEF Natural
<1>3. PICK x \in 0 .. B - 1, c \in Nat : x = Box!Low(d1) /\ c = Box!Carry(d1) /\ d1 = x + B * c
  BY <1>1, Split DEF Sizes
<1>4. PICK f2 \in Nat : f2 = d2 + c
  OBVIOUS
<1>5. PICK y \in 0 .. B - 1, e \in Nat : y = Box!Low(f2) /\ e = Box!Carry(f2) /\ f2 = y + B * e
  BY <1>1, Split DEF Sizes
<1>6. PICK f3 \in Nat : f3 = d3 + e
  OBVIOUS
<1>7. PICK z \in 0 .. B - 1, g \in Nat : z = Box!Low(f3) /\ g = Box!Carry(f3) /\ f3 = z + B * g
  BY <1>1, Split DEF Sizes
<1>8. PICK f1 \in Nat : f1 = x + F * g
  BY <1>1 DEF Sizes
<1>9. PICK u \in 0 .. B - 1, a \in Nat : u = Box!Low(f1) /\ a = Box!Carry(f1) /\ f1 = u + B * a
  BY <1>1, Split DEF Sizes
<1>10. Box!Propagate(d) = <<u, y + a, z>>
  BY <1>1, <1>2, <1>3, <1>4, <1>5, <1>6, <1>7, <1>8, <1>9 DEF Box!Propagate, Sizes
<1>11. PICK r : r = Box!Propagate(d) /\ r[1] = u /\ r[2] = y + a /\ r[3] = z
  <2>1. <<u, y + a, z>>[1] = u /\ <<u, y + a, z>>[2] = y + a /\ <<u, y + a, z>>[3] = z
    OBVIOUS
  <2> QED BY <1>10, <2>1
<1>12. TopCarry(d) = g
  BY <1>2, <1>3, <1>4, <1>5, <1>6, <1>7 DEF TopCarry
<1>13. Box!Value(r) = u + B * ((y + a) + B * z)
  BY <1>1, <1>11 DEF Box!Value, Sizes
<1>14. Box!Value(d) = d1 + B * (d2 + B * d3)
  BY <1>1, <1>2 DEF Box!Value, Sizes
<1>15. Box!P = B * B * B - F
  BY <1>1 DEF Box!P, Sizes
<1>16. d1 + B * (d2 + B * d3) = u + B * ((y + a) + B * z) + (B * B * B - F) * g
  <2>1. B \in Nat /\ F \in Nat
    BY <1>1 DEF Sizes
  <2>2. PICK be \in Int, bg \in Int, fg \in Int, ba \in Int :
          be = B * e /\ bg = B * g /\ fg = F * g /\ ba = B * a
    BY <2>1
  <2>3. d2 = y + be - c /\ d3 = z + bg - e /\ u = x + fg - ba
    BY <2>2, <1>4, <1>5, <1>6, <1>7, <1>8, <1>9
  <2> QED BY <2>1, <2>2, <2>3, <1>3
<1>17. ASSUME B - 1 + F * g < B * B PROVE y + a \in 0 .. 2 * B - 2
  <2>1. f1 < B * B
    BY <1>1, <1>8, <1>17 DEF Sizes
  <2>2. ASSUME a >= B PROVE FALSE
    <3>1. B * a >= B * B
      BY <1>1, <2>2 DEF Sizes
    <3> QED BY <1>1, <1>9, <2>1, <3>1 DEF Sizes
  <2> QED BY <1>1, <2>2 DEF Sizes
<1> QED
  BY <1>1, <1>11, <1>12, <1>13, <1>14, <1>15, <1>16, <1>17 DEF Sizes

\* So does the product, limb by limb, with what wraps brought back.
LEMMA Multiplied ==
  ASSUME NEW a, NEW r, Natural(a), Natural(r)
  PROVE  /\ Natural(Box!Product(a, r))
         /\ \E x \in Nat : Box!Value(a) * Box!Value(r) = Box!Value(Box!Product(a, r)) + Box!P * x
<1>1. PICK B, F : Sizes(B, F)
  BY Sized
<1>2. PICK a1 \in Nat, a2 \in Nat, a3 \in Nat, r1 \in Nat, r2 \in Nat, r3 \in Nat :
        a1 = a[1] /\ a2 = a[2] /\ a3 = a[3] /\ r1 = r[1] /\ r2 = r[2] /\ r3 = r[3]
  BY DEF Natural
<1>3. PICK d1 \in Nat, d2 \in Nat, d3 \in Nat :
        /\ d1 = a1 * r1 + F * (a2 * r3 + a3 * r2)
        /\ d2 = a1 * r2 + a2 * r1 + F * a3 * r3
        /\ d3 = a1 * r3 + a2 * r2 + a3 * r1
  BY <1>1 DEF Sizes
<1>4. PICK d : d = Box!Product(a, r) /\ d[1] = d1 /\ d[2] = d2 /\ d[3] = d3
  <2>1. Box!Product(a, r) = <<d1, d2, d3>>
    BY <1>1, <1>2, <1>3 DEF Box!Product, Sizes
  <2>2. <<d1, d2, d3>>[1] = d1 /\ <<d1, d2, d3>>[2] = d2 /\ <<d1, d2, d3>>[3] = d3
    OBVIOUS
  <2> QED BY <2>1, <2>2
<1>5. PICK x \in Nat : x = (a2 * r3 + a3 * r2) + B * (a3 * r3)
  BY <1>1 DEF Sizes
<1>6. (a1 + B * (a2 + B * a3)) * (r1 + B * (r2 + B * r3))
        = (d1 + B * (d2 + B * d3)) + (B * B * B - F) * x
  BY <1>1, <1>3, <1>5 DEF Sizes
<1>7. /\ Box!Value(a) = a1 + B * (a2 + B * a3) /\ Box!Value(r) = r1 + B * (r2 + B * r3)
      /\ Box!Value(d) = d1 + B * (d2 + B * d3) /\ Box!P = B * B * B - F
  BY <1>1, <1>2, <1>4 DEF Box!Value, Box!P, Sizes
<1>8. Natural(d)
  BY <1>4 DEF Natural
<1> QED BY <1>4, <1>5, <1>6, <1>7, <1>8

\* What is fuller has the larger carries.
Within(a, b) == a[1] <= b[1] /\ a[2] <= b[2] /\ a[3] <= b[3]

LEMMA CarryGrows == ASSUME NEW v \in Nat, NEW w \in Nat, v <= w PROVE Box!Carry(v) <= Box!Carry(w)
<1>1. PICK B, F : Sizes(B, F)
  BY Sized
<1> QED BY <1>1, Monotone DEF Box!Carry, Sizes

LEMMA TopCarryGrows ==
  ASSUME NEW d, NEW e, Natural(d), Natural(e), Within(d, e)
  PROVE  TopCarry(d) <= TopCarry(e)
<1>1. PICK d1 \in Nat, d2 \in Nat, d3 \in Nat : d1 = d[1] /\ d2 = d[2] /\ d3 = d[3]
  BY DEF Natural
<1>2. PICK e1 \in Nat, e2 \in Nat, e3 \in Nat : e1 = e[1] /\ e2 = e[2] /\ e3 = e[3]
  BY DEF Natural
<1>3. PICK c \in Nat, f \in Nat : c = Box!Carry(d1) /\ f = Box!Carry(e1)
  BY Split
<1>4. c <= f
  BY <1>1, <1>2, <1>3, CarryGrows DEF Within
<1>5. PICK x \in Nat, y \in Nat : x = d2 + c /\ y = e2 + f
  OBVIOUS
<1>6. x <= y
  BY <1>1, <1>2, <1>4, <1>5 DEF Within
<1>7. PICK i \in Nat, j \in Nat : i = Box!Carry(x) /\ j = Box!Carry(y)
  BY Split
<1>8. i <= j
  BY <1>6, <1>7, CarryGrows
<1>9. PICK v \in Nat, w \in Nat : v = d3 + i /\ w = e3 + j
  OBVIOUS
<1>10. v <= w
  BY <1>1, <1>2, <1>8, <1>9 DEF Within
<1>11. TopCarry(d) = Box!Carry(v) /\ TopCarry(e) = Box!Carry(w)
  BY <1>1, <1>2, <1>3, <1>5, <1>7, <1>9 DEF TopCarry
<1> QED BY <1>10, <1>11, CarryGrows

LEMMA ProductGrows ==
  ASSUME NEW a, NEW b, NEW r, Natural(a), Natural(b), Natural(r), Within(a, b)
  PROVE  Within(Box!Product(a, r), Box!Product(b, r))
<1>1. PICK B, F : Sizes(B, F)
  BY Sized
<1>2. PICK a1 \in Nat, a2 \in Nat, a3 \in Nat, b1 \in Nat, b2 \in Nat, b3 \in Nat :
        a1 = a[1] /\ a2 = a[2] /\ a3 = a[3] /\ b1 = b[1] /\ b2 = b[2] /\ b3 = b[3]
  BY DEF Natural
<1>3. PICK r1 \in Nat, r2 \in Nat, r3 \in Nat : r1 = r[1] /\ r2 = r[2] /\ r3 = r[3]
  BY DEF Natural
<1>4. a1 <= b1 /\ a2 <= b2 /\ a3 <= b3
  BY <1>2 DEF Within
<1>5. /\ a1 * r1 <= b1 * r1 /\ a1 * r2 <= b1 * r2 /\ a1 * r3 <= b1 * r3
      /\ a2 * r1 <= b2 * r1 /\ a2 * r2 <= b2 * r2 /\ a2 * r3 <= b2 * r3
      /\ a3 * r1 <= b3 * r1 /\ a3 * r2 <= b3 * r2 /\ a3 * r3 <= b3 * r3
  BY <1>4, Times
<1>6. PICK x \in Nat, y \in Nat, v \in Nat, w \in Nat :
        x = a2 * r3 + a3 * r2 /\ y = b2 * r3 + b3 * r2 /\ v = a3 * r3 /\ w = b3 * r3
  OBVIOUS
<1>7. F \in Nat /\ F * x <= F * y /\ F * v <= F * w
  <2>1. F \in Nat /\ x <= y /\ v <= w
    BY <1>1, <1>5, <1>6 DEF Sizes
  <2> QED BY <2>1, Times
<1>8. /\ a1 * r1 + F * x <= b1 * r1 + F * y
      /\ a1 * r2 + a2 * r1 + F * v <= b1 * r2 + b2 * r1 + F * w
      /\ a1 * r3 + a2 * r2 + a3 * r1 <= b1 * r3 + b2 * r2 + b3 * r1
  BY <1>5, <1>7
<1>9. F * a3 * r3 = F * v /\ F * b3 * r3 = F * w
  BY <1>6, <1>7
<1>10. ASSUME NEW c, NEW c1 \in Nat, NEW c2 \in Nat, NEW c3 \in Nat, c[1] = c1, c[2] = c2, c[3] = c3
       PROVE  /\ Box!Product(c, r)[1] = c1 * r1 + F * (c2 * r3 + c3 * r2)
              /\ Box!Product(c, r)[2] = c1 * r2 + c2 * r1 + F * c3 * r3
              /\ Box!Product(c, r)[3] = c1 * r3 + c2 * r2 + c3 * r1
  BY <1>1, <1>3, <1>10 DEF Box!Product, Sizes
<1>11. /\ Box!Product(a, r)[1] = a1 * r1 + F * x
       /\ Box!Product(a, r)[2] = a1 * r2 + a2 * r1 + F * v
       /\ Box!Product(a, r)[3] = a1 * r3 + a2 * r2 + a3 * r1
  <2>1. /\ Box!Product(a, r)[1] = a1 * r1 + F * (a2 * r3 + a3 * r2)
        /\ Box!Product(a, r)[2] = a1 * r2 + a2 * r1 + F * a3 * r3
        /\ Box!Product(a, r)[3] = a1 * r3 + a2 * r2 + a3 * r1
    BY <1>2, <1>10
  <2>2. a1 * r2 + a2 * r1 + F * a3 * r3 = a1 * r2 + a2 * r1 + F * v
    BY <1>9
  <2> QED BY <2>1, <2>2, <1>6
<1>12. /\ Box!Product(b, r)[1] = b1 * r1 + F * y
       /\ Box!Product(b, r)[2] = b1 * r2 + b2 * r1 + F * w
       /\ Box!Product(b, r)[3] = b1 * r3 + b2 * r2 + b3 * r1
  <2>1. /\ Box!Product(b, r)[1] = b1 * r1 + F * (b2 * r3 + b3 * r2)
        /\ Box!Product(b, r)[2] = b1 * r2 + b2 * r1 + F * b3 * r3
        /\ Box!Product(b, r)[3] = b1 * r3 + b2 * r2 + b3 * r1
    BY <1>2, <1>10
  <2>2. b1 * r2 + b2 * r1 + F * b3 * r3 = b1 * r2 + b2 * r1 + F * w
    BY <1>9
  <2> QED BY <2>1, <2>2, <1>6
<1> QED BY <1>8, <1>11, <1>12 DEF Within

-----------------------------------------------------------------------------
\* A block and a clamped key are naturals, the block below the end of the limbs.
LEMMA BlockNumber ==
  ASSUME NEW b \in Box!Blocks
  PROVE  Box!Number(b) \in Nat /\ Box!Number(b) < Box!Base * Box!Base * Box!Base
<1>1. PICK C \in Nat \ {0}, top \in Nat :
        C = 2 ^ ByteBits /\ top = Box!Base * Box!Base * Box!Base /\ 2 * C * C <= top
  <2>1. Box!Base * Box!Base * Box!Base \in Nat
    BY MacAssumption DEF MacAssumption
  <2> QED BY <2>1, MacAssumption DEF MacAssumption
<1>2. \A x \in Box!Byte : x \in 0 .. C - 1
  BY <1>1 DEF Box!Byte
<1>3. CASE \E x, y \in Box!Byte : b = <<x, y>>
  <2>1. PICK x \in 0 .. C - 1, y \in 0 .. C - 1 : b = <<x, y>>
    BY <1>2, <1>3
  <2>2. b[1] = x /\ b[2] = y /\ Len(b) = 2
    BY <2>1
  <2>3. Box!Number(b) = x + C * (y + C)
    BY <1>1, <2>2 DEF Box!Number
  <2>4. y + C \in Nat /\ y + C <= 2 * C - 1
    BY <2>1
  <2>5. C * (y + C) <= C * (2 * C - 1) /\ C * (y + C) \in Nat
    BY <2>4
  <2>6. x + C * (y + C) \in Nat /\ x + C * (y + C) < 2 * C * C
    BY <2>1, <2>5
  <2> QED BY <1>1, <2>3, <2>6
<1>4. CASE \E x \in Box!Byte : b = <<x>>
  <2>1. PICK x \in 0 .. C - 1 : b = <<x>>
    BY <1>2, <1>4
  <2>2. b[1] = x /\ Len(b) = 1
    BY <2>1
  <2>3. Box!Number(b) = x + C
    BY <1>1, <2>2 DEF Box!Number
  <2>4. x + C < 2 * C * C
    <3>1. C * 1 <= C * C
      BY <1>1
    <3> QED BY <2>1, <3>1
  <2> QED BY <1>1, <2>3, <2>4
<1> QED BY <1>3, <1>4 DEF Box!Blocks

LEMMA Clamped == ASSUME NEW r \in Nat PROVE Box!Clamp(r) \in Nat
<1>1. PICK C \in Nat \ {0}, half \in Nat \ {0} : C = 2 ^ ByteBits /\ half = 2 ^ (ByteBits - 1)
  BY MacAssumption DEF MacAssumption
<1>2. PICK s \in Nat : s = (r \div C) % half
  <2>1. PICK q \in Nat : q = r \div C
    BY <1>1, Divided
  <2>2. q % half \in 0 .. half - 1
    BY <1>1, <2>1, Divided
  <2> QED BY <1>1, <2>1, <2>2
<1>3. PICK e \in Nat, v \in 0 .. half - 1 : e = s \div 2 /\ v = r % half
  <2>1. s \div 2 \in Nat
    BY <1>2, Divided
  <2>2. r % half \in 0 .. half - 1
    BY <1>1, Divided
  <2> QED BY <2>1, <2>2
<1>4. (r % half) + C * 2 * (s \div 2) \in Nat
  <2>1. v + C * 2 * e \in Nat
    BY <1>1
  <2> QED BY <1>3, <2>1
<1> QED BY <1>1, <1>2, <1>4 DEF Box!Clamp

\* Between blocks the accumulator is that of the polynomial, with room left.
Between(l, a) == /\ Numerals(l, Box!Base - 1, 2 * Box!Base - 2, Box!Base - 1)
                 /\ a \in Nat /\ Box!Value(l) % Box!P = a

LEMMA Prime == Box!P \in Nat \ {0}
<1>1. PICK B, F : Sizes(B, F)
  BY Sized
<1>2. B * B * B > B
  <2>1. B * B >= 2 * B
    BY <1>1 DEF Sizes
  <2>2. B * B * B >= 2 * B * B
    BY <1>1, <2>1 DEF Sizes
  <2> QED BY <1>1, <2>1, <2>2 DEF Sizes
<1> QED BY <1>1, <1>2 DEF Sizes, Box!P

LEMMA Valued == ASSUME NEW l, NEW b1, NEW b2, NEW b3, Numerals(l, b1, b2, b3)
                PROVE  Box!Value(l) \in Int
<1>1. PICK l1 \in Int, l2 \in Int, l3 \in Int, B \in Int :
        l1 = l[1] /\ l2 = l[2] /\ l3 = l[3] /\ B = Box!Base
  BY MacAssumption DEF Numerals, MacAssumption
<1> QED BY <1>1 DEF Box!Value

\* Adding a block.
Added(l, n) == <<l[1] + n[1], l[2] + n[2], l[3] + n[3]>>

LEMMA Adds ==
  ASSUME NEW l, NEW n, Numerals(l, Box!Base - 1, 2 * Box!Base - 2, Box!Base - 1),
         Numerals(n, Box!Base - 1, Box!Base - 1, Box!Base - 1)
  PROVE  /\ Natural(Added(l, n)) /\ Within(Added(l, n), FullLimbs)
         /\ Natural(FullLimbs)
         /\ Box!Value(Added(l, n)) = Box!Value(l) + Box!Value(n)
<1>1. PICK B, F : Sizes(B, F)
  BY Sized
<1>2. PICK l1 \in 0 .. B - 1, l2 \in 0 .. 2 * B - 2, l3 \in 0 .. B - 1 :
        l1 = l[1] /\ l2 = l[2] /\ l3 = l[3]
  BY <1>1 DEF Numerals, Sizes
<1>3. PICK n1 \in 0 .. B - 1, n2 \in 0 .. B - 1, n3 \in 0 .. B - 1 :
        n1 = n[1] /\ n2 = n[2] /\ n3 = n[3]
  BY <1>1 DEF Numerals, Sizes
<1>4. PICK m : m = Added(l, n) /\ m[1] = l1 + n1 /\ m[2] = l2 + n2 /\ m[3] = l3 + n3
  <2>1. Added(l, n) = <<l1 + n1, l2 + n2, l3 + n3>>
    BY <1>2, <1>3 DEF Added
  <2> QED BY <2>1
<1>5. PICK e : e = FullLimbs /\ e[1] = 2 * B - 2 /\ e[2] = 3 * B - 3 /\ e[3] = 2 * B - 2
  <2>1. FullLimbs = <<2 * B - 2, 3 * B - 3, 2 * B - 2>>
    BY <1>1 DEF FullLimbs, Sizes
  <2> QED BY <2>1
<1>6. Natural(m) /\ Within(m, e) /\ Natural(e)
  BY <1>1, <1>2, <1>3, <1>4, <1>5 DEF Natural, Within, Sizes
<1>7. /\ Box!Value(l) = l1 + B * (l2 + B * l3) /\ Box!Value(n) = n1 + B * (n2 + B * n3)
      /\ Box!Value(m) = (l1 + n1) + B * ((l2 + n2) + B * (l3 + n3))
  BY <1>1, <1>2, <1>3, <1>4 DEF Box!Value, Sizes
<1>8. Box!Value(m) = Box!Value(l) + Box!Value(n)
  <2>1. (l1 + n1) + B * ((l2 + n2) + B * (l3 + n3))
          = (l1 + B * (l2 + B * l3)) + (n1 + B * (n2 + B * n3))
    BY <1>1 DEF Sizes
  <2> QED BY <1>7, <2>1
<1> QED BY <1>4, <1>5, <1>6, <1>8

\* One block: multiplied and carried, the accumulator is that of one more term.
LEMMA Absorbed ==
  ASSUME key \in MacKeys, NEW a, NEW l, Between(l, a), NEW b \in Box!Blocks
  PROVE  Between(Box!Absorb(l, b), ((a + Box!Number(b)) * Box!Clamp(key[1])) % Box!P)
<1>1. PICK B, F : Sizes(B, F)
  BY Sized
<1>2. PICK j \in Nat, k1 \in Nat : j = Box!Number(b) /\ k1 = Box!Clamp(key[1])
  <2>1. key[1] \in Nat
    BY MacAssumption DEF MacAssumption
  <2> QED BY <2>1, BlockNumber, Clamped
<1>3. PICK n, r : n = Box!Limbs(j) /\ r = Box!Limbs(k1)
  OBVIOUS
<1>4. /\ Numerals(n, Box!Base - 1, Box!Base - 1, Box!Base - 1) /\ Box!Value(n) = j
      /\ Natural(r) /\ Box!Value(r) = k1
  <2>1. j < Box!Base * Box!Base * Box!Base
    BY <1>2, BlockNumber
  <2>2. Numerals(n, Box!Base - 1, Box!Base - 1, Box!Base - 1) /\ Box!Value(n) = j
    BY <1>3, <2>1, Digits DEF Numerals
  <2>3. r[1] \in Nat /\ r[2] \in Nat
    BY <1>1, <1>3, Digits DEF Sizes
  <2> QED BY <1>3, <2>2, <2>3, Digits DEF Natural
<1>5. PICK m : m = Added(l, n)
  OBVIOUS
<1>6. /\ Natural(m) /\ Within(m, FullLimbs) /\ Natural(FullLimbs)
      /\ Box!Value(m) = Box!Value(l) + j
  BY <1>4, <1>5, Adds DEF Between
<1>7. PICK d, e : d = Box!Product(m, r) /\ e = Box!Product(FullLimbs, r)
  OBVIOUS
<1>8. /\ Natural(d) /\ Natural(e) /\ Within(d, e)
  BY <1>4, <1>6, <1>7, Multiplied, ProductGrows
<1>9. PICK x \in Nat : Box!Value(m) * k1 = Box!Value(d) + Box!P * x
  BY <1>4, <1>6, <1>7, Multiplied
<1>10. PICK g \in Nat, f \in Nat : g = TopCarry(d) /\ f = TopCarry(e) /\ g <= f
  BY <1>8, Carried, TopCarryGrows
<1>11. B - 1 + F * f < B * B
  <2>1. \A rs \in MacKeys :
          Box!Base - 1 + MacFold * TopCarry(Box!Product(FullLimbs, Box!Limbs(Box!Clamp(rs[1])))) < Box!Base * Box!Base
    BY MacAssumption DEF MacAssumption, TopCarry
  <2> QED BY <1>1, <1>2, <1>3, <1>7, <1>10, <2>1 DEF Sizes
<1>12. B - 1 + F * g < B * B
  <2>1. F * g <= F * f
    BY <1>1, <1>10, Times DEF Sizes
  <2>2. PICK fg \in Int, ff \in Int, bb \in Int : fg = F * g /\ ff = F * f /\ bb = B * B
    BY <1>1, <1>10 DEF Sizes
  <2> QED BY <1>1, <1>11, <2>1, <2>2 DEF Sizes
<1>13. PICK u : u = Box!Propagate(d)
  OBVIOUS
<1>14. Numerals(u, Box!Base - 1, 2 * Box!Base - 2, Box!Base - 1) /\ Box!Value(d) = Box!Value(u) + Box!P * g
  BY <1>1, <1>8, <1>10, <1>12, <1>13, Carried DEF Numerals, Sizes
<1>15. PICK p \in Nat \ {0}, v \in Int, w \in Int, q \in Int :
         p = Box!P /\ v = Box!Value(l) /\ w = Box!Value(u) /\ v = p * q + a
  <2>1. Box!Value(l) \in Int /\ Box!Value(u) \in Int
    BY <1>1, <1>14, Valued DEF Between
  <2>2. PICK p \in Nat \ {0}, v \in Int : p = Box!P /\ v = Box!Value(l)
    BY <2>1, Prime
  <2>3. PICK q \in Int, rest \in 0 .. p - 1 : v = p * q + rest /\ v % p = rest
    BY <2>2, Euclid
  <2>4. rest = a
    BY <2>2, <2>3 DEF Between
  <2> QED BY <2>1, <2>2, <2>3, <2>4
<1>16. a \in Nat
  BY DEF Between
<1>17. (v + j) * k1 = (w + p * g) + p * x
  BY <1>6, <1>9, <1>14, <1>15
<1>18. PICK z \in Int : z = q * k1 - g - x
  BY <1>15
<1>19. w = (a + j) * k1 + p * z
  <2>1. (p * q + a + j) * k1 = (w + p * g) + p * x
    BY <1>15, <1>17
  <2>2. (p * q + a + j) * k1 = (a + j) * k1 + p * (q * k1)
    BY <1>15, <1>16
  <2>3. p * z = p * (q * k1) - p * g - p * x
    BY <1>15, <1>18
  <2>4. PICK s1 \in Int, s2 \in Int, s3 \in Int, s4 \in Int, s5 \in Int :
          s1 = (a + j) * k1 /\ s2 = p * (q * k1) /\ s3 = p * g /\ s4 = p * x /\ s5 = p * z
    BY <1>15, <1>16, <1>18
  <2>5. s1 + s2 = w + s3 + s4
    BY <2>1, <2>2, <2>4
  <2>6. s5 = s2 - s3 - s4
    BY <2>3, <2>4
  <2>7. w = s1 + s5
    BY ONLY <1>15, <2>4, <2>5, <2>6
  <2> QED BY <2>4, <2>7
<1>20. PICK c \in Nat : c = (a + j) * k1
  BY <1>16
<1>21. w % p = c % p
  <2>1. w = c + p * z
    BY <1>19, <1>20
  <2>2. (c + p * z) % p = c % p
    <3>1. c \in Int /\ p \in Nat \ {0} /\ z \in Int
      BY <1>15, <1>18, <1>20
    <3> QED BY ONLY <3>1, ModShift, Zenon
  <2> QED BY <2>1, <2>2
<1>22. c % p \in Nat
  BY <1>15, <1>20, Divided
<1>23. Box!Absorb(l, b) = u
  BY <1>2, <1>3, <1>5, <1>7, <1>13 DEF Box!Absorb, Added
<1> QED
  BY <1>2, <1>14, <1>15, <1>20, <1>21, <1>22, <1>23 DEF Between

\* The carries after the last block leave a number with a digit per limb.
LEMMA LastlyCarried ==
  ASSUME NEW l, NEW a, Between(l, a), NEW r, r = Box!LastCarries(l)
  PROVE  /\ Numerals(r, Box!Base - 1, Box!Base - 1, Box!Base - 1)
         /\ Box!Value(r) % Box!P = a
<1>1. PICK B, F : Sizes(B, F)
  BY Sized
<1>2. PICK l1 \in 0 .. B - 1, l2 \in 0 .. 2 * B - 2, l3 \in 0 .. B - 1 :
        l1 = l[1] /\ l2 = l[2] /\ l3 = l[3]
  BY <1>1 DEF Between, Numerals, Sizes
<1>3. PICK y \in 0 .. B - 1, c2 \in Nat : y = Box!Low(l2) /\ c2 = Box!Carry(l2) /\ l2 = y + B * c2
  <2>1. l2 \in Nat
    BY <1>1 DEF Sizes
  <2> QED BY <1>1, <2>1, Split DEF Sizes
<1>4. PICK f3 \in Nat : f3 = l3 + c2
  BY <1>2
<1>5. PICK z \in 0 .. B - 1, c3 \in Nat : z = Box!Low(f3) /\ c3 = Box!Carry(f3) /\ f3 = z + B * c3
  BY <1>1, Split DEF Sizes
<1>6. PICK f1 \in Nat : f1 = l1 + F * c3
  BY <1>1, <1>2 DEF Sizes
<1>7. PICK x \in 0 .. B - 1, c1 \in Nat : x = Box!Low(f1) /\ c1 = Box!Carry(f1) /\ f1 = x + B * c1
  BY <1>1, Split DEF Sizes
<1>8. r[1] = x /\ r[2] = y + c1 /\ r[3] = z
  <2>1. r = <<x, y + c1, z>>
    BY <1>1, <1>2, <1>3, <1>4, <1>5, <1>6, <1>7 DEF Box!LastCarries, Sizes
  <2> QED BY <2>1
<1>9. ASSUME NEW c \in Nat, B * c < 2 * B PROVE c \in {0, 1}
  <2>1. ASSUME c >= 2 PROVE FALSE
    <3>1. B * c >= B * 2
      BY <1>1, <2>1 DEF Sizes
    <3> QED BY <1>1, <1>9, <3>1 DEF Sizes
  <2> QED BY <2>1
<1>10. PICK b2 \in Nat, b3 \in Nat, b1 \in Nat, e \in Nat :
         b2 = B * c2 /\ b3 = B * c3 /\ b1 = B * c1 /\ e = F * c3
  BY <1>1 DEF Sizes
<1>11. l2 = y + b2
  BY <1>3, <1>10
<1>12. f3 = z + b3
  BY <1>5, <1>10
<1>13. f1 = x + b1 /\ f1 = l1 + e
  BY <1>6, <1>7, <1>10
<1>14. c2 \in {0, 1}
  <2>1. b2 < 2 * B
    BY <1>1, <1>2, <1>11 DEF Sizes
  <2> QED BY <1>9, <1>10, <2>1
<1>15. c3 \in {0, 1}
  <2>1. b3 < 2 * B
    BY <1>1, <1>2, <1>4, <1>12, <1>14 DEF Sizes
  <2> QED BY <1>9, <1>10, <2>1
<1>16. c1 \in {0, 1}
  <2>1. e <= B
    BY <1>1, <1>10, <1>15 DEF Sizes
  <2>2. b1 < 2 * B
    BY <1>1, <1>2, <1>13, <2>1 DEF Sizes
  <2> QED BY <1>9, <1>10, <2>2
<1>17. y + c1 \in 0 .. B - 1
  <2>1. CASE c1 = 0
    BY <1>1, <2>1 DEF Sizes
  <2>2. CASE c1 = 1
    <3>1. c3 = 1
      <4>1. ASSUME c3 = 0 PROVE FALSE
        <5>1. e = 0 /\ b1 = B
          BY <1>1, <1>10, <2>2, <4>1 DEF Sizes
        <5> QED BY <1>1, <1>2, <1>13, <5>1 DEF Sizes
      <4> QED BY <1>15, <4>1
    <3>2. c2 = 1
      <4>1. b3 = B
        BY <1>1, <1>10, <3>1 DEF Sizes
      <4> QED BY <1>1, <1>2, <1>4, <1>12, <1>14, <4>1 DEF Sizes
    <3>3. b2 = B
      BY <1>1, <1>10, <3>2 DEF Sizes
    <3> QED BY <1>1, <1>2, <1>11, <2>2, <3>3 DEF Sizes
  <2> QED BY <1>16, <2>1, <2>2
<1>18. Numerals(r, Box!Base - 1, Box!Base - 1, Box!Base - 1)
  BY <1>1, <1>8, <1>17 DEF Numerals, Sizes
<1>19. PICK v \in Int, w \in Int, p \in Nat \ {0} : v = Box!Value(l) /\ w = Box!Value(r) /\ p = Box!P
  BY <1>18, Valued, Prime DEF Between
<1>20. v = w + p * c3
  <2>1. /\ v = l1 + B * (l2 + B * l3) /\ w = x + B * ((y + c1) + B * z) /\ p = B * B * B - F
    BY <1>1, <1>2, <1>8, <1>19 DEF Box!Value, Box!P, Sizes
  <2>2. l1 = x + b1 - e /\ l2 = y + b2 /\ l3 = z + b3 - c2
    BY ONLY <1>2, <1>4, <1>11, <1>12, <1>13
  <2>3. l1 + B * (l2 + B * l3) = (x + B * ((y + c1) + B * z)) + (B * B * B - F) * c3
    BY <1>1, <1>10, <2>2 DEF Sizes
  <2> QED BY <2>1, <2>3
<1>21. v % p = w % p
  <2>1. (w + p * c3) % p = w % p
    <3>1. w \in Int /\ p \in Nat \ {0} /\ c3 \in Int
      OBVIOUS
    <3> QED BY ONLY <3>1, ModShift, Zenon
  <2> QED BY <1>20, <2>1
<1> QED BY <1>18, <1>19, <1>21 DEF Between

\* A number below the modulus is its remainder.
LEMMA OwnRest == ASSUME NEW b \in Nat \ {0}, NEW v \in 0 .. b - 1 PROVE v % b = v
OBVIOUS

\* Digits put side by side, and the largest number they make.
LEMMA Beside ==
  ASSUME NEW r, Numerals(r, Box!Base - 1, Box!Base - 1, Box!Base - 1)
  PROVE  Box!SideBySide(r) = Box!Value(r)
<1>1. PICK B, F : Sizes(B, F)
  BY Sized
<1>2. PICK r1 \in 0 .. B - 1, r2 \in 0 .. B - 1, r3 \in 0 .. B - 1 :
        r1 = r[1] /\ r2 = r[2] /\ r3 = r[3]
  BY <1>1 DEF Numerals, Sizes
<1>3. Box!Low(r2) = r2
  BY <1>1, OwnRest DEF Box!Low, Sizes
<1>4. <<r[1], Box!Low(r[2]), r[3]>> = <<r1, r2, r3>>
  BY <1>2, <1>3
<1>5. /\ Box!Value(<<r1, r2, r3>>) = r1 + B * (r2 + B * r3)
      /\ Box!Value(r) = r1 + B * (r2 + B * r3)
  BY <1>1, <1>2 DEF Box!Value, Sizes
<1>6. ~ (r[2] >= Box!Base)
  BY <1>1, <1>2 DEF Sizes
<1>7. r1 + B * (r2 + B * r3) \in Int
  BY <1>1 DEF Sizes
<1> QED BY <1>4, <1>5, <1>6, <1>7 DEF Box!SideBySide

\* The number less the prime, if it reaches it.
LEMMA Reduced ==
  ASSUME NEW r, Numerals(r, Box!Base - 1, Box!Base - 1, Box!Base - 1)
  PROVE  Box!SideBySide(Box!SelectReduced(r)) = Box!Value(r) % Box!P
<1>1. PICK B, F : Sizes(B, F)
  BY Sized
<1>2. PICK r1 \in 0 .. B - 1, r2 \in 0 .. B - 1, r3 \in 0 .. B - 1 :
        r1 = r[1] /\ r2 = r[2] /\ r3 = r[3]
  BY <1>1 DEF Numerals, Sizes
<1>3. PICK g1 \in Nat : g1 = r1 + F
  BY <1>1 DEF Sizes
<1>4. PICK u1 \in 0 .. B - 1, d1 \in Nat : u1 = Box!Low(g1) /\ d1 = Box!Carry(g1) /\ g1 = u1 + B * d1
  BY <1>1, Split DEF Sizes
<1>5. PICK g2 \in Nat : g2 = r2 + d1
  BY <1>1 DEF Sizes
<1>6. PICK u2 \in 0 .. B - 1, d2 \in Nat : u2 = Box!Low(g2) /\ d2 = Box!Carry(g2) /\ g2 = u2 + B * d2
  BY <1>1, Split DEF Sizes
<1>7. PICK g3 \in Int : g3 = r3 + d2 - B
  BY <1>1 DEF Sizes
<1>8. PICK v \in Nat, p \in Nat \ {0}, top \in Nat :
        /\ v = r1 + B * (r2 + B * r3) /\ v = Box!Value(r)
        /\ top = B * B * B /\ p = top - F /\ p = Box!P
  <2>1. r1 + B * (r2 + B * r3) \in Nat /\ B * B * B \in Nat
    BY <1>1 DEF Sizes
  <2>2. Box!Value(r) = r1 + B * (r2 + B * r3) /\ Box!P = B * B * B - F
    BY <1>1, <1>2 DEF Box!Value, Box!P, Sizes
  <2> QED BY <2>1, <2>2, Prime
<1>9. v + F = u1 + B * u2 + B * B * (g3 + B)
  <2>1. r1 = u1 + B * d1 - F /\ r2 = u2 + B * d2 - d1 /\ r3 = g3 + B - d2
    <3>1. PICK e \in Int, f \in Int : e = B * d1 /\ f = B * d2
      BY <1>1 DEF Sizes
    <3>2. g1 = u1 + e /\ g2 = u2 + f
      BY <1>4, <1>6, <3>1
    <3> QED BY <1>1, <1>3, <1>5, <1>7, <3>1, <3>2 DEF Sizes
  <2>2. (u1 + B * d1 - F) + B * ((u2 + B * d2 - d1) + B * (g3 + B - d2)) + F
          = u1 + B * u2 + B * B * (g3 + B)
    BY <1>1 DEF Sizes
  <2> QED BY <1>8, <2>1, <2>2
<1>10. PICK low \in Nat : low = u1 + B * u2 /\ low < B * B
  <2>1. B * u2 <= B * (B - 1)
    BY <1>1 DEF Sizes
  <2>2. u1 + B * u2 \in Nat /\ u1 + B * u2 < B * B
    BY <1>1, <2>1 DEF Sizes
  <2> QED BY <2>2
<1>11. v < top
  <2>1. B * r3 <= B * (B - 1)
    BY <1>1 DEF Sizes
  <2>2. r2 + B * r3 <= B * B - 1
    BY <1>1, <2>1 DEF Sizes
  <2>3. B * (r2 + B * r3) <= B * (B * B - 1)
    BY <1>1, <2>2 DEF Sizes
  <2> QED BY <1>1, <1>8, <2>3 DEF Sizes
<1>12. CASE g3 < 0
  <2>1. g3 + B <= B - 1
    BY <1>1, <1>12 DEF Sizes
  <2>2. B * B * (g3 + B) <= B * B * (B - 1)
    BY <1>1, <2>1 DEF Sizes
  <2>3. v + F < top
    BY <1>1, <1>8, <1>9, <1>10, <2>2 DEF Sizes
  <2>4. v \in 0 .. p - 1
    BY <1>1, <1>8, <2>3 DEF Sizes
  <2>5. Box!SelectReduced(r) = r
    BY <1>1, <1>2, <1>3, <1>4, <1>5, <1>6, <1>7, <1>12 DEF Box!SelectReduced, Sizes
  <2> QED BY <1>8, <2>4, <2>5, Beside, OwnRest
<1>13. CASE g3 >= 0
  <2>1. PICK t3 \in Int : t3 = B * B * g3 /\ t3 >= 0
    BY <1>1, <1>13 DEF Sizes
  <2>2. v = p + (low + t3)
    <3>1. B * B * (g3 + B) = B * B * g3 + B * B * B
      BY <1>1 DEF Sizes
    <3> QED BY <1>1, <1>8, <1>9, <1>10, <2>1, <3>1 DEF Sizes
  <2>3. g3 \in 0 .. B - 1
    <3>1. d1 <= 1
      <4>1. ASSUME d1 >= 2 PROVE FALSE
        <5>1. B * d1 >= B * 2
          BY <1>1, <4>1 DEF Sizes
        <5>2. PICK e \in Int : e = B * d1
          BY <1>1 DEF Sizes
        <5> QED BY <1>1, <1>3, <1>4, <5>1, <5>2 DEF Sizes
      <4> QED BY <4>1
    <3>2. d2 <= 1
      <4>1. ASSUME d2 >= 2 PROVE FALSE
        <5>1. B * d2 >= B * 2
          BY <1>1, <4>1 DEF Sizes
        <5>2. PICK e \in Int : e = B * d2
          BY <1>1 DEF Sizes
        <5> QED BY <1>1, <1>5, <1>6, <3>1, <5>1, <5>2 DEF Sizes
      <4> QED BY <4>1
    <3> QED BY <1>1, <1>7, <1>13, <3>2 DEF Sizes
  <2>4. PICK s : s = Box!SelectReduced(r) /\ s[1] = u1 /\ s[2] = u2 /\ s[3] = g3
    <3>1. Box!SelectReduced(r) = <<u1, u2, g3>>
      BY <1>1, <1>2, <1>3, <1>4, <1>5, <1>6, <1>7, <1>13 DEF Box!SelectReduced, Sizes
    <3> QED BY <3>1
  <2>5. Numerals(s, Box!Base - 1, Box!Base - 1, Box!Base - 1)
    BY <1>1, <2>3, <2>4 DEF Numerals, Sizes
  <2>6. Box!Value(s) = low + t3
    <3>1. Box!Value(s) = u1 + B * (u2 + B * g3)
      BY <1>1, <2>4 DEF Box!Value, Sizes
    <3>2. u1 + B * (u2 + B * g3) = u1 + B * u2 + B * B * g3
      BY <1>1 DEF Sizes
    <3> QED BY <1>10, <2>1, <3>1, <3>2
  <2>7. low + t3 \in 0 .. p - 1
    <3>1. 2 * B <= top
      <4>1. B * B >= 2
        BY <1>1 DEF Sizes
      <4>2. B * (B * B) >= B * 2
        BY <1>1, <4>1 DEF Sizes
      <4> QED BY <1>1, <1>8, <4>2 DEF Sizes
    <3>2. top <= 2 * p
      BY <1>1, <1>8, <3>1 DEF Sizes
    <3> QED BY <1>8, <1>10, <1>11, <2>1, <2>2, <3>2
  <2>8. v % p = low + t3
    <3>1. v % p = (low + t3) % p
      <4>1. ((low + t3) + p * 1) % p = (low + t3) % p
        <5>1. low + t3 \in Int /\ p \in Nat \ {0} /\ 1 \in Int
          BY <2>1
        <5> QED BY ONLY <5>1, ModShift, Zenon
      <4>2. v = (low + t3) + p * 1
        BY <2>1, <2>2
      <4> QED BY <4>1, <4>2
    <3> QED BY <2>7, <3>1, OwnRest
  <2> QED BY <1>8, <2>4, <2>5, <2>6, <2>8, Beside
<1> QED BY <1>12, <1>13

LEMMA Tagged ==
  ASSUME NEW l, NEW a, Between(l, a), NEW s
  PROVE  Box!MacTag(l, s) = (a + s) % Box!TagSpace
BY LastlyCarried, Reduced DEF Box!MacTag

\* The inductive invariant behind TagIsPolynomial.
Accumulates ==
  /\ phase = "idle" => h = <<0, 0, 0>> /\ sum = 0
  /\ phase \in {"mac", "tagged"} => key \in MacKeys /\ Between(h, sum)
  /\ phase = "tagged" => tag = (sum + key[2]) % Box!TagSpace

LEMMA AccumulatesStays == ASSUME Accumulates, [Box!Next]_box PROVE Accumulates'
<1>1. CASE UNCHANGED <<phase, key, h, tag, sum>>
  BY <1>1 DEF Accumulates, Between, Numerals
<1>2. CASE phase' \in {"sealed", "opened"}
  BY <1>2 DEF Accumulates
<1>3. ASSUME NEW rs \in MacKeys, Box!StartMac(rs) PROVE Accumulates'
  <2>1. phase' = "mac" /\ key' = rs /\ h' = <<0, 0, 0>> /\ sum' = 0
    BY <1>3 DEF Box!StartMac, Accumulates
  <2>2. Between(<<0, 0, 0>>, 0)
    <3>1. PICK l : l = <<0, 0, 0>> /\ l[1] = 0 /\ l[2] = 0 /\ l[3] = 0
      <4>1. PICK z : z = 0
        OBVIOUS
      <4>2. <<z, z, z>>[1] = z /\ <<z, z, z>>[2] = z /\ <<z, z, z>>[3] = z
        OBVIOUS
      <4> QED BY <4>1, <4>2
    <3>2. PICK B, F : Sizes(B, F)
      BY Sized
    <3>3. Numerals(l, Box!Base - 1, 2 * Box!Base - 2, Box!Base - 1) /\ Box!Value(l) = 0
      BY <3>1, <3>2 DEF Numerals, Sizes, Box!Value
    <3>4. 0 % Box!P = 0
      BY Prime, OwnRest
    <3> QED BY <3>1, <3>3, <3>4 DEF Between
  <2>3. Between(h', sum')
    BY <2>1, <2>2
  <2> QED BY <2>1, <2>3 DEF Accumulates
<1>4. ASSUME NEW b \in Box!Blocks, Box!Feed(b) PROVE Accumulates'
  <2>1. /\ phase = "mac" /\ phase' = "mac" /\ key' = key
        /\ h' = Box!Absorb(h, b) /\ sum' = ((sum + Box!Number(b)) * Box!Clamp(key[1])) % Box!P
    BY <1>4 DEF Box!Feed
  <2>2. key \in MacKeys /\ Between(h, sum)
    BY <2>1 DEF Accumulates
  <2>3. Between(h', sum')
    BY <2>1, <2>2, Absorbed
  <2> QED BY <2>1, <2>2, <2>3 DEF Accumulates
<1>5. CASE Box!Finish
  <2>1. /\ phase = "mac" /\ phase' = "tagged" /\ tag' = Box!MacTag(h, key[2])
        /\ key' = key /\ h' = h /\ sum' = sum
    BY <1>5 DEF Box!Finish
  <2>2. key \in MacKeys /\ Between(h, sum)
    BY <2>1 DEF Accumulates
  <2>3. tag' = (sum' + key'[2]) % Box!TagSpace /\ Between(h', sum')
    BY <2>1, <2>2, Tagged
  <2> QED BY <2>1, <2>2, <2>3 DEF Accumulates
<1> QED
  BY <1>1, <1>2, <1>3, <1>4, <1>5 DEF Box!Next, Box!Seal, Box!Open, box

\* The limbs compute the polynomial of the blocks at the clamped key, and the tag
\* is its remainder with s added: for every size of the limbs, every prime next
\* to their end and every message, however often a carry comes back round.
THEOREM TagsComputed == CryptoSpec => []TagIsPolynomial
<1>1. CryptoInit => Accumulates
  BY DEF CryptoInit, Box!Init, Accumulates
<1>2. Accumulates /\ [CryptoNext]_all => Accumulates'
  <2>1. [CryptoNext]_all => [Box!Next]_box
    BY DEF CryptoNext, all
  <2> QED BY <2>1, AccumulatesStays
<1>3. Accumulates => TagIsPolynomial
  <2> SUFFICES ASSUME Accumulates, phase \in {"mac", "tagged"}
               PROVE  /\ Box!Value(h) % Box!P = sum /\ \A i \in 1 .. 3 : h[i] \in 0 .. 2 * Box!Base - 1
                      /\ phase = "tagged" => tag = (sum + key[2]) % Box!TagSpace
    BY DEF TagIsPolynomial, Box!TagIsPolynomial
  <2>1. Between(h, sum)
    BY DEF Accumulates
  <2>2. PICK B, F : Sizes(B, F)
    BY Sized
  <2>3. \A i \in 1 .. 3 : h[i] \in 0 .. 2 * Box!Base - 1
    BY <2>1, <2>2 DEF Between, Numerals, Sizes
  <2> QED BY <2>1, <2>3 DEF Between, Accumulates
<1> QED BY <1>1, <1>2, <1>3, PTL DEF CryptoSpec

-----------------------------------------------------------------------------
(***************************************************************************)
(* Sequences of symbols, whatever these are.                               *)
(***************************************************************************)
Text(s) == \E S : s \in Seq(S)

\* Sequences joined, cut and grown: names that the provers leave as they are.
s \bullet r   == s \o r
Piece(s, f, g) == SubSeq(s, f, g)
Pushed(c, x)   == Append(c, x)

LEMMA TextFacts == ASSUME NEW s, Text(s)
                   PROVE  /\ Len(s) \in Nat /\ DOMAIN s = 1 .. Len(s)
                          /\ s = [i \in 1 .. Len(s) |-> s[i]] /\ (s = <<>> <=> Len(s) = 0)
<1>1. PICK S : s \in Seq(S)
  BY DEF Text
<1> QED BY <1>1, LenProperties, EmptySeq

LEMMA TextLen == ASSUME NEW s, Text(s) PROVE Len(s) \in Nat /\ (s = <<>> <=> Len(s) = 0)
BY TextFacts

LEMMA Written == ASSUME NEW n \in Nat, NEW s, s = [i \in 1 .. n |-> s[i]]
                 PROVE  Text(s) /\ Len(s) = n
<1>1. PICK S : S = {s[i] : i \in 1 .. n}
  OBVIOUS
<1>2. s \in [1 .. n -> S]
  BY <1>1
<1>3. s \in Seq(S)
  BY <1>2
<1>4. DOMAIN s = 1 .. n /\ Len(s) \in Nat /\ DOMAIN s = 1 .. Len(s)
  BY <1>2, <1>3, LenProperties
<1>5. Len(s) = n
  BY <1>4
<1> QED BY <1>3, <1>5 DEF Text

LEMMA Wider == ASSUME NEW S, NEW R, S \subseteq R, NEW s \in Seq(S) PROVE s \in Seq(R)
<1>1. Len(s) \in Nat /\ s \in [1 .. Len(s) -> S]
  BY LenProperties
<1>2. s \in [1 .. Len(s) -> R]
  BY <1>1
<1> QED BY <1>1, <1>2

LEMMA Common == ASSUME NEW s, NEW r, Text(s), Text(r)
                PROVE  \E S : s \in Seq(S) /\ r \in Seq(S)
<1>1. PICK S : s \in Seq(S)
  BY DEF Text
<1>2. PICK R : r \in Seq(R)
  BY DEF Text
<1>3. PICK T : S \subseteq T /\ R \subseteq T
  <2>1. S \subseteq S \cup R /\ R \subseteq S \cup R
    OBVIOUS
  <2> QED BY <2>1
<1>4. s \in Seq(T)
  BY <1>1, <1>3, Wider
<1>5. r \in Seq(T)
  BY <1>2, <1>3, Wider
<1> QED BY <1>4, <1>5

LEMMA SameText == ASSUME NEW s, NEW r, Text(s), Text(r), Len(s) = Len(r),
                         \A i \in 1 .. Len(s) : s[i] = r[i]
                  PROVE  s = r
BY TextFacts

\* u is s and then r.
Chain(u, s, r, n, m) == /\ Text(u) /\ Len(u) = n + m
                        /\ \A i \in 1 .. n : u[i] = s[i]
                        /\ \A i \in 1 .. m : u[n + i] = r[i]

LEMMA Chained == ASSUME NEW s, NEW r, Text(s), Text(r), NEW n, NEW m, n = Len(s), m = Len(r)
                 PROVE  Chain(s \bullet r, s, r, n, m)
<1>1. PICK S : s \in Seq(S) /\ r \in Seq(S)
  BY Common
<1>2. PICK u : u = s \bullet r /\ u = s \o r
  BY DEF \bullet
<1>3. u \in Seq(S) /\ Len(u) = n + m /\ n \in Nat /\ m \in Nat
  BY <1>1, <1>2, ConcatProperties
<1>4. \A i \in 1 .. n + m : u[i] = IF i <= n THEN s[i] ELSE r[i - n]
  BY <1>1, <1>2, ConcatProperties
<1>5. ASSUME NEW i \in 1 .. m PROVE u[n + i] = r[i]
  <2>1. n + i \in 1 .. n + m /\ ~(n + i <= n) /\ n + i - n = i
    BY <1>3
  <2> QED BY <1>4, <2>1
<1>6. \A i \in 1 .. n : u[i] = s[i]
  BY <1>3, <1>4
<1>7. Text(u)
  BY <1>3 DEF Text
<1>8. Chain(u, s, r, n, m)
  BY <1>3, <1>5, <1>6, <1>7 DEF Chain
<1> QED BY <1>2, <1>8

LEMMA ChainedText == ASSUME NEW s, NEW r, Text(s), Text(r) PROVE Text(s \bullet r)
<1>1. PICK n, m : n = Len(s) /\ m = Len(r)
  OBVIOUS
<1>2. Chain(s \bullet r, s, r, n, m)
  BY <1>1, Chained
<1> QED BY <1>2 DEF Chain

LEMMA Associates == ASSUME NEW s, NEW r, NEW u, Text(s), Text(r), Text(u)
                    PROVE  (s \bullet r) \bullet u = s \bullet (r \bullet u)
<1>1. PICK S : s \in Seq(S)
  BY DEF Text
<1>2. PICK R : r \in Seq(R) /\ u \in Seq(R)
  BY Common
<1>3. PICK T : S \subseteq T /\ R \subseteq T
  <2>1. S \subseteq S \cup R /\ R \subseteq S \cup R
    OBVIOUS
  <2> QED BY <2>1
<1>4. s \in Seq(T)
  BY <1>1, <1>3, Wider
<1>5. r \in Seq(T) /\ u \in Seq(T)
  BY <1>2, <1>3, Wider
<1>6. (s \o r) \o u = s \o (r \o u)
  BY <1>4, <1>5, ConcatAssociative
<1> QED BY <1>6 DEF \bullet

LEMMA Nothings == ASSUME NEW s, Text(s) PROVE s \bullet <<>> = s /\ <<>> \bullet s = s
BY ConcatEmptySeq DEF Text, \bullet

LEMMA EmptyText == Text(<<>>) /\ Len(<<>>) = 0
<1>1. <<>> \in Seq({})
  BY EmptySeq
<1> QED BY <1>1, EmptySeq DEF Text

LEMMA OneText == ASSUME NEW a PROVE Text(<<a>>) /\ Len(<<a>>) = 1 /\ <<a>>[1] = a
<1>1. <<a>> \in Seq({a})
  OBVIOUS
<1> QED BY <1>1 DEF Text

\* What of s lies from f to g.
Slice(d, s, f, g) == /\ Text(d) /\ Len(d) = g - f + 1
                     /\ \A i \in 1 .. g - f + 1 : d[i] = s[f + i - 1]

LEMMA Sliced == ASSUME NEW s, Text(s), NEW f \in Nat \ {0}, NEW g \in Nat, f <= g + 1, g <= Len(s)
                PROVE  Slice(Piece(s, f, g), s, f, g)
<1>1. PICK S : s \in Seq(S)
  BY DEF Text
<1>2. \A i \in f .. g : s[i] \in S
  <2>1. \A i \in 1 .. Len(s) : s[i] \in S
    BY <1>1, ElementOfSeq
  <2> QED BY <2>1, <1>1, LenProperties
<1>3. \A i \in 1 .. g - f + 1 : SubSeq(s, f, g)[i] = s[f + i - 1]
  BY <1>2, SubSeqProperties
<1>4. SubSeq(s, f, g) \in Seq(S) /\ Len(SubSeq(s, f, g)) = (IF f <= g THEN g - f + 1 ELSE 0)
  BY <1>2, SubSeqProperties
<1>5. Len(SubSeq(s, f, g)) = g - f + 1 /\ Text(SubSeq(s, f, g))
  BY <1>4 DEF Text
<1>6. PICK d : d = SubSeq(s, f, g) /\ d = Piece(s, f, g)
  BY DEF Piece
<1> QED BY <1>3, <1>5, <1>6, Zenon DEF Slice

LEMMA SameSlice == ASSUME NEW d, NEW e, NEW s, NEW r, NEW f \in Nat \ {0}, NEW g \in Nat, f <= g + 1,
                          Slice(d, s, f, g), Slice(e, r, f, g),
                          \A i \in f .. g : s[i] = r[i]
                   PROVE  d = e
<1>1. \A i \in 1 .. g - f + 1 : d[i] = e[i]
  BY DEF Slice
<1> QED BY <1>1, SameText DEF Slice

LEMMA Halves == ASSUME NEW s, Text(s), NEW n \in 0 .. Len(s)
                PROVE  /\ Slice(Piece(s, 1, n), s, 1, n)
                       /\ Slice(Piece(s, n + 1, Len(s)), s, n + 1, Len(s))
                       /\ Piece(s, 1, n) \bullet Piece(s, n + 1, Len(s)) = s
<1>1. PICK m, c, d : m = Len(s) /\ c = Piece(s, 1, n) /\ d = Piece(s, n + 1, m)
  OBVIOUS
<1>2. m \in Nat /\ n \in Nat /\ n <= m
  BY <1>1, TextFacts
<1>3. Slice(c, s, 1, n) /\ Slice(d, s, n + 1, m)
  BY <1>1, <1>2, Sliced
<1>4. /\ Text(c) /\ Len(c) = n /\ Text(d) /\ Len(d) = m - n
      /\ \A i \in 1 .. n : c[i] = s[i]
      /\ \A i \in 1 .. m - n : d[i] = s[n + i]
  BY <1>2, <1>3 DEF Slice
<1>7. PICK u : u = c \bullet d
  OBVIOUS
<1>8. Chain(u, c, d, n, m - n)
  BY <1>4, <1>7, Chained
<1>5. /\ Text(u) /\ Len(u) = m
      /\ \A i \in 1 .. n : u[i] = c[i]
      /\ \A i \in 1 .. m - n : u[n + i] = d[i]
  BY <1>2, <1>8 DEF Chain
<1>6. \A i \in 1 .. m : u[i] = s[i]
  <2>1. ASSUME NEW i \in 1 .. m, n < i PROVE u[i] = s[i]
    <3>1. i - n \in 1 .. m - n /\ n + (i - n) = i
      BY <1>2, <2>1
    <3> QED BY <1>4, <1>5, <3>1
  <2>2. ASSUME NEW i \in 1 .. m, i <= n PROVE u[i] = s[i]
    BY <1>2, <1>4, <1>5, <2>2
  <2> QED BY <1>2, <2>1, <2>2
<1> QED BY <1>1, <1>3, <1>5, <1>6, <1>7, SameText

\* u is c and then x, the element after n + 1 of them.
Grew(u, c, x, n) == /\ Text(u) /\ Len(u) = n + 2 /\ u[n + 2] = x
                    /\ \A i \in 1 .. n + 1 : u[i] = c[i]

LEMMA Longer == ASSUME NEW c, Text(c), NEW x, NEW n \in Nat, Len(c) = n + 1
                PROVE  Grew(Pushed(c, x), c, x, n)
<1>1. PICK S : c \in Seq(S)
  BY DEF Text
<1>2. PICK T : c \in Seq(T) /\ x \in T
  <2>1. c \in Seq(S \cup {x}) /\ x \in S \cup {x}
    BY <1>1
  <2> QED BY <2>1
<1>3. PICK u : u = Append(c, x) /\ u = Pushed(c, x)
  BY DEF Pushed
<1>5. /\ Append(c, x) \in Seq(T) /\ Len(Append(c, x)) = Len(c) + 1
      /\ \A i \in 1 .. Len(c) : Append(c, x)[i] = c[i]
      /\ Append(c, x)[Len(c) + 1] = x
  BY <1>2, AppendProperties, Zenon
<1>6. /\ u \in Seq(T) /\ Len(u) = Len(c) + 1
      /\ \A i \in 1 .. Len(c) : u[i] = c[i]
      /\ u[Len(c) + 1] = x
  BY <1>3, <1>5, Zenon
<1>4. /\ u \in Seq(T) /\ Len(u) = n + 2 /\ u[n + 2] = x
      /\ \A i \in 1 .. n + 1 : u[i] = c[i]
  BY <1>6
<1> QED BY <1>3, <1>4 DEF Text, Grew

-----------------------------------------------------------------------------
(***************************************************************************)
(* The hash as a stream.  What `State` has been given so far is in the     *)
(* blocks it has compressed and in its buffer, which is empty only if      *)
(* there has been nothing: so the last block is never compressed early.    *)
(***************************************************************************)
Part(w, i) == Piece(w, (i - 1) * Block + 1, i * Block)
Counted(x) == <<x % Word, (x \div Word) % Word>>

\* Counting e more bytes makes lo1, hi1 of the counter lo, hi.
CountsOn(lo, hi, e, lo1, hi1) == lo1 = (lo + e) % Word /\ hi1 = IF lo1 < e THEN (hi + 1) % Word ELSE hi

\* A call of compress for a block that is not the last.
Early(w, i) == <<Part(w, i), Counted(i * Block), FALSE>>

\* w has been cut: n blocks of it, m bytes, are in c, the rest is in b, the
\* counter is lo, hi.
CutUp(c, b, lo, hi, len, w, n, m) ==
  /\ m = n * Block
  /\ Text(w) /\ Text(b) /\ Text(c)
  /\ Len(w) = m + Len(b) /\ Len(b) <= Block
  /\ \A i \in 1 .. Len(b) : b[i] = w[m + i]
  /\ Len(c) = n + 1 /\ c[1] = <<"parameters", len>>
  /\ \A i \in 1 .. n : c[i + 1] = Early(w, i)
  /\ lo = m % Word /\ hi = (m \div Word) % Word

Streams(c, b, lo, hi, len, w, n, m) == CutUp(c, b, lo, hi, len, w, n, m) /\ (n > 0 => b # <<>>)

LEMMA Multiple == ASSUME NEW n \in Nat, NEW i \in 1 .. n
                  PROVE  /\ (i - 1) * Block \in Nat /\ i * Block \in Nat /\ n * Block \in Nat
                         /\ i * Block = (i - 1) * Block + Block /\ i * Block <= n * Block
<1>1. Block \in Nat \ {0}
  BY HashAssumption
<1>2. ASSUME NEW j \in Nat, NEW m \in Nat PROVE j * m \in Nat
  OBVIOUS
<1>3. (i - 1) * Block \in Nat /\ i * Block \in Nat /\ n * Block \in Nat
  BY <1>1, <1>2
<1>4. ASSUME NEW j \in Nat, NEW m \in Nat PROVE (j + m) * Block = j * Block + m * Block
  BY <1>1
<1>5. i * Block = (i - 1) * Block + Block
  <2>1. ((i - 1) + 1) * Block = (i - 1) * Block + 1 * Block
    BY <1>4
  <2> QED BY <1>1, <2>1
<1>6. i * Block <= n * Block
  <2>1. (i + (n - i)) * Block = i * Block + (n - i) * Block
    BY <1>4
  <2>2. (n - i) * Block \in Nat
    BY <1>1, <1>2
  <2> QED BY <1>3, <2>1, <2>2
<1> QED BY <1>3, <1>5, <1>6

LEMMA Bytes == ASSUME NEW n \in Nat PROVE n * Block \in Nat
<1>1. ASSUME NEW j \in Nat, NEW m \in Nat PROVE j * m \in Nat
  OBVIOUS
<1> QED BY <1>1, HashAssumption

\* What one more turn of the divisor adds.
LEMMA OnceMore == ASSUME NEW v \in Int, NEW b \in Nat \ {0} PROVE (v + b) % b = v % b
<1>1. PICK z \in Int : z = 1
  OBVIOUS
<1>2. (v + b * z) % b = v % b
  BY ModShift
<1>3. v + b * z = v + b
  BY <1>1
<1> QED BY <1>2, <1>3

\* Adding to the counter, with a carry into its second word.
LEMMA CounterCarries ==
  ASSUME NEW v \in Nat, NEW n \in 0 .. Word,
         NEW lo, lo = v % Word, NEW hi, hi = (v \div Word) % Word,
         NEW lo1, NEW hi1, CountsOn(lo, hi, n, lo1, hi1)
  PROVE  lo1 = (v + n) % Word /\ hi1 = ((v + n) \div Word) % Word
<1>0. Word \in Nat \ {0}
  BY HashAssumption
<1>7. lo1 = (lo + n) % Word /\ hi1 = IF lo1 < n THEN (hi + 1) % Word ELSE hi
  BY DEF CountsOn
<1>1. PICK q \in Int, r \in 0 .. Word - 1 : v = Word * q + r /\ v \div Word = q /\ v % Word = r
  BY <1>0, Euclid
<1>2. PICK u \in Nat : u = v + n
  BY <1>0
<1>3. PICK p \in Int, s \in 0 .. Word - 1 : u = Word * p + s /\ u \div Word = p /\ u % Word = s
  BY <1>0, <1>2, Euclid
<1>4. Word * p + s = Word * q + r + n
  BY <1>0, <1>1, <1>2, <1>3
<1>5. CASE r + n < Word
  <2>1. p = q /\ s = r + n
    <3>1. Word * (p - q) = r + n - s
      BY <1>0, <1>4
    <3>2. ~(p - q >= 1) /\ ~(p - q <= -1)
      BY <1>0, <1>5, <3>1
    <3>3. p = q
      BY <3>2
    <3> QED BY <1>0, <1>4, <3>3
  <2>2. (r + n) % Word = s
    BY <1>0, <2>1, OwnRest
  <2> QED BY <1>0, <1>1, <1>2, <1>3, <1>7, <2>1, <2>2
<1>6. CASE r + n >= Word
  <2>1. p = q + 1 /\ s = r + n - Word
    <3>1. Word * (p - q) = r + n - s
      BY <1>0, <1>4
    <3>2. ~(p - q >= 2) /\ ~(p - q <= 0)
      BY <1>0, <1>6, <3>1
    <3>3. p = q + 1
      BY <3>2
    <3>4. Word * (q + 1) = Word * q + Word
      BY <1>0
    <3> QED BY <1>0, <1>4, <3>3, <3>4
  <2>2. (r + n) % Word = s
    <3>1. r + n = s + Word
      BY <1>0, <2>1
    <3>2. (s + Word) % Word = s % Word
      <4>1. s \in Int
        BY <1>0, <1>3
      <4> QED BY <1>0, <4>1, OnceMore, Zenon
    <3>3. s % Word = s
      BY <1>0, OwnRest
    <3> QED BY <3>1, <3>2, <3>3
  <2>3. ((q % Word) + 1) % Word = (q + 1) % Word
    <3>1. PICK x \in Int, y \in 0 .. Word - 1 : q = Word * x + y /\ q \div Word = x /\ q % Word = y
      BY <1>0, Euclid
    <3>2. PICK m \in Int : m = y + 1
      BY <1>0
    <3>3. q + 1 = m + Word * x
      BY <1>0, <3>1, <3>2
    <3>4. (m + Word * x) % Word = m % Word
      BY <1>0, ModShift
    <3> QED BY <3>1, <3>2, <3>3, <3>4
  <2>4. s < n
    BY <1>0, <2>1
  <2> QED BY <1>0, <1>1, <1>2, <1>3, <1>7, <2>1, <2>2, <2>3, <2>4
<1> QED BY <1>0, <1>5, <1>6

\* A block of what goes on is a block of its beginning.
LEMMA SameEarly ==
  ASSUME NEW n \in Nat, NEW i \in 1 .. n, NEW m \in Nat, m = n * Block,
         NEW w, Text(w), m <= Len(w), NEW y, Text(y), m <= Len(y), \A j \in 1 .. m : y[j] = w[j]
  PROVE  Early(y, i) = Early(w, i)
<1>1. PICK from \in Nat, to \in Nat : /\ from = (i - 1) * Block /\ to = i * Block
                                      /\ to = from + Block /\ to <= m
  BY Multiple
<1>2. Block \in Nat \ {0} /\ Len(w) \in Nat /\ Len(y) \in Nat
  BY HashAssumption, TextLen
<1>3. Slice(Piece(w, from + 1, to), w, from + 1, to)
  BY <1>1, <1>2, Sliced
<1>4. Slice(Piece(y, from + 1, to), y, from + 1, to)
  BY <1>1, <1>2, Sliced
<1>5. \A j \in from + 1 .. to : w[j] = y[j]
  BY <1>1
<1>6. Piece(w, from + 1, to) = Piece(y, from + 1, to)
  BY <1>1, <1>2, <1>3, <1>4, <1>5, SameSlice
<1>7. Part(w, i) = Part(y, i)
  BY <1>1, <1>6 DEF Part
<1> QED BY <1>7 DEF Early

\* More bytes that fit into the buffer.
LEMMA Buffered ==
  ASSUME NEW n \in Nat, NEW m, NEW c, NEW b, NEW lo, NEW hi, NEW len, NEW w, NEW d,
         CutUp(c, b, lo, hi, len, w, n, m), Text(d), d # <<>>, Len(b) + Len(d) <= Block
  PROVE  Streams(c, b \bullet d, lo, hi, len, w \bullet d, n, m)
<1>1. Text(w) /\ Text(b) /\ Text(c) /\ m = n * Block
  BY DEF CutUp
<1>2. m \in Nat
  BY <1>1, Bytes
<1>3. PICK y, z : y = w \bullet d /\ z = b \bullet d
  OBVIOUS
<1>4. PICK e, f : e = Len(b) /\ f = Len(d)
  OBVIOUS
<1>5. e \in Nat /\ f \in Nat /\ f > 0 /\ e + f <= Block /\ m + e \in Nat
  BY <1>1, <1>2, <1>4, TextLen
<1>6. Len(w) = m + e /\ \A i \in 1 .. e : b[i] = w[m + i]
  BY <1>4 DEF CutUp
<1>7. Chain(y, w, d, m + e, f) /\ Chain(z, b, d, e, f)
  BY <1>1, <1>3, <1>4, <1>6, Chained
<1>8. /\ Text(y) /\ Len(y) = m + e + f /\ \A i \in 1 .. m + e : y[i] = w[i]
      /\ \A i \in 1 .. f : y[m + e + i] = d[i]
  BY <1>7 DEF Chain
<1>9. /\ Text(z) /\ Len(z) = e + f /\ \A i \in 1 .. e : z[i] = b[i]
      /\ \A i \in 1 .. f : z[e + i] = d[i]
  BY <1>7 DEF Chain
<1>10. \A i \in 1 .. e + f : z[i] = y[m + i]
  <2>1. ASSUME NEW i \in 1 .. e PROVE z[i] = y[m + i]
    <3>1. m + i \in 1 .. m + e
      BY <1>2, <1>5
    <3> QED BY <1>6, <1>8, <1>9, <3>1
  <2>2. ASSUME NEW i \in 1 .. e + f, i > e PROVE z[i] = y[m + i]
    <3>1. PICK j \in 1 .. f : i = e + j
      <4>1. i - e \in 1 .. f /\ i = e + (i - e)
        BY <1>5, <2>2
      <4> QED BY <4>1
    <3>2. m + i = m + e + j
      BY <1>2, <1>5, <3>1
    <3> QED BY <1>8, <1>9, <3>1, <3>2
  <2> QED BY <1>5, <2>1, <2>2
<1>11. \A i \in 1 .. n : Early(w, i) = Early(y, i)
  <2>1. \A j \in 1 .. m : y[j] = w[j]
    BY <1>2, <1>5, <1>8
  <2>2. m <= Len(w) /\ m <= Len(y)
    BY <1>2, <1>5, <1>6, <1>8
  <2> QED BY <1>1, <1>2, <1>8, <2>1, <2>2, SameEarly
<1>12. \A i \in 1 .. n : c[i + 1] = Early(y, i)
  BY <1>11 DEF CutUp
<1>13. z # <<>>
  BY <1>5, <1>9, TextLen
<1>14. Len(y) = m + Len(z) /\ Len(z) <= Block /\ \A i \in 1 .. Len(z) : z[i] = y[m + i]
  BY <1>2, <1>5, <1>8, <1>9, <1>10
<1>15. Len(c) = n + 1 /\ c[1] = <<"parameters", len>> /\ lo = m % Word /\ hi = (m \div Word) % Word
  BY DEF CutUp
<1>16. CutUp(c, z, lo, hi, len, y, n, m)
  BY <1>1, <1>8, <1>9, <1>12, <1>14, <1>15 DEF CutUp
<1> QED BY <1>3, <1>13, <1>16 DEF Streams

\* A full buffer is compressed.
LEMMA FullCompressed ==
  ASSUME NEW n \in Nat, NEW m, NEW c, NEW b, NEW lo, NEW hi, NEW len, NEW w,
         CutUp(c, b, lo, hi, len, w, n, m), Len(b) = Block, NEW lo1, NEW hi1,
         CountsOn(lo, hi, Block, lo1, hi1)
  PROVE  CutUp(Pushed(c, <<b, <<lo1, hi1>>, FALSE>>), <<>>, lo1, hi1, len, w, n + 1, m + Block)
<1>0. Block \in Nat \ {0} /\ Word \in Nat \ {0} /\ Block \in 0 .. Word
  BY HashAssumption
<1>1. PICK end : end = m + Block
  OBVIOUS
<1>2. /\ m = n * Block /\ Text(w) /\ Text(b) /\ Text(c) /\ Len(w) = end
      /\ \A i \in 1 .. Block : b[i] = w[m + i]
      /\ Len(c) = n + 1 /\ c[1] = <<"parameters", len>>
      /\ lo = m % Word /\ hi = (m \div Word) % Word
  BY <1>1 DEF CutUp
<1>3. m \in Nat /\ end \in Nat /\ end = (n + 1) * Block
  <2>1. n + 1 \in 1 .. n + 1 /\ n + 1 \in Nat /\ (n + 1) - 1 = n
    OBVIOUS
  <2>2. (n + 1) * Block = ((n + 1) - 1) * Block + Block
    BY <2>1, Multiple
  <2> QED BY <1>0, <1>1, <1>2, <2>1, <2>2, Bytes
<1>4. lo1 = end % Word /\ hi1 = (end \div Word) % Word
  <2>1. m \in Nat /\ Block \in 0 .. Word /\ lo = m % Word /\ hi = (m \div Word) % Word
    BY <1>0, <1>2, <1>3
  <2>2. lo1 = (m + Block) % Word /\ hi1 = ((m + Block) \div Word) % Word
    BY <2>1, CounterCarries, Zenon
  <2> QED BY <1>1, <2>2
<1>5. PICK x, u : x = <<b, <<lo1, hi1>>, FALSE>> /\ u = Pushed(c, x)
  OBVIOUS
<1>6. Text(u) /\ Len(u) = n + 2 /\ u[n + 2] = x /\ \A i \in 1 .. n + 1 : u[i] = c[i]
  <2>1. Text(c) /\ Len(c) = n + 1 /\ u = Pushed(c, x)
    BY <1>2, <1>5
  <2>2. Grew(u, c, x, n)
    BY <2>1, Longer, Zenon
  <2> QED BY <2>2 DEF Grew
<1>7. x = Early(w, n + 1)
  <2>1. Slice(Piece(w, m + 1, end), w, m + 1, end)
    BY <1>0, <1>1, <1>2, <1>3, Sliced
  <2>2. Slice(b, w, m + 1, end)
    <3>1. PICK f \in Nat : f = m + 1
      BY <1>3
    <3>2. end - f + 1 = Block
      BY <1>0, <1>1, <1>3, <3>1
    <3>3. \A i \in 1 .. Block : b[i] = w[f + i - 1]
      <4>1. ASSUME NEW i \in 1 .. Block PROVE b[i] = w[f + i - 1]
        <5>1. f + i - 1 = m + i
          BY <1>0, <1>3, <3>1
        <5> QED BY <1>2, <5>1
      <4> QED BY <4>1
    <3> QED BY <1>2, <3>1, <3>2, <3>3, Zenon DEF Slice
  <2>3. b = Piece(w, m + 1, end)
    BY <1>0, <1>1, <1>3, <2>1, <2>2, SameSlice
  <2>4. (n + 1) - 1 = n
    OBVIOUS
  <2>5. Part(w, n + 1) = b
    BY <1>2, <1>3, <2>3, <2>4 DEF Part
  <2>6. Counted((n + 1) * Block) = <<lo1, hi1>>
    BY <1>3, <1>4 DEF Counted
  <2> QED BY <1>5, <2>5, <2>6 DEF Early
<1>8. \A i \in 1 .. n + 1 : u[i + 1] = Early(w, i)
  <2>1. ASSUME NEW i \in 1 .. n PROVE u[i + 1] = Early(w, i)
    <3>1. i + 1 \in 1 .. n + 1
      OBVIOUS
    <3>2. c[i + 1] = Early(w, i)
      BY DEF CutUp
    <3> QED BY <1>6, <3>1, <3>2
  <2>2. u[(n + 1) + 1] = Early(w, n + 1)
    <3>1. (n + 1) + 1 = n + 2
      OBVIOUS
    <3> QED BY <1>6, <1>7, <3>1
  <2> QED BY <2>1, <2>2
<1>9. u[1] = <<"parameters", len>> /\ Len(u) = (n + 1) + 1
  BY <1>2, <1>6
<1>10. /\ Text(<<>>) /\ Len(<<>>) <= Block /\ Len(w) = end + Len(<<>>)
       /\ \A i \in 1 .. Len(<<>>) : <<>>[i] = w[end + i]
  BY <1>0, <1>2, <1>3, EmptyText
<1>11. CutUp(u, <<>>, lo1, hi1, len, w, n + 1, end)
  BY <1>2, <1>3, <1>4, <1>6, <1>8, <1>9, <1>10 DEF CutUp
<1> QED BY <1>1, <1>5, <1>11

\* The digest of len, the length of the key, and w, the padded key and the bytes.
Computed(len, w) ==
  LET n == IF w = <<>> THEN 1 ELSE (Len(w) + Block - 1) \div Block
      End(i) == IF i = n THEN Len(w) ELSE i * Block
  IN Hash!DigestOf(<<<<"parameters", len>>>>
                   \bullet [i \in 1 .. n |-> <<Hash!Padded(Piece(w, (i - 1) * Block + 1, End(i))),
                                          Counted(End(i)), i = n>>])

KeyBlock(y) == IF y = <<>> THEN <<>> ELSE Hash!Padded(y)

LEMMA HashedIs == ASSUME NEW y, NEW s PROVE Hash!Hashed(y, s) = Computed(Len(y), KeyBlock(y) \bullet s)
BY DEF Hash!Hashed, Computed, KeyBlock, Counted, Piece, \bullet

\* p is s filled up with zeros.
Filled(p, s) == /\ Text(p) /\ Len(p) = Block
                /\ \A i \in 1 .. Len(s) : p[i] = s[i]
                /\ \A i \in 1 .. Block : i > Len(s) => p[i] = Hash!Zero

LEMMA PaddedIs == ASSUME NEW s, Text(s), Len(s) <= Block PROVE Filled(Hash!Padded(s), s)
<1>1. PICK n, m : n = Len(s) /\ m = Block - n
  OBVIOUS
<1>2. n \in Nat /\ m \in Nat /\ Block = n + m
  BY <1>1, TextLen, HashAssumption
<1>3. PICK z : z = [i \in 1 .. m |-> Hash!Zero]
  OBVIOUS
<1>4. z = [i \in 1 .. m |-> z[i]] /\ \A i \in 1 .. m : z[i] = Hash!Zero
  BY <1>3
<1>5. Text(z) /\ Len(z) = m
  BY <1>2, <1>4, Written
<1>6. PICK u : u = s \bullet z /\ u = Hash!Padded(s)
  BY <1>1, <1>3 DEF Hash!Padded, \bullet
<1>7. Chain(u, s, z, n, m)
  BY <1>1, <1>5, <1>6, Chained
<1>8. Text(u) /\ Len(u) = Block /\ \A i \in 1 .. n : u[i] = s[i]
  BY <1>2, <1>7 DEF Chain
<1>9. ASSUME NEW i \in 1 .. Block, i > n PROVE u[i] = Hash!Zero
  <2>1. i - n \in 1 .. m /\ n + (i - n) = i
    BY <1>2, <1>9
  <2>2. u[n + (i - n)] = z[i - n]
    BY <1>7, <2>1 DEF Chain
  <2> QED BY <1>4, <2>1, <2>2
<1>10. Filled(u, s)
  BY <1>1, <1>8, <1>9 DEF Filled
<1> QED BY <1>6, <1>10

LEMMA PaddedFull == ASSUME NEW s, Text(s), Len(s) = Block PROVE Hash!Padded(s) = s
<1>1. Block <= Block
  BY HashAssumption
<1>2. PICK p : p = Hash!Padded(s)
  OBVIOUS
<1>3. Filled(p, s)
  BY <1>1, <1>2, PaddedIs
<1> QED BY <1>2, <1>3, SameText DEF Filled

\* How many blocks there are.
BlocksOf(w) == IF w = <<>> THEN 1 ELSE (Len(w) + Block - 1) \div Block

LEMMA BlocksCounted ==
  ASSUME NEW n \in Nat, NEW m, NEW c, NEW b, NEW lo, NEW hi, NEW len, NEW w, Streams(c, b, lo, hi, len, w, n, m)
  PROVE  BlocksOf(w) = n + 1
<1>0. Block \in Nat \ {0}
  BY HashAssumption
<1>1. PICK e : e = Len(b)
  OBVIOUS
<1>2. m = n * Block /\ Text(w) /\ Text(b) /\ Len(w) = m + e /\ e <= Block /\ (n > 0 => b # <<>>)
  BY <1>1 DEF Streams, CutUp
<1>3. m \in Nat /\ e \in Nat /\ (w = <<>> <=> m + e = 0) /\ (b = <<>> <=> e = 0)
  BY <1>1, <1>2, Bytes, TextLen
<1>4. n > 0 => m > 0
  <2>1. ASSUME NEW i \in Nat \ {0}, NEW j \in Nat \ {0} PROVE i * j > 0
    OBVIOUS
  <2> QED BY <1>0, <1>2, <2>1
<1>5. CASE w = <<>>
  <2>1. n = 0
    BY <1>3, <1>4, <1>5
  <2> QED BY <1>5, <2>1 DEF BlocksOf
<1>6. CASE w # <<>>
  <2>1. e > 0
    <3>1. CASE n = 0
      <4>1. m = 0
        BY <1>0, <1>2, <3>1
      <4> QED BY <1>3, <1>6, <4>1
    <3>2. CASE n > 0
      BY <1>2, <1>3, <3>2
    <3> QED BY <3>1, <3>2
  <2>2. PICK u : u = Len(w) + Block - 1
    OBVIOUS
  <2>3. u \in Int /\ u = m + e + Block - 1
    BY <1>0, <1>2, <1>3, <2>2
  <2>4. PICK q \in Int, r \in 0 .. Block - 1 : u = Block * q + r /\ u \div Block = q /\ u % Block = r
    BY <1>0, <2>3, Euclid
  <2>5. PICK z \in Int : z = Block * q
    BY <1>0, <2>4
  <2>6. PICK d \in Int : d = q - n
    BY <2>4
  <2>7. Block * d = z - m
    <3>1. ASSUME NEW i \in Int PROVE i * (q - n) = i * q - n * i
      BY <2>4
    <3> QED BY <1>0, <1>2, <2>5, <2>6, <3>1
  <2>8. Block * d = Block + (e - 1) - r
    BY <1>0, <1>3, <2>3, <2>4, <2>5, <2>7
  <2>9. r \in Int /\ 0 <= r /\ r < Block
    BY <1>0, <2>4
  <2>10. Block * d > 0 /\ Block * d < Block + Block
    BY <1>0, <1>2, <1>3, <2>1, <2>8, <2>9
  <2>11. d = 1
    <3>1. ~(d <= 0)
      <4>1. ASSUME NEW i \in Nat, NEW j \in Int, j <= 0 PROVE i * j <= 0
        BY <4>1
      <4> QED BY <1>0, <2>10, <4>1
    <3>2. ~(d >= 2)
      <4>1. ASSUME NEW i \in Nat, NEW j \in Int, j >= 2 PROVE i * j >= i + i
        BY <4>1
      <4> QED BY <1>0, <2>10, <4>1
    <3> QED BY <3>1, <3>2
  <2>12. q = n + 1
    BY <2>4, <2>6, <2>11
  <2> QED BY <1>6, <2>2, <2>4, <2>12 DEF BlocksOf
<1> QED BY <1>5, <1>6

\* What goes into compress for the i-th of n blocks of w, all of them.
End(w, n, i) == IF i = n THEN Len(w) ELSE i * Block
Row(w, n, i) == <<Hash!Padded(Piece(w, (i - 1) * Block + 1, End(w, n, i))), Counted(End(w, n, i)), i = n>>

LEMMA ComputedIs ==
  ASSUME NEW len, NEW w
  PROVE  Computed(len, w) = Hash!DigestOf(<<<<"parameters", len>>>>
                                          \bullet [i \in 1 .. BlocksOf(w) |-> Row(w, BlocksOf(w), i)])
BY DEF Computed, BlocksOf, Row, End

\* The early blocks are the ones of the definition.
LEMMA EarlyRow ==
  ASSUME NEW n \in Nat, NEW m, m = n * Block, NEW w, Text(w), m <= Len(w), NEW i \in 1 .. n
  PROVE  Row(w, n + 1, i) = Early(w, i)
<1>0. Block \in Nat \ {0} /\ Len(w) \in Nat /\ m \in Nat
  BY HashAssumption, TextLen, Bytes
<1>1. PICK from \in Nat, to \in Nat : /\ from = (i - 1) * Block /\ to = i * Block
                                      /\ to = from + Block /\ to <= m
  BY Multiple
<1>2. PICK d : d = Piece(w, from + 1, to)
  OBVIOUS
<1>3. Slice(d, w, from + 1, to)
  BY <1>0, <1>1, <1>2, Sliced
<1>4. Text(d) /\ Len(d) = Block
  <2>1. to - (from + 1) + 1 = Block
    BY <1>0, <1>1
  <2> QED BY <1>3, <2>1 DEF Slice
<1>5. Hash!Padded(d) = d
  BY <1>4, PaddedFull
<1>6. i # n + 1
  OBVIOUS
<1>7. End(w, n + 1, i) = to
  BY <1>1, <1>6 DEF End
<1>8. Row(w, n + 1, i) = <<d, Counted(to), i = n + 1>>
  BY <1>1, <1>2, <1>5, <1>7 DEF Row
<1>9. Early(w, i) = <<d, Counted(to), FALSE>>
  BY <1>1, <1>2 DEF Early, Part
<1>10. (i = n + 1) = FALSE
  BY <1>6
<1> QED BY <1>8, <1>9, <1>10

\* So is the last one.
Last(b, lo1, hi1) == <<Hash!Padded(b), <<lo1, hi1>>, TRUE>>

LEMMA LastRow ==
  ASSUME NEW n \in Nat, NEW m, NEW c, NEW b, NEW lo, NEW hi, NEW len, NEW w, CutUp(c, b, lo, hi, len, w, n, m),
         NEW lo1, NEW hi1, CountsOn(lo, hi, Len(b), lo1, hi1)
  PROVE  Row(w, n + 1, n + 1) = Last(b, lo1, hi1)
<1>0. Block \in Nat \ {0} /\ Word \in Nat \ {0} /\ Block <= Word
  BY HashAssumption
<1>1. PICK e : e = Len(b)
  OBVIOUS
<1>2. /\ m = n * Block /\ Text(w) /\ Text(b) /\ Len(w) = m + e /\ e <= Block
      /\ \A i \in 1 .. e : b[i] = w[m + i]
      /\ lo = m % Word /\ hi = (m \div Word) % Word
  BY <1>1 DEF CutUp
<1>3. m \in Nat /\ e \in Nat /\ e \in 0 .. Word
  BY <1>0, <1>1, <1>2, Bytes, TextLen
<1>4. PICK end \in Nat : end = m + e
  BY <1>3
<1>5. lo1 = end % Word /\ hi1 = (end \div Word) % Word
  BY <1>1, <1>2, <1>3, <1>4, CounterCarries
<1>6. Piece(w, m + 1, end) = b
  <2>1. Slice(Piece(w, m + 1, end), w, m + 1, end)
    BY <1>2, <1>3, <1>4, Sliced
  <2>2. PICK f \in Nat : f = m + 1
    BY <1>3
  <2>3. end - f + 1 = e
    BY <1>3, <1>4, <2>2
  <2>4. \A i \in 1 .. e : b[i] = w[f + i - 1]
    <3>1. ASSUME NEW i \in 1 .. e PROVE b[i] = w[f + i - 1]
      <4>1. f + i - 1 = m + i
        BY <1>3, <2>2
      <4> QED BY <1>2, <4>1
    <3> QED BY <3>1
  <2>5. Slice(b, w, m + 1, end)
    BY <1>1, <1>2, <2>2, <2>3, <2>4, Zenon DEF Slice
  <2> QED BY <1>3, <1>4, <2>1, <2>5, SameSlice
<1>7. PICK j : j = n + 1
  OBVIOUS
<1>8. j - 1 = n
  BY <1>7
<1>9. End(w, j, j) = end
  BY <1>2, <1>4 DEF End
<1>10. Counted(end) = <<lo1, hi1>>
  BY <1>5 DEF Counted
<1>11. Piece(w, (j - 1) * Block + 1, end) = b
  BY <1>2, <1>6, <1>8
<1>12. Row(w, j, j) = <<Hash!Padded(b), <<lo1, hi1>>, j = j>>
  BY <1>9, <1>10, <1>11 DEF Row
<1>13. (j = j) = TRUE
  OBVIOUS
<1> QED BY <1>7, <1>12, <1>13 DEF Last

LEMMA Finalized ==
  ASSUME NEW n \in Nat, NEW m, NEW c, NEW b, NEW lo, NEW hi, NEW len, NEW w, Streams(c, b, lo, hi, len, w, n, m),
         NEW lo1, NEW hi1, CountsOn(lo, hi, Len(b), lo1, hi1)
  PROVE  Hash!DigestOf(Pushed(c, Last(b, lo1, hi1))) = Computed(len, w)
<1>1. CutUp(c, b, lo, hi, len, w, n, m)
  BY DEF Streams
<1>2. /\ Text(c) /\ Len(c) = n + 1 /\ c[1] = <<"parameters", len>> /\ Text(w) /\ Text(b)
      /\ m = n * Block /\ Len(w) = m + Len(b) /\ \A i \in 1 .. n : c[i + 1] = Early(w, i)
  BY <1>1 DEF CutUp
<1>3. m \in Nat /\ m <= Len(w)
  BY <1>2, Bytes, TextLen
<1>4. PICK j \in Nat : j = n + 1
  OBVIOUS
<1>5. PICK z : z = [i \in 1 .. j |-> Row(w, j, i)]
  OBVIOUS
<1>6. Computed(len, w) = Hash!DigestOf(<<<<"parameters", len>>>> \bullet z)
  <2>1. BlocksOf(w) = j
    BY <1>4, BlocksCounted
  <2> QED BY <1>5, <2>1, ComputedIs
<1>7. Text(z) /\ Len(z) = j /\ \A i \in 1 .. j : z[i] = Row(w, j, i)
  <2>1. z = [i \in 1 .. j |-> z[i]] /\ \A i \in 1 .. j : z[i] = Row(w, j, i)
    BY <1>5
  <2> QED BY <2>1, Written
<1>8. PICK x : x = Last(b, lo1, hi1)
  OBVIOUS
<1>9. Row(w, j, j) = x
  <2>1. Row(w, n + 1, n + 1) = Last(b, lo1, hi1)
    BY <1>1, LastRow
  <2> QED BY <1>4, <1>8, <2>1, Zenon
<1>10. \A i \in 1 .. n : Row(w, j, i) = c[i + 1]
  BY <1>2, <1>3, <1>4, EarlyRow
<1>11. PICK v : v = Pushed(c, x)
  OBVIOUS
<1>12. Grew(v, c, x, n)
  BY <1>2, <1>11, Longer
<1>13. Text(v) /\ Len(v) = n + 2 /\ v[n + 2] = x /\ \A i \in 1 .. n + 1 : v[i] = c[i]
  BY <1>12 DEF Grew
<1>14. PICK y, u : y = <<<<"parameters", len>>>> /\ u = y \bullet z
  OBVIOUS
<1>15. Text(y) /\ Len(y) = 1 /\ y[1] = <<"parameters", len>>
  BY <1>14, OneText
<1>16. Chain(u, y, z, 1, j)
  BY <1>7, <1>14, <1>15, Chained
<1>17. Text(u) /\ Len(u) = n + 2 /\ u[1] = c[1] /\ \A i \in 1 .. j : u[1 + i] = Row(w, j, i)
  BY <1>2, <1>4, <1>7, <1>15, <1>16 DEF Chain
<1>18. \A i \in 1 .. n + 2 : v[i] = u[i]
  <2>1. v[1] = u[1]
    BY <1>13, <1>17
  <2>2. ASSUME NEW i \in 1 .. n PROVE v[i + 1] = u[i + 1]
    <3>1. i + 1 \in 1 .. n + 1 /\ 1 + i = i + 1 /\ i \in 1 .. j
      BY <1>4
    <3> QED BY <1>10, <1>13, <1>17, <3>1
  <2>3. v[n + 2] = u[n + 2]
    <3>1. j \in 1 .. j /\ 1 + j = n + 2
      BY <1>4
    <3> QED BY <1>9, <1>13, <1>17, <3>1
  <2>4. ASSUME NEW i \in 1 .. n + 2 PROVE v[i] = u[i]
    <3>1. CASE i = 1
      BY <2>1, <3>1
    <3>2. CASE i = n + 2
      BY <2>3, <3>2
    <3>3. CASE i # 1 /\ i # n + 2
      <4>1. i - 1 \in 1 .. n /\ (i - 1) + 1 = i
        BY <3>3
      <4> QED BY <2>2, <4>1
    <3> QED BY <3>1, <3>2, <3>3
  <2> QED BY <2>4
<1>19. v = u
  BY <1>13, <1>17, <1>18, SameText
<1> QED BY <1>6, <1>8, <1>11, <1>14, <1>19

-----------------------------------------------------------------------------
\* One turn of the loop of update moves some of the data, its beginning, into
\* the stream.
Fit(b, d) == IF Block - Len(b) < Len(d) THEN Block - Len(b) ELSE Len(d)

Moved(b, d, x, y) == Text(x) /\ x # <<>> /\ Len(b) + Len(x) <= Block /\ Text(y) /\ x \bullet y = d

LEMMA Taken ==
  ASSUME NEW d, Text(d), d # <<>>, NEW b, Text(b), Len(b) < Block,
         NEW n, n = Fit(b, d)
  PROVE  Moved(b, d, Piece(d, 1, n), Piece(d, n + 1, Len(d)))
<1> DEFINE x == Piece(d, 1, n)
           y == Piece(d, n + 1, Len(d))
<1>1. Len(d) \in Nat /\ Len(d) > 0 /\ Len(b) \in Nat
  BY TextLen
<1>2. n \in 0 .. Len(d) /\ n > 0 /\ Len(b) + n <= Block
  BY <1>1, HashAssumption DEF Fit
<1>3. Slice(x, d, 1, n) /\ Slice(y, d, n + 1, Len(d)) /\ x \bullet y = d
  BY <1>2, Halves
<1>4. n - 1 + 1 = n
  BY <1>2
<1>5. Text(x) /\ Len(x) = n /\ Text(y)
  BY <1>3, <1>4 DEF Slice
<1>6. x # <<>>
  BY <1>2, <1>5, TextLen
<1> HIDE DEF x, y
<1>7. Moved(b, d, x, y)
  BY <1>2, <1>3, <1>5, <1>6 DEF Moved
<1> QED BY <1>7 DEF x, y

\* Some of d, its beginning, has gone into the stream, r is left.
Fed(c, b, lo, hi, len, w, d, r) ==
  \E n \in Nat : \E m, x : Streams(c, b, lo, hi, len, w \bullet x, n, m) /\ Text(x) /\ Text(r) /\ x \bullet r = d

LEMMA Takes ==
  ASSUME NEW b, Text(b), Len(b) < Block, Text(data), data # <<>>, Hash!Take(b),
         NEW n \in Nat, NEW m, NEW len, NEW w, CutUp(chain', b, tlo', thi', len, w, n, m)
  PROVE  Fed(chain', buf', tlo', thi', len, w, data, data')
<1>1. PICK i : i = Fit(b, data)
  OBVIOUS
<1>2. PICK x, y : x = Piece(data, 1, i) /\ y = Piece(data, i + 1, Len(data))
  OBVIOUS
<1>3. buf' = b \bullet x /\ data' = y
  BY <1>1, <1>2 DEF Hash!Take, Fit, Piece, \bullet
<1>4. Text(x) /\ x # <<>> /\ Len(b) + Len(x) <= Block /\ Text(y) /\ x \bullet y = data
  <2>1. Moved(b, data, x, y)
    BY <1>1, <1>2, Taken
  <2> QED BY <2>1 DEF Moved
<1>5. Streams(chain', b \bullet x, tlo', thi', len, w \bullet x, n, m)
  BY <1>4, Buffered
<1> QED BY <1>3, <1>4, <1>5 DEF Fed

LEMMA Turned ==
  ASSUME NEW n \in Nat, NEW m, NEW len, NEW w, Streams(chain, buf, tlo, thi, len, w, n, m),
         Text(data), Hash!UpdateLoop
  PROVE  Fed(chain', buf', tlo', thi', len, w, data, data')
<1>1. data # <<>>
  BY DEF Hash!UpdateLoop
<1>2. Block \in Nat \ {0} /\ CutUp(chain, buf, tlo, thi, len, w, n, m)
  BY HashAssumption DEF Streams
<1>3. Text(buf)
  BY <1>2 DEF CutUp
<1>4. CASE Len(buf) = Block /\ Hash!IncrementCounter(Block) /\ Hash!Compress(buf, FALSE) /\ Hash!Take(<<>>)
  <2>1. /\ CountsOn(tlo, thi, Block, tlo', thi')
        /\ chain' = Pushed(chain, <<buf, <<tlo', thi'>>, FALSE>>)
    BY <1>4 DEF Hash!IncrementCounter, Hash!Compress, Pushed, CountsOn
  <2>2. CutUp(chain', <<>>, tlo', thi', len, w, n + 1, m + Block)
    BY <1>2, <1>4, <2>1, FullCompressed
  <2>3. n + 1 \in Nat /\ Text(<<>>) /\ Len(<<>>) < Block
    BY <1>2, EmptyText
  <2> QED BY <1>1, <1>4, <2>2, <2>3, Takes
<1>5. CASE Len(buf) < Block /\ UNCHANGED <<chain, tlo, thi>> /\ Hash!Take(buf)
  <2>1. CutUp(chain', buf, tlo', thi', len, w, n, m)
    BY <1>2, <1>5
  <2> QED BY <1>1, <1>3, <1>5, <2>1, Takes
<1> QED BY <1>4, <1>5 DEF Hash!UpdateLoop

-----------------------------------------------------------------------------
(***************************************************************************)
(* The calls of a function: one hash after the other.  A hash is a New,    *)
(* one or two updates and a Finish; its arguments may be earlier results.  *)
(***************************************************************************)
Then(c, r) == <<c>> \bullet r
One(y, a, r)    == Then(Hash!New(y), Then(Hash!Feed(a), Then(Hash!Finish, r)))
Two(y, a, b, r) == Then(Hash!New(y), Then(Hash!Feed(a), Then(Hash!Feed(b), Then(Hash!Finish, r))))

\* What the bytes a stand for, when the results so far are ds.
Looked(ds, b) == IF b[1] = "r" THEN ds[b[2]] ELSE b
Meant(ds, b)  == IF b[1] \in {"ipad", "opad"} THEN <<b[1], Looked(ds, b[2])>> ELSE Looked(ds, b)
Read(ds, a)   == [i \in DOMAIN a |-> Meant(ds, a[i])]

\* The calls r0 begin with a hash whose result is e; r1 are the calls after it.
Yields(ds, r0, r1, e) ==
  \E y, a : /\ Text(y) /\ Len(y) <= Block /\ Text(a)
            /\ \/ r0 = One(y, a, r1) /\ e = Hash!Hashed(y, Read(ds, a))
               \/ \E b : Text(b) /\ r0 = Two(y, a, b, r1) /\ e = Hash!Hashed(y, Read(ds, a) \bullet Read(ds, b))

\* r0 is the call c and then r.
Begins(r0, c, r, n) == /\ Text(r0) /\ Len(r0) = n + 1 /\ r0 # <<>> /\ Head(r0) = c /\ Tail(r0) = r
                       /\ r0[1] = c /\ \A i \in 1 .. n : r0[i + 1] = r[i]

LEMMA ThenIs == ASSUME NEW c, NEW r, Text(r), NEW n, n = Len(r) PROVE Begins(Then(c, r), c, r, n)
<1>1. n \in Nat
  BY TextLen
<1>2. PICK u, y : u = y \bullet r /\ y = <<c>> /\ u = Then(c, r)
  BY DEF Then
<1>3. Text(y) /\ Len(y) = 1 /\ y[1] = c
  BY <1>2, OneText
<1>4. Chain(u, y, r, 1, n)
  BY <1>2, <1>3, Chained
<1>5. Text(u) /\ Len(u) = 1 + n /\ u[1] = c /\ \A i \in 1 .. n : u[1 + i] = r[i]
  BY <1>3, <1>4 DEF Chain
<1>6. \A i \in 1 .. n : u[i + 1] = r[i]
  <2>1. ASSUME NEW i \in 1 .. n PROVE u[i + 1] = r[i]
    <3>1. i + 1 = 1 + i
      BY <1>1
    <3> QED BY <1>5, <3>1
  <2> QED BY <2>1
<1>7. u # <<>>
  BY <1>1, <1>5, TextLen
<1>8. PICK S : u \in Seq(S)
  BY <1>5 DEF Text
<1>9. Head(u) = u[1] /\ Tail(u) \in Seq(S) /\ Len(Tail(u)) = Len(u) - 1 /\ \A i \in 1 .. Len(Tail(u)) : Tail(u)[i] = u[i + 1]
  BY <1>7, <1>8, HeadTailProperties
<1>10. PICK z : z = Tail(u)
  OBVIOUS
<1>11. Text(z) /\ Len(z) = n /\ \A i \in 1 .. n : z[i] = u[i + 1]
  BY <1>1, <1>5, <1>9, <1>10 DEF Text
<1>12. z = r
  BY <1>6, <1>11, SameText
<1>13. Begins(u, c, r, n)
  BY <1>1, <1>5, <1>6, <1>7, <1>9, <1>10, <1>12 DEF Begins
<1> QED BY <1>2, <1>13

LEMMA ThenText == ASSUME NEW c, NEW r, Text(r) PROVE Text(Then(c, r))
<1>1. PICK n : n = Len(r)
  OBVIOUS
<1>2. Begins(Then(c, r), c, r, n)
  BY <1>1, ThenIs
<1> QED BY <1>2 DEF Begins

LEMMA ThenNext == ASSUME NEW c, NEW r, NEW s, Text(r), Text(s)
                  PROVE  Then(c, r) \bullet s = Then(c, r \bullet s)
BY OneText, Associates DEF Then

LEMMA ThenLast == ASSUME NEW c PROVE <<c>> = Then(c, <<>>)
BY OneText, Nothings DEF Then

LEMMA PairCalls == ASSUME NEW a, NEW b PROVE <<a, b>> = Then(a, <<b>>)
<1>1. PICK u, r, z : u = Then(a, r) /\ r = <<b>> /\ z = <<a, b>>
  OBVIOUS
<1>2. Text(r) /\ Len(r) = 1 /\ r[1] = b
  BY <1>1, OneText
<1>3. Begins(u, a, r, 1)
  BY <1>1, <1>2, ThenIs
<1>4. Text(u) /\ Len(u) = 2 /\ u[1] = a /\ u[2] = b
  <2>1. 1 \in 1 .. 1 /\ 1 + 1 = 2
    OBVIOUS
  <2> QED BY <1>2, <1>3, <2>1 DEF Begins
<1>5. z \in Seq({a, b}) /\ Len(z) = 2 /\ z[1] = a /\ z[2] = b
  BY <1>1
<1>6. Text(z) /\ \A i \in 1 .. 2 : z[i] = u[i]
  BY <1>4, <1>5 DEF Text
<1> QED BY <1>1, <1>4, <1>5, <1>6, SameText

LEMMA TripleCalls == ASSUME NEW a, NEW b, NEW c PROVE <<a, b, c>> = Then(a, <<b, c>>)
<1>1. PICK u, r, z : u = Then(a, r) /\ r = <<b, c>> /\ z = <<a, b, c>>
  OBVIOUS
<1>2. Text(r) /\ Len(r) = 2 /\ r[1] = b /\ r[2] = c
  <2>1. r \in Seq({b, c}) /\ Len(r) = 2 /\ r[1] = b /\ r[2] = c
    BY <1>1
  <2> QED BY <2>1 DEF Text
<1>3. Begins(u, a, r, 2)
  BY <1>1, <1>2, ThenIs
<1>4. Text(u) /\ Len(u) = 3 /\ u[1] = a /\ u[2] = b /\ u[3] = c
  <2>1. 1 \in 1 .. 2 /\ 2 \in 1 .. 2 /\ 1 + 1 = 2 /\ 2 + 1 = 3
    OBVIOUS
  <2> QED BY <1>2, <1>3, <2>1 DEF Begins
<1>5. z \in Seq({a, b, c}) /\ Len(z) = 3 /\ z[1] = a /\ z[2] = b /\ z[3] = c
  BY <1>1
<1>6. Text(z) /\ \A i \in 1 .. 3 : z[i] = u[i]
  BY <1>4, <1>5 DEF Text
<1> QED BY <1>1, <1>4, <1>5, <1>6, SameText

LEMMA ThreeCalls == ASSUME NEW a, NEW b, NEW c PROVE <<a, b, c>> = Then(a, Then(b, Then(c, <<>>)))
<1>1. <<c>> = Then(c, <<>>) /\ <<b, c>> = Then(b, <<c>>) /\ <<a, b, c>> = Then(a, <<b, c>>)
  BY ThenLast, PairCalls, TripleCalls
<1> QED BY <1>1, Zenon

LEMMA FourCalls == ASSUME NEW a, NEW b, NEW c, NEW d, NEW s, Text(s)
                   PROVE  Then(a, Then(b, Then(c, Then(d, <<>>)))) \bullet s
                            = Then(a, Then(b, Then(c, Then(d, s))))
<1>1. /\ Text(Then(d, <<>>)) /\ Text(Then(c, Then(d, <<>>)))
      /\ Text(Then(b, Then(c, Then(d, <<>>))))
  BY EmptyText, ThenText
<1>2. Then(d, <<>>) \bullet s = Then(d, s)
  BY EmptyText, Nothings, ThenNext
<1>3. Then(c, Then(d, <<>>)) \bullet s = Then(c, Then(d, s))
  BY <1>1, <1>2, ThenNext
<1>4. Then(b, Then(c, Then(d, <<>>))) \bullet s = Then(b, Then(c, Then(d, s)))
  BY <1>1, <1>3, ThenNext
<1> QED BY <1>1, <1>4, ThenNext

LEMMA ThreeMore == ASSUME NEW a, NEW b, NEW c, NEW s, Text(s)
                   PROVE  Then(a, Then(b, Then(c, <<>>))) \bullet s = Then(a, Then(b, Then(c, s)))
<1>1. Text(Then(c, <<>>)) /\ Text(Then(b, Then(c, <<>>)))
  BY EmptyText, ThenText
<1>2. Then(c, <<>>) \bullet s = Then(c, s)
  BY EmptyText, Nothings, ThenNext
<1>3. Then(b, Then(c, <<>>)) \bullet s = Then(b, Then(c, s))
  BY <1>1, <1>2, ThenNext
<1> QED BY <1>1, <1>3, ThenNext

LEMMA EightCalls ==
  ASSUME NEW a, NEW b, NEW c, NEW d, NEW e, NEW f, NEW g, NEW w
  PROVE  <<a, b, c, d, e, f, g, w>>
           = Then(a, Then(b, Then(c, Then(d, Then(e, Then(f, Then(g, Then(w, <<>>))))))))
<1>1. PICK r1, r2, r3 : r1 = Then(w, <<>>) /\ r2 = Then(g, r1) /\ r3 = Then(f, r2)
  OBVIOUS
<1>2. PICK r4, r5, r6 : r4 = Then(e, r3) /\ r5 = Then(d, r4) /\ r6 = Then(c, r5)
  OBVIOUS
<1>3. PICK r7, u : r7 = Then(b, r6) /\ u = Then(a, r7)
  OBVIOUS
<1>4. Begins(r1, w, <<>>, 0)
  BY <1>1, EmptyText, ThenIs
<1>5. Text(r1) /\ Len(r1) = 1 /\ r1[1] = w
  BY <1>4 DEF Begins
<1>6. Begins(r2, g, r1, 1)
  BY <1>1, <1>5, ThenIs
<1>7. Text(r2) /\ Len(r2) = 2 /\ r2[1] = g /\ r2[2] = w
  <2>1. 1 \in 1 .. 1 /\ 1 + 1 = 2
    OBVIOUS
  <2> QED BY <1>5, <1>6, <2>1 DEF Begins
<1>8. Begins(r3, f, r2, 2)
  BY <1>1, <1>7, ThenIs
<1>9. Text(r3) /\ Len(r3) = 3 /\ r3[1] = f /\ r3[2] = g /\ r3[3] = w
  <2>1. {1, 2} \subseteq 1 .. 2 /\ 1 + 1 = 2 /\ 2 + 1 = 3
    OBVIOUS
  <2> QED BY <1>7, <1>8, <2>1 DEF Begins
<1>10. Begins(r4, e, r3, 3)
  BY <1>2, <1>9, ThenIs
<1>11. Text(r4) /\ Len(r4) = 4 /\ r4[1] = e /\ r4[2] = f /\ r4[3] = g /\ r4[4] = w
  <2>1. {1, 2, 3} \subseteq 1 .. 3 /\ 1 + 1 = 2 /\ 2 + 1 = 3 /\ 3 + 1 = 4
    OBVIOUS
  <2> QED BY <1>9, <1>10, <2>1 DEF Begins
<1>12. Begins(r5, d, r4, 4)
  BY <1>2, <1>11, ThenIs
<1>13. Text(r5) /\ Len(r5) = 5 /\ r5[1] = d /\ r5[2] = e /\ r5[3] = f /\ r5[4] = g /\ r5[5] = w
  <2>1. {1, 2, 3, 4} \subseteq 1 .. 4 /\ 1 + 1 = 2 /\ 2 + 1 = 3 /\ 3 + 1 = 4 /\ 4 + 1 = 5
    OBVIOUS
  <2> QED BY <1>11, <1>12, <2>1 DEF Begins
<1>14. Begins(r6, c, r5, 5)
  BY <1>2, <1>13, ThenIs
<1>15. Text(r6) /\ Len(r6) = 6 /\ r6[1] = c /\ r6[2] = d /\ r6[3] = e /\ r6[4] = f /\ r6[5] = g /\ r6[6] = w
  <2>1. {1, 2, 3, 4, 5} \subseteq 1 .. 5 /\ 1 + 1 = 2 /\ 2 + 1 = 3 /\ 3 + 1 = 4 /\ 4 + 1 = 5 /\ 5 + 1 = 6
    OBVIOUS
  <2> QED BY <1>13, <1>14, <2>1 DEF Begins
<1>16. Begins(r7, b, r6, 6)
  BY <1>3, <1>15, ThenIs
<1>17. /\ Text(r7) /\ Len(r7) = 7 /\ r7[1] = b /\ r7[2] = c /\ r7[3] = d /\ r7[4] = e
       /\ r7[5] = f /\ r7[6] = g /\ r7[7] = w
  <2>1. {1, 2, 3, 4, 5, 6} \subseteq 1 .. 6 /\ 1 + 1 = 2 /\ 2 + 1 = 3 /\ 3 + 1 = 4 /\ 4 + 1 = 5 /\ 5 + 1 = 6 /\ 6 + 1 = 7
    OBVIOUS
  <2> QED BY <1>15, <1>16, <2>1 DEF Begins
<1>18. Begins(u, a, r7, 7)
  BY <1>3, <1>17, ThenIs
<1>19. /\ Text(u) /\ Len(u) = 8 /\ u[1] = a /\ u[2] = b /\ u[3] = c /\ u[4] = d
       /\ u[5] = e /\ u[6] = f /\ u[7] = g /\ u[8] = w
  <2>1. {1, 2, 3, 4, 5, 6, 7} \subseteq 1 .. 7 /\ 1 + 1 = 2 /\ 2 + 1 = 3 /\ 3 + 1 = 4 /\ 4 + 1 = 5 /\ 5 + 1 = 6 /\ 6 + 1 = 7 /\ 7 + 1 = 8
    OBVIOUS
  <2> QED BY <1>17, <1>18, <2>1 DEF Begins
<1>20. PICK z : z = <<a, b, c, d, e, f, g, w>>
  OBVIOUS
<1>21. /\ z \in Seq({a, b, c, d, e, f, g, w}) /\ Len(z) = 8 /\ z[1] = a /\ z[2] = b /\ z[3] = c /\ z[4] = d
       /\ z[5] = e /\ z[6] = f /\ z[7] = g /\ z[8] = w
  BY <1>20
<1>22. Text(z) /\ \A i \in 1 .. 8 : z[i] = u[i]
  BY <1>19, <1>21 DEF Text
<1>23. z = u
  BY <1>19, <1>21, <1>22, SameText
<1> QED BY <1>1, <1>2, <1>3, <1>20, <1>23, Zenon

\* The two hashes of an HMAC, the n-th and the one after it.
InnerCalls(y, msg, r) == Two(<<>>, Hash!Xored("ipad", Hash!Padded(y)), msg, r)
OuterCalls(y, n, r)   == Two(<<>>, Hash!Xored("opad", Hash!Padded(y)), <<<<"r", n>>>>, r)

LEMMA HmacShortIs == ASSUME NEW y, NEW msg, NEW n, NEW r, Text(r)
                     PROVE  Hash!HmacShort(y, msg, n) \bullet r = InnerCalls(y, msg, OuterCalls(y, n, r))
<1> DEFINE a == Hash!New(<<>>)
           b == Hash!Feed(Hash!Xored("ipad", Hash!Padded(y)))
           c == Hash!Feed(msg)
           d == Hash!Finish
           f == Hash!Feed(Hash!Xored("opad", Hash!Padded(y)))
           g == Hash!Feed(<<<<"r", n>>>>)
<1>1. Hash!HmacShort(y, msg, n) = <<a, b, c, d, a, f, g, d>>
  BY DEF Hash!HmacShort
<1>2. InnerCalls(y, msg, OuterCalls(y, n, r))
        = Then(a, Then(b, Then(c, Then(d, Then(a, Then(f, Then(g, Then(d, r))))))))
  BY DEF InnerCalls, OuterCalls, Two
<1> HIDE DEF a, b, c, d, f, g
<1> DEFINE v == Then(a, Then(f, Then(g, Then(d, <<>>))))
<1>3. Text(v)
  BY EmptyText, ThenText
<1>4. v \bullet r = Then(a, Then(f, Then(g, Then(d, r))))
  BY FourCalls
<1>5. <<a, b, c, d, a, f, g, d>> = Then(a, Then(b, Then(c, Then(d, v))))
  BY EightCalls
<1> HIDE DEF v
<1>6. Then(a, Then(b, Then(c, Then(d, v)))) \bullet r = Then(a, Then(b, Then(c, Then(d, v \bullet r))))
  <2>1. Text(Then(d, v)) /\ Text(Then(c, Then(d, v))) /\ Text(Then(b, Then(c, Then(d, v))))
    BY <1>3, ThenText
  <2>2. Then(d, v) \bullet r = Then(d, v \bullet r)
    BY <1>3, ThenNext
  <2>3. Then(c, Then(d, v)) \bullet r = Then(c, Then(d, v \bullet r))
    BY <2>1, <2>2, ThenNext
  <2>4. Then(b, Then(c, Then(d, v))) \bullet r = Then(b, Then(c, Then(d, v \bullet r)))
    BY <2>1, <2>3, ThenNext
  <2> QED BY <2>1, <2>4, ThenNext
<1> QED BY <1>1, <1>2, <1>4, <1>5, <1>6

LEMMA CallsText == ASSUME NEW y, NEW a, NEW b, NEW r, Text(r)
                   PROVE  Text(One(y, a, r)) /\ Text(Two(y, a, b, r))
BY ThenText DEF One, Two

-----------------------------------------------------------------------------
(***************************************************************************)
(* What each hash of a job is given, and what its result should be.        *)
(***************************************************************************)
InnerOf(y, msg) == Hash!Hashed(<<>>, Hash!Xored("ipad", Hash!Padded(y)) \bullet msg)
OuterOf(y, e)   == Hash!Hashed(<<>>, Hash!Xored("opad", Hash!Padded(y)) \bullet <<e>>)

\* An HMAC key that is no longer than a block and not yet padded.
PlainKey(y) == Text(y) /\ Len(y) <= Block /\ \A i \in 1 .. Len(y) : y[i][1] \notin {"ipad", "opad"}

IsRead(u, ds, a, n) == Text(u) /\ Len(u) = n /\ \A i \in 1 .. n : u[i] = Meant(ds, a[i])

LEMMA ReadIs == ASSUME NEW a, Text(a), NEW ds, NEW n, n = Len(a) PROVE IsRead(Read(ds, a), ds, a, n)
<1>1. DOMAIN a = 1 .. n /\ n \in Nat
  BY TextFacts
<1>2. PICK u : u = Read(ds, a)
  OBVIOUS
<1>3. u = [i \in 1 .. n |-> Meant(ds, a[i])]
  BY <1>1, <1>2 DEF Read
<1>4. u = [i \in 1 .. n |-> u[i]] /\ \A i \in 1 .. n : u[i] = Meant(ds, a[i])
  BY <1>3
<1>5. Text(u) /\ Len(u) = n
  BY <1>1, <1>4, Written
<1>6. IsRead(u, ds, a, n)
  BY <1>4, <1>5 DEF IsRead
<1> QED BY <1>2, <1>6

\* Bytes that are no results stay what they are.
LEMMA ReadPlain == ASSUME NEW a, Text(a), NEW n, n = Len(a),
                          \A i \in 1 .. n : a[i][1] \notin {"ipad", "opad", "r"}, NEW ds
                   PROVE  Read(ds, a) = a
<1>1. PICK u : u = Read(ds, a)
  OBVIOUS
<1>2. IsRead(u, ds, a, n)
  BY <1>1, ReadIs
<1>3. \A i \in 1 .. n : Meant(ds, a[i]) = a[i]
  BY DEF Meant, Looked
<1>4. Text(u) /\ Len(u) = n /\ \A i \in 1 .. n : u[i] = a[i]
  BY <1>2, <1>3 DEF IsRead
<1>5. u = a
  BY <1>4, SameText
<1> QED BY <1>1, <1>5

IsXored(u, pad, a, n) == Text(u) /\ Len(u) = n /\ \A i \in 1 .. n : u[i] = <<pad, a[i]>>

LEMMA XoredIs == ASSUME NEW pad, NEW a, Text(a), NEW n, n = Len(a) PROVE IsXored(Hash!Xored(pad, a), pad, a, n)
<1>1. DOMAIN a = 1 .. n /\ n \in Nat
  BY TextFacts
<1>2. PICK u : u = Hash!Xored(pad, a)
  OBVIOUS
<1>3. u = [i \in 1 .. n |-> <<pad, a[i]>>]
  BY <1>1, <1>2 DEF Hash!Xored
<1>4. u = [i \in 1 .. n |-> u[i]] /\ \A i \in 1 .. n : u[i] = <<pad, a[i]>>
  BY <1>3
<1>5. Text(u) /\ Len(u) = n
  BY <1>1, <1>4, Written
<1>6. IsXored(u, pad, a, n)
  BY <1>4, <1>5 DEF IsXored
<1> QED BY <1>2, <1>6

LEMMA ReadXored ==
  ASSUME NEW y, PlainKey(y), NEW pad \in {"ipad", "opad"}, NEW ds
  PROVE  /\ Text(Hash!Xored(pad, Hash!Padded(y)))
         /\ Read(ds, Hash!Xored(pad, Hash!Padded(y))) = Hash!Xored(pad, Hash!Padded(Read(ds, y)))
<1>1. PICK v, u, n : v = Hash!Padded(y) /\ u = Read(ds, y) /\ n = Len(y)
  OBVIOUS
<1>2. Text(y) /\ n <= Block /\ n \in Nat /\ Block \in Nat
  BY <1>1, TextLen, HashAssumption DEF PlainKey
<1>3. Text(u) /\ Len(u) = n /\ \A i \in 1 .. n : u[i] = Looked(ds, y[i])
  <2>1. IsRead(u, ds, y, n)
    BY <1>1, <1>2, ReadIs
  <2>2. \A i \in 1 .. n : y[i][1] \notin {"ipad", "opad"}
    BY <1>1 DEF PlainKey
  <2>3. \A i \in 1 .. n : Meant(ds, y[i]) = Looked(ds, y[i])
    BY <2>2 DEF Meant
  <2> QED BY <2>1, <2>3 DEF IsRead
<1>4. PICK p : p = Hash!Padded(u)
  OBVIOUS
<1>5. Filled(v, y) /\ Filled(p, u)
  BY <1>1, <1>2, <1>3, <1>4, PaddedIs
<1>6. Looked(ds, Hash!Zero) = Hash!Zero
  <2>1. PICK z : z = Hash!Zero
    OBVIOUS
  <2>2. z[1] = "zero"
    BY <2>1 DEF Hash!Zero
  <2>3. Looked(ds, z) = z
    BY <2>2 DEF Looked
  <2> QED BY <2>1, <2>3
<1>7. \A i \in 1 .. Block : p[i] = Looked(ds, v[i])
  <2>1. ASSUME NEW i \in 1 .. Block PROVE p[i] = Looked(ds, v[i])
    <3>1. CASE i <= n
      <4>1. i \in 1 .. n
        BY <1>2, <3>1
      <4> QED BY <1>1, <1>3, <1>5, <4>1 DEF Filled
    <3>2. CASE i > n
      <4>1. v[i] = Hash!Zero /\ p[i] = Hash!Zero
        BY <1>1, <1>3, <1>5, <3>2 DEF Filled
      <4> QED BY <1>6, <4>1
    <3> QED BY <1>2, <3>1, <3>2
  <2> QED BY <2>1
<1>8. PICK x, z : x = Hash!Xored(pad, v) /\ z = Hash!Xored(pad, p)
  OBVIOUS
<1>9. Text(v) /\ Len(v) = Block /\ Text(p) /\ Len(p) = Block
  BY <1>5 DEF Filled
<1>10. IsXored(x, pad, v, Block) /\ IsXored(z, pad, p, Block)
  BY <1>8, <1>9, XoredIs
<1>11. /\ Text(x) /\ Len(x) = Block /\ \A i \in 1 .. Block : x[i] = <<pad, v[i]>>
       /\ Text(z) /\ Len(z) = Block /\ \A i \in 1 .. Block : z[i] = <<pad, p[i]>>
  BY <1>10 DEF IsXored
<1>12. PICK q : q = Read(ds, x)
  OBVIOUS
<1>13. IsRead(q, ds, x, Block)
  BY <1>11, <1>12, ReadIs
<1>14. \A i \in 1 .. Block : Meant(ds, x[i]) = z[i]
  <2>1. ASSUME NEW i \in 1 .. Block PROVE Meant(ds, x[i]) = z[i]
    <3>1. PICK b, e : b = x[i] /\ e = v[i]
      OBVIOUS
    <3>2. b = <<pad, e>>
      BY <1>11, <3>1
    <3>3. b[1] = pad /\ b[2] = e
      BY <3>2
    <3>4. Meant(ds, b) = <<pad, Looked(ds, e)>>
      BY <3>3 DEF Meant
    <3>5. z[i] = <<pad, Looked(ds, e)>>
      BY <1>7, <1>11, <3>1
    <3> QED BY <3>1, <3>4, <3>5
  <2> QED BY <2>1
<1>15. Text(q) /\ Len(q) = Block /\ \A i \in 1 .. Block : q[i] = z[i]
  BY <1>13, <1>14 DEF IsRead
<1>16. q = z
  BY <1>11, <1>15, SameText
<1> QED BY <1>1, <1>4, <1>8, <1>11, <1>12, <1>16

LEMMA InnerYields == ASSUME NEW y, PlainKey(y), NEW msg, Text(msg), NEW r, NEW ds
                     PROVE  Yields(ds, InnerCalls(y, msg, r), r, InnerOf(Read(ds, y), Read(ds, msg)))
<1>1. PICK a : a = Hash!Xored("ipad", Hash!Padded(y))
  OBVIOUS
<1>2. Text(a) /\ Read(ds, a) = Hash!Xored("ipad", Hash!Padded(Read(ds, y)))
  BY <1>1, ReadXored
<1>3. InnerCalls(y, msg, r) = Two(<<>>, a, msg, r)
  BY <1>1 DEF InnerCalls
<1>4. InnerOf(Read(ds, y), Read(ds, msg)) = Hash!Hashed(<<>>, Read(ds, a) \bullet Read(ds, msg))
  BY <1>2 DEF InnerOf
<1>5. Text(<<>>) /\ Len(<<>>) <= Block
  BY EmptyText, HashAssumption
<1> QED BY <1>2, <1>3, <1>4, <1>5 DEF Yields

LEMMA ReadResult == ASSUME NEW n, NEW ds
                    PROVE  /\ PlainKey(<<<<"r", n>>>>) /\ Text(<<<<"r", n>>>>)
                           /\ Read(ds, <<<<"r", n>>>>) = <<ds[n]>>
<1>1. PICK a : a = <<<<"r", n>>>>
  OBVIOUS
<1>2. Text(a) /\ Len(a) = 1 /\ a[1] = <<"r", n>>
  BY <1>1, OneText
<1>3. a[1][1] = "r" /\ a[1][2] = n
  BY <1>2
<1>4. PlainKey(a)
  BY <1>2, <1>3, HashAssumption DEF PlainKey
<1>5. PICK u : u = Read(ds, a)
  OBVIOUS
<1>6. IsRead(u, ds, a, 1)
  BY <1>2, <1>5, ReadIs
<1>7. Meant(ds, a[1]) = ds[n]
  BY <1>3 DEF Meant, Looked
<1>8. Text(u) /\ Len(u) = 1 /\ u[1] = ds[n]
  <2>1. 1 \in 1 .. 1
    OBVIOUS
  <2> QED BY <1>6, <1>7, <2>1 DEF IsRead
<1>9. PICK z : z = <<ds[n]>>
  OBVIOUS
<1>10. Text(z) /\ Len(z) = 1 /\ z[1] = ds[n]
  BY <1>9, OneText
<1>11. u = z
  <2>1. \A i \in 1 .. 1 : u[i] = z[i]
    BY <1>8, <1>10
  <2> QED BY <1>8, <1>10, <2>1, SameText
<1> QED BY <1>1, <1>2, <1>4, <1>5, <1>9, <1>11

LEMMA OuterYields == ASSUME NEW y, PlainKey(y), NEW n, NEW r, NEW ds
                     PROVE  Yields(ds, OuterCalls(y, n, r), r, OuterOf(Read(ds, y), ds[n]))
<1>1. PICK a, b : a = Hash!Xored("opad", Hash!Padded(y)) /\ b = <<<<"r", n>>>>
  OBVIOUS
<1>2. Text(a) /\ Read(ds, a) = Hash!Xored("opad", Hash!Padded(Read(ds, y)))
  BY <1>1, ReadXored
<1>3. Text(b) /\ Read(ds, b) = <<ds[n]>>
  BY <1>1, ReadResult
<1>4. OuterCalls(y, n, r) = Two(<<>>, a, b, r)
  BY <1>1 DEF OuterCalls
<1>5. OuterOf(Read(ds, y), ds[n]) = Hash!Hashed(<<>>, Read(ds, a) \bullet Read(ds, b))
  BY <1>2, <1>3 DEF OuterOf
<1>6. Text(<<>>) /\ Len(<<>>) <= Block
  BY EmptyText, HashAssumption
<1> QED BY <1>2, <1>3, <1>4, <1>5, <1>6 DEF Yields

\* The bytes of messages and keys stand for themselves.
LEMMA MessageIs == ASSUME NEW n \in Nat, NEW ds
                   PROVE  /\ Text(Hash!Message(n)) /\ Len(Hash!Message(n)) = n
                          /\ Read(ds, Hash!Message(n)) = Hash!Message(n)
<1>1. PICK a : a = Hash!Message(n) /\ a = [i \in 1 .. n |-> <<"message", i>>]
  BY DEF Hash!Message
<1>2. Text(a) /\ Len(a) = n
  <2>1. a = [i \in 1 .. n |-> a[i]]
    BY <1>1
  <2> QED BY <2>1, Written
<1>3. \A i \in 1 .. n : a[i][1] = "message"
  BY <1>1
<1>4. Read(ds, a) = a
  BY <1>2, <1>3, ReadPlain
<1> QED BY <1>1, <1>2, <1>4

LEMMA KeyBytesIs == ASSUME NEW n \in Nat, NEW ds
                    PROVE  /\ Text(Hash!KeyBytes(n)) /\ Len(Hash!KeyBytes(n)) = n
                           /\ Read(ds, Hash!KeyBytes(n)) = Hash!KeyBytes(n)
                           /\ n <= Block => PlainKey(Hash!KeyBytes(n))
<1>1. PICK a : a = Hash!KeyBytes(n) /\ a = [i \in 1 .. n |-> <<"key", i>>]
  BY DEF Hash!KeyBytes
<1>2. Text(a) /\ Len(a) = n
  <2>1. a = [i \in 1 .. n |-> a[i]]
    BY <1>1
  <2> QED BY <2>1, Written
<1>3. \A i \in 1 .. n : a[i][1] = "key"
  BY <1>1
<1>4. Read(ds, a) = a
  BY <1>2, <1>3, ReadPlain
<1>5. n <= Block => PlainKey(a)
  BY <1>2, <1>3 DEF PlainKey
<1> QED BY <1>1, <1>2, <1>4, <1>5

\* RFC 2104 in two hashes, for a key that fits into a block.
LEMMA HmacOfIs == ASSUME NEW y, Text(y), NEW msg
                  PROVE  LET k0 == IF Len(y) <= Block THEN y ELSE <<Hash!Hashed(<<>>, y)>>
                         IN Hash!HmacOf(y, msg) = OuterOf(k0, InnerOf(k0, msg))
<1>1. (Len(y) > Block) <=> ~(Len(y) <= Block)
  BY TextFacts, HashAssumption
<1> QED BY <1>1 DEF Hash!HmacOf, OuterOf, InnerOf, \bullet

-----------------------------------------------------------------------------
(***************************************************************************)
(* The jobs: after n hashes of the job f, Rest(f, n) are the calls that    *)
(* are left and Expected(f, n) is what the n-th should have returned.      *)
(***************************************************************************)
Msg(f)     == Hash!Message(f.len)
KeyOf(f)   == Hash!KeyBytes(f.key)
Chaining   == Hash!KeyBytes(1)
Long(f)    == <<<<"r", 1>>>>
Temp       == <<<<"r", 2>>>>
OutMsg(i)  == (IF i = 1 THEN <<>> ELSE <<<<"r", 2 * i>>>>) \bullet <<<<"out", i>>>>

\* The calls for the outputs of hkdf from the third, the second, the first on.
Third(f)  == IF f.key = 3 THEN InnerCalls(Temp, OutMsg(3), OuterCalls(Temp, 7, <<>>)) ELSE <<>>
Second(f) == IF f.key >= 2 THEN InnerCalls(Temp, OutMsg(2), OuterCalls(Temp, 5, Third(f))) ELSE <<>>
First(f)  == InnerCalls(Temp, OutMsg(1), OuterCalls(Temp, 3, Second(f)))

HmacRest(f, n) ==
  CASE n = 0 -> InnerCalls(KeyOf(f), Msg(f), OuterCalls(KeyOf(f), 1, <<>>))
    [] n = 1 -> OuterCalls(KeyOf(f), 1, <<>>)
    [] OTHER -> <<>>
LongRest(f, n) ==
  CASE n = 0 -> One(<<>>, KeyOf(f), InnerCalls(Long(f), Msg(f), OuterCalls(Long(f), 2, <<>>)))
    [] n = 1 -> InnerCalls(Long(f), Msg(f), OuterCalls(Long(f), 2, <<>>))
    [] n = 2 -> OuterCalls(Long(f), 2, <<>>)
    [] OTHER -> <<>>
HkdfRest(f, n) ==
  CASE n = 0 -> InnerCalls(Chaining, Msg(f), OuterCalls(Chaining, 1, First(f)))
    [] n = 1 -> OuterCalls(Chaining, 1, First(f))
    [] n = 2 -> First(f)
    [] n = 3 -> OuterCalls(Temp, 3, Second(f))
    [] n = 4 -> Second(f)
    [] n = 5 -> OuterCalls(Temp, 5, Third(f))
    [] n = 6 -> Third(f)
    [] n = 7 -> OuterCalls(Temp, 7, <<>>)
    [] OTHER -> <<>>

Rest(f, n) ==
  CASE f.name = "hash"  -> IF n = 0 THEN One(<<>>, Msg(f), <<>>) ELSE <<>>
    [] f.name = "keyed" -> IF n = 0 THEN One(KeyOf(f), Msg(f), <<>>) ELSE <<>>
    [] f.name = "hmac"  -> IF f.key <= Block THEN HmacRest(f, n) ELSE LongRest(f, n)
    [] f.name = "hkdf"  -> HkdfRest(f, n)

Hashes(f) ==
  CASE f.name \in {"hash", "keyed"} -> 1
    [] f.name = "hmac" -> IF f.key <= Block THEN 2 ELSE 3
    [] f.name = "hkdf" -> 2 + 2 * f.key

LongKey(f) == <<Hash!Hashed(<<>>, KeyOf(f))>>
TempKey(f) == <<Hash!HmacOf(Chaining, Msg(f))>>
Output(f, i) == Hash!HkdfOf(Chaining, Msg(f))[i]
OutBytes(f, i) == (IF i = 1 THEN <<>> ELSE <<Output(f, i - 1)>>) \bullet <<<<"out", i>>>>

HkdfExpected(f, n) ==
  CASE n = 1 -> InnerOf(Chaining, Msg(f))
    [] n = 2 -> Hash!HmacOf(Chaining, Msg(f))
    [] n = 3 -> InnerOf(TempKey(f), OutBytes(f, 1))
    [] n = 4 -> Output(f, 1)
    [] n = 5 -> InnerOf(TempKey(f), OutBytes(f, 2))
    [] n = 6 -> Output(f, 2)
    [] n = 7 -> InnerOf(TempKey(f), OutBytes(f, 3))
    [] OTHER -> Output(f, 3)

Expected(f, n) ==
  CASE f.name = "hash"  -> Hash!Hashed(<<>>, Msg(f))
    [] f.name = "keyed" -> Hash!Hashed(KeyOf(f), Msg(f))
    [] f.name = "hmac" /\ f.key <= Block ->
         IF n = 1 THEN InnerOf(KeyOf(f), Msg(f)) ELSE Hash!HmacOf(KeyOf(f), Msg(f))
    [] f.name = "hmac" /\ ~(f.key <= Block) ->
         IF n = 1 THEN Hash!Hashed(<<>>, KeyOf(f))
         ELSE IF n = 2 THEN InnerOf(LongKey(f), Msg(f)) ELSE Hash!HmacOf(KeyOf(f), Msg(f))
    [] f.name = "hkdf"  -> HkdfExpected(f, n)

\* The results so far are right.
Right(f, ds) == /\ Text(ds) /\ Len(ds) <= Hashes(f)
                /\ \A i \in 1 .. Len(ds) : ds[i] = Expected(f, i)

LEMMA FunctionIs == ASSUME NEW f \in Hash!Functions
                    PROVE  /\ f.len \in Nat /\ f.key \in Nat
                           /\ \/ f.name = "hash"
                              \/ f.name = "keyed" /\ f.key <= Block
                              \/ f.name = "hmac"
                              \/ f.name = "hkdf" /\ f.key \in 1 .. 3
BY HashAssumption DEF Hash!Functions

LEMMA OneYields == ASSUME NEW y, Text(y), Len(y) <= Block, NEW a, Text(a), NEW r, NEW ds
                   PROVE  Yields(ds, One(y, a, r), r, Hash!Hashed(y, Read(ds, a)))
BY DEF Yields

\* What hkdf expands: the output before, and the number of this one.
LEMMA OutMsgIs ==
  ASSUME NEW f, NEW i \in 1 .. 3, NEW ds, i > 1 => ds[2 * i] = Output(f, i - 1)
  PROVE  Text(OutMsg(i)) /\ Read(ds, OutMsg(i)) = OutBytes(f, i)
<1>1. PICK z, x : z = <<"out", i>> /\ x = <<z>>
  OBVIOUS
<1>2. Text(x) /\ Len(x) = 1 /\ x[1] = z /\ z[1] = "out"
  BY <1>1, OneText
<1>3. CASE i = 1
  <2>1. OutMsg(i) = <<>> \bullet x /\ OutBytes(f, i) = <<>> \bullet x
    BY <1>1, <1>3 DEF OutMsg, OutBytes
  <2>2. OutMsg(i) = x /\ OutBytes(f, i) = x
    BY <1>2, <2>1, Nothings
  <2>3. Read(ds, x) = x
    <3>1. \A j \in 1 .. 1 : x[j][1] \notin {"ipad", "opad", "r"}
      BY <1>2
    <3> QED BY <1>2, <3>1, ReadPlain
  <2> QED BY <1>2, <2>2, <2>3
<1>4. CASE i > 1
  <2>1. PICK b, a, e : b = <<"r", 2 * i>> /\ a = <<b>> /\ e = <<ds[2 * i]>>
    OBVIOUS
  <2>2. /\ Text(a) /\ Len(a) = 1 /\ a[1] = b /\ b[1] = "r" /\ b[2] = 2 * i
        /\ Text(e) /\ Len(e) = 1 /\ e[1] = ds[2 * i]
    BY <2>1, OneText
  <2>3. PICK u, v : u = a \bullet x /\ v = e \bullet x
    OBVIOUS
  <2>4. OutMsg(i) = u /\ OutBytes(f, i) = v
    <3>1. i # 1
      BY <1>4
    <3> QED BY <1>1, <1>4, <2>1, <2>3, <3>1 DEF OutMsg, OutBytes
  <2>5. Chain(u, a, x, 1, 1) /\ Chain(v, e, x, 1, 1)
    BY <1>2, <2>2, <2>3, Chained
  <2>6. 1 \in 1 .. 1 /\ 1 + 1 = 2
    OBVIOUS
  <2>7. /\ Text(u) /\ Len(u) = 2 /\ u[1] = b /\ u[2] = z
        /\ Text(v) /\ Len(v) = 2 /\ v[1] = ds[2 * i] /\ v[2] = z
    BY <1>2, <2>2, <2>5, <2>6 DEF Chain
  <2>8. PICK q : q = Read(ds, u)
    OBVIOUS
  <2>9. IsRead(q, ds, u, 2)
    BY <2>7, <2>8, ReadIs
  <2>10. Meant(ds, b) = ds[2 * i] /\ Meant(ds, z) = z
    BY <1>2, <2>2 DEF Meant, Looked
  <2>11. Text(q) /\ Len(q) = 2 /\ \A j \in 1 .. 2 : q[j] = v[j]
    BY <2>7, <2>9, <2>10 DEF IsRead
  <2>12. q = v
    BY <2>7, <2>11, SameText
  <2> QED BY <2>4, <2>7, <2>8, <2>12
<1> QED BY <1>3, <1>4

LEMMA HkdfOutputs ==
  ASSUME NEW f, NEW i \in 1 .. 3
  PROVE  Output(f, i) = OuterOf(TempKey(f), InnerOf(TempKey(f), OutBytes(f, i)))
<1> DEFINE temp == TempKey(f)
           o1 == Hash!HmacOf(temp, <<<<"out", 1>>>>)
           o2 == Hash!HmacOf(temp, <<o1, <<"out", 2>>>>)
           o3 == Hash!HmacOf(temp, <<o2, <<"out", 3>>>>)
<1>1. Hash!HkdfOf(Chaining, Msg(f)) = <<o1, o2, o3>>
  BY DEF Hash!HkdfOf, TempKey, \bullet
<1>2. Text(temp) /\ Len(temp) <= Block
  BY OneText, HashAssumption DEF TempKey
<1> HIDE DEF temp
<1>3. ASSUME NEW msg PROVE Hash!HmacOf(temp, msg) = OuterOf(temp, InnerOf(temp, msg))
  BY <1>2, HmacOfIs
<1> HIDE DEF o1, o2, o3
<1>4. Output(f, 1) = o1 /\ Output(f, 2) = o2 /\ Output(f, 3) = o3
  BY <1>1 DEF Output
<1>5. ASSUME NEW a, NEW b PROVE <<a>> \bullet <<b>> = <<a, b>>
  BY PairCalls DEF Then
<1>6. /\ OutBytes(f, 1) = <<<<"out", 1>>>>
      /\ OutBytes(f, 2) = <<o1, <<"out", 2>>>>
      /\ OutBytes(f, 3) = <<o2, <<"out", 3>>>>
  <2>1. OutBytes(f, 1) = <<<<"out", 1>>>>
    BY OneText, Nothings DEF OutBytes
  <2>2. OutBytes(f, 2) = <<Output(f, 1)>> \bullet <<<<"out", 2>>>>
    BY DEF OutBytes
  <2>3. OutBytes(f, 3) = <<Output(f, 2)>> \bullet <<<<"out", 3>>>>
    BY DEF OutBytes
  <2> QED BY <1>4, <1>5, <2>1, <2>2, <2>3
<1>7. /\ o1 = OuterOf(temp, InnerOf(temp, <<<<"out", 1>>>>))
      /\ o2 = OuterOf(temp, InnerOf(temp, <<o1, <<"out", 2>>>>))
      /\ o3 = OuterOf(temp, InnerOf(temp, <<o2, <<"out", 3>>>>))
  BY <1>3 DEF o1, o2, o3
<1>8. temp = TempKey(f)
  BY DEF temp
<1> QED BY <1>4, <1>6, <1>7, <1>8

LEMMA RestText == ASSUME NEW f \in Hash!Functions, NEW n \in Nat PROVE Text(Rest(f, n))
<1>1. Text(Third(f)) /\ Text(Second(f)) /\ Text(First(f))
  BY EmptyText, CallsText DEF Third, Second, First, InnerCalls, OuterCalls
<1>2. ASSUME NEW y, NEW i, NEW r, Text(r) PROVE Text(OuterCalls(y, i, r))
  BY <1>2, CallsText DEF OuterCalls
<1>3. ASSUME NEW y, NEW msg, NEW r, Text(r) PROVE Text(InnerCalls(y, msg, r))
  BY <1>3, CallsText DEF InnerCalls
<1>4. Text(HmacRest(f, n))
  BY <1>2, <1>3, EmptyText DEF HmacRest
<1>5. Text(LongRest(f, n))
  BY <1>2, <1>3, EmptyText, CallsText DEF LongRest
<1>6. Text(HkdfRest(f, n))
  <2>1. CASE n \in {0, 1, 2, 3, 4, 5, 6, 7}
    BY <1>1, <1>2, <1>3, <2>1, EmptyText DEF HkdfRest
  <2>2. CASE n \notin {0, 1, 2, 3, 4, 5, 6, 7}
    BY <2>2, EmptyText DEF HkdfRest
  <2> QED BY <2>1, <2>2
<1>7. f.name \in {"hash", "keyed"} => Text(Rest(f, n))
  BY EmptyText, CallsText DEF Rest
<1>8. f.name \in {"hmac", "hkdf"} => Text(Rest(f, n))
  BY <1>4, <1>5, <1>6 DEF Rest
<1> QED BY <1>7, <1>8, FunctionIs

\* The next hash of a job gives what it should, if those before it did.
LEMMA HmacNext ==
  ASSUME NEW f \in Hash!Functions, NEW ds, Right(f, ds), f.name = "hmac", f.key <= Block, Len(ds) < 2
  PROVE  Yields(ds, Rest(f, Len(ds)), Rest(f, Len(ds) + 1), Expected(f, Len(ds) + 1))
<1>1. f.key \in Nat /\ f.len \in Nat
  BY FunctionIs
<1>2. Len(ds) \in {0, 1}
  <2>1. Text(ds)
    BY DEF Right
  <2>2. PICK n : n = Len(ds) /\ n < 2
    OBVIOUS
  <2>3. n \in Nat
    BY <2>1, <2>2, TextLen
  <2>4. n \in {0, 1}
    BY <2>2, <2>3
  <2> QED BY <2>2, <2>4
<1>3. PlainKey(KeyOf(f)) /\ Read(ds, KeyOf(f)) = KeyOf(f) /\ Text(KeyOf(f)) /\ Len(KeyOf(f)) <= Block
  BY <1>1, KeyBytesIs DEF KeyOf
<1>4. Text(Msg(f)) /\ Read(ds, Msg(f)) = Msg(f)
  BY <1>1, MessageIs DEF Msg
<1>5. CASE Len(ds) = 0
  <2>1. Rest(f, 0) = InnerCalls(KeyOf(f), Msg(f), OuterCalls(KeyOf(f), 1, <<>>))
    BY DEF Rest, HmacRest
  <2>2. Rest(f, 1) = OuterCalls(KeyOf(f), 1, <<>>)
    BY DEF Rest, HmacRest
  <2>3. Expected(f, 1) = InnerOf(KeyOf(f), Msg(f))
    BY DEF Expected
  <2>4. Len(ds) = 0 /\ Len(ds) + 1 = 1
    BY <1>5
  <2>5. Yields(ds, InnerCalls(KeyOf(f), Msg(f), OuterCalls(KeyOf(f), 1, <<>>)), OuterCalls(KeyOf(f), 1, <<>>),
               InnerOf(Read(ds, KeyOf(f)), Read(ds, Msg(f))))
    BY <1>3, <1>4, InnerYields
  <2> QED BY <1>3, <1>4, <2>1, <2>2, <2>3, <2>4, <2>5
<1>6. CASE Len(ds) = 1
  <2>1. Rest(f, 1) = OuterCalls(KeyOf(f), 1, <<>>)
    BY DEF Rest, HmacRest
  <2>2. Rest(f, 2) = <<>>
    BY DEF Rest, HmacRest
  <2>3. Expected(f, 2) = Hash!HmacOf(KeyOf(f), Msg(f))
    BY DEF Expected
  <2>4. ds[1] = InnerOf(KeyOf(f), Msg(f))
    <3>1. ds[1] = Expected(f, 1)
      BY <1>6 DEF Right
    <3> QED BY <3>1 DEF Expected
  <2>5. Hash!HmacOf(KeyOf(f), Msg(f)) = OuterOf(KeyOf(f), ds[1])
    BY <1>3, <2>4, HmacOfIs
  <2>6. Yields(ds, OuterCalls(KeyOf(f), 1, <<>>), <<>>, OuterOf(Read(ds, KeyOf(f)), ds[1]))
    BY <1>3, OuterYields
  <2>7. Len(ds) = 1 /\ Len(ds) + 1 = 2
    BY <1>6
  <2> QED BY <1>3, <2>1, <2>2, <2>3, <2>5, <2>6, <2>7
<1> QED BY <1>2, <1>5, <1>6

LEMMA LongNext ==
  ASSUME NEW f \in Hash!Functions, NEW ds, Right(f, ds), f.name = "hmac", ~(f.key <= Block), Len(ds) < 3
  PROVE  Yields(ds, Rest(f, Len(ds)), Rest(f, Len(ds) + 1), Expected(f, Len(ds) + 1))
<1>1. f.key \in Nat /\ f.len \in Nat
  BY FunctionIs
<1>2. Len(ds) \in {0, 1, 2}
  <2>1. Text(ds)
    BY DEF Right
  <2>2. PICK n : n = Len(ds) /\ n < 3
    OBVIOUS
  <2>3. n \in Nat
    BY <2>1, <2>2, TextLen
  <2>4. n \in {0, 1, 2}
    BY <2>2, <2>3
  <2> QED BY <2>2, <2>4
<1>3. Read(ds, KeyOf(f)) = KeyOf(f) /\ Text(KeyOf(f)) /\ ~(Len(KeyOf(f)) <= Block)
  BY <1>1, KeyBytesIs DEF KeyOf
<1>4. Text(Msg(f)) /\ Read(ds, Msg(f)) = Msg(f)
  BY <1>1, MessageIs DEF Msg
<1>5. PlainKey(Long(f)) /\ Read(ds, Long(f)) = <<ds[1]>>
  BY ReadResult DEF Long
<1>6. Len(ds) > 0 => ds[1] = Hash!Hashed(<<>>, KeyOf(f))
  <2>1. Len(ds) > 0 => ds[1] = Expected(f, 1)
    BY <1>2 DEF Right
  <2> QED BY <2>1 DEF Expected
<1>7. CASE Len(ds) = 0
  <2>1. Rest(f, 0) = One(<<>>, KeyOf(f), Rest(f, 1))
    BY DEF Rest, LongRest
  <2>2. Expected(f, 1) = Hash!Hashed(<<>>, KeyOf(f))
    BY DEF Expected
  <2>3. Len(ds) = 0 /\ Len(ds) + 1 = 1
    BY <1>7
  <2>4. Text(<<>>) /\ Len(<<>>) <= Block
    BY EmptyText, HashAssumption
  <2>5. Yields(ds, One(<<>>, KeyOf(f), Rest(f, 1)), Rest(f, 1), Hash!Hashed(<<>>, Read(ds, KeyOf(f))))
    BY <1>3, <2>4, OneYields
  <2> QED BY <1>3, <2>1, <2>2, <2>3, <2>5
<1>8. CASE Len(ds) = 1
  <2>1. Rest(f, 1) = InnerCalls(Long(f), Msg(f), Rest(f, 2))
    BY DEF Rest, LongRest
  <2>2. Expected(f, 2) = InnerOf(LongKey(f), Msg(f))
    BY DEF Expected
  <2>3. Len(ds) = 1 /\ Len(ds) + 1 = 2
    BY <1>8
  <2>4. Yields(ds, InnerCalls(Long(f), Msg(f), Rest(f, 2)), Rest(f, 2),
               InnerOf(Read(ds, Long(f)), Read(ds, Msg(f))))
    BY <1>4, <1>5, InnerYields
  <2>5. Read(ds, Long(f)) = LongKey(f)
    BY <1>5, <1>6, <1>8 DEF LongKey
  <2> QED BY <1>4, <2>1, <2>2, <2>3, <2>4, <2>5
<1>9. CASE Len(ds) = 2
  <2>1. Rest(f, 2) = OuterCalls(Long(f), 2, Rest(f, 3))
    BY DEF Rest, LongRest
  <2>2. Expected(f, 3) = Hash!HmacOf(KeyOf(f), Msg(f))
    BY DEF Expected
  <2>3. Len(ds) = 2 /\ Len(ds) + 1 = 3
    BY <1>9
  <2>4. Yields(ds, OuterCalls(Long(f), 2, Rest(f, 3)), Rest(f, 3), OuterOf(Read(ds, Long(f)), ds[2]))
    BY <1>5, OuterYields
  <2>5. Read(ds, Long(f)) = LongKey(f)
    BY <1>5, <1>6, <1>9 DEF LongKey
  <2>6. ds[2] = InnerOf(LongKey(f), Msg(f))
    <3>1. ds[2] = Expected(f, 2)
      BY <1>9 DEF Right
    <3> QED BY <3>1 DEF Expected
  <2>7. Hash!HmacOf(KeyOf(f), Msg(f)) = OuterOf(LongKey(f), ds[2])
    BY <1>3, <2>6, HmacOfIs DEF LongKey
  <2> QED BY <2>1, <2>2, <2>3, <2>4, <2>5, <2>7
<1> QED BY <1>2, <1>7, <1>8, <1>9

LEMMA PairOfHashes == ASSUME NEW m \in 1 .. 3, NEW n \in Nat, n < 2 + 2 * m
                      PROVE  n \in {0, 1} \/ \E i \in 1 .. m : n = 2 * i \/ n = 2 * i + 1
<1>1. CASE n \in {0, 1}
  BY <1>1
<1>2. CASE n \in {2, 3}
  <2>1. 1 \in 1 .. m /\ (n = 2 * 1 \/ n = 2 * 1 + 1)
    BY <1>2
  <2> QED BY <2>1
<1>3. CASE n \in {4, 5}
  <2>1. 2 \in 1 .. m /\ (n = 2 * 2 \/ n = 2 * 2 + 1)
    BY <1>3
  <2> QED BY <2>1
<1>4. CASE n \in {6, 7}
  <2>1. 3 \in 1 .. m /\ (n = 2 * 3 \/ n = 2 * 3 + 1)
    BY <1>4
  <2> QED BY <2>1
<1>5. n < 8
  OBVIOUS
<1> QED BY <1>1, <1>2, <1>3, <1>4, <1>5

LEMMA HkdfNext ==
  ASSUME NEW f \in Hash!Functions, NEW ds, Right(f, ds), f.name = "hkdf", Len(ds) < 2 + 2 * f.key
  PROVE  Yields(ds, Rest(f, Len(ds)), Rest(f, Len(ds) + 1), Expected(f, Len(ds) + 1))
<1>1. f.key \in 1 .. 3 /\ f.len \in Nat
  BY FunctionIs
<1>0. PICK outputs \in 1 .. 3 : outputs = f.key
  BY <1>1
<1>2. PICK n \in 0 .. 7 : n = Len(ds) /\ n < 2 + 2 * outputs
  <2>1. Text(ds)
    BY DEF Right
  <2>2. PICK n : n = Len(ds) /\ n < 2 + 2 * f.key
    OBVIOUS
  <2>3. n \in Nat /\ n < 2 + 2 * outputs
    BY <1>0, <2>1, <2>2, TextLen
  <2>4. n \in 0 .. 7
    BY <1>0, <2>3
  <2> QED BY <2>2, <2>3, <2>4
<1>3. /\ PlainKey(Chaining) /\ Read(ds, Chaining) = Chaining /\ Text(Chaining)
      /\ Len(Chaining) <= Block
  BY KeyBytesIs, HashAssumption DEF Chaining
<1>4. Text(Msg(f)) /\ Read(ds, Msg(f)) = Msg(f)
  BY <1>1, MessageIs DEF Msg
<1>5. \A i \in 1 .. n : ds[i] = HkdfExpected(f, i)
  BY <1>2 DEF Right, Expected
<1>6. PlainKey(Temp) /\ (n >= 2 => Read(ds, Temp) = TempKey(f))
  <2>1. PlainKey(Temp) /\ Read(ds, Temp) = <<ds[2]>>
    BY ReadResult DEF Temp
  <2>2. n >= 2 => ds[2] = Hash!HmacOf(Chaining, Msg(f))
    BY <1>5 DEF HkdfExpected
  <2> QED BY <2>1, <2>2 DEF TempKey
<1>7. /\ Rest(f, n) = HkdfRest(f, n) /\ Rest(f, n + 1) = HkdfRest(f, n + 1)
      /\ Expected(f, n + 1) = HkdfExpected(f, n + 1)
  BY DEF Rest, Expected
<1>8. CASE n = 0
  <2>1. HkdfRest(f, 0) = InnerCalls(Chaining, Msg(f), HkdfRest(f, 1))
    BY DEF HkdfRest
  <2>2. HkdfExpected(f, 1) = InnerOf(Read(ds, Chaining), Read(ds, Msg(f)))
    BY <1>3, <1>4 DEF HkdfExpected
  <2>3. Yields(ds, HkdfRest(f, 0), HkdfRest(f, 1), HkdfExpected(f, 1))
    BY <1>3, <1>4, <2>1, <2>2, InnerYields
  <2> QED BY <1>2, <1>7, <1>8, <2>3
<1>9. CASE n = 1
  <2>1. HkdfRest(f, 1) = OuterCalls(Chaining, 1, HkdfRest(f, 2))
    BY DEF HkdfRest
  <2>2. ds[1] = InnerOf(Chaining, Msg(f))
    BY <1>5, <1>9 DEF HkdfExpected
  <2>3. HkdfExpected(f, 2) = OuterOf(Read(ds, Chaining), ds[1])
    <3>1. HkdfExpected(f, 2) = Hash!HmacOf(Chaining, Msg(f))
      BY DEF HkdfExpected
    <3>2. Hash!HmacOf(Chaining, Msg(f)) = OuterOf(Chaining, InnerOf(Chaining, Msg(f)))
      BY <1>3, HmacOfIs
    <3> QED BY <1>3, <2>2, <3>1, <3>2
  <2>4. Yields(ds, HkdfRest(f, 1), HkdfRest(f, 2), HkdfExpected(f, 2))
    BY <1>3, <2>1, <2>3, OuterYields
  <2> QED BY <1>2, <1>7, <1>9, <2>4
<1>10. ASSUME NEW i \in 1 .. f.key, n = 2 * i
       PROVE  Yields(ds, HkdfRest(f, n), HkdfRest(f, n + 1), HkdfExpected(f, n + 1))
  <2>1. i \in {1, 2, 3}
    BY <1>1
  <2>2. HkdfRest(f, n) = InnerCalls(Temp, OutMsg(i), HkdfRest(f, n + 1))
    <3>1. CASE i = 1
      BY <1>10, <3>1 DEF HkdfRest, First
    <3>2. CASE i = 2
      BY <1>1, <1>10, <3>2 DEF HkdfRest, Second
    <3>3. CASE i = 3
      BY <1>1, <1>10, <3>3 DEF HkdfRest, Third
    <3> QED BY <2>1, <3>1, <3>2, <3>3
  <2>3. HkdfExpected(f, n + 1) = InnerOf(TempKey(f), OutBytes(f, i))
    BY <1>10, <2>1 DEF HkdfExpected
  <2>4. i > 1 => ds[2 * i] = Output(f, i - 1)
    <3>1. CASE i = 2
      BY <1>5, <1>10, <3>1 DEF HkdfExpected
    <3>2. CASE i = 3
      BY <1>5, <1>10, <3>2 DEF HkdfExpected
    <3> QED BY <2>1, <3>1, <3>2
  <2>5. Text(OutMsg(i)) /\ Read(ds, OutMsg(i)) = OutBytes(f, i)
    BY <2>1, <2>4, OutMsgIs
  <2>6. Read(ds, Temp) = TempKey(f)
    BY <1>6, <1>10, <2>1
  <2>7. Yields(ds, InnerCalls(Temp, OutMsg(i), HkdfRest(f, n + 1)), HkdfRest(f, n + 1),
               InnerOf(Read(ds, Temp), Read(ds, OutMsg(i))))
    BY <1>6, <2>5, InnerYields
  <2> QED BY <2>2, <2>3, <2>5, <2>6, <2>7
<1>11. ASSUME NEW i \in 1 .. f.key, n = 2 * i + 1
       PROVE  Yields(ds, HkdfRest(f, n), HkdfRest(f, n + 1), HkdfExpected(f, n + 1))
  <2>1. i \in {1, 2, 3}
    BY <1>1
  <2>2. HkdfRest(f, n) = OuterCalls(Temp, n, HkdfRest(f, n + 1))
    BY <1>11, <2>1 DEF HkdfRest
  <2>3. ds[n] = InnerOf(TempKey(f), OutBytes(f, i))
    BY <1>5, <1>11, <2>1 DEF HkdfExpected
  <2>4. HkdfExpected(f, n + 1) = Output(f, i)
    BY <1>11, <2>1 DEF HkdfExpected
  <2>5. Output(f, i) = OuterOf(TempKey(f), ds[n])
    BY <2>1, <2>3, HkdfOutputs
  <2>6. Read(ds, Temp) = TempKey(f)
    BY <1>6, <1>11, <2>1
  <2>7. Yields(ds, OuterCalls(Temp, n, HkdfRest(f, n + 1)), HkdfRest(f, n + 1), OuterOf(Read(ds, Temp), ds[n]))
    BY <1>6, OuterYields
  <2> QED BY <2>2, <2>4, <2>5, <2>6, <2>7
<1>12. n \in {0, 1} \/ \E i \in 1 .. f.key : n = 2 * i \/ n = 2 * i + 1
  BY <1>0, <1>2, PairOfHashes
<1> QED BY <1>2, <1>7, <1>8, <1>9, <1>10, <1>11, <1>12

LEMMA NextHash ==
  ASSUME NEW f \in Hash!Functions, NEW ds, Right(f, ds), Len(ds) < Hashes(f)
  PROVE  Yields(ds, Rest(f, Len(ds)), Rest(f, Len(ds) + 1), Expected(f, Len(ds) + 1))
<1>1. f.key \in Nat /\ f.len \in Nat /\ Len(ds) \in Nat
  BY FunctionIs, TextFacts DEF Right
<1>2. Text(Msg(f)) /\ Read(ds, Msg(f)) = Msg(f)
  BY <1>1, MessageIs DEF Msg
<1>3. ASSUME f.name \in {"hash", "keyed"}
      PROVE  Len(ds) = 0 /\ Len(ds) + 1 = 1
  BY <1>1, <1>3 DEF Hashes
<1>4. CASE f.name = "hash"
  <2>1. Rest(f, 0) = One(<<>>, Msg(f), <<>>) /\ Rest(f, 1) = <<>> /\ Expected(f, 1) = Hash!Hashed(<<>>, Msg(f))
    BY <1>4 DEF Rest, Expected
  <2>2. Text(<<>>) /\ Len(<<>>) <= Block
    BY EmptyText, HashAssumption
  <2>3. Yields(ds, One(<<>>, Msg(f), <<>>), <<>>, Hash!Hashed(<<>>, Read(ds, Msg(f))))
    BY <1>2, <2>2, OneYields
  <2> QED BY <1>2, <1>3, <1>4, <2>1, <2>3
<1>5. CASE f.name = "keyed"
  <2>1. Rest(f, 0) = One(KeyOf(f), Msg(f), <<>>) /\ Rest(f, 1) = <<>> /\ Expected(f, 1) = Hash!Hashed(KeyOf(f), Msg(f))
    BY <1>5 DEF Rest, Expected
  <2>2. Text(KeyOf(f)) /\ Len(KeyOf(f)) <= Block
    BY <1>1, <1>5, KeyBytesIs, FunctionIs DEF KeyOf
  <2>3. Yields(ds, One(KeyOf(f), Msg(f), <<>>), <<>>, Hash!Hashed(KeyOf(f), Read(ds, Msg(f))))
    BY <1>2, <2>2, OneYields
  <2> QED BY <1>2, <1>3, <1>5, <2>1, <2>3
<1>6. CASE f.name = "hmac"
  BY <1>6, HmacNext, LongNext DEF Hashes
<1>7. CASE f.name = "hkdf"
  BY <1>7, HkdfNext DEF Hashes
<1> QED BY <1>4, <1>5, <1>6, <1>7, FunctionIs

\* A job begins with all its calls.
LEMMA HmacShortAlone == ASSUME NEW y, NEW msg, NEW n
                        PROVE  /\ Hash!HmacShort(y, msg, n) = InnerCalls(y, msg, OuterCalls(y, n, <<>>))
                               /\ Text(Hash!HmacShort(y, msg, n))
<1>1. Hash!HmacShort(y, msg, n) = InnerCalls(y, msg, OuterCalls(y, n, <<>>))
  BY EightCalls DEF Hash!HmacShort, InnerCalls, OuterCalls, Two
<1>2. Text(InnerCalls(y, msg, OuterCalls(y, n, <<>>)))
  BY EmptyText, CallsText DEF InnerCalls, OuterCalls
<1> QED BY <1>1, <1>2

LEMMA CallsAre == ASSUME NEW f \in Hash!Functions PROVE Hash!Calls(f) = Rest(f, 0)
<1>1. f.key \in Nat /\ f.len \in Nat
  BY FunctionIs
<1>2. CASE f.name = "hash"
  BY <1>2, ThreeCalls DEF Hash!Calls, Hash!Hash, Rest, One, Msg
<1>3. CASE f.name = "keyed"
  BY <1>3, ThreeCalls DEF Hash!Calls, Hash!KeyedHash, Rest, One, Msg, KeyOf
<1>4. CASE f.name = "hmac"
  <2>1. Len(KeyOf(f)) = f.key
    BY <1>1, KeyBytesIs DEF KeyOf
  <2>2. CASE f.key <= Block
    <3>1. ~(f.key > Block)
      BY <1>1, <2>2, HashAssumption
    <3>2. Hash!Calls(f) = Hash!HmacShort(KeyOf(f), Msg(f), 1)
      BY <1>4, <2>1, <3>1 DEF Hash!Calls, Hash!HmacCalls, KeyOf, Msg
    <3>3. Rest(f, 0) = InnerCalls(KeyOf(f), Msg(f), OuterCalls(KeyOf(f), 1, <<>>))
      BY <1>4, <2>2 DEF Rest, HmacRest
    <3> QED BY <3>2, <3>3, HmacShortAlone
  <2>3. CASE ~(f.key <= Block)
    <3>1. f.key > Block
      BY <1>1, <2>3, HashAssumption
    <3>2. PICK s : s = Hash!HmacShort(Long(f), Msg(f), 2)
      OBVIOUS
    <3>3. Hash!Calls(f) = Hash!Hash(KeyOf(f)) \bullet s
      BY <1>4, <2>1, <3>1, <3>2 DEF Hash!Calls, Hash!HmacCalls, KeyOf, Msg, Long, \bullet
    <3>4. s = InnerCalls(Long(f), Msg(f), OuterCalls(Long(f), 2, <<>>)) /\ Text(s)
      BY <3>2, HmacShortAlone
    <3>5. Hash!Hash(KeyOf(f)) \bullet s = One(<<>>, KeyOf(f), s)
      BY <3>4, ThreeCalls, ThreeMore DEF Hash!Hash, One
    <3>6. Rest(f, 0) = One(<<>>, KeyOf(f), InnerCalls(Long(f), Msg(f), OuterCalls(Long(f), 2, <<>>)))
      BY <1>4, <2>3 DEF Rest, LongRest
    <3> QED BY <3>3, <3>4, <3>5, <3>6
  <2> QED BY <2>2, <2>3
<1>5. CASE f.name = "hkdf"
  <2>1. f.key \in 1 .. 3
    BY <1>5, FunctionIs
  <2>2. PICK s0, s1, s2, s3 :
          /\ s0 = Hash!HmacShort(Chaining, Msg(f), 1)
          /\ s1 = Hash!HmacShort(Temp, OutMsg(1), 3)
          /\ s2 = Hash!HmacShort(Temp, OutMsg(2), 5)
          /\ s3 = Hash!HmacShort(Temp, OutMsg(3), 7)
    OBVIOUS
  <2>3. PICK r2, r3 : /\ r2 = IF f.key >= 2 THEN s2 ELSE <<>>
                      /\ r3 = IF f.key = 3 THEN s3 ELSE <<>>
    OBVIOUS
  <2>4. Hash!Calls(f) = ((s0 \bullet s1) \bullet r2) \bullet r3
    <3>1. ~(Len(Chaining) > Block)
      BY KeyBytesIs, HashAssumption DEF Chaining
    <3>2. Hash!HmacCalls(Chaining, Msg(f), 1) = s0
      BY <2>2, <3>1 DEF Hash!HmacCalls
    <3>3. 2 * 1 + 1 = 3 /\ 2 * 2 + 1 = 5 /\ 2 * 3 + 1 = 7
      OBVIOUS
    <3>4. Hash!HkdfCalls(Chaining, Msg(f), f.key) = ((s0 \bullet s1) \bullet r2) \bullet r3
      BY <2>2, <2>3, <3>2, <3>3 DEF Hash!HkdfCalls, Temp, OutMsg, \bullet
    <3> QED BY <1>5, <3>4 DEF Hash!Calls, Chaining, Msg
  <2>5. Text(s0) /\ Text(s1) /\ Text(s2) /\ Text(s3) /\ Text(r2) /\ Text(r3)
    BY <2>2, <2>3, HmacShortAlone, EmptyText
  <2>6. r3 = Third(f)
    BY <2>2, <2>3, HmacShortAlone DEF Third
  <2>7. r2 \bullet r3 = Second(f)
    <3>1. CASE f.key >= 2
      BY <2>2, <2>3, <2>5, <2>6, <3>1, HmacShortIs DEF Second
    <3>2. CASE ~(f.key >= 2)
      <4>1. r2 = <<>> /\ r3 = <<>> /\ Second(f) = <<>>
        BY <2>1, <2>3, <3>2 DEF Second
      <4> QED BY <4>1, EmptyText, Nothings
    <3> QED BY <3>1, <3>2
  <2>8. Text(r2 \bullet r3)
    BY <2>5, ChainedText
  <2>9. s1 \bullet (r2 \bullet r3) = First(f)
    BY <2>2, <2>7, <2>8, HmacShortIs DEF First
  <2>10. Text(s1 \bullet (r2 \bullet r3))
    BY <2>5, <2>8, ChainedText
  <2>11. s0 \bullet First(f) = InnerCalls(Chaining, Msg(f), OuterCalls(Chaining, 1, First(f)))
    BY <2>2, <2>9, <2>10, HmacShortIs
  <2>12. ((s0 \bullet s1) \bullet r2) \bullet r3 = s0 \bullet First(f)
    <3>1. Text(s0 \bullet s1)
      BY <2>5, ChainedText
    <3>2. ((s0 \bullet s1) \bullet r2) \bullet r3 = (s0 \bullet s1) \bullet (r2 \bullet r3)
      BY <2>5, <3>1, Associates
    <3>3. (s0 \bullet s1) \bullet (r2 \bullet r3) = s0 \bullet (s1 \bullet (r2 \bullet r3))
      BY <2>5, <2>8, Associates
    <3> QED BY <2>9, <3>2, <3>3
  <2>13. Rest(f, 0) = InnerCalls(Chaining, Msg(f), OuterCalls(Chaining, 1, First(f)))
    BY <1>5 DEF Rest, HkdfRest
  <2> QED BY <2>4, <2>11, <2>12, <2>13
<1> QED BY <1>2, <1>3, <1>4, <1>5, FunctionIs

-----------------------------------------------------------------------------
(***************************************************************************)
(* The invariant.  Between two hashes of a job, what is left to call is    *)
(* Rest; within one, the bytes the stream has and those it is owed make    *)
(* up what is to be hashed.                                                *)
(***************************************************************************)
\* The bytes of a call of update that have not gone into the stream.
Unread(ds, d, a) == IF d = <<>> THEN Read(ds, a) ELSE d

\* The stream has w; with what the calls c and the data d of the first of them
\* still bring it is whole, and then the calls r are left.
Owing(c, ds, d, w, whole, r) ==
  \/ c = Then(Hash!Finish, r) /\ d = <<>> /\ w = whole
  \/ \E a : Text(a) /\ c = Then(Hash!Feed(a), Then(Hash!Finish, r)) /\ w \bullet Unread(ds, d, a) = whole
  \/ \E a, b : /\ Text(a) /\ Text(b) /\ c = Then(Hash!Feed(a), Then(Hash!Feed(b), Then(Hash!Finish, r)))
               /\ (w \bullet Unread(ds, d, a)) \bullet Read(ds, b) = whole

BetweenHashes == todo = Rest(asked, Len(digests)) /\ data = <<>>

InStream(c, b, lo, hi, len, w) == \E n \in Nat : \E m : Streams(c, b, lo, hi, len, w, n, m)

WithinHash ==
  /\ Len(digests) < Hashes(asked)
  /\ \E len, whole, w : /\ Expected(asked, Len(digests) + 1) = Computed(len, whole)
                        /\ Owing(todo, digests, data, w, whole, Rest(asked, Len(digests) + 1))
                        /\ InStream(chain, buf, tlo, thi, len, w)

Hashing ==
  /\ Text(digests) /\ Text(data)
  /\ \/ asked = Hash!NoOne /\ todo = <<>> /\ data = <<>>
     \/ asked \in Hash!Functions /\ Right(asked, digests) /\ (BetweenHashes \/ WithinHash)

LEMMA Top == ASSUME NEW c, NEW r, Text(r)
             PROVE  Text(Then(c, r)) /\ Then(c, r) # <<>> /\ Head(Then(c, r)) = c /\ Tail(Then(c, r)) = r
<1>1. PICK n : n = Len(r)
  OBVIOUS
<1>2. Begins(Then(c, r), c, r, n)
  BY <1>1, ThenIs
<1> QED BY <1>2 DEF Begins

LEMMA CallKinds == /\ \A y : Hash!New(y).do = "new" /\ Hash!New(y).arg = y
                   /\ \A a : Hash!Feed(a).do = "update" /\ Hash!Feed(a).arg = a
                   /\ Hash!Finish.do = "finalize"
BY DEF Hash!New, Hash!Feed, Hash!Finish

\* A hash begins with its key.
StartsHash(r0, y, r) == r0 # <<>> /\ Head(r0) = Hash!New(y) /\ Tail(r0) = r

LEMMA HashOpens ==
  ASSUME NEW y, NEW a, NEW b, NEW r, Text(r)
  PROVE  /\ StartsHash(One(y, a, r), y, Then(Hash!Feed(a), Then(Hash!Finish, r)))
         /\ StartsHash(Two(y, a, b, r), y, Then(Hash!Feed(a), Then(Hash!Feed(b), Then(Hash!Finish, r))))
<1>1. PICK r1, r2, r3 : /\ r1 = Then(Hash!Finish, r) /\ r2 = Then(Hash!Feed(a), r1)
                        /\ r3 = Then(Hash!Feed(a), Then(Hash!Feed(b), r1))
  OBVIOUS
<1>2. Text(r1) /\ Text(r2) /\ Text(r3)
  BY <1>1, ThenText
<1>3. One(y, a, r) = Then(Hash!New(y), r2) /\ Two(y, a, b, r) = Then(Hash!New(y), r3)
  BY <1>1 DEF One, Two
<1>4. StartsHash(Then(Hash!New(y), r2), y, r2) /\ StartsHash(Then(Hash!New(y), r3), y, r3)
  BY <1>2, Top DEF StartsHash
<1> QED BY <1>1, <1>3, <1>4

LEMMA RestOpens ==
  ASSUME NEW f \in Hash!Functions, NEW ds, Right(f, ds), Len(ds) < Hashes(f)
  PROVE  Rest(f, Len(ds)) # <<>> /\ Head(Rest(f, Len(ds))).do = "new"
<1>1. PICK r0, r1, e : r0 = Rest(f, Len(ds)) /\ r1 = Rest(f, Len(ds) + 1) /\ e = Expected(f, Len(ds) + 1)
  OBVIOUS
<1>2. Yields(ds, r0, r1, e)
  BY <1>1, NextHash
<1>3. Text(ds)
  BY DEF Right
<1>4. Text(r1)
  <2>1. Len(ds) + 1 \in Nat
    BY <1>3, TextLen
  <2> QED BY <1>1, <2>1, RestText
<1>5. \E y, a, b : r0 = One(y, a, r1) \/ r0 = Two(y, a, b, r1)
  BY <1>2 DEF Yields
<1>6. PICK y, a, b : r0 = One(y, a, r1) \/ r0 = Two(y, a, b, r1)
  BY <1>5
<1>7. r0 # <<>> /\ Head(r0) = Hash!New(y)
  BY <1>4, <1>6, HashOpens DEF StartsHash
<1> QED BY <1>1, <1>7, CallKinds

\* After its last hash a job has nothing left to call.
LEMMA RestEnds == ASSUME NEW f \in Hash!Functions PROVE Rest(f, Hashes(f)) = <<>>
<1>1. CASE f.name \in {"hash", "keyed"}
  BY <1>1 DEF Rest, Hashes
<1>2. CASE f.name = "hmac"
  BY <1>2 DEF Rest, Hashes, HmacRest, LongRest
<1>3. CASE f.name = "hkdf"
  <2>1. f.key \in {1, 2, 3}
    <3>1. f.key \in 1 .. 3
      BY <1>3, FunctionIs
    <3> QED BY <3>1
  <2>2. Rest(f, Hashes(f)) = HkdfRest(f, 2 + 2 * f.key)
    BY <1>3 DEF Rest, Hashes
  <2>3. CASE f.key = 1
    <3>1. HkdfRest(f, 4) = Second(f) /\ Second(f) = <<>>
      BY <2>3 DEF HkdfRest, Second
    <3>2. 2 + 2 * f.key = 4
      BY <2>3
    <3> QED BY <2>2, <3>1, <3>2
  <2>4. CASE f.key = 2
    <3>1. HkdfRest(f, 6) = Third(f) /\ Third(f) = <<>>
      BY <2>4 DEF HkdfRest, Third
    <3>2. 2 + 2 * f.key = 6
      BY <2>4
    <3> QED BY <2>2, <3>1, <3>2
  <2>5. CASE f.key = 3
    <3>1. HkdfRest(f, 8) = <<>>
      BY DEF HkdfRest
    <3>2. 2 + 2 * f.key = 8
      BY <2>5
    <3> QED BY <2>2, <3>1, <3>2
  <2> QED BY <2>1, <2>3, <2>4, <2>5
<1> QED BY <1>1, <1>2, <1>3, FunctionIs

LEMMA HashesAre == ASSUME NEW f \in Hash!Functions PROVE Hashes(f) \in Nat /\ Hashes(f) >= 1
<1>1. CASE f.name # "hkdf"
  BY <1>1, FunctionIs DEF Hashes
<1>2. CASE f.name = "hkdf"
  <2>1. f.key \in 1 .. 3
    BY <1>2, FunctionIs
  <2>2. Hashes(f) = 2 + 2 * f.key
    BY <1>2 DEF Hashes
  <2> QED BY <2>1, <2>2
<1> QED BY <1>1, <1>2

\* While calls are left, so are hashes.
LEMMA CallsLeft ==
  ASSUME NEW f \in Hash!Functions, NEW ds, Right(f, ds), Rest(f, Len(ds)) # <<>>
  PROVE  Len(ds) < Hashes(f)
<1>1. PICK n : n = Len(ds)
  OBVIOUS
<1>2. Text(ds) /\ n <= Hashes(f)
  BY <1>1 DEF Right
<1>3. n \in Nat /\ Hashes(f) \in Nat
  BY <1>1, <1>2, TextLen, HashesAre
<1>4. n # Hashes(f)
  BY <1>1, RestEnds
<1>5. n < Hashes(f)
  BY <1>2, <1>3, <1>4
<1> QED BY <1>1, <1>5

LEMMA JobCalled ==
  ASSUME Hashing, NEW f \in Hash!Functions, Hash!Call(f)
  PROVE  Hashing'
<1>1. todo = <<>> /\ todo' = Hash!Calls(f) /\ asked' = f /\ digests' = <<>> /\ data' = data
  BY DEF Hash!Call
<1>2. data = <<>>
  <2>1. ASSUME NEW w, NEW whole, NEW r, Text(r), Owing(todo, digests, data, w, whole, r) PROVE FALSE
    <3>1. ASSUME NEW a, NEW b PROVE /\ Then(Hash!Finish, r) # <<>>
                                    /\ Then(Hash!Feed(a), Then(Hash!Finish, r)) # <<>>
                                    /\ Then(Hash!Feed(a), Then(Hash!Feed(b), Then(Hash!Finish, r))) # <<>>
      BY <2>1, Top
    <3> QED BY <1>1, <2>1, <3>1 DEF Owing
  <2>2. ASSUME asked \in Hash!Functions, Right(asked, digests), WithinHash PROVE FALSE
    <3>1. Text(digests)
      BY <2>2 DEF Right
    <3>2. Len(digests) + 1 \in Nat
      BY <3>1, TextLen
    <3>3. Text(Rest(asked, Len(digests) + 1))
      BY <2>2, <3>2, RestText
    <3> QED BY <2>1, <2>2, <3>3 DEF WithinHash
  <2> QED BY <2>2 DEF Hashing, BetweenHashes
<1>3. Text(<<>>) /\ Len(<<>>) = 0
  BY EmptyText
<1>4. Right(f, <<>>)
  <2>1. 0 <= Hashes(f)
    BY HashesAre
  <2> QED BY <1>3, <2>1 DEF Right
<1>5. todo' = Rest(f, 0)
  BY <1>1, CallsAre
<1>6. BetweenHashes'
  BY <1>1, <1>2, <1>3, <1>5 DEF BetweenHashes
<1> QED BY <1>1, <1>2, <1>3, <1>4, <1>6 DEF Hashing

\* The key, padded to a block, is the first of the stream.
LEMMA KeyFirst ==
  ASSUME NEW y, Text(y), Len(y) <= Block
  PROVE  /\ InStream(<<<<"parameters", Len(y)>>>>, KeyBlock(y), 0, 0, Len(y), KeyBlock(y))
         /\ Text(KeyBlock(y))
<1>1. PICK c, z, len : c = <<<<"parameters", Len(y)>>>> /\ z = KeyBlock(y) /\ len = Len(y)
  OBVIOUS
<1>2. Text(c) /\ Len(c) = 1 /\ c[1] = <<"parameters", len>>
  BY <1>1, OneText
<1>3. Text(z) /\ Len(z) <= Block /\ Len(z) \in Nat
  <2>1. CASE y = <<>>
    <3>1. z = <<>>
      BY <1>1, <2>1 DEF KeyBlock
    <3> QED BY <3>1, EmptyText, HashAssumption
  <2>2. CASE y # <<>>
    <3>1. z = Hash!Padded(y)
      BY <1>1, <2>2 DEF KeyBlock
    <3>2. Filled(z, y)
      BY <3>1, PaddedIs
    <3> QED BY <3>2, HashAssumption DEF Filled
  <2> QED BY <2>1, <2>2
<1>4. 0 = 0 * Block /\ 0 % Word = 0 /\ (0 \div Word) % Word = 0
  <2>1. 0 = 0 * Block
    BY HashAssumption
  <2>2. 0 % Word = 0
    BY HashAssumption, OwnRest
  <2>3. 0 \div Word = 0
    <3>1. PICK q \in Int, r \in 0 .. Word - 1 : 0 = Word * q + r /\ 0 \div Word = q /\ 0 % Word = r
      BY HashAssumption, Euclid
    <3>2. Word * q = 0
      BY <2>2, <3>1, HashAssumption
    <3>3. q = 0
      BY <3>1, <3>2, HashAssumption
    <3> QED BY <3>1, <3>3
  <2> QED BY <2>1, <2>2, <2>3
<1>5. CutUp(c, z, 0, 0, len, z, 0, 0)
  <2>1. Len(z) = 0 + Len(z) /\ \A i \in 1 .. Len(z) : z[i] = z[0 + i]
    BY <1>3
  <2>2. Len(c) = 0 + 1 /\ \A i \in 1 .. 0 : c[i + 1] = Early(z, i)
    BY <1>2
  <2> QED BY <1>2, <1>3, <1>4, <2>1, <2>2 DEF CutUp
<1>6. Streams(c, z, 0, 0, len, z, 0, 0) /\ 0 \in Nat
  BY <1>5 DEF Streams
<1>7. InStream(c, z, 0, 0, len, z)
  BY <1>6 DEF InStream
<1> QED BY <1>1, <1>3, <1>7

LEMMA HashStarted ==
  ASSUME Hashing, Hash!StateNew
  PROVE  Hashing'
<1>1. /\ todo # <<>> /\ Head(todo).do = "new" /\ todo' = Tail(todo)
      /\ tlo' = 0 /\ thi' = 0 /\ data' = data /\ digests' = digests /\ asked' = asked
      /\ chain' = <<<<"parameters", Len(Head(todo).arg)>>>> /\ buf' = KeyBlock(Head(todo).arg)
  BY DEF Hash!StateNew, Hash!Doing, KeyBlock
<1>2. Text(digests) /\ Text(data) /\ asked \in Hash!Functions /\ Right(asked, digests) /\ (BetweenHashes \/ WithinHash)
  BY <1>1 DEF Hashing
<1>3. PICK n, r : n = Len(digests) /\ r = Rest(asked, n + 1)
  OBVIOUS
<1>4. n \in Nat /\ n + 1 \in Nat /\ Text(r)
  <2>1. n \in Nat /\ n + 1 \in Nat
    BY <1>2, <1>3, TextLen
  <2> QED BY <1>2, <1>3, <2>1, RestText
<1>5. ~WithinHash
  <2>1. ASSUME NEW a, NEW b PROVE /\ Head(Then(Hash!Finish, r)) = Hash!Finish
                                  /\ Head(Then(Hash!Feed(a), Then(Hash!Finish, r))) = Hash!Feed(a)
                                  /\ Head(Then(Hash!Feed(a), Then(Hash!Feed(b), Then(Hash!Finish, r)))) = Hash!Feed(a)
    BY <1>4, Top
  <2>2. \A w, whole : ~Owing(todo, digests, data, w, whole, r)
    BY <1>1, <2>1, CallKinds DEF Owing
  <2> QED BY <1>3, <2>2 DEF WithinHash
<1>6. todo = Rest(asked, n) /\ data = <<>>
  BY <1>2, <1>3, <1>5 DEF BetweenHashes
<1>7. n < Hashes(asked)
  BY <1>1, <1>2, <1>3, <1>6, CallsLeft
<1>8. PICK e : e = Expected(asked, n + 1)
  OBVIOUS
<1>9. Yields(digests, todo, r, e)
  BY <1>2, <1>3, <1>6, <1>7, <1>8, NextHash
<1>10. ASSUME NEW y, Text(y), Len(y) <= Block, NEW c, StartsHash(todo, y, c),
              NEW whole, Owing(c, digests, <<>>, KeyBlock(y), whole, r), e = Computed(Len(y), whole)
       PROVE  WithinHash'
  <2>1. Head(todo).arg = y /\ todo' = c
    BY <1>1, <1>10, CallKinds DEF StartsHash
  <2>2. InStream(chain', buf', tlo', thi', Len(y), KeyBlock(y))
    BY <1>1, <1>10, <2>1, KeyFirst
  <2>3. Owing(todo', digests', data', KeyBlock(y), whole, r)
    BY <1>1, <1>6, <1>10, <2>1
  <2>4. Len(digests') = n /\ asked' = asked
    BY <1>1, <1>3
  <2> QED BY <1>3, <1>7, <1>8, <1>10, <2>2, <2>3, <2>4 DEF WithinHash
<1>11. WithinHash'
  <2>1. PICK y, a : /\ Text(y) /\ Len(y) <= Block /\ Text(a)
                    /\ \/ todo = One(y, a, r) /\ e = Hash!Hashed(y, Read(digests, a))
                       \/ \E b : /\ Text(b) /\ todo = Two(y, a, b, r)
                                 /\ e = Hash!Hashed(y, Read(digests, a) \bullet Read(digests, b))
    BY <1>9 DEF Yields
  <2>2. Text(KeyBlock(y))
    BY <2>1, KeyFirst
  <2>3. ASSUME NEW x PROVE Unread(digests, <<>>, x) = Read(digests, x)
    BY DEF Unread
  <2>4. CASE todo = One(y, a, r) /\ e = Hash!Hashed(y, Read(digests, a))
    <3>1. StartsHash(todo, y, Then(Hash!Feed(a), Then(Hash!Finish, r)))
      BY <1>4, <2>4, HashOpens
    <3>2. e = Computed(Len(y), KeyBlock(y) \bullet Read(digests, a))
      BY <2>4, HashedIs
    <3>3. Owing(Then(Hash!Feed(a), Then(Hash!Finish, r)), digests, <<>>, KeyBlock(y),
                KeyBlock(y) \bullet Read(digests, a), r)
      BY <2>1, <2>3 DEF Owing
    <3> QED BY <1>10, <2>1, <3>1, <3>2, <3>3
  <2>5. ASSUME NEW b, Text(b), todo = Two(y, a, b, r),
               e = Hash!Hashed(y, Read(digests, a) \bullet Read(digests, b))
        PROVE  WithinHash'
    <3>1. StartsHash(todo, y, Then(Hash!Feed(a), Then(Hash!Feed(b), Then(Hash!Finish, r))))
      BY <1>4, <2>5, HashOpens
    <3>2. PICK u, v : u = Read(digests, a) /\ v = Read(digests, b)
      OBVIOUS
    <3>3. IsRead(u, digests, a, Len(a)) /\ IsRead(v, digests, b, Len(b))
      BY <2>1, <2>5, <3>2, ReadIs
    <3>4. Text(u) /\ Text(v)
      BY <3>3 DEF IsRead
    <3>5. PICK whole : whole = (KeyBlock(y) \bullet u) \bullet v
      OBVIOUS
    <3>6. whole = KeyBlock(y) \bullet (u \bullet v)
      BY <2>2, <3>4, <3>5, Associates
    <3>7. e = Computed(Len(y), whole)
      BY <2>5, <3>2, <3>6, HashedIs
    <3>8. Owing(Then(Hash!Feed(a), Then(Hash!Feed(b), Then(Hash!Finish, r))), digests, <<>>, KeyBlock(y), whole, r)
      BY <2>1, <2>3, <2>5, <3>2, <3>5 DEF Owing
    <3> QED BY <1>10, <2>1, <3>1, <3>7, <3>8
  <2> QED BY <2>1, <2>4, <2>5
<1> QED BY <1>1, <1>2, <1>11 DEF Hashing

\* Only within a hash is there an update or a finalize to call.
LEMMA NotBetween ==
  ASSUME Hashing, todo # <<>>, Head(todo).do # "new" \/ data # <<>>
  PROVE  asked \in Hash!Functions /\ Right(asked, digests) /\ WithinHash
<1>1. asked \in Hash!Functions /\ Right(asked, digests) /\ (BetweenHashes \/ WithinHash)
  BY DEF Hashing
<1>2. ~BetweenHashes
  <2>1. ASSUME BetweenHashes PROVE FALSE
    <3>1. todo = Rest(asked, Len(digests)) /\ data = <<>>
      BY <2>1 DEF BetweenHashes
    <3>2. Len(digests) < Hashes(asked)
      BY <1>1, <3>1, CallsLeft
    <3>3. Head(todo).do = "new"
      BY <1>1, <3>1, <3>2, RestOpens
    <3> QED BY <3>1, <3>3
  <2> QED BY <2>1
<1> QED BY <1>1, <1>2

LEMMA UpdateStarted ==
  ASSUME Hashing, Hash!StartUpdate
  PROVE  Hashing'
<1>1. /\ todo # <<>> /\ Head(todo).do = "update" /\ data = <<>>
      /\ digests' = digests /\ asked' = asked /\ chain' = chain /\ buf' = buf /\ tlo' = tlo /\ thi' = thi
  BY DEF Hash!StartUpdate, Hash!Doing
<1>2. PICK x : x = Read(digests, Head(todo).arg)
  OBVIOUS
<1>3. IF x = <<>> THEN todo' = Tail(todo) /\ data' = <<>> ELSE todo' = todo /\ data' = x
  <2>1. [i \in DOMAIN Head(todo).arg |-> Hash!Resolved(Head(todo).arg[i])] = x
    BY <1>2 DEF Read, Meant, Looked, Hash!Resolved, Hash!Result
  <2> QED BY <1>1, <2>1 DEF Hash!StartUpdate
<1>4. asked \in Hash!Functions /\ Right(asked, digests) /\ WithinHash
  BY <1>1, NotBetween
<1>5. PICK r : r = Rest(asked, Len(digests) + 1)
  OBVIOUS
<1>6. Text(digests) /\ Text(r)
  <2>1. Text(digests)
    BY <1>4 DEF Right
  <2>2. Len(digests) + 1 \in Nat
    BY <2>1, TextLen
  <2> QED BY <1>4, <1>5, <2>1, <2>2, RestText
<1>7. PICK len, whole, w : /\ Expected(asked, Len(digests) + 1) = Computed(len, whole)
                           /\ Owing(todo, digests, data, w, whole, r)
                           /\ InStream(chain, buf, tlo, thi, len, w)
  BY <1>4, <1>5 DEF WithinHash
<1>8. Text(w)
  BY <1>7 DEF InStream, Streams, CutUp
<1>9. ASSUME NEW a, Text(a), NEW c, Text(c), todo = Then(Hash!Feed(a), c)
      PROVE  /\ x = Read(digests, a) /\ Text(x) /\ w \bullet Unread(digests, data, a) = w \bullet x
             /\ IF x = <<>> THEN todo' = c /\ data' = <<>> /\ w \bullet x = w ELSE todo' = todo /\ data' = x
  <2>1. Head(todo) = Hash!Feed(a) /\ Tail(todo) = c
    BY <1>9, Top
  <2>2. x = Read(digests, a)
    BY <1>2, <2>1, CallKinds
  <2>3. IsRead(x, digests, a, Len(a))
    BY <1>9, <2>2, ReadIs
  <2>4. Text(x)
    BY <2>3 DEF IsRead
  <2>5. Unread(digests, data, a) = x
    BY <1>1, <2>2 DEF Unread
  <2>6. x = <<>> => w \bullet x = w
    BY <1>8, Nothings
  <2> QED BY <1>3, <2>1, <2>2, <2>4, <2>5, <2>6
<1>10. Owing(todo', digests, data', w, whole, r) /\ Text(data')
  <2>1. CASE todo = Then(Hash!Finish, r)
    <3>1. Head(todo) = Hash!Finish
      BY <1>6, <2>1, Top
    <3> QED BY <1>1, <3>1, CallKinds
  <2>2. ASSUME NEW a, Text(a), todo = Then(Hash!Feed(a), Then(Hash!Finish, r)),
               w \bullet Unread(digests, data, a) = whole
        PROVE  Owing(todo', digests, data', w, whole, r) /\ Text(data')
    <3>1. Text(Then(Hash!Finish, r))
      BY <1>6, ThenText
    <3>2. /\ x = Read(digests, a) /\ Text(x) /\ w \bullet x = whole
          /\ IF x = <<>> THEN todo' = Then(Hash!Finish, r) /\ data' = <<>> /\ w \bullet x = w
             ELSE todo' = todo /\ data' = x
      BY <1>9, <2>2, <3>1
    <3>3. CASE x = <<>>
      <4>1. todo' = Then(Hash!Finish, r) /\ data' = <<>> /\ w = whole
        BY <3>2, <3>3
      <4> QED BY <4>1, EmptyText DEF Owing
    <3>4. CASE x # <<>>
      <4>1. todo' = Then(Hash!Feed(a), Then(Hash!Finish, r)) /\ data' = x /\ Unread(digests, data', a) = x
        BY <2>2, <3>2, <3>4 DEF Unread
      <4> QED BY <2>2, <3>2, <4>1 DEF Owing
    <3> QED BY <3>3, <3>4
  <2>3. ASSUME NEW a, NEW b, Text(a), Text(b),
               todo = Then(Hash!Feed(a), Then(Hash!Feed(b), Then(Hash!Finish, r))),
               (w \bullet Unread(digests, data, a)) \bullet Read(digests, b) = whole
        PROVE  Owing(todo', digests, data', w, whole, r) /\ Text(data')
    <3>1. Text(Then(Hash!Feed(b), Then(Hash!Finish, r)))
      BY <1>6, ThenText
    <3>2. /\ x = Read(digests, a) /\ Text(x) /\ (w \bullet x) \bullet Read(digests, b) = whole
          /\ IF x = <<>> THEN todo' = Then(Hash!Feed(b), Then(Hash!Finish, r)) /\ data' = <<>> /\ w \bullet x = w
             ELSE todo' = todo /\ data' = x
      BY <1>9, <2>3, <3>1
    <3>3. CASE x = <<>>
      <4>1. todo' = Then(Hash!Feed(b), Then(Hash!Finish, r)) /\ data' = <<>> /\ w \bullet Read(digests, b) = whole
        BY <3>2, <3>3
      <4>2. Unread(digests, data', b) = Read(digests, b)
        BY <4>1 DEF Unread
      <4> QED BY <2>3, <4>1, <4>2, EmptyText DEF Owing
    <3>4. CASE x # <<>>
      <4>1. /\ todo' = Then(Hash!Feed(a), Then(Hash!Feed(b), Then(Hash!Finish, r)))
            /\ data' = x /\ Unread(digests, data', a) = x
        BY <2>3, <3>2, <3>4 DEF Unread
      <4> QED BY <2>3, <3>2, <4>1 DEF Owing
    <3> QED BY <3>3, <3>4
  <2> QED BY <1>7, <2>1, <2>2, <2>3 DEF Owing
<1>11. WithinHash'
  BY <1>1, <1>4, <1>5, <1>7, <1>10 DEF WithinHash
<1> QED BY <1>1, <1>4, <1>6, <1>10, <1>11 DEF Hashing

LEMMA TurnCalls ==
  ASSUME Hash!UpdateLoop
  PROVE  /\ data # <<>> /\ todo' = IF data' = <<>> THEN Tail(todo) ELSE todo
         /\ digests' = digests /\ asked' = asked
BY DEF Hash!UpdateLoop, Hash!Take

LEMMA UpdateTurned ==
  ASSUME Hashing, Hash!UpdateLoop
  PROVE  Hashing'
<1>1. /\ data # <<>> /\ todo' = IF data' = <<>> THEN Tail(todo) ELSE todo
      /\ digests' = digests /\ asked' = asked
  BY TurnCalls
<1>2. Text(data) /\ asked \in Hash!Functions /\ Right(asked, digests) /\ WithinHash
  BY <1>1 DEF Hashing, BetweenHashes
<1>3. PICK r : r = Rest(asked, Len(digests) + 1)
  OBVIOUS
<1>4. Text(digests) /\ Text(r)
  <2>1. Text(digests)
    BY <1>2 DEF Right
  <2>2. Len(digests) + 1 \in Nat
    BY <2>1, TextLen
  <2> QED BY <1>2, <1>3, <2>1, <2>2, RestText
<1>5. PICK len, whole, w : /\ Expected(asked, Len(digests) + 1) = Computed(len, whole)
                           /\ Owing(todo, digests, data, w, whole, r)
                           /\ InStream(chain, buf, tlo, thi, len, w)
  BY <1>2, <1>3 DEF WithinHash
<1>6. Text(w)
  BY <1>5 DEF InStream, Streams, CutUp
<1>7. PICK x : /\ InStream(chain', buf', tlo', thi', len, w \bullet x)
               /\ Text(x) /\ Text(data') /\ x \bullet data' = data
  <2>1. PICK n \in Nat : \E m : Streams(chain, buf, tlo, thi, len, w, n, m)
    BY <1>5 DEF InStream
  <2>2. Fed(chain', buf', tlo', thi', len, w, data, data')
    BY <1>2, <2>1, Turned
  <2> QED BY <2>2 DEF Fed, InStream
<1>8. PICK v : v = w \bullet x
  OBVIOUS
<1>9. Text(v) /\ w \bullet data = v \bullet data'
  <2>1. v \bullet data' = w \bullet (x \bullet data')
    BY <1>6, <1>7, <1>8, Associates
  <2> QED BY <1>6, <1>7, <1>8, <2>1, ChainedText
<1>10. ASSUME NEW a PROVE Unread(digests, data, a) = data
  BY <1>1 DEF Unread
<1>11. Owing(todo', digests, data', v, whole, r)
  <2>1. ASSUME NEW a, Text(a), todo = Then(Hash!Feed(a), Then(Hash!Finish, r)),
               w \bullet Unread(digests, data, a) = whole
        PROVE  Owing(todo', digests, data', v, whole, r)
    <3>1. v \bullet data' = whole
      BY <1>9, <1>10, <2>1
    <3>2. CASE data' = <<>>
      <4>1. Text(Then(Hash!Finish, r))
        BY <1>4, ThenText
      <4>2. todo' = Then(Hash!Finish, r)
        BY <1>1, <2>1, <3>2, <4>1, Top
      <4>3. v = whole
        BY <1>9, <3>1, <3>2, Nothings
      <4> QED BY <3>2, <4>2, <4>3 DEF Owing
    <3>3. CASE data' # <<>>
      <4>1. todo' = Then(Hash!Feed(a), Then(Hash!Finish, r)) /\ Unread(digests, data', a) = data'
        BY <1>1, <2>1, <3>3 DEF Unread
      <4> QED BY <2>1, <3>1, <4>1 DEF Owing
    <3> QED BY <3>2, <3>3
  <2>2. ASSUME NEW a, NEW b, Text(a), Text(b),
               todo = Then(Hash!Feed(a), Then(Hash!Feed(b), Then(Hash!Finish, r))),
               (w \bullet Unread(digests, data, a)) \bullet Read(digests, b) = whole
        PROVE  Owing(todo', digests, data', v, whole, r)
    <3>1. (v \bullet data') \bullet Read(digests, b) = whole
      BY <1>9, <1>10, <2>2
    <3>2. CASE data' = <<>>
      <4>1. Text(Then(Hash!Feed(b), Then(Hash!Finish, r)))
        BY <1>4, ThenText
      <4>2. todo' = Then(Hash!Feed(b), Then(Hash!Finish, r))
        BY <1>1, <2>2, <3>2, <4>1, Top
      <4>3. v \bullet Unread(digests, data', b) = whole
        BY <1>9, <3>1, <3>2, Nothings DEF Unread
      <4> QED BY <2>2, <4>2, <4>3 DEF Owing
    <3>3. CASE data' # <<>>
      <4>1. /\ todo' = Then(Hash!Feed(a), Then(Hash!Feed(b), Then(Hash!Finish, r)))
            /\ Unread(digests, data', a) = data'
        BY <1>1, <2>2, <3>3 DEF Unread
      <4> QED BY <2>2, <3>1, <4>1 DEF Owing
    <3> QED BY <3>2, <3>3
  <2> QED BY <1>1, <1>5, <2>1, <2>2 DEF Owing
<1>12. WithinHash'
  BY <1>1, <1>2, <1>3, <1>5, <1>7, <1>8, <1>11 DEF WithinHash
<1> QED BY <1>1, <1>2, <1>4, <1>7, <1>12 DEF Hashing

LEMMA HashFinished ==
  ASSUME Hashing, Hash!Finalize
  PROVE  Hashing'
<1>1. PICK e : e = Hash!DigestOf(chain')
  OBVIOUS
<1>2. /\ todo # <<>> /\ Head(todo).do = "finalize" /\ todo' = Tail(todo)
      /\ CountsOn(tlo, thi, Len(buf), tlo', thi') /\ chain' = Pushed(chain, Last(buf, tlo', thi'))
      /\ digests' = Pushed(digests, e) /\ data' = data /\ asked' = asked
  BY <1>1 DEF Hash!Finalize, Hash!Doing, Hash!IncrementCounter, Hash!Compress, CountsOn, Pushed, Last
<1>3. Text(data) /\ asked \in Hash!Functions /\ Right(asked, digests) /\ WithinHash
  <2>1. Head(todo).do # "new"
    BY <1>2
  <2> QED BY <1>2, <2>1, NotBetween DEF Hashing
<1>4. PICK n, r : n = Len(digests) /\ r = Rest(asked, n + 1)
  OBVIOUS
<1>5. Text(digests) /\ n \in Nat /\ n + 1 \in Nat /\ Text(r)
  <2>1. Text(digests)
    BY <1>3 DEF Right
  <2>2. n \in Nat /\ n + 1 \in Nat
    BY <1>4, <2>1, TextLen
  <2> QED BY <1>3, <1>4, <2>1, <2>2, RestText
<1>6. PICK len, whole, w : /\ Expected(asked, n + 1) = Computed(len, whole)
                           /\ Owing(todo, digests, data, w, whole, r)
                           /\ InStream(chain, buf, tlo, thi, len, w)
  BY <1>3, <1>4 DEF WithinHash
<1>7. todo = Then(Hash!Finish, r) /\ data = <<>> /\ w = whole
  <2>1. ASSUME NEW a, NEW b PROVE /\ Head(Then(Hash!Feed(a), Then(Hash!Finish, r))) = Hash!Feed(a)
                                  /\ Head(Then(Hash!Feed(a), Then(Hash!Feed(b), Then(Hash!Finish, r)))) = Hash!Feed(a)
    BY <1>5, Top
  <2> QED BY <1>2, <1>6, <2>1, CallKinds DEF Owing
<1>8. todo' = r
  BY <1>2, <1>5, <1>7, Top
<1>9. e = Expected(asked, n + 1)
  <2>1. PICK j \in Nat : \E m : Streams(chain, buf, tlo, thi, len, w, j, m)
    BY <1>6 DEF InStream
  <2>2. PICK m : Streams(chain, buf, tlo, thi, len, w, j, m)
    BY <2>1
  <2>3. Hash!DigestOf(Pushed(chain, Last(buf, tlo', thi'))) = Computed(len, w)
    BY <1>2, <2>1, <2>2, Finalized
  <2> QED BY <1>1, <1>2, <1>6, <1>7, <2>3
<1>10. Text(digests') /\ Len(digests') = n + 1 /\ digests'[n + 1] = e /\ \A i \in 1 .. n : digests'[i] = digests[i]
  <2>1. PICK ds : ds = digests'
    OBVIOUS
  <2>2. CASE n = 0
    <3>1. digests = <<>>
      BY <1>4, <1>5, <2>2, TextLen
    <3>2. ds = <<e>>
      BY <1>2, <2>1, <3>1 DEF Pushed
    <3>3. Text(ds) /\ Len(ds) = 1 /\ ds[1] = e
      BY <3>2, OneText
    <3> QED BY <2>1, <2>2, <3>3
  <2>3. CASE n > 0
    <3>1. PICK j \in Nat : n = j + 1
      <4>1. n - 1 \in Nat /\ n = (n - 1) + 1
        BY <1>5, <2>3
      <4> QED BY <4>1
    <3>2. Grew(ds, digests, e, j)
      BY <1>2, <1>4, <1>5, <2>1, <3>1, Longer
    <3>3. j + 2 = n + 1
      BY <3>1
    <3> QED BY <2>1, <3>1, <3>2, <3>3 DEF Grew
  <2> QED BY <1>5, <2>2, <2>3
<1>11. Right(asked, digests')
  <2>1. n < Hashes(asked)
    BY <1>3, <1>4 DEF WithinHash
  <2>2. n + 1 <= Hashes(asked)
    BY <1>3, <1>5, <2>1, HashesAre
  <2>3. \A i \in 1 .. n : digests[i] = Expected(asked, i)
    BY <1>3, <1>4 DEF Right
  <2>4. \A i \in 1 .. n + 1 : digests'[i] = Expected(asked, i)
    <3>1. ASSUME NEW i \in 1 .. n + 1, i # n + 1 PROVE i \in 1 .. n
      BY <1>5, <3>1
    <3> QED BY <1>9, <1>10, <2>3, <3>1
  <2> QED BY <1>10, <2>2, <2>4 DEF Right
<1>12. BetweenHashes'
  BY <1>2, <1>4, <1>7, <1>8, <1>10 DEF BetweenHashes
<1> QED BY <1>2, <1>3, <1>10, <1>11, <1>12 DEF Hashing

\* What has been computed when nothing is left to call.
LEMMA JobDone == Hashing => DigestsMatch
<1> SUFFICES ASSUME Hashing, todo = <<>>, asked # Hash!NoOne PROVE DigestsMatch
  BY DEF DigestsMatch, Hash!DigestsMatch
<1>1. asked \in Hash!Functions /\ Right(asked, digests) /\ (BetweenHashes \/ WithinHash)
  BY DEF Hashing
<1>2. PICK f, n : f = asked /\ n = Len(digests)
  OBVIOUS
<1>3. Text(digests) /\ n \in Nat /\ n + 1 \in Nat /\ \A i \in 1 .. n : digests[i] = Expected(f, i)
  <2>1. Text(digests) /\ \A i \in 1 .. n : digests[i] = Expected(f, i)
    BY <1>1, <1>2 DEF Right
  <2>2. n \in Nat /\ n + 1 \in Nat
    BY <1>2, <2>1, TextLen
  <2> QED BY <2>1, <2>2
<1>4. ~WithinHash
  <2>1. PICK r : r = Rest(f, n + 1)
    OBVIOUS
  <2>2. Text(r)
    BY <1>1, <1>2, <1>3, <2>1, RestText
  <2>3. ASSUME NEW a, NEW b PROVE /\ Then(Hash!Finish, r) # <<>>
                                  /\ Then(Hash!Feed(a), Then(Hash!Finish, r)) # <<>>
                                  /\ Then(Hash!Feed(a), Then(Hash!Feed(b), Then(Hash!Finish, r))) # <<>>
    BY <2>2, Top
  <2>4. \A w, whole : ~Owing(todo, digests, data, w, whole, r)
    BY <2>3 DEF Owing
  <2> QED BY <1>2, <2>1, <2>4 DEF WithinHash
<1>5. n = Hashes(f)
  <2>1. Rest(f, n) = <<>>
    BY <1>1, <1>2, <1>4 DEF BetweenHashes
  <2>2. ~(n < Hashes(f))
    BY <1>1, <1>2, <2>1, RestOpens
  <2>3. n <= Hashes(f) /\ Hashes(f) \in Nat
    BY <1>1, <1>2, HashesAre DEF Right
  <2> QED BY <1>3, <2>2, <2>3
<1>6. CASE f.name \in {"hash", "keyed"}
  <2>1. n = 1
    BY <1>5, <1>6 DEF Hashes
  <2>2. digests[1] = Expected(f, 1)
    BY <1>3, <2>1
  <2>3. f.name = "hash" => digests[1] = Hash!Hashed(<<>>, Hash!Message(f.len))
    BY <2>2 DEF Expected, Msg
  <2>4. f.name = "keyed" => digests[1] = Hash!Hashed(Hash!KeyBytes(f.key), Hash!Message(f.len))
    BY <2>2 DEF Expected, Msg, KeyOf
  <2> QED BY <1>2, <1>6, <2>3, <2>4 DEF DigestsMatch, Hash!DigestsMatch
<1>7. CASE f.name = "hmac"
  <2>1. n \in {2, 3} /\ (n = 2 => f.key <= Block) /\ (n = 3 => ~(f.key <= Block))
    BY <1>5, <1>7 DEF Hashes
  <2>2. digests[n] = Expected(f, n)
    <3>1. n \in 1 .. n
      BY <2>1
    <3> QED BY <1>3, <3>1
  <2>3. Expected(f, n) = Hash!HmacOf(KeyOf(f), Msg(f))
    BY <1>7, <2>1 DEF Expected
  <2>4. digests[Len(digests)] = Hash!HmacOf(Hash!KeyBytes(f.key), Hash!Message(f.len))
    BY <1>2, <2>2, <2>3 DEF KeyOf, Msg
  <2> QED BY <1>2, <1>7, <2>4 DEF DigestsMatch, Hash!DigestsMatch
<1>8. CASE f.name = "hkdf"
  <2>1. PICK outputs \in 1 .. 3 : outputs = f.key
    <3>1. f.key \in 1 .. 3
      BY <1>1, <1>2, <1>8, FunctionIs
    <3> QED BY <3>1
  <2>2. n = 2 + 2 * outputs
    BY <1>5, <1>8, <2>1 DEF Hashes
  <2>3. ASSUME NEW i \in 1 .. outputs PROVE digests[2 + 2 * i] = Output(f, i)
    <3>1. 2 + 2 * i \in 1 .. n
      BY <2>1, <2>2
    <3>2. digests[2 + 2 * i] = HkdfExpected(f, 2 + 2 * i)
      BY <1>3, <1>8, <3>1 DEF Expected
    <3>3. i \in {1, 2, 3}
      BY <2>1
    <3>4. HkdfExpected(f, 4) = Output(f, 1) /\ HkdfExpected(f, 6) = Output(f, 2) /\ HkdfExpected(f, 8) = Output(f, 3)
      BY DEF HkdfExpected
    <3>5. CASE i = 1
      <4>1. 2 + 2 * i = 4
        BY <3>5
      <4> QED BY <3>2, <3>4, <3>5, <4>1
    <3>6. CASE i = 2
      <4>1. 2 + 2 * i = 6
        BY <3>6
      <4> QED BY <3>2, <3>4, <3>6, <4>1
    <3>7. CASE i = 3
      <4>1. 2 + 2 * i = 8
        BY <3>7
      <4> QED BY <3>2, <3>4, <3>7, <4>1
    <3> QED BY <3>3, <3>5, <3>6, <3>7
  <2>4. \A i \in 1 .. f.key : digests[2 + 2 * i] = Hash!HkdfOf(Hash!KeyBytes(1), Hash!Message(f.len))[i]
    BY <2>1, <2>3 DEF Output, Chaining, Msg
  <2> QED BY <1>2, <1>8, <2>4 DEF DigestsMatch, Hash!DigestsMatch
<1> QED BY <1>1, <1>2, <1>6, <1>7, <1>8, FunctionIs

LEMMA HashingStays == Hashing /\ [Hash!Next]_hash => Hashing'
<1> SUFFICES ASSUME Hashing, [Hash!Next]_hash PROVE Hashing'
  OBVIOUS
<1>1. ASSUME NEW f \in Hash!Functions, Hash!Call(f) PROVE Hashing'
  BY <1>1, JobCalled
<1>2. CASE Hash!StateNew
  BY <1>2, HashStarted
<1>3. CASE Hash!StartUpdate
  BY <1>3, UpdateStarted
<1>4. CASE Hash!UpdateLoop
  BY <1>4, UpdateTurned
<1>5. CASE Hash!Finalize
  BY <1>5, HashFinished
<1>6. CASE UNCHANGED hash
  <2>1. /\ todo' = todo /\ chain' = chain /\ tlo' = tlo /\ thi' = thi /\ buf' = buf /\ data' = data
        /\ digests' = digests /\ asked' = asked
    BY <1>6 DEF hash
  <2> QED BY <2>1 DEF Hashing, BetweenHashes, WithinHash
<1> QED BY <1>1, <1>2, <1>3, <1>4, <1>5, <1>6 DEF Hash!Next

\* Whatever the lengths of block, word, key and message, and in whatever pieces
\* the bytes come: hash, keyed hash, HMAC and HKDF, streamed through the buffer
\* of `State`, give what RFC 7693, RFC 2104 and the Noise specification define.
THEOREM StreamsDigest == CryptoSpec => []DigestsMatch
<1>1. CryptoInit => Hashing
  <2>1. CryptoInit => todo = <<>> /\ data = <<>> /\ digests = <<>> /\ asked = Hash!NoOne
    BY DEF CryptoInit, Hash!Init
  <2> QED BY <2>1, EmptyText DEF Hashing
<1>2. Hashing /\ [CryptoNext]_all => Hashing'
  <2>1. [CryptoNext]_all => [Hash!Next]_hash
    BY DEF CryptoNext, all
  <2> QED BY <2>1, HashingStays
<1> QED BY <1>1, <1>2, JobDone, PTL DEF CryptoSpec

-----------------------------------------------------------------------------
(***************************************************************************)
(* Congruence: numbers that differ by a multiple of the modulus.           *)
(***************************************************************************)
Cong(a, b, m) == a \in Int /\ b \in Int /\ \E q \in Int : a = b + m * q

\* Congruence is an equivalence ...
LEMMA CongRefl == ASSUME NEW m \in Int, NEW a \in Int PROVE Cong(a, a, m)
<1>1. a = a + m * 0
  OBVIOUS
<1> QED BY <1>1 DEF Cong

LEMMA CongSym == ASSUME NEW m \in Int, NEW a, NEW b, Cong(a, b, m) PROVE Cong(b, a, m)
<1>1. PICK q \in Int : a = b + m * q
  BY DEF Cong
<1>2. PICK j \in Int : j = -q
  BY <1>1
<1>3. m * j = -(m * q)
  BY <1>1, <1>2
<1>4. a \in Int /\ b \in Int
  BY DEF Cong
<1>5. b = a + m * j
  BY <1>1, <1>3, <1>4
<1> QED BY <1>2, <1>4, <1>5 DEF Cong

LEMMA CongTrans ==
  ASSUME NEW m \in Int, NEW a, NEW b, NEW c, Cong(a, b, m), Cong(b, c, m) PROVE Cong(a, c, m)
<1>1. PICK q \in Int : a = b + m * q
  BY DEF Cong
<1>2. PICK j \in Int : b = c + m * j
  BY DEF Cong
<1>3. a \in Int /\ b \in Int /\ c \in Int
  BY DEF Cong
<1>4. PICK i \in Int : i = q + j
  BY <1>1, <1>2
<1>5. m * i = m * q + m * j
  BY <1>1, <1>2, <1>4
<1>6. a = c + m * i
  <2>1. PICK x \in Int, y \in Int, z \in Int : x = m * q /\ y = m * j /\ z = m * i
    BY <1>1, <1>2, <1>4
  <2>2. a = b + x /\ b = c + y /\ z = x + y
    BY <1>1, <1>2, <1>5, <2>1
  <2> QED BY <1>3, <2>1, <2>2
<1> QED BY <1>3, <1>4, <1>6 DEF Cong

\* ... kept by sums and products ...
LEMMA CongAdd ==
  ASSUME NEW m \in Int, NEW a, NEW b, NEW c, NEW d, Cong(a, b, m), Cong(c, d, m)
  PROVE  Cong(a + c, b + d, m) /\ Cong(a - c, b - d, m)
<1>1. PICK q \in Int : a = b + m * q
  BY DEF Cong
<1>2. PICK j \in Int : c = d + m * j
  BY DEF Cong
<1>3. a \in Int /\ b \in Int /\ c \in Int /\ d \in Int
  BY DEF Cong
<1>4. PICK i \in Int : i = q + j
  BY <1>1, <1>2
<1>5. m * i = m * q + m * j
  BY <1>1, <1>2, <1>4
<1>6. a + c = (b + d) + m * i
  BY <1>1, <1>2, <1>3, <1>5
<1>7. PICK n \in Int : n = q - j
  BY <1>1, <1>2
<1>8. m * n = m * q - m * j
  BY <1>1, <1>2, <1>7
<1>9. a - c = (b - d) + m * n
  BY <1>1, <1>2, <1>3, <1>8
<1>10. Cong(a + c, b + d, m)
  <2>1. PICK x \in Int, y \in Int : x = a + c /\ y = b + d
    BY <1>3
  <2>2. x = y + m * i
    BY <1>6, <2>1
  <2>3. Cong(x, y, m)
    BY <1>4, <2>1, <2>2 DEF Cong
  <2> QED BY <2>1, <2>3
<1>11. Cong(a - c, b - d, m)
  <2>1. PICK x \in Int, y \in Int : x = a - c /\ y = b - d
    BY <1>3
  <2>2. x = y + m * n
    BY <1>9, <2>1
  <2>3. Cong(x, y, m)
    BY <1>7, <2>1, <2>2 DEF Cong
  <2> QED BY <2>1, <2>3
<1> QED BY <1>10, <1>11

LEMMA CongMul ==
  ASSUME NEW m \in Int, NEW a, NEW b, NEW c, NEW d, Cong(a, b, m), Cong(c, d, m)
  PROVE  Cong(a * c, b * d, m)
<1>1. PICK q \in Int : a = b + m * q
  BY DEF Cong
<1>2. PICK j \in Int : c = d + m * j
  BY DEF Cong
<1>3. a \in Int /\ b \in Int /\ c \in Int /\ d \in Int
  BY DEF Cong
<1>4. PICK i \in Int : i = b * j + q * d + q * (m * j)
  BY <1>1, <1>2, <1>3
<1>5. m * i = m * (b * j) + m * (q * d) + m * (q * (m * j))
  BY <1>1, <1>2, <1>3, <1>4
<1>6. a * c = b * d + m * i
  BY <1>1, <1>2, <1>3, <1>5
<1>7. PICK x \in Int, y \in Int : x = a * c /\ y = b * d
  BY <1>3
<1>8. x = y + m * i
  BY <1>6, <1>7
<1>9. Cong(x, y, m)
  BY <1>4, <1>7, <1>8 DEF Cong
<1> QED BY <1>7, <1>9

\* ... and what a remainder tells.
LEMMA CongRest ==
  ASSUME NEW m \in Nat \ {0}, NEW a \in Int
  PROVE  Cong(a % m, a, m) /\ Cong(a, a % m, m) /\ a % m \in 0 .. m - 1
<1>1. PICK q \in Int, r \in 0 .. m - 1 : a = m * q + r /\ a \div m = q /\ a % m = r
  BY Euclid
<1>2. a = (a % m) + m * q /\ a % m \in Int
  BY <1>1
<1>3. Cong(a, a % m, m)
  BY <1>1, <1>2 DEF Cong
<1> QED BY <1>1, <1>3, CongSym

LEMMA CongSame ==
  ASSUME NEW m \in Nat \ {0}, NEW a, NEW b, Cong(a, b, m) PROVE a % m = b % m
<1>1. PICK q \in Int : a = b + m * q
  BY DEF Cong
<1> QED BY <1>1, ModShift DEF Cong


-----------------------------------------------------------------------------
(***************************************************************************)
(* The field of X25519.  Sums and differences are wide, products trim; a   *)
(* product of wide elements does not leave more than one limb behind, and  *)
(* every operation computes the field's, modulo the prime.                 *)
(***************************************************************************)
FieldSizes(b, f) ==
  /\ b = Curve!Base /\ b \in Nat \ {0} /\ f = FieldFold /\ f \in Nat \ {0}
  /\ 32 * f <= b /\ A24 \in 0 .. b /\ Curve!P = b * b - f

LimbPair(v, m, n) == v[1] \in 0 .. m /\ v[2] \in 0 .. n

\* What a product leaves, and what a sum or a difference of two such makes.
Trim(v) == LimbPair(v, Curve!Base - 1, 2 * Curve!Base - 2)
Wide(v) == LimbPair(v, 3 * Curve!Base, 4 * Curve!Base)

\* Names for the sizes, as the assumptions give them.
LEMMA FieldSized == \E b, f : FieldSizes(b, f)
BY LimbAssumption DEF FieldSizes, Curve!P

LEMMA FieldPrime == Curve!P \in Nat \ {0}
<1>1. PICK b, f : FieldSizes(b, f)
  BY FieldSized
<1>2. ASSUME NEW i \in Nat \ {0}, NEW j \in Nat \ {0}, 32 * j <= i PROVE i * i - j \in Nat \ {0}
  <2>1. PICK n \in Nat : n = i * i
    BY <1>2
  <2>2. n >= i
    BY <2>1, <1>2
  <2> QED BY <1>2, <2>1, <2>2
<1> QED BY <1>1, <1>2 DEF FieldSizes

LEMMA TrimWide == ASSUME NEW v, Trim(v) PROVE Wide(v)
<1>1. PICK b, f : FieldSizes(b, f)
  BY FieldSized
<1> QED BY <1>1 DEF Trim, Wide, LimbPair, FieldSizes

\* The value of wide limbs is a number.
LEMMA FieldValue == ASSUME NEW v, Wide(v) PROVE Curve!Value(v) \in Nat
<1>1. PICK b, f : FieldSizes(b, f)
  BY FieldSized
<1>2. PICK i \in Nat, j \in Nat : i = v[1] /\ j = v[2]
  BY <1>1 DEF Wide, LimbPair, FieldSizes
<1>3. PICK n \in Nat : n = b * j
  BY <1>1, <1>2 DEF FieldSizes
<1> QED BY <1>1, <1>2, <1>3 DEF Curve!Value, FieldSizes

\* A sum of trim limbs is wide, and the sum.
LEMMA SumField ==
  ASSUME NEW v, NEW w, Trim(v), Trim(w)
  PROVE  /\ Wide(Curve!FAdd(v, w))
         /\ Curve!Value(Curve!FAdd(v, w)) = Curve!Value(v) + Curve!Value(w)
<1>1. PICK b, f : FieldSizes(b, f)
  BY FieldSized
<1>2. PICK i \in Nat, j \in Nat, m \in Nat, n \in Nat :
        /\ i = v[1] /\ j = v[2] /\ m = w[1] /\ n = w[2]
        /\ i <= b - 1 /\ m <= b - 1 /\ j <= 2 * b - 2 /\ n <= 2 * b - 2
  BY <1>1 DEF Trim, LimbPair, FieldSizes
<1>3. Curve!FAdd(v, w) = <<i + m, j + n>>
  BY <1>2 DEF Curve!FAdd
<1>4. PICK g \in Nat, o \in Nat : g = i + m /\ o = j + n
  BY <1>2
<1>5. PICK r : r = <<g, o>> /\ r[1] = g /\ r[2] = o
  <2> <<g, o>>[1] = g /\ <<g, o>>[2] = o
    OBVIOUS
  <2> QED OBVIOUS
<1>6. Wide(r)
  BY <1>1, <1>2, <1>4, <1>5 DEF Wide, LimbPair, FieldSizes
<1>7. b * o = b * j + b * n
  BY <1>1, <1>2, <1>4 DEF FieldSizes
<1>8. Curve!Value(r) = (i + b * j) + (m + b * n)
  <2>1. PICK x \in Int, y \in Int, z \in Int : x = b * o /\ y = b * j /\ z = b * n
    BY <1>1, <1>2, <1>4 DEF FieldSizes
  <2>2. Curve!Value(r) = g + x
    BY <1>1, <1>5, <2>1 DEF Curve!Value, FieldSizes
  <2> QED BY <1>2, <1>4, <1>7, <2>1, <2>2
<1>9. Curve!Value(v) = i + b * j /\ Curve!Value(w) = m + b * n
  BY <1>1, <1>2 DEF Curve!Value, FieldSizes
<1>10. Curve!FAdd(v, w) = r
  BY <1>3, <1>4, <1>5
<1> QED BY <1>6, <1>8, <1>9, <1>10

\* So is a difference: 2p is added first, and nothing is borrowed.
LEMMA DifferenceField ==
  ASSUME NEW v, NEW w, Trim(v), Trim(w)
  PROVE  /\ Wide(Curve!FSub(v, w))
         /\ Curve!Value(Curve!FSub(v, w)) = Curve!Value(v) - Curve!Value(w) + 2 * Curve!P
<1>1. PICK b, f : FieldSizes(b, f)
  BY FieldSized
<1>2. PICK i \in Nat, j \in Nat, m \in Nat, n \in Nat :
        /\ i = v[1] /\ j = v[2] /\ m = w[1] /\ n = w[2]
        /\ i <= b - 1 /\ m <= b - 1 /\ j <= 2 * b - 2 /\ n <= 2 * b - 2
  BY <1>1 DEF Trim, LimbPair, FieldSizes
<1>3. PICK g \in Nat, o \in Nat : g = i + 2 * b - 2 * f - m /\ o = j + 2 * b - 2 - n
  BY <1>1, <1>2 DEF FieldSizes
<1>4. Curve!FSub(v, w) = <<g, o>>
  BY <1>1, <1>2, <1>3 DEF Curve!FSub, FieldSizes
<1>5. PICK r : r = <<g, o>> /\ r[1] = g /\ r[2] = o
  <2> <<g, o>>[1] = g /\ <<g, o>>[2] = o
    OBVIOUS
  <2> QED OBVIOUS
<1>6. Wide(r)
  BY <1>1, <1>2, <1>3, <1>5 DEF Wide, LimbPair, FieldSizes
<1>7. b * o = b * j - b * n + 2 * (b * b) - 2 * b
  <2>1. b \in Int
    BY <1>1 DEF FieldSizes
  <2> QED BY <2>1, <1>2, <1>3
<1>8. Curve!Value(r) = (i + b * j) - (m + b * n) + 2 * (b * b - f)
  <2>1. PICK x \in Int, y \in Int, z \in Int, u \in Int : x = b * o /\ y = b * j /\ z = b * n /\ u = b * b
    BY <1>1, <1>2, <1>3 DEF FieldSizes
  <2>2. Curve!Value(r) = g + x
    BY <1>1, <1>5, <2>1 DEF Curve!Value, FieldSizes
  <2>3. x = y - z + 2 * u - 2 * b
    BY <1>7, <2>1
  <2>4. b \in Int /\ f \in Int
    BY <1>1 DEF FieldSizes
  <2>5. g + x = (i + y) - (m + z) + 2 * (u - f)
    BY <1>2, <1>3, <2>1, <2>3, <2>4
  <2> QED BY <2>1, <2>2, <2>5
<1>9. Curve!Value(v) = i + b * j /\ Curve!Value(w) = m + b * n /\ Curve!P = b * b - f
  BY <1>1, <1>2 DEF Curve!Value, FieldSizes
<1>10. Curve!FSub(v, w) = r
  BY <1>4, <1>5
<1> QED BY <1>6, <1>8, <1>9, <1>10

\* A quotient is no larger than what it may be.
LEMMA QuotientAtMost ==
  ASSUME NEW b \in Nat \ {0}, NEW q \in Int, NEW r \in Nat, NEW n \in Int, b * q + r <= b * n + b - 1
  PROVE  q <= n
<1>1. ASSUME n + 1 <= q PROVE FALSE
  <2>1. b * (n + 1) <= b * q
    BY <1>1
  <2>2. b * (n + 1) = b * n + b
    OBVIOUS
  <2>3. PICK x \in Int, y \in Int : x = b * n /\ y = b * q
    OBVIOUS
  <2> QED BY <2>1, <2>2, <2>3
<1> QED BY <1>1

\* A quotient is at least 0.
LEMMA QuotientNat ==
  ASSUME NEW b \in Nat \ {0}, NEW q \in Int, NEW r \in 0 .. b - 1, b * q + r >= 0
  PROVE  q \in Nat
<1>1. ASSUME q <= -1 PROVE FALSE
  <2>1. b * q <= b * (-1)
    BY <1>1
  <2>2. PICK x \in Int : x = b * q
    OBVIOUS
  <2> QED BY <2>1, <2>2
<1> QED BY <1>1

\* A product within the product of the bounds.
LEMMA ProductWithin ==
  ASSUME NEW m \in Nat, NEW n \in Nat, NEW x \in 0 .. m, NEW y \in 0 .. n
  PROVE  x * y \in Nat /\ x * y <= m * n
<1>1. x * y <= m * y
  OBVIOUS
<1>2. m * y <= m * n
  OBVIOUS
<1>3. PICK g \in Nat, o \in Nat, p \in Nat : g = x * y /\ o = m * y /\ p = m * n
  OBVIOUS
<1> QED BY <1>1, <1>2, <1>3

\* One carry through the limbs and round: the value modulo the prime stays, and
\* the limbs are trim, for anything two wide elements multiply to.
LEMMA CarryReduced ==
  ASSUME NEW b, NEW f, FieldSizes(b, f), NEW r0 \in Nat, NEW r1 \in Nat,
         r0 <= (9 + 16 * f) * (b * b), r1 <= 24 * (b * b)
  PROVE  /\ Trim(Curve!CarryReduce(r0, r1))
         /\ Cong(Curve!Value(Curve!CarryReduce(r0, r1)), r0 + b * r1, Curve!P)
<1>1. /\ b \in Nat \ {0} /\ f \in Nat \ {0} /\ 32 * f <= b /\ b = Curve!Base /\ f = FieldFold
      /\ Curve!P = b * b - f
  BY DEF FieldSizes
<1>2. PICK q0 \in Int, l0 \in 0 .. b - 1 : r0 = b * q0 + l0 /\ r0 \div b = q0 /\ r0 % b = l0
  BY <1>1, Euclid
<1>3. q0 \in Nat
  BY <1>1, <1>2, QuotientNat
<1>4. PICK s1 \in Nat : s1 = r1 + q0
  BY <1>3
<1>5. PICK q1 \in Int, l1 \in 0 .. b - 1 : s1 = b * q1 + l1 /\ s1 \div b = q1 /\ s1 % b = l1
  BY <1>1, Euclid
<1>6. q1 \in Nat
  BY <1>1, <1>5, QuotientNat
<1>7. PICK s0 \in Nat : s0 = l0 + f * q1
  <2>1. PICK x \in Nat : x = f * q1
    BY <1>1, <1>6
  <2> QED BY <1>1, <1>2, <2>1
<1>8. PICK q2 \in Int, l2 \in 0 .. b - 1 : s0 = b * q2 + l2 /\ s0 \div b = q2 /\ s0 % b = l2
  BY <1>1, Euclid
<1>9. q2 \in Nat
  BY <1>1, <1>8, QuotientNat
<1>10. PICK o \in Nat : o = l1 + q2
  BY <1>1, <1>5, <1>9
<1>11. Curve!CarryReduce(r0, r1) = <<l2, o>>
  BY <1>1, <1>2, <1>4, <1>5, <1>7, <1>8, <1>10 DEF Curve!CarryReduce, Curve!Low, Curve!Carry
<1>12. PICK r : r = <<l2, o>> /\ r[1] = l2 /\ r[2] = o
  <2> <<l2, o>>[1] = l2 /\ <<l2, o>>[2] = o
    OBVIOUS
  <2> QED OBVIOUS
<1>13. q0 <= (9 + 16 * f) * b
  <2>1. PICK n \in Int : n = (9 + 16 * f) * b
    BY <1>1
  <2>2. b * n = (9 + 16 * f) * (b * b)
    BY <1>1, <2>1
  <2>3. b * q0 + l0 <= b * n + b - 1
    <3>1. PICK x \in Int, y \in Int : x = b * q0 /\ y = b * n
      BY <1>1, <1>2, <2>1
    <3> QED BY <1>1, <1>2, <2>2, <3>1
  <2>4. l0 \in Nat
    BY <1>1, <1>2
  <2>5. q0 <= n
    BY <1>1, <1>2, <2>1, <2>3, <2>4, QuotientAtMost
  <2> QED BY <2>1, <2>5
<1>14. q1 <= 25 * b
  <2>1. PICK n \in Int : n = 24 * b + 9 + 16 * f
    BY <1>1
  <2>2. b * n = 24 * (b * b) + (9 + 16 * f) * b
    BY <1>1, <2>1
  <2>3. b * q1 + l1 <= b * n + b - 1
    <3>1. PICK x \in Int, y \in Int, u \in Int, w \in Int :
            x = b * q1 /\ y = b * n /\ u = b * b /\ w = (9 + 16 * f) * b
      BY <1>1, <1>5, <2>1
    <3> QED BY <1>1, <1>3, <1>4, <1>5, <1>13, <2>2, <3>1
  <2>4. l1 \in Nat
    BY <1>1, <1>5
  <2>5. q1 <= n
    BY <1>1, <1>5, <2>1, <2>3, <2>4, QuotientAtMost
  <2> QED BY <1>1, <1>6, <2>1, <2>5
<1>15. q2 <= 25 * f
  <2>1. PICK n \in Int : n = 25 * f
    BY <1>1
  <2>2. f * q1 <= b * n
    <3>1. f * q1 <= f * (25 * b)
      BY <1>1, <1>6, <1>14
    <3>2. f * (25 * b) = b * n
      BY <1>1, <2>1
    <3> QED BY <3>1, <3>2
  <2>3. b * q2 + l2 <= b * n + b - 1
    <3>1. PICK x \in Int, y \in Int, u \in Int : x = b * q2 /\ y = b * n /\ u = f * q1
      BY <1>1, <1>6, <1>8, <2>1
    <3> QED BY <1>1, <1>2, <1>7, <1>8, <2>2, <3>1
  <2>4. l2 \in Nat
    BY <1>1, <1>8
  <2>5. q2 <= n
    BY <1>1, <1>8, <2>1, <2>3, <2>4, QuotientAtMost
  <2> QED BY <2>1, <2>5
<1>16. Trim(r)
  <2>1. o <= 2 * b - 2
    BY <1>1, <1>5, <1>9, <1>10, <1>15
  <2> QED BY <1>1, <1>8, <1>10, <1>12, <2>1 DEF Trim, LimbPair
<1>17. Curve!Value(r) = l2 + b * o
  BY <1>1, <1>12 DEF Curve!Value
<1>18. r0 + b * r1 = (l2 + b * o) + (b * b - f) * q1
  <2>1. PICK y \in Int, z \in Int, w \in Int, v \in Int, c \in Int :
          y = b * q0 /\ z = b * l1 /\ w = b * q2 /\ v = f * q1 /\ c = b * (b * q1)
    BY <1>1, <1>2, <1>5, <1>6, <1>8
  <2>2. b * o = z + w
    BY <1>1, <1>5, <1>8, <1>10, <2>1
  <2>3. (b * b - f) * q1 = c - v
    BY <1>1, <1>6, <2>1
  <2>4. b * s1 = c + z
    BY <1>1, <1>5, <1>6, <2>1
  <2>5. b * s1 = b * r1 + y
    BY <1>1, <1>2, <1>4, <2>1
  <2>6. PICK x \in Int, d \in Int, e \in Int, g \in Int :
          x = b * r1 /\ d = b * s1 /\ e = b * o /\ g = (b * b - f) * q1
    BY <1>1, <1>4, <1>10, <1>6
  <2>7. r0 = y + l0 /\ s0 = w + l2 /\ s0 = l0 + v
    BY <1>2, <1>7, <1>8, <2>1
  <2> QED BY <1>1, <1>2, <1>5, <1>8, <2>1, <2>2, <2>3, <2>4, <2>5, <2>6, <2>7
<1>19. Cong(Curve!Value(r), r0 + b * r1, Curve!P)
  <2>1. PICK x \in Int, y \in Int, m \in Int, n \in Int :
          x = l2 + b * o /\ y = r0 + b * r1 /\ m = b * b - f /\ n = -q1
    BY <1>1, <1>6, <1>8, <1>10
  <2>2. m * n = -(m * q1)
    BY <1>6, <2>1
  <2>3. x = y + m * n
    <3>1. PICK z \in Int : z = m * q1
      BY <1>6, <2>1
    <3> QED BY <1>18, <2>1, <2>2, <3>1
  <2>4. Cong(x, y, m)
    BY <2>1, <2>3 DEF Cong
  <2> QED BY <1>1, <1>17, <2>1, <2>4
<1> QED BY <1>11, <1>12, <1>16, <1>19

\* A product of the field: trim, and the product modulo the prime.
LEMMA ProductField ==
  ASSUME NEW v, NEW w, Wide(v), Wide(w)
  PROVE  /\ Trim(Curve!FMul(v, w))
         /\ Cong(Curve!Value(Curve!FMul(v, w)), Curve!Value(v) * Curve!Value(w), Curve!P)
<1>1. PICK b, f : FieldSizes(b, f)
  BY FieldSized
<1>2. /\ b \in Nat \ {0} /\ f \in Nat \ {0} /\ 32 * f <= b /\ b = Curve!Base /\ f = FieldFold
      /\ Curve!P = b * b - f
  BY <1>1 DEF FieldSizes
<1>3. PICK i \in 0 .. 3 * b, j \in 0 .. 4 * b, m \in 0 .. 3 * b, n \in 0 .. 4 * b :
        i = v[1] /\ j = v[2] /\ m = w[1] /\ n = w[2]
  BY <1>2 DEF Wide, LimbPair
<1>4. i \in Nat /\ j \in Nat /\ m \in Nat /\ n \in Nat /\ 3 * b \in Nat /\ 4 * b \in Nat
  BY <1>2, <1>3
<1>5. PICK im \in Nat, jn \in Nat, ij \in Nat, ji \in Nat :
        im = i * m /\ jn = j * n /\ ij = i * n /\ ji = j * m
  BY <1>4
<1>6. /\ im <= (3 * b) * (3 * b) /\ jn <= (4 * b) * (4 * b)
      /\ ij <= (3 * b) * (4 * b) /\ ji <= (4 * b) * (3 * b)
  BY <1>3, <1>4, <1>5, ProductWithin
<1>7. PICK bb \in Nat : bb = b * b
  BY <1>2
<1>8. im <= 9 * bb /\ jn <= 16 * bb /\ ij <= 12 * bb /\ ji <= 12 * bb
  <2>1. (3 * b) * (3 * b) = 9 * bb /\ (4 * b) * (4 * b) = 16 * bb
    BY <1>2, <1>7
  <2>2. (3 * b) * (4 * b) = 12 * bb /\ (4 * b) * (3 * b) = 12 * bb
    BY <1>2, <1>7
  <2> QED BY <1>6, <2>1, <2>2
<1>9. PICK r0 \in Nat, r1 \in Nat : r0 = im + f * jn /\ r1 = ij + ji
  BY <1>2, <1>5
<1>10. f * jn <= f * (16 * bb)
  BY <1>2, <1>5, <1>7, <1>8
<1>11. r0 <= (9 + 16 * f) * (b * b) /\ r1 <= 24 * (b * b)
  <2>1. (9 + 16 * f) * bb = 9 * bb + f * (16 * bb)
    BY <1>2, <1>7
  <2>2. PICK x \in Int, y \in Int, z \in Int : x = f * jn /\ y = f * (16 * bb) /\ z = (9 + 16 * f) * bb
    BY <1>2, <1>5, <1>7
  <2>3. r0 <= z
    BY <1>5, <1>7, <1>8, <1>9, <1>10, <2>1, <2>2
  <2>4. r1 <= 24 * bb
    BY <1>5, <1>7, <1>8, <1>9
  <2> QED BY <1>7, <2>2, <2>3, <2>4
<1>12. Curve!FMul(v, w) = Curve!CarryReduce(r0, r1)
  <2>1. v[1] * w[1] = im /\ v[1] * w[2] = ij /\ v[2] * w[1] = ji
    BY <1>3, <1>5
  <2>2. FieldFold * v[2] * w[2] = f * jn
    <3>1. FieldFold * v[2] * w[2] = f * j * n
      BY <1>2, <1>3
    <3>2. f * j * n = f * (j * n)
      BY <1>2, <1>4
    <3> QED BY <1>5, <3>1, <3>2
  <2> QED BY <1>9, <2>1, <2>2 DEF Curve!FMul
<1>13. /\ Trim(Curve!CarryReduce(r0, r1))
       /\ Cong(Curve!Value(Curve!CarryReduce(r0, r1)), r0 + b * r1, Curve!P)
  BY <1>1, <1>9, <1>11, CarryReduced
<1>14. Curve!Value(v) = i + b * j /\ Curve!Value(w) = m + b * n
  BY <1>2, <1>3 DEF Curve!Value
<1>15. (i + b * j) * (m + b * n) = (r0 + b * r1) + (b * b - f) * jn
  <2>1. (i + b * j) * (m + b * n) = im + b * ij + b * ji + b * (b * jn)
    <3>1. (i + b * j) * (m + b * n) = i * m + b * (i * n) + b * (j * m) + b * (b * (j * n))
      BY <1>2, <1>4
    <3> QED BY <1>5, <3>1
  <2>2. b * r1 = b * ij + b * ji
    BY <1>2, <1>5, <1>9
  <2>3. (b * b - f) * jn = b * (b * jn) - f * jn
    BY <1>2, <1>5
  <2>4. PICK x \in Int, y \in Int, z \in Int, u \in Int, e \in Int, g \in Int, o \in Int :
          /\ x = b * ij /\ y = b * ji /\ z = b * (b * jn) /\ u = f * jn /\ e = b * r1
          /\ g = (b * b - f) * jn /\ o = (i + b * j) * (m + b * n)
    BY <1>2, <1>4, <1>5, <1>9
  <2>5. o = r0 + e + g
    BY <1>5, <1>9, <2>1, <2>2, <2>3, <2>4
  <2> QED BY <1>9, <2>4, <2>5
<1>16. Cong(r0 + b * r1, (i + b * j) * (m + b * n), b * b - f)
  <2>1. PICK x \in Int, y \in Int, z \in Int :
          x = r0 + b * r1 /\ y = (i + b * j) * (m + b * n) /\ z = b * b - f
    BY <1>2, <1>4, <1>9
  <2>2. y = x + z * jn
    BY <1>15, <2>1
  <2>3. Cong(y, x, z)
    BY <1>5, <2>1, <2>2 DEF Cong
  <2>4. Cong(x, y, z)
    BY <2>1, <2>3, CongSym
  <2> QED BY <2>1, <2>4
<1>17. Curve!P \in Int
  BY FieldPrime
<1>18. Cong(r0 + b * r1, Curve!Value(v) * Curve!Value(w), Curve!P)
  BY <1>2, <1>14, <1>16
<1> QED BY <1>12, <1>13, <1>17, <1>18, CongTrans

\* The multiplication by a24.
LEMMA ScaledField ==
  ASSUME NEW v, Wide(v)
  PROVE  /\ Trim(Curve!FMulA24(v))
         /\ Cong(Curve!Value(Curve!FMulA24(v)), A24 * Curve!Value(v), Curve!P)
<1>1. PICK b, f : FieldSizes(b, f)
  BY FieldSized
<1>2. PICK c \in 0 .. b : c = A24
  BY <1>1 DEF FieldSizes
<1>3. /\ b \in Nat \ {0} /\ f \in Nat \ {0} /\ 32 * f <= b /\ b = Curve!Base /\ c \in Nat
  BY <1>1, <1>2 DEF FieldSizes
<1>4. PICK i \in 0 .. 3 * b, j \in 0 .. 4 * b : i = v[1] /\ j = v[2]
  BY <1>3 DEF Wide, LimbPair
<1>5. i \in Nat /\ j \in Nat /\ 3 * b \in Nat /\ 4 * b \in Nat
  BY <1>3, <1>4
<1>6. PICK r0 \in Nat, r1 \in Nat : r0 = c * i /\ r1 = c * j
  BY <1>3, <1>5
<1>7. r0 <= b * (3 * b) /\ r1 <= b * (4 * b)
  BY <1>2, <1>3, <1>4, <1>5, <1>6, ProductWithin
<1>8. r0 <= (9 + 16 * f) * (b * b) /\ r1 <= 24 * (b * b)
  <2>1. PICK u \in Nat : u = b * b
    BY <1>3
  <2>2. b * (3 * b) = 3 * u /\ b * (4 * b) = 4 * u
    BY <1>3, <2>1
  <2>3. 9 * u <= (9 + 16 * f) * u
    BY <1>3, <2>1
  <2>4. PICK z \in Int : z = (9 + 16 * f) * u
    BY <1>3, <2>1
  <2>5. r0 <= z /\ r1 <= 24 * u
    BY <1>6, <1>7, <2>1, <2>2, <2>3, <2>4
  <2> QED BY <2>1, <2>4, <2>5
<1>9. Curve!FMulA24(v) = Curve!CarryReduce(r0, r1)
  BY <1>2, <1>4, <1>6 DEF Curve!FMulA24
<1>10. /\ Trim(Curve!CarryReduce(r0, r1))
       /\ Cong(Curve!Value(Curve!CarryReduce(r0, r1)), r0 + b * r1, Curve!P)
  BY <1>1, <1>6, <1>8, CarryReduced
<1>11. Curve!Value(v) = i + b * j
  BY <1>3, <1>4 DEF Curve!Value
<1>12. r0 + b * r1 = c * (i + b * j)
  <2>1. c * (i + b * j) = c * i + b * (c * j)
    BY <1>3, <1>5
  <2> QED BY <1>6, <2>1
<1> QED BY <1>2, <1>9, <1>10, <1>11, <1>12

\* The canonical bytes of what a product leaves: its value modulo the prime,
\* below it, whatever the limbs carried.
LEMMA Canonical ==
  ASSUME NEW v, Trim(v)
  PROVE  Curve!Encode(v) = Curve!Value(v) % Curve!P
<1>1. PICK b, f : FieldSizes(b, f)
  BY FieldSized
<1>2. /\ b \in Nat \ {0} /\ f \in Nat \ {0} /\ 32 * f <= b /\ b = Curve!Base /\ f = FieldFold
      /\ Curve!P = b * b - f
  BY <1>1 DEF FieldSizes
<1>3. PICK i \in 0 .. b - 1, j \in 0 .. 2 * b - 2 : i = v[1] /\ j = v[2]
  BY <1>2 DEF Trim, LimbPair
<1>4. i \in Nat /\ j \in Nat
  BY <1>3
<1>5. PICK q \in Int, l \in 0 .. b - 1 : j = b * q + l /\ j \div b = q /\ j % b = l
  BY <1>2, <1>4, Euclid
<1>6. q \in 0 .. 1
  <2>1. q \in Nat
    BY <1>2, <1>4, <1>5, QuotientNat
  <2>2. b * q + l <= b * 1 + b - 1
    <3>1. PICK x \in Int : x = b * q
      BY <1>2, <1>5
    <3> QED BY <1>2, <1>3, <1>5, <3>1
  <2>3. q <= 1
    BY <1>2, <1>5, <2>2, QuotientAtMost
  <2> QED BY <2>1, <2>3
<1>7. Curve!Low(i) = i /\ Curve!Carry(i) = 0
  <2>1. i % b = i
    BY <1>2, <1>3, OwnRest
  <2>2. i \div b = 0
    BY <1>2, <1>3
  <2> QED BY <1>2, <2>1, <2>2 DEF Curve!Low, Curve!Carry
<1>8. Curve!Low(j) = l /\ Curve!Carry(j) = q
  BY <1>2, <1>5 DEF Curve!Low, Curve!Carry
<1>9. PICK g \in Nat : g = i + f * q
  BY <1>2, <1>4, <1>6
<1>10. g <= b - 1 + f /\ (q = 0 => g = i) /\ (q = 1 => g = i + f)
  BY <1>2, <1>3, <1>6, <1>9
<1>11. PICK w : w = <<g, l>> /\ w[1] = g /\ w[2] = l
  <2> <<g, l>>[1] = g /\ <<g, l>>[2] = l
    OBVIOUS
  <2> QED OBVIOUS
<1>12. Curve!CarryPropagate(v) = w
  <2>1. Curve!CarryPropagate(v) = <<i + f * q, l + 0>>
    BY <1>2, <1>3, <1>7, <1>8 DEF Curve!CarryPropagate
  <2> QED BY <1>5, <1>9, <1>11, <2>1
\* Whether the value reaches the prime.
<1>13. PICK e \in Int, s \in 0 .. b - 1 : g + f = b * e + s /\ (g + f) \div b = e /\ (g + f) % b = s
  BY <1>2, <1>9, Euclid
<1>14. e \in 0 .. 1
  <2>1. e \in Nat
    BY <1>2, <1>9, <1>13, QuotientNat
  <2>2. b * e + s <= b * 1 + b - 1
    <3>1. PICK x \in Int : x = b * e
      BY <1>2, <1>13
    <3> QED BY <1>2, <1>9, <1>10, <1>13, <3>1
  <2>3. e <= 1
    BY <1>2, <1>13, <2>2, QuotientAtMost
  <2> QED BY <2>1, <2>3
<1>15. PICK c \in 0 .. 1 : /\ c = (l + e) \div b
                           /\ c = 1 => l = b - 1 /\ e = 1
                           /\ c = 0 => l + e <= b - 1
  <2>1. CASE l + e <= b - 1
    <3>1. (l + e) \div b = 0
      BY <1>2, <1>5, <1>14, <2>1
    <3> QED BY <2>1, <3>1
  <2>2. CASE ~(l + e <= b - 1)
    <3>1. l = b - 1 /\ e = 1
      BY <1>2, <1>5, <1>14, <2>2
    <3>2. l + e = b
      BY <1>2, <3>1
    <3>3. b \div b = 1
      BY <1>2
    <3> QED BY <3>1, <3>2, <3>3
  <2> QED BY <2>1, <2>2
<1>16. PICK n \in Nat : n = g + f * c
  BY <1>2, <1>9, <1>15
<1>17. n <= b + b - 1 /\ (c = 0 => n = g) /\ (c = 1 => n = g + f)
  BY <1>2, <1>9, <1>10, <1>15, <1>16
<1>18. PICK a \in Int, o \in 0 .. b - 1 : n = b * a + o /\ n \div b = a /\ n % b = o
  BY <1>2, <1>16, Euclid
<1>19. a \in 0 .. 1
  <2>1. a \in Nat
    BY <1>2, <1>16, <1>18, QuotientNat
  <2>2. b * a + o <= b * 1 + b - 1
    <3>1. PICK x \in Int : x = b * a
      BY <1>2, <1>18
    <3> QED BY <1>2, <1>16, <1>17, <1>18, <3>1
  <2>3. a <= 1
    BY <1>2, <1>18, <2>2, QuotientAtMost
  <2> QED BY <2>1, <2>3
<1>20. PICK d \in 0 .. b - 1 : d = (l + a) % b
  <2>1. PICK y \in Int, z \in 0 .. b - 1 : l + a = b * y + z /\ (l + a) \div b = y /\ (l + a) % b = z
    <3>1. l + a \in Int
      BY <1>5, <1>18
    <3> QED BY <1>2, <3>1, Euclid
  <2> QED BY <2>1
<1>21. PICK r : r = <<o, d>> /\ r[1] = o /\ r[2] = d
  <2> <<o, d>>[1] = o /\ <<o, d>>[2] = d
    OBVIOUS
  <2> QED OBVIOUS
<1>22. Curve!ReduceCanonical(v) = r
  BY <1>2, <1>11, <1>12, <1>13, <1>15, <1>16, <1>18, <1>20, <1>21
     DEF Curve!ReduceCanonical, Curve!Low, Curve!Carry
<1>23. Curve!Encode(v) = o + b * d
  BY <1>2, <1>21, <1>22 DEF Curve!Encode, Curve!Value
\* The value behind it, in range.
<1>24. Curve!Value(v) = (g + b * l) + (b * b - f) * q
  <2>1. Curve!Value(v) = i + b * j
    BY <1>2, <1>3 DEF Curve!Value
  <2>2. CASE q = 0
    <3>1. j = l /\ g = i
      BY <1>2, <1>5, <1>10, <2>2
    <3>2. (b * b - f) * q = 0
      BY <1>2, <2>2
    <3>3. PICK x \in Int : x = b * l
      BY <1>2, <1>5
    <3> QED BY <1>4, <2>1, <3>1, <3>2, <3>3
  <2>3. CASE q = 1
    <3>1. j = b + l /\ g = i + f
      BY <1>2, <1>5, <1>10, <2>3
    <3>2. (b * b - f) * q = b * b - f
      BY <1>2, <2>3
    <3>3. b * j = b * b + b * l
      BY <1>2, <1>5, <3>1
    <3>4. PICK x \in Int, y \in Int : x = b * l /\ y = b * b
      BY <1>2, <1>5
    <3> QED BY <1>2, <1>4, <2>1, <3>1, <3>2, <3>3, <3>4
  <2> QED BY <1>6, <2>2, <2>3
<1>25. o + b * d = (g + b * l) - (b * b - f) * c /\ o + b * d \in 0 .. (b * b - f) - 1
  <2>1. PICK x \in Int, y \in Nat, u \in Nat : x = b * d /\ y = b * l /\ u = b * b
    BY <1>2, <1>5, <1>20
  <2>2. CASE c = 0
    <3>1. l + a <= b - 1
      <4>1. CASE a = 0
        BY <1>5, <4>1
      <4>2. CASE a = 1
        <5>1. b + o = g
          BY <1>2, <1>17, <1>18, <2>2, <4>2
        <5>2. e = 1
          <6>1. ASSUME e = 0 PROVE FALSE
            <7>1. g + f = s
              BY <1>2, <1>13, <6>1
            <7> QED BY <1>2, <1>9, <1>13, <1>18, <5>1, <7>1
          <6> QED BY <1>14, <6>1
        <5> QED BY <1>15, <2>2, <4>2, <5>2
      <4> QED BY <1>19, <4>1, <4>2
    <3>2. d = l + a
      <4>1. l + a \in 0 .. b - 1
        BY <1>2, <1>5, <1>19, <3>1
      <4> QED BY <1>2, <1>20, <4>1, OwnRest
    <3>3. x = y + b * a /\ g = b * a + o
      <4>1. b * d = b * l + b * a
        BY <1>2, <1>5, <1>18, <3>2
      <4>2. g = b * a + o
        BY <1>17, <1>18, <2>2
      <4> QED BY <2>1, <4>1, <4>2
    <3>4. PICK z \in Int : z = b * a
      BY <1>2, <1>18
    <3>5. (u - f) * c = 0
      BY <1>2, <2>1, <2>2
    <3>6. o + x = g + y
      BY <1>18, <2>1, <3>3, <3>4, <1>9
    <3>7. g + y < u - f
      <4>1. CASE l <= b - 2
        <5>1. y <= b * (b - 2)
          BY <1>2, <1>5, <2>1, <4>1
        <5>2. b * (b - 2) = u - 2 * b
          BY <1>2, <2>1
        <5>3. g <= b - 1 + f
          BY <1>10
        <5> QED BY <1>2, <1>9, <2>1, <5>1, <5>2, <5>3
      <4>2. CASE l = b - 1
        <5>1. e = 0
          BY <1>2, <1>14, <1>15, <2>2, <4>2
        <5>2. g + f <= b - 1
          BY <1>2, <1>13, <5>1
        <5>3. y = u - b
          BY <1>2, <2>1, <4>2
        <5> QED BY <1>2, <1>9, <2>1, <5>2, <5>3
      <4> QED BY <1>2, <1>5, <4>1, <4>2
    <3> QED BY <1>2, <1>9, <1>18, <2>1, <3>5, <3>6, <3>7
  <2>3. CASE c = 1
    <3>1. l = b - 1 /\ e = 1
      BY <1>15, <2>3
    <3>2. g + f = b + s
      BY <1>2, <1>13, <3>1
    <3>3. a = 1
      <4>1. ASSUME a = 0 PROVE FALSE
        <5>1. n = o
          BY <1>2, <1>18, <4>1
        <5> QED BY <1>2, <1>13, <1>17, <1>18, <2>3, <3>2, <5>1
      <4> QED BY <1>19, <4>1
    <3>4. d = 0
      <4>1. l + a = b
        BY <1>2, <3>1, <3>3
      <4>2. b % b = 0
        BY <1>2
      <4> QED BY <1>20, <4>1, <4>2
    <3>5. n = b + o
      BY <1>2, <1>18, <3>3
    <3>6. y = u - b
      BY <1>2, <2>1, <3>1
    <3>7. x = 0
      BY <1>2, <2>1, <3>4
    <3>8. o + x = g + y - (u - f)
      BY <1>2, <1>9, <1>17, <1>18, <2>1, <2>3, <3>5, <3>6, <3>7
    <3>9. (u - f) * c = u - f
      BY <1>2, <2>1, <2>3
    <3>10. o < u - f
      <4>1. o <= 2 * f - 1
        BY <1>2, <1>10, <1>17, <1>18, <2>3, <3>5
      <4>2. u >= b
        BY <1>2, <2>1
      <4> QED BY <1>2, <1>18, <2>1, <4>1, <4>2
    <3> QED BY <1>2, <1>9, <1>18, <2>1, <3>7, <3>8, <3>9, <3>10
  <2> QED BY <1>15, <2>2, <2>3
<1>26. Curve!Value(v) = (o + b * d) + (b * b - f) * (q + c)
  <2>1. (b * b - f) * (q + c) = (b * b - f) * q + (b * b - f) * c
    <3>1. PICK m \in Int : m = b * b - f
      BY <1>2
    <3>2. m * (q + c) = m * q + m * c
      BY <1>5, <1>15, <3>1
    <3> QED BY <3>1, <3>2
  <2>2. PICK x \in Int, y \in Int, z \in Int, u \in Int :
          x = (b * b - f) * q /\ y = (b * b - f) * c /\ z = b * d /\ u = b * l
    BY <1>2, <1>5, <1>15, <1>20
  <2> QED BY <1>2, <1>9, <1>18, <1>24, <1>25, <2>1, <2>2
<1>27. PICK m \in Nat \ {0} : m = b * b - f
  BY <1>2, FieldPrime
<1>28. PICK x \in 0 .. m - 1, y \in Int : x = o + b * d /\ y = q + c
  <2>1. PICK x \in Int : x = o + b * d
    <3>1. PICK z \in Int : z = b * d
      BY <1>2, <1>20
    <3>2. o \in Int
      BY <1>2, <1>18
    <3> QED BY <3>1, <3>2
  <2>2. x \in 0 .. m - 1
    BY <1>25, <1>27, <2>1
  <2> QED BY <1>5, <1>15, <2>1, <2>2
<1>29. Curve!Value(v) = x + m * y /\ x \in Int
  BY <1>26, <1>27, <1>28
<1>30. (x + m * y) % m = x % m /\ x % m = x
  BY <1>27, <1>28, <1>29, ModShift, OwnRest
<1> QED BY <1>2, <1>23, <1>27, <1>28, <1>29, <1>30

\* The comments of x25519.rs hold for every size of the limbs that leaves Fold room:
\* sums and differences of what a product leaves are bounded for the next product,
\* each operation is that of the field modulo p, and the bytes are canonical.
THEOREM LimbsStayBounded ==
  /\ \A v, w : Trim(v) /\ Trim(w) =>
       /\ Wide(v) /\ Wide(Curve!FAdd(v, w)) /\ Wide(Curve!FSub(v, w))
       /\ Cong(Curve!Value(Curve!FAdd(v, w)), Curve!Value(v) + Curve!Value(w), Curve!P)
       /\ Cong(Curve!Value(Curve!FSub(v, w)), Curve!Value(v) - Curve!Value(w), Curve!P)
       /\ Curve!Encode(v) = Curve!Value(v) % Curve!P
  /\ \A v, w : Wide(v) /\ Wide(w) =>
       /\ Trim(Curve!FMul(v, w)) /\ Trim(Curve!FMulA24(v))
       /\ Cong(Curve!Value(Curve!FMul(v, w)), Curve!Value(v) * Curve!Value(w), Curve!P)
       /\ Cong(Curve!Value(Curve!FMulA24(v)), A24 * Curve!Value(v), Curve!P)
<1>1. PICK p \in Nat \ {0} : p = Curve!P
  BY FieldPrime
<1>2. ASSUME NEW v, NEW w, Trim(v), Trim(w)
      PROVE  /\ Cong(Curve!Value(Curve!FAdd(v, w)), Curve!Value(v) + Curve!Value(w), p)
             /\ Cong(Curve!Value(Curve!FSub(v, w)), Curve!Value(v) - Curve!Value(w), p)
  <2>1. PICK i \in Int, j \in Int : i = Curve!Value(v) /\ j = Curve!Value(w)
    BY <1>2, TrimWide, FieldValue
  <2>2. Cong(i + j, i + j, p)
    BY <1>1, <2>1, CongRefl
  <2>3. Cong(i - j + 2 * p, i - j, p)
    <3>1. i - j + 2 * p = (i - j) + p * 2
      BY <1>1, <2>1
    <3> QED BY <1>1, <2>1, <3>1 DEF Cong
  <2> QED BY <1>1, <1>2, <2>1, <2>2, <2>3, SumField, DifferenceField
<1> QED BY <1>1, <1>2, TrimWide, SumField, DifferenceField, Canonical, ProductField, ScaledField

-----------------------------------------------------------------------------
(***************************************************************************)
(* Ratios.  The two residues of a projective point count up to a factor.   *)
(***************************************************************************)
\* a is l times c in the field.
Scaled(a, l, c) == a \in Int /\ l \in Int /\ c \in Int /\ Cong(a, l * c, Curve!P)

\* Coordinates up to a common factor, which the limbs compute with.
LEMMA ScaledSum ==
  ASSUME NEW a, NEW b, NEW l, NEW c, NEW d, Scaled(a, l, c), Scaled(b, l, d)
  PROVE  Scaled(a + b, l, c + d) /\ Scaled(a - b, l, c - d)
<1>1. a \in Int /\ b \in Int /\ l \in Int /\ c \in Int /\ d \in Int
  BY DEF Scaled
<1>2. Cong(a + b, l * c + l * d, Curve!P) /\ Cong(a - b, l * c - l * d, Curve!P)
  BY CongAdd, FieldPrime DEF Scaled
<1>3. l * c + l * d = l * (c + d) /\ l * c - l * d = l * (c - d)
  BY <1>1
<1> QED BY <1>1, <1>2, <1>3 DEF Scaled

LEMMA ScaledProduct ==
  ASSUME NEW a, NEW b, NEW l, NEW n, NEW c, NEW d, Scaled(a, l, c), Scaled(b, n, d)
  PROVE  Scaled(a * b, l * n, c * d)
<1>1. a \in Int /\ b \in Int /\ l \in Int /\ n \in Int /\ c \in Int /\ d \in Int
  BY DEF Scaled
<1>2. Cong(a * b, (l * c) * (n * d), Curve!P)
  BY CongMul, FieldPrime DEF Scaled
<1>3. (l * c) * (n * d) = (l * n) * (c * d)
  BY <1>1
<1>4. a * b \in Int /\ l * n \in Int /\ c * d \in Int
  BY <1>1
<1> QED BY <1>2, <1>3, <1>4 DEF Scaled

\* Either side for one congruent to it.
LEMMA ScaledAs ==
  ASSUME NEW a, NEW b, NEW l, NEW c, NEW d, Scaled(a, l, c),
         Cong(b, a, Curve!P), Cong(c, d, Curve!P)
  PROVE  Scaled(b, l, d)
<1>1. a \in Int /\ l \in Int /\ c \in Int /\ b \in Int /\ d \in Int
  BY DEF Scaled, Cong
<1>2. Cong(l * c, l * d, Curve!P)
  <2>1. Cong(l, l, Curve!P)
    BY <1>1, CongRefl, FieldPrime
  <2> QED BY <2>1, CongMul, FieldPrime
<1>3. Cong(a, l * c, Curve!P)
  BY DEF Scaled
<1>4. Cong(b, l * d, Curve!P)
  BY <1>2, <1>3, CongTrans, FieldPrime
<1> QED BY <1>1, <1>4 DEF Scaled

LEMMA ScaledTo ==
  ASSUME NEW a, NEW l, NEW c, NEW d, Scaled(a, l, c), Cong(c, d, Curve!P) PROVE Scaled(a, l, d)
<1>1. a \in Int
  BY DEF Scaled
<1>2. Cong(a, a, Curve!P)
  BY <1>1, CongRefl, FieldPrime
<1> QED BY <1>2, ScaledAs

\* The residue of a number is congruent to it.
LEMMA ModCong ==
  ASSUME NEW a \in Int
  PROVE  Cong(Curve!Mod(a), a, Curve!P) /\ Cong(a, Curve!Mod(a), Curve!P) /\ Curve!Mod(a) \in 0 .. Curve!P - 1
BY CongRest, FieldPrime DEF Curve!Mod

\* The prime divides a product only if it divides a factor.
LEMMA NoZeroDivisor ==
  ASSUME NEW a \in Int, NEW b \in Int, Curve!Mod(a) # 0, Curve!Mod(b) # 0
  PROVE  Curve!Mod(a * b) # 0
<1>1. PICK m \in Nat \ {0} : m = Curve!P
  BY FieldPrime
<1>2. PICK z \in 1 .. m - 1 : z = Curve!Mod(a)
  BY <1>1, ModCong
<1>3. PICK w \in 0 .. m - 1 : w = Curve!Inverse(z) /\ Curve!Mod(z * w) = 1
  BY <1>1, <1>2, CurveAssumption DEF Curve!FieldLaw
<1>4. a * b \in Int /\ z * w \in Int /\ w \in Int /\ z \in Int /\ (a * b) * w \in Int /\ m \in Int
  BY <1>2, <1>3
<1> SUFFICES ASSUME Curve!Mod(a * b) = 0 PROVE FALSE
  OBVIOUS
<1>5. Cong(a * b, 0, m)
  BY <1>1, <1>4, ModCong
<1>6. Cong(z * w, 1, m)
  BY <1>1, <1>3, <1>4, CongSym, ModCong
<1>7. Cong(z, a, m)
  BY <1>1, <1>2, ModCong
<1>8. Cong((z * w) * b, 1 * b, m)
  BY <1>6, <1>4, CongMul, CongRefl
<1>9. Cong((z * w) * b, (a * w) * b, m)
  BY <1>7, <1>4, CongMul, CongRefl
<1>10. (a * w) * b = (a * b) * w
  BY <1>4
<1>11. Cong((a * b) * w, 0 * w, m)
  BY <1>5, <1>4, CongMul, CongRefl
<1>12. Cong(1 * b, 0 * w, m)
  <2>1. Cong(1 * b, (z * w) * b, m)
    BY <1>8, <1>4, CongSym
  <2>2. Cong(1 * b, (a * b) * w, m)
    BY <2>1, <1>9, <1>10, <1>4, CongTrans
  <2> QED BY <2>2, <1>11, <1>4, CongTrans
<1>13. 1 * b = b /\ 0 * w = 0
  BY <1>4
<1>14. b % m = 0 % m
  BY <1>12, <1>13, CongSame
<1>15. 0 % m = 0
  BY OwnRest
<1> QED BY <1>1, <1>14, <1>15 DEF Curve!Mod

\* A point of the plane, or the one at infinity.
Point(p) == p = Curve!Infinity \/ (p # Curve!Infinity /\ p[1] \in 0 .. Curve!P - 1 /\ p[2] \in 0 .. Curve!P - 1)

\* A ratio is the coordinates of its point, scaled by what is not zero ...
LEMMA CoordinatesOf ==
  ASSUME NEW p, Point(p)
  PROVE  \E i \in Int, j \in Int :
           /\ i = Curve!XZ(p)[1] /\ j = Curve!XZ(p)[2]
           /\ p = Curve!Infinity => i = 1 /\ j = 0
           /\ p # Curve!Infinity => i = p[1] /\ j = 1
<1>1. CASE p = Curve!Infinity
  BY <1>1 DEF Curve!XZ
<1>2. CASE p # Curve!Infinity
  <2>1. PICK i \in Int : i = p[1]
    BY <1>2, FieldPrime DEF Point
  <2>2. Curve!XZ(p) = <<i, 1>>
    BY <1>2, <2>1 DEF Curve!XZ
  <2>3. <<i, 1>>[1] = i /\ <<i, 1>>[2] = 1
    OBVIOUS
  <2> QED BY <1>2, <2>1, <2>2, <2>3
<1> QED BY <1>1, <1>2

\* Being (x : z) of a point is being a factor times its coordinates.
LEMMA RatioFactor ==
  ASSUME NEW p, Point(p), NEW x \in Int, NEW z \in Int, Curve!Ratio(x, z, p)
  PROVE  \E l \in Int : /\ Curve!Mod(l) # 0
                        /\ Scaled(x, l, Curve!XZ(p)[1]) /\ Scaled(z, l, Curve!XZ(p)[2])
<1>1. PICK i \in Int, j \in Int :
           /\ i = Curve!XZ(p)[1] /\ j = Curve!XZ(p)[2]
           /\ p = Curve!Infinity => i = 1 /\ j = 0
           /\ p # Curve!Infinity => i = p[1] /\ j = 1
  BY CoordinatesOf
<1>2. Curve!P \in Nat \ {0} /\ Curve!P \in Int
  BY FieldPrime
<1>3. CASE p = Curve!Infinity
  <2>1. Curve!Mod(z) = 0 /\ Curve!Mod(x) # 0
    BY <1>3 DEF Curve!Ratio
  <2>2. x * i = x /\ x * j = 0
    BY <1>1, <1>3
  <2>3. Cong(z, 0, Curve!P) /\ Cong(x, x, Curve!P)
    BY <1>2, <2>1, ModCong, CongRefl
  <2>4. Scaled(x, x, i) /\ Scaled(z, x, j)
    BY <1>1, <2>2, <2>3 DEF Scaled
  <2> QED BY <1>1, <2>1, <2>4
<1>4. CASE p # Curve!Infinity
  <2>1. Curve!Mod(z) # 0 /\ Curve!Mod(x) = Curve!Mod(i * Curve!Mod(z))
    BY <1>1, <1>4 DEF Curve!Ratio
  <2>2. PICK y \in Int : y = Curve!Mod(z) /\ Cong(y, z, Curve!P)
    BY ModCong, <1>2
  <2>3. i * y \in Int /\ i * z = z * i /\ z * j = z
    BY <1>1, <1>4
  <2>4. Cong(i * y, i * z, Curve!P)
    BY <1>2, <2>2, CongMul, CongRefl
  <2>5. Cong(x, Curve!Mod(x), Curve!P) /\ Cong(Curve!Mod(i * y), i * y, Curve!P)
    BY <2>3, ModCong
  <2>6. Cong(x, i * y, Curve!P)
    BY <1>2, <2>1, <2>2, <2>5, CongTrans
  <2>7. Cong(x, z * i, Curve!P) /\ Cong(z, z * j, Curve!P)
    BY <1>2, <2>3, <2>4, <2>6, CongTrans, CongRefl
  <2>8. Scaled(x, z, i) /\ Scaled(z, z, j)
    BY <1>1, <2>7 DEF Scaled
  <2> QED BY <1>1, <2>1, <2>8
<1> QED BY <1>3, <1>4

\* ... and so scaled it stays the ratio of that point.
LEMMA FactorRatio ==
  ASSUME NEW p, Point(p), NEW x \in Int, NEW z \in Int, NEW l \in Int, Curve!Mod(l) # 0,
         Scaled(x, l, Curve!XZ(p)[1]), Scaled(z, l, Curve!XZ(p)[2])
  PROVE  Curve!Ratio(x, z, p)
<1>1. PICK i \in Int, j \in Int :
           /\ i = Curve!XZ(p)[1] /\ j = Curve!XZ(p)[2]
           /\ p = Curve!Infinity => i = 1 /\ j = 0
           /\ p # Curve!Infinity => i = p[1] /\ j = 1
  BY CoordinatesOf
<1>2. Curve!P \in Nat \ {0} /\ Curve!P \in Int
  BY FieldPrime
<1>3. Cong(x, l * i, Curve!P) /\ Cong(z, l * j, Curve!P)
  BY <1>1 DEF Scaled
<1>4. CASE p = Curve!Infinity
  <2>1. l * i = l /\ l * j = 0
    BY <1>1, <1>4
  <2>2. x % Curve!P = l % Curve!P /\ z % Curve!P = 0 % Curve!P
    BY <1>2, <1>3, <2>1, CongSame
  <2>3. 0 % Curve!P = 0
    BY <1>2, OwnRest
  <2> QED BY <1>4, <2>2, <2>3 DEF Curve!Ratio, Curve!Mod
<1>5. CASE p # Curve!Infinity
  <2>1. l * j = l /\ l * i = i * l
    BY <1>1, <1>5
  <2>2. z % Curve!P = l % Curve!P
    BY <1>2, <1>3, <2>1, CongSame
  <2>3. PICK y \in Int : y = Curve!Mod(z) /\ Cong(l, y, Curve!P)
    <3>1. Cong(l, Curve!Mod(l), Curve!P) /\ Curve!Mod(l) = Curve!Mod(z) /\ Curve!Mod(l) \in Int
      BY <1>2, <2>2, ModCong DEF Curve!Mod
    <3> QED BY <3>1
  <2>4. Cong(i * l, i * y, Curve!P)
    BY <1>2, <2>3, CongMul, CongRefl
  <2>5. Cong(x, i * y, Curve!P)
    BY <1>2, <1>3, <2>1, <2>4, CongTrans
  <2>6. x % Curve!P = (i * y) % Curve!P
    BY <1>2, <2>5, CongSame
  <2> QED BY <1>1, <1>5, <2>2, <2>3, <2>6 DEF Curve!Ratio, Curve!Mod
<1> QED BY <1>4, <1>5

\* A factor throughout leaves the ratio.
LEMMA RatioScaled ==
  ASSUME NEW p, Point(p), NEW v \in Int, NEW w \in Int, Curve!Ratio(v, w, p),
         NEW n \in Int, Curve!Mod(n) # 0, NEW x, NEW z, Scaled(x, n, v), Scaled(z, n, w)
  PROVE  Curve!Ratio(x, z, p)
<1>1. PICK l \in Int : /\ Curve!Mod(l) # 0
                       /\ Scaled(v, l, Curve!XZ(p)[1]) /\ Scaled(w, l, Curve!XZ(p)[2])
  BY RatioFactor
<1>2. n * l \in Int /\ Curve!Mod(n * l) # 0
  BY <1>1, NoZeroDivisor
<1>3. ASSUME NEW a, NEW b, NEW c, Scaled(a, n, b), Scaled(b, l, c) PROVE Scaled(a, n * l, c)
  <2>1. a \in Int /\ b \in Int /\ c \in Int /\ Curve!P \in Int
    BY <1>3, FieldPrime DEF Scaled
  <2>2. Cong(n * b, n * (l * c), Curve!P)
    BY <1>3, <2>1, CongMul, CongRefl DEF Scaled
  <2>3. n * (l * c) = (n * l) * c
    BY <1>1, <2>1
  <2>4. Cong(a, (n * l) * c, Curve!P)
    BY <1>3, <2>1, <2>2, <2>3, CongTrans DEF Scaled
  <2> QED BY <1>2, <2>1, <2>4 DEF Scaled
<1>4. Scaled(x, n * l, Curve!XZ(p)[1]) /\ Scaled(z, n * l, Curve!XZ(p)[2])
  BY <1>1, <1>3
<1>5. x \in Int /\ z \in Int
  BY DEF Scaled
<1> QED BY <1>2, <1>4, <1>5, FactorRatio

-----------------------------------------------------------------------------
(***************************************************************************)
(* A ladder step on limbs doubles and adds up points.                      *)
(***************************************************************************)
LEMMA LimbSum ==
  ASSUME NEW v, NEW w, Trim(v), Trim(w), NEW l, NEW c, NEW d,
         Scaled(Curve!Value(v), l, c), Scaled(Curve!Value(w), l, d)
  PROVE  Wide(Curve!FAdd(v, w)) /\ Scaled(Curve!Value(Curve!FAdd(v, w)), l, c + d)
BY SumField, ScaledSum

\* The operations on limbs, on numbers congruent to them.
LEMMA LimbDifference ==
  ASSUME NEW v, NEW w, Trim(v), Trim(w), NEW l, NEW c, NEW d,
         Scaled(Curve!Value(v), l, c), Scaled(Curve!Value(w), l, d)
  PROVE  Wide(Curve!FSub(v, w)) /\ Scaled(Curve!Value(Curve!FSub(v, w)), l, c - d)
<1>1. PICK i \in Int, j \in Int, m \in Int :
        i = Curve!Value(v) /\ j = Curve!Value(w) /\ m = Curve!P
  BY FieldPrime DEF Scaled
<1>2. PICK n \in Int : n = i - j
  BY <1>1
<1>3. PICK o \in Int : o = n + m * 2
  BY <1>1, <1>2
<1>4. Curve!Value(Curve!FSub(v, w)) = o
  <2>1. m * 2 = 2 * m
    BY <1>1
  <2> QED BY <1>1, <1>2, <1>3, <2>1, DifferenceField
<1>5. Cong(o, n, m)
  BY <1>2, <1>3 DEF Cong
<1>6. Scaled(n, l, c - d)
  BY <1>1, <1>2, ScaledSum
<1>7. c - d \in Int
  BY DEF Scaled
<1>8. Cong(c - d, c - d, m)
  BY <1>1, <1>7, CongRefl
<1> QED BY <1>1, <1>4, <1>5, <1>6, <1>8, ScaledAs, DifferenceField

LEMMA LimbProduct ==
  ASSUME NEW v, NEW w, Wide(v), Wide(w), NEW l, NEW n, NEW c, NEW d,
         Scaled(Curve!Value(v), l, c), Scaled(Curve!Value(w), n, d)
  PROVE  /\ Trim(Curve!FMul(v, w)) /\ Scaled(Curve!Value(Curve!FMul(v, w)), l * n, c * d)
         /\ Scaled(Curve!Value(Curve!FMul(v, w)), l * n, Curve!Mod(c * d))
<1>1. Scaled(Curve!Value(v) * Curve!Value(w), l * n, c * d)
  BY ScaledProduct
<1>2. PICK x \in Int : x = c * d
  BY DEF Scaled
<1>3. Cong(x, x, Curve!P) /\ Cong(x, Curve!Mod(x), Curve!P)
  BY CongRefl, FieldPrime, ModCong
<1> QED BY <1>1, <1>2, <1>3, ScaledAs, ProductField

LEMMA LimbScaled ==
  ASSUME NEW v, Wide(v), NEW l, NEW c, Scaled(Curve!Value(v), l, c)
  PROVE  Trim(Curve!FMulA24(v)) /\ Scaled(Curve!Value(Curve!FMulA24(v)), l, A24 * c)
<1>1. PICK m \in Int : m = A24
  BY LimbAssumption
<1>2. l \in Int /\ c \in Int
  BY DEF Scaled
<1>3. Scaled(m, 1, m)
  <2>1. 1 * m = m
    OBVIOUS
  <2> QED BY <2>1, CongRefl, FieldPrime DEF Scaled
<1>4. Scaled(m * Curve!Value(v), 1 * l, m * c)
  BY <1>3, ScaledProduct
<1>5. 1 * l = l
  BY <1>2
<1>6. PICK x \in Int : x = m * c
  BY <1>1, <1>2
<1>7. Cong(x, x, Curve!P)
  BY CongRefl, FieldPrime
<1> QED BY <1>1, <1>4, <1>5, <1>6, <1>7, ScaledAs, ScaledField

\* The double of a projective point is that of the point.
DoubleX(x, z) == Curve!FMul(Curve!FSquare(Curve!FAdd(x, z)), Curve!FSquare(Curve!FSub(x, z)))
DoubleE(x, z) == Curve!FSub(Curve!FSquare(Curve!FAdd(x, z)), Curve!FSquare(Curve!FSub(x, z)))
DoubleZ(x, z) ==
  Curve!FMul(DoubleE(x, z), Curve!FAdd(Curve!FSquare(Curve!FAdd(x, z)), Curve!FMulA24(DoubleE(x, z))))

\* A turn of the ladder: on limbs for a point and its successor, the code computes
\* Montgomery's formulas up to a factor; one half of it doubles ...
LEMMA TrimInt == ASSUME NEW v, Trim(v) PROVE Curve!Value(v) \in Int
BY TrimWide, FieldValue

LEMMA Doubled ==
  ASSUME NEW x, NEW z, Trim(x), Trim(z), NEW p, NEW d, Point(p), Point(d),
         Curve!Stands(x, z, p), Curve!Doubles(p, d)
  PROVE  Trim(DoubleX(x, z)) /\ Trim(DoubleZ(x, z)) /\ Curve!Stands(DoubleX(x, z), DoubleZ(x, z), d)
<1>1. PICK v1 \in Int, v2 \in Int : v1 = Curve!XZ(p)[1] /\ v2 = Curve!XZ(p)[2]
  BY CoordinatesOf
<1>2. PICK l \in Int :
        Curve!Mod(l) # 0 /\ Scaled(Curve!Value(x), l, v1) /\ Scaled(Curve!Value(z), l, v2)
  BY <1>1, TrimInt, RatioFactor DEF Curve!Stands
<1>3. PICK n \in Int : n = l * l
  BY <1>2
<1>4. PICK aa \in Int, bb \in Int :
        aa = Curve!Square(v1 + v2) /\ bb = Curve!Square(v1 - v2)
  <2>1. (v1 + v2) * (v1 + v2) \in Int /\ (v1 - v2) * (v1 - v2) \in Int
    BY <1>1
  <2> QED BY <2>1, ModCong, FieldPrime DEF Curve!Square
<1>5. PICK e \in Int : e = Curve!Mod(aa - bb) /\ Cong(aa - bb, e, Curve!P)
  <2>1. aa - bb \in Int
    BY <1>4
  <2> QED BY <2>1, ModCong, FieldPrime
<1>6. PICK g \in Int : g = aa + A24 * e
  <2>1. PICK i \in Int : i = A24
    BY LimbAssumption
  <2> QED BY <1>4, <1>5, <2>1
<1>7. PICK gg \in Int : gg = Curve!Mod(g) /\ Cong(g, gg, Curve!P)
  BY ModCong, FieldPrime, <1>6
<1>8. Curve!Ratio(aa * bb, e * gg, d)
  BY <1>1, <1>4, <1>5, <1>6, <1>7 DEF Curve!Doubles
<1> DEFINE a  == Curve!FAdd(x, z)     b  == Curve!FSub(x, z)
           as == Curve!FSquare(a)     bs == Curve!FSquare(b)
           ee == Curve!FSub(as, bs)   f  == Curve!FAdd(as, Curve!FMulA24(ee))
<1>9. Wide(a) /\ Scaled(Curve!Value(a), l, v1 + v2) /\ Wide(b) /\ Scaled(Curve!Value(b), l, v1 - v2)
  BY <1>2, LimbSum, LimbDifference
<1>10. Trim(as) /\ Scaled(Curve!Value(as), n, aa) /\ Trim(bs) /\ Scaled(Curve!Value(bs), n, bb)
  BY <1>3, <1>4, <1>9, LimbProduct DEF Curve!FSquare, Curve!Square
<1> HIDE DEF a, b, as, bs
<1>11. Wide(ee) /\ Scaled(Curve!Value(ee), n, e)
  <2>1. Wide(ee) /\ Scaled(Curve!Value(ee), n, aa - bb)
    BY <1>10, LimbDifference
  <2> QED BY <1>5, <2>1, ScaledTo
<1> HIDE DEF ee
<1>12. Wide(f) /\ Scaled(Curve!Value(f), n, gg)
  <2>1. Trim(Curve!FMulA24(ee)) /\ Scaled(Curve!Value(Curve!FMulA24(ee)), n, A24 * e)
    BY <1>11, LimbScaled
  <2>2. Wide(f) /\ Scaled(Curve!Value(f), n, g)
    BY <1>6, <1>10, <2>1, LimbSum
  <2> QED BY <1>7, <2>2, ScaledTo
<1> HIDE DEF f
<1>13. /\ Trim(Curve!FMul(as, bs)) /\ Scaled(Curve!Value(Curve!FMul(as, bs)), n * n, aa * bb)
       /\ Trim(Curve!FMul(ee, f)) /\ Scaled(Curve!Value(Curve!FMul(ee, f)), n * n, e * gg)
  BY <1>10, <1>11, <1>12, LimbProduct, TrimWide
<1>14. n * n \in Int /\ Curve!Mod(n * n) # 0 /\ aa * bb \in Int /\ e * gg \in Int
  <2>1. Curve!Mod(n) # 0
    BY <1>2, <1>3, NoZeroDivisor
  <2>2. Curve!Mod(n * n) # 0
    BY <1>3, <2>1, NoZeroDivisor
  <2>3. n * n \in Int /\ aa * bb \in Int /\ e * gg \in Int
    BY <1>3, <1>4, <1>5, <1>7
  <2> QED BY <2>2, <2>3
<1>15. Curve!Ratio(Curve!Value(Curve!FMul(as, bs)), Curve!Value(Curve!FMul(ee, f)), d)
  BY <1>8, <1>13, <1>14, RatioScaled
<1>16. DoubleX(x, z) = Curve!FMul(as, bs) /\ DoubleZ(x, z) = Curve!FMul(ee, f)
  BY DEF DoubleX, DoubleZ, DoubleE, a, b, as, bs, ee, f
<1> QED BY <1>13, <1>15, <1>16 DEF Curve!Stands

\* The sum of two projective points whose difference has the coordinate of w.
SumDA(x, z, y, v) == Curve!FMul(Curve!FSub(y, v), Curve!FAdd(x, z))
SumCB(x, z, y, v) == Curve!FMul(Curve!FAdd(y, v), Curve!FSub(x, z))
SumX(x, z, y, v) == Curve!FSquare(Curve!FAdd(SumDA(x, z, y, v), SumCB(x, z, y, v)))
SumZ(w, x, z, y, v) == Curve!FMul(w, Curve!FSquare(Curve!FSub(SumDA(x, z, y, v), SumCB(x, z, y, v))))

\* ... and the other adds.
LEMMA Summed ==
  ASSUME NEW x, NEW z, NEW y, NEW v, NEW w, Trim(x), Trim(z), Trim(y), Trim(v), Trim(w),
         NEW p, NEW r, NEW s, Point(p), Point(r), Point(s),
         Curve!Stands(x, z, p), Curve!Stands(y, v, r),
         Curve!Adds(Curve!Mod(Curve!Value(w)), p, r, s)
  PROVE  /\ Trim(SumX(x, z, y, v)) /\ Trim(SumZ(w, x, z, y, v))
         /\ Curve!Stands(SumX(x, z, y, v), SumZ(w, x, z, y, v), s)
<1>1. PICK v1 \in Int, v2 \in Int : v1 = Curve!XZ(p)[1] /\ v2 = Curve!XZ(p)[2]
  BY CoordinatesOf
<1>2. PICK r1 \in Int, r2 \in Int : r1 = Curve!XZ(r)[1] /\ r2 = Curve!XZ(r)[2]
  BY CoordinatesOf
<1>3. PICK l \in Int :
        Curve!Mod(l) # 0 /\ Scaled(Curve!Value(x), l, v1) /\ Scaled(Curve!Value(z), l, v2)
  BY <1>1, TrimInt, RatioFactor DEF Curve!Stands
<1>4. PICK n \in Int :
        Curve!Mod(n) # 0 /\ Scaled(Curve!Value(y), n, r1) /\ Scaled(Curve!Value(v), n, r2)
  BY <1>2, TrimInt, RatioFactor DEF Curve!Stands
<1>5. PICK u \in Int : u = Curve!Mod(Curve!Value(w)) /\ Scaled(Curve!Value(w), 1, u)
  <2>1. PICK i \in Int, u \in Int : i = Curve!Value(w) /\ u = Curve!Mod(i) /\ Cong(i, u, Curve!P)
    BY TrimInt, ModCong, FieldPrime
  <2>2. 1 * u = u
    BY <2>1
  <2> QED BY <2>1, <2>2 DEF Scaled
<1>6. PICK da \in Int, cb \in Int :
        da = Curve!Mod((r1 - r2) * (v1 + v2)) /\ cb = Curve!Mod((r1 + r2) * (v1 - v2))
  <2>1. (r1 - r2) * (v1 + v2) \in Int /\ (r1 + r2) * (v1 - v2) \in Int
    BY <1>1, <1>2
  <2> QED BY <2>1, ModCong, FieldPrime
<1>7. PICK g \in Int, hh \in Int : g = Curve!Square(da + cb) /\ hh = Curve!Square(da - cb)
  <2>1. (da + cb) * (da + cb) \in Int /\ (da - cb) * (da - cb) \in Int
    BY <1>6
  <2> QED BY <2>1, ModCong, FieldPrime DEF Curve!Square
<1>8. Curve!Ratio(g, u * hh, s)
  BY <1>1, <1>2, <1>5, <1>6, <1>7 DEF Curve!Adds
<1>9. PICK o \in Int : o = n * l
  BY <1>3, <1>4
<1> DEFINE a == Curve!FAdd(x, z)     b == Curve!FSub(x, z)
           c == Curve!FAdd(y, v)     d == Curve!FSub(y, v)
           e == Curve!FMul(d, a)     f == Curve!FMul(c, b)
           i == Curve!FAdd(e, f)     j == Curve!FSub(e, f)
<1>10. /\ Wide(a) /\ Scaled(Curve!Value(a), l, v1 + v2)
       /\ Wide(b) /\ Scaled(Curve!Value(b), l, v1 - v2)
       /\ Wide(c) /\ Scaled(Curve!Value(c), n, r1 + r2)
       /\ Wide(d) /\ Scaled(Curve!Value(d), n, r1 - r2)
  BY <1>3, <1>4, LimbSum, LimbDifference
<1> HIDE DEF a, b, c, d
<1>11. Trim(e) /\ Scaled(Curve!Value(e), o, da) /\ Trim(f) /\ Scaled(Curve!Value(f), o, cb)
  BY <1>6, <1>9, <1>10, LimbProduct
<1> HIDE DEF e, f
<1>12. /\ Wide(i) /\ Scaled(Curve!Value(i), o, da + cb)
       /\ Wide(j) /\ Scaled(Curve!Value(j), o, da - cb)
  BY <1>11, LimbSum, LimbDifference
<1> HIDE DEF i, j
<1>13. PICK q \in Int : q = o * o
  BY <1>9
<1>14. /\ Trim(Curve!FSquare(i)) /\ Scaled(Curve!Value(Curve!FSquare(i)), q, g)
       /\ Trim(Curve!FSquare(j)) /\ Scaled(Curve!Value(Curve!FSquare(j)), q, hh)
  BY <1>7, <1>12, <1>13, LimbProduct DEF Curve!FSquare, Curve!Square
<1>15. /\ Trim(Curve!FMul(w, Curve!FSquare(j)))
       /\ Scaled(Curve!Value(Curve!FMul(w, Curve!FSquare(j))), q, u * hh)
  <2>1. 1 * q = q
    BY <1>13
  <2> QED BY <1>5, <1>14, <2>1, LimbProduct, TrimWide
<1>16. q \in Int /\ Curve!Mod(q) # 0 /\ g \in Int /\ u * hh \in Int
  <2>1. Curve!Mod(o) # 0
    BY <1>3, <1>4, <1>9, NoZeroDivisor
  <2> QED BY <1>5, <1>7, <1>9, <1>13, <2>1, NoZeroDivisor
<1>17. Curve!Ratio(Curve!Value(Curve!FSquare(i)), Curve!Value(Curve!FMul(w, Curve!FSquare(j))), s)
  BY <1>8, <1>14, <1>15, <1>16, RatioScaled
<1>18. SumX(x, z, y, v) = Curve!FSquare(i) /\ SumZ(w, x, z, y, v) = Curve!FMul(w, Curve!FSquare(j))
  BY DEF SumX, SumZ, SumDA, SumCB, a, b, c, d, e, f, i, j
<1> QED BY <1>14, <1>15, <1>17, <1>18 DEF Curve!Stands

\* Either of the two may come first.
LEMMA AddsEitherWay ==
  ASSUME NEW u \in Int, NEW p, NEW r, NEW s, Point(p), Point(r), Curve!Adds(u, p, r, s)
  PROVE  Curve!Adds(u, r, p, s)
<1>1. PICK v1 \in Int, v2 \in Int : v1 = Curve!XZ(p)[1] /\ v2 = Curve!XZ(p)[2]
  BY CoordinatesOf
<1>2. PICK r1 \in Int, r2 \in Int : r1 = Curve!XZ(r)[1] /\ r2 = Curve!XZ(r)[2]
  BY CoordinatesOf
<1>3. PICK da \in Int, cb \in Int :
        da = Curve!Mod((r1 - r2) * (v1 + v2)) /\ cb = Curve!Mod((r1 + r2) * (v1 - v2))
  <2>1. (r1 - r2) * (v1 + v2) \in Int /\ (r1 + r2) * (v1 - v2) \in Int
    BY <1>1, <1>2
  <2> QED BY <2>1, ModCong, FieldPrime
<1>4. Curve!Ratio(Curve!Square(da + cb), u * Curve!Square(da - cb), s)
  BY <1>1, <1>2, <1>3 DEF Curve!Adds
<1>5. cb = Curve!Mod((v1 - v2) * (r1 + r2)) /\ da = Curve!Mod((v1 + v2) * (r1 - r2))
  <2>1. (v1 - v2) * (r1 + r2) = (r1 + r2) * (v1 - v2) /\ (v1 + v2) * (r1 - r2) = (r1 - r2) * (v1 + v2)
    BY <1>1, <1>2
  <2> QED BY <1>3, <2>1
<1>6. da + cb = cb + da /\ (da - cb) * (da - cb) = (cb - da) * (cb - da)
  BY <1>3
<1>7. Curve!Square(da - cb) = Curve!Square(cb - da)
  BY <1>6 DEF Curve!Square
<1>8. Curve!Ratio(Curve!Square(cb + da), u * Curve!Square(cb - da), s)
  BY <1>4, <1>6, <1>7
<1> QED BY <1>1, <1>2, <1>5, <1>8 DEF Curve!Adds

-----------------------------------------------------------------------------
(***************************************************************************)
(* The points a ladder passes, and the bits it passes them by.             *)
(***************************************************************************)
LEMMA InverseOf ==
  ASSUME NEW v \in Int
  PROVE  /\ Curve!Inverse(v) \in 0 .. Curve!P - 1
         /\ Curve!Mod(v) = 0 => Curve!Inverse(v) = 0
         /\ Curve!Mod(v) # 0 => Curve!Mod(Curve!Mod(v) * Curve!Inverse(v)) = 1
<1>1. PICK m \in Nat \ {0} : m = Curve!P
  BY FieldPrime
<1>2. PICK z \in 0 .. m - 1 : z = Curve!Mod(v)
  BY <1>1, ModCong
<1>3. Curve!Mod(z) = z
  BY <1>1, <1>2, OwnRest DEF Curve!Mod
<1>4. Curve!Inverse(v) = Curve!Inverse(z)
  BY <1>2, <1>3 DEF Curve!Inverse
<1>5. CASE z = 0
  BY <1>1, <1>2, <1>4, <1>5, CurveAssumption DEF Curve!FieldLaw
<1>6. CASE z # 0
  <2>1. z \in 1 .. Curve!P - 1
    BY <1>1, <1>2, <1>6
  <2> QED BY <1>1, <1>2, <1>4, <1>6, <2>1, CurveAssumption DEF Curve!FieldLaw
<1> QED BY <1>5, <1>6

\* The group law stays among points with residues for coordinates.
LEMMA ModInt == ASSUME NEW v \in Int PROVE Curve!Mod(v) \in Int
BY ModCong, FieldPrime

LEMMA PairPoint ==
  ASSUME NEW i \in 0 .. Curve!P - 1, NEW j \in 0 .. Curve!P - 1 PROVE Point(<<i, j>>)
<1>1. <<i, j>> # <<>>
  OBVIOUS
<1>2. <<i, j>>[1] = i /\ <<i, j>>[2] = j
  OBVIOUS
<1> QED BY <1>1, <1>2 DEF Point, Curve!Infinity

LEMMA ChordPoint ==
  ASSUME NEW u \in Int, NEW p, NEW q, Point(p), Point(q), p # Curve!Infinity, q # Curve!Infinity,
         NEW s \in Int
  PROVE  Point(Curve!Chord(u, p, q, s))
<1>1. PICK v1 \in Int, v2 \in Int : v1 = p[1] /\ v2 = p[2]
  BY FieldPrime DEF Point
<1>2. PICK w1 \in Int : w1 = q[1]
  BY FieldPrime DEF Point
<1>3. PICK m \in Int, a \in Int : m = Curve!P /\ a = Curve!A
  BY FieldPrime, LimbAssumption DEF Curve!A
<1>4. PICK c \in Int : c = Curve!CurveB(u)
  <2>1. PICK d \in Int : d = Curve!Mod(u + Curve!A)
    BY <1>3, ModInt
  <2>2. PICK e \in Int : e = Curve!Mod(u * d + 1)
    <3>1. u * d + 1 \in Int
      BY <2>1
    <3> QED BY <3>1, ModInt
  <2>3. u * e \in Int
    BY <2>2
  <2> QED BY <2>1, <2>2, <2>3, ModInt DEF Curve!CurveB
<1>5. PICK g \in Int : g = c * Curve!Mod(s * s) + 3 * m - a - v1 - w1
  <2>1. PICK d \in Int : d = Curve!Mod(s * s)
    <3>1. s * s \in Int
      OBVIOUS
    <3> QED BY <3>1, ModInt
  <2>2. PICK e \in Int : e = c * d
    BY <1>4, <2>1
  <2> QED BY <1>1, <1>2, <1>3, <2>1, <2>2
<1>6. PICK x \in 0 .. Curve!P - 1 : x = Curve!Mod(g)
  BY <1>5, ModCong
<1>7. PICK i \in 0 .. Curve!P - 1 : i = Curve!Mod(s * Curve!Mod(v1 + m - x) + m - v2)
  <2>1. PICK d \in Int : d = Curve!Mod(v1 + m - x)
    <3>1. v1 + m - x \in Int
      BY <1>1, <1>3, <1>6
    <3> QED BY <3>1, ModInt
  <2>2. PICK e \in Int : e = s * d
    BY <2>1
  <2>3. e + m - v2 \in Int
    BY <1>1, <1>3, <2>2
  <2> QED BY <2>1, <2>2, <2>3, ModCong
<1>8. Curve!Chord(u, p, q, s) = <<x, i>>
  BY <1>1, <1>2, <1>3, <1>4, <1>5, <1>6, <1>7 DEF Curve!Chord
<1> QED BY <1>6, <1>7, <1>8, PairPoint

LEMMA SlopeInt ==
  ASSUME NEW i \in Int, NEW j \in Int PROVE Curve!Mod(i * Curve!Inverse(j)) \in Int
<1>1. PICK w \in Int : w = Curve!Inverse(j)
  BY InverseOf, FieldPrime
<1>2. i * w \in Int
  BY <1>1
<1> QED BY <1>1, <1>2, ModInt

LEMMA PlusPoint ==
  ASSUME NEW u \in Int, NEW p, NEW q, Point(p), Point(q)
  PROVE  Point(Curve!Plus(u, p, q))
<1>1. CASE p = Curve!Infinity
  BY <1>1 DEF Curve!Plus
<1>2. CASE q = Curve!Infinity
  BY <1>2 DEF Curve!Plus
<1>3. CASE p # Curve!Infinity /\ q # Curve!Infinity
  <2>1. PICK v1 \in Int, v2 \in Int : v1 = p[1] /\ v2 = p[2]
    BY <1>3, FieldPrime DEF Point
  <2>2. PICK w1 \in Int, w2 \in Int : w1 = q[1] /\ w2 = q[2]
    BY <1>3, FieldPrime DEF Point
  <2>3. PICK m \in Int, a \in Int : m = Curve!P /\ a = Curve!A
    BY FieldPrime, LimbAssumption DEF Curve!A
  <2>4. Curve!Secant(p, q) \in Int
    <3>1. PICK d \in Int : d = Curve!Mod(w2 + m - v2)
      <4>1. w2 + m - v2 \in Int
        BY <2>1, <2>2, <2>3
      <4> QED BY <4>1, ModInt
    <3>2. w1 + m - v1 \in Int
      BY <2>1, <2>2, <2>3
    <3> QED BY <2>1, <2>2, <2>3, <3>1, <3>2, SlopeInt DEF Curve!Secant
  <2>5. Curve!Tangent(u, p) \in Int
    <3>1. PICK d \in Int : d = Curve!Mod(v1 * v1)
      <4>1. v1 * v1 \in Int
        BY <2>1
      <4> QED BY <4>1, ModInt
    <3>2. PICK e \in Int : e = a * v1
      BY <2>1, <2>3
    <3>3. 2 * a * v1 = 2 * e
      BY <2>1, <2>3, <3>2
    <3>4. 3 * d + 2 * e + 1 \in Int
      BY <3>1, <3>2
    <3>5. PICK i \in Int : i = Curve!Mod(3 * d + 2 * a * v1 + 1)
      BY <3>3, <3>4, ModInt
    <3>6. PICK c \in Int : c = Curve!CurveB(u)
      <4>1. PICK n \in Int : n = Curve!Mod(u + Curve!A)
        BY <2>3, ModInt
      <4>2. PICK o \in Int : o = Curve!Mod(u * n + 1)
        <5>1. u * n + 1 \in Int
          BY <4>1
        <5> QED BY <5>1, ModInt
      <4>3. u * o \in Int
        BY <4>2
      <4> QED BY <4>1, <4>2, <4>3, ModInt DEF Curve!CurveB
    <3>7. PICK j \in Int : j = 2 * Curve!Mod(c * v2)
      <4>1. c * v2 \in Int
        BY <2>1, <3>6
      <4> QED BY <4>1, ModInt
    <3> QED BY <2>1, <2>3, <3>1, <3>5, <3>6, <3>7, SlopeInt DEF Curve!Tangent
  <2>6. Point(Curve!Chord(u, p, q, Curve!Secant(p, q))) /\ Point(Curve!Chord(u, p, q, Curve!Tangent(u, p)))
    BY <1>3, <2>4, <2>5, ChordPoint
  <2>7. Point(Curve!Infinity)
    BY DEF Point
  <2> QED BY <1>3, <2>6, <2>7 DEF Curve!Plus
<1> QED BY <1>1, <1>2, <1>3

\* Clamping keeps a scalar within its bits.
LEMMA ScalarWithin ==
  ASSUME NEW s \in Scalars
  PROVE  Curve!DecodeScalar(s) \in Nat /\ Curve!DecodeScalar(s) < 2 ^ Curve!Bits
<1>1. s \in Nat /\ Curve!Bits \in 1 .. Curve!Bits /\ Curve!Bits - 1 \in 0 .. Curve!Bits
  BY LimbAssumption DEF Curve!Bits
<1>2. 2 ^ Curve!Bits = 2 * 2 ^ (Curve!Bits - 1)
  BY <1>1, RecursionAssumption
<1>3. PICK g \in Nat \ {0} : g = 2 ^ (Curve!Bits - 1)
  BY <1>1, RecursionAssumption
<1>4. PICK l \in 0 .. g - 1 : l = s % g
  BY <1>1, <1>3, Divided
<1>5. PICK n \in Nat : n = l \div 8 /\ 8 * n <= l
  <2>1. l \in Nat
    BY <1>4
  <2>2. l = 8 * (l \div 8) + (l % 8) /\ l % 8 \in 0 .. 7 /\ l \div 8 \in Nat
    BY <2>1, Divided
  <2> QED BY <2>2
<1>6. Curve!DecodeScalar(s) = g + 8 * n
  BY <1>3, <1>4, <1>5 DEF Curve!DecodeScalar
<1> QED BY <1>2, <1>3, <1>4, <1>5, <1>6

\* The bits of the scalar: what is above a bit, doubled, plus that bit.
LEMMA QuotientUnique ==
  ASSUME NEW b \in Nat \ {0}, NEW v \in Int, NEW q \in Int, NEW r \in 0 .. b - 1, v = b * q + r
  PROVE  v \div b = q
<1>1. PICK o \in Int, s \in 0 .. b - 1 : v = b * o + s /\ v \div b = o /\ v % b = s
  BY Euclid
<1>2. PICK x \in Int, y \in Int : x = b * q /\ y = b * o
  BY <1>1
<1>3. b * q + r <= b * o + b - 1 /\ b * o + s <= b * q + b - 1
  BY <1>1, <1>2
<1>4. r \in Nat /\ s \in Nat
  BY <1>1
<1>5. q <= o /\ o <= q
  BY <1>1, <1>3, <1>4, QuotientAtMost
<1> QED BY <1>1, <1>5

LEMMA HalfOf ==
  ASSUME NEW v \in Nat, NEW g \in Nat \ {0}
  PROVE  /\ (v \div g) \div 2 = v \div (2 * g) /\ (v \div g) % 2 \in {0, 1} /\ v \div g \in Nat
         /\ v \div g = 0 => v \div (2 * g) = 0 /\ (v \div g) % 2 = 0
<1>1. PICK q \in Int, r \in 0 .. g - 1 : v = g * q + r /\ v \div g = q /\ v % g = r
  BY Euclid
<1>2. q \in Nat
  BY <1>1, QuotientNat
<1>3. PICK o \in Int, e \in 0 .. 1 : q = 2 * o + e /\ q \div 2 = o /\ q % 2 = e
  BY <1>2, Euclid
<1>4. PICK n \in Nat \ {0} : n = 2 * g
  OBVIOUS
<1>5. PICK s \in 0 .. n - 1 : s = g * e + r
  <2>1. CASE e = 0
    BY <1>1, <1>4, <2>1
  <2>2. CASE e = 1
    BY <1>1, <1>4, <2>2
  <2> QED BY <1>3, <2>1, <2>2
<1>6. v = n * o + s
  <2>1. g * q = 2 * (g * o) + g * e
    BY <1>3
  <2>2. n * o = 2 * (g * o)
    BY <1>3, <1>4
  <2>3. PICK x \in Int, y \in Int, z \in Int : x = g * q /\ y = g * o /\ z = g * e
    BY <1>1, <1>3
  <2>4. PICK w \in Int : w = n * o
    BY <1>3, <1>4
  <2> QED BY <1>1, <1>5, <2>1, <2>2, <2>3, <2>4
<1>7. v \div n = o
  BY <1>4, <1>5, <1>6, QuotientUnique
<1> QED BY <1>1, <1>2, <1>3, <1>4, <1>7

\* A scalar's leading bits, and what each makes of the multiple so far.
LEMMA BitOf ==
  ASSUME NEW s \in Scalars, NEW i \in 1 .. Curve!Bits, NEW u \in Curve!Coordinates,
         NEW o \in Nat, o = Curve!DecodeScalar(s)
  PROVE  /\ o \div 2 ^ i \in Curve!Prefixes
         /\ (o \div 2 ^ (i - 1)) % 2 \in {0, 1}
         /\ Curve!Multiple(o \div 2 ^ (i - 1), u)
              = Curve!MoreBit(u, Curve!Multiple(o \div 2 ^ i, u), (o \div 2 ^ (i - 1)) % 2)
<1>1. i - 1 \in 0 .. Curve!Bits /\ i \in 0 .. Curve!Bits
  BY LimbAssumption DEF Curve!Bits
<1>2. PICK g \in Nat \ {0} : g = 2 ^ (i - 1) /\ 2 ^ i = 2 * g
  BY <1>1, RecursionAssumption
<1>3. PICK n \in Nat, e \in {0, 1} : n = o \div g /\ e = n % 2 /\ n \div 2 = o \div (2 * g)
  BY HalfOf
<1>4. n \in Curve!Prefixes /\ o \div 2 ^ i \in Curve!Prefixes
  BY <1>1, <1>2, <1>3 DEF Curve!Prefixes
<1>5. CASE n = 0
  <2>1. o \div (2 * g) = 0 /\ e = 0
    BY <1>3, <1>5, HalfOf
  <2>2. Curve!Multiple(0, u) = Curve!Infinity
    BY <1>4, <1>5, RecursionAssumption
  <2>3. Curve!MoreBit(u, Curve!Infinity, 0) = Curve!Infinity
    BY DEF Curve!MoreBit, Curve!Plus
  <2> QED BY <1>2, <1>3, <1>4, <1>5, <2>1, <2>2, <2>3
<1>6. CASE n # 0
  <2>1. Curve!Multiple(n, u) = Curve!MoreBit(u, Curve!Multiple(n \div 2, u), n % 2)
    BY <1>4, <1>6, RecursionAssumption
  <2> QED BY <1>2, <1>3, <1>4, <2>1
<1> QED BY <1>5, <1>6

\* The two points of a ladder, told from the limbs by whether they are swapped.
FirstPoint(s, a, b)  == IF s = 1 THEN b ELSE a
SecondPoint(s, a, b) == IF s = 1 THEN a ELSE b

\* The conditional swap.
LEMMA SwappedTo == ASSUME NEW s, NEW a, NEW b
  PROVE Curve!CSwapped(s, a, b)[1] = FirstPoint(s, a, b) /\ Curve!CSwapped(s, a, b)[2] = SecondPoint(s, a, b)
<1>1. <<a, b>>[1] = a /\ <<a, b>>[2] = b /\ <<b, a>>[1] = b /\ <<b, a>>[2] = a
  OBVIOUS
<1> QED BY <1>1 DEF FirstPoint, SecondPoint, Curve!CSwapped

\* They stand for a multiple of the point and the next one.
Climbing(s, a, c, b, d, u, p) ==
  /\ Point(p)
  /\ Curve!Stands(FirstPoint(s, a, b), FirstPoint(s, c, d), p)
  /\ Curve!Stands(SecondPoint(s, a, b), SecondPoint(s, c, d), Curve!Plus(u, p, <<u, 1>>))

\* The points that a turn of the ladder may reach are points.
LEMMA Successor ==
  ASSUME NEW u \in 0 .. Curve!P - 1, NEW p, Point(p)
  PROVE  /\ Point(<<u, 1>>) /\ Point(Curve!Plus(u, p, <<u, 1>>)) /\ Point(Curve!Plus(u, p, p))
         /\ Curve!P > 1 /\ u \in Int
<1>1. PICK b, f : FieldSizes(b, f)
  BY FieldSized
<1>2. Curve!P > 1
  <2>1. ASSUME NEW i \in Nat \ {0}, NEW j \in Nat \ {0}, 32 * j <= i PROVE i * i - j > 1
    <3>1. i * i >= 32 * i
      BY <2>1
    <3>2. PICK n \in Int : n = i * i
      OBVIOUS
    <3> QED BY <2>1, <3>1, <3>2
  <2> QED BY <1>1, <2>1 DEF FieldSizes
<1>3. u \in Int /\ 1 \in 0 .. Curve!P - 1
  BY <1>2, FieldPrime
<1>4. Point(<<u, 1>>)
  BY <1>3, PairPoint
<1> QED BY <1>2, <1>3, <1>4, PlusPoint

\* One turn of the loop: by the bit, the two double and add up to the next two.
LEMMA Climbs ==
  ASSUME NEW s \in {0, 1}, NEW bit \in {0, 1}, NEW a, NEW b, NEW c, NEW d, NEW w,
         Trim(a), Trim(b), Trim(c), Trim(d), Trim(w),
         NEW u \in Curve!Coordinates, u = Curve!Mod(Curve!Value(w)),
         NEW n \in Curve!Prefixes, NEW p, p = Curve!Multiple(n, u),
         Climbing(s, a, c, b, d, u, p),
         NEW sw, sw = (IF s = bit THEN 0 ELSE 1),
         NEW x, NEW z, NEW y, NEW v,
         x = FirstPoint(sw, a, b), z = FirstPoint(sw, c, d), y = SecondPoint(sw, a, b), v = SecondPoint(sw, c, d)
  PROVE  /\ Trim(DoubleX(x, z)) /\ Trim(DoubleZ(x, z)) /\ Trim(SumX(x, z, y, v)) /\ Trim(SumZ(w, x, z, y, v))
         /\ Climbing(bit, DoubleX(x, z), DoubleZ(x, z), SumX(x, z, y, v), SumZ(w, x, z, y, v),
                     u, Curve!MoreBit(u, p, bit))
<1>1. u \in 0 .. Curve!P - 1
  BY TrimInt, ModCong
<1> DEFINE q == <<u, 1>>  r == Curve!Plus(u, p, q)  twice == Curve!Plus(u, p, p)
           odd == Curve!Plus(u, twice, q)  even == Curve!Plus(u, odd, q)
<1>2. Curve!Doubles(p, twice) /\ Curve!Adds(u, p, r, odd) /\ Curve!Doubles(r, even)
  BY CurveAssumption DEF Curve!MontgomeryLaw
<1>3. Point(p) /\ Point(q) /\ Point(r) /\ Point(twice) /\ Point(odd) /\ Point(even)
  <2>1. Point(p)
    BY DEF Climbing
  <2>2. Point(q) /\ Point(r) /\ Point(twice)
    BY <1>1, <2>1, Successor
  <2>3. Point(odd)
    BY <1>1, <2>2, Successor
  <2> QED BY <1>1, <2>1, <2>2, <2>3, Successor
<1>4. Trim(x) /\ Trim(z) /\ Trim(y) /\ Trim(v)
  BY DEF FirstPoint, SecondPoint
<1> HIDE DEF q, twice, odd, even, r
<1>5. CASE bit = 0
  <2>1. Curve!Stands(x, z, p) /\ Curve!Stands(y, v, r)
    BY <1>5 DEF FirstPoint, SecondPoint, Climbing, r, q
  <2>2. /\ Trim(DoubleX(x, z)) /\ Trim(DoubleZ(x, z))
        /\ Curve!Stands(DoubleX(x, z), DoubleZ(x, z), twice)
    BY <1>2, <1>3, <1>4, <2>1, Doubled
  <2>3. /\ Trim(SumX(x, z, y, v)) /\ Trim(SumZ(w, x, z, y, v))
        /\ Curve!Stands(SumX(x, z, y, v), SumZ(w, x, z, y, v), odd)
    BY <1>2, <1>3, <1>4, <2>1, Summed
  <2>4. Curve!MoreBit(u, p, bit) = twice
    BY <1>5 DEF Curve!MoreBit, twice
  <2>5. Climbing(bit, DoubleX(x, z), DoubleZ(x, z), SumX(x, z, y, v), SumZ(w, x, z, y, v), u, twice)
    BY <1>3, <1>5, <2>2, <2>3 DEF Climbing, FirstPoint, SecondPoint, odd, q
  <2> QED BY <2>2, <2>3, <2>4, <2>5
<1>6. CASE bit = 1
  <2>1. Curve!Stands(x, z, r) /\ Curve!Stands(y, v, p)
    BY <1>6 DEF FirstPoint, SecondPoint, Climbing, r, q
  <2>2. /\ Trim(DoubleX(x, z)) /\ Trim(DoubleZ(x, z))
        /\ Curve!Stands(DoubleX(x, z), DoubleZ(x, z), even)
    BY <1>2, <1>3, <1>4, <2>1, Doubled
  <2>3. Curve!Adds(u, r, p, odd)
    BY <1>1, <1>2, <1>3, AddsEitherWay, FieldPrime
  <2>4. /\ Trim(SumX(x, z, y, v)) /\ Trim(SumZ(w, x, z, y, v))
        /\ Curve!Stands(SumX(x, z, y, v), SumZ(w, x, z, y, v), odd)
    BY <1>3, <1>4, <2>1, <2>3, Summed
  <2>5. Curve!MoreBit(u, p, bit) = odd
    BY <1>6 DEF Curve!MoreBit, odd, twice, q
  <2>6. Climbing(bit, DoubleX(x, z), DoubleZ(x, z), SumX(x, z, y, v), SumZ(w, x, z, y, v), u, odd)
    BY <1>3, <1>6, <2>2, <2>4 DEF Climbing, FirstPoint, SecondPoint, even, q
  <2> QED BY <2>2, <2>4, <2>5, <2>6
<1> QED BY <1>5, <1>6

-----------------------------------------------------------------------------
(***************************************************************************)
(* x25519: the invariant of the ladder, and what is returned.              *)
(***************************************************************************)
Fresh ==
  /\ x2 = <<1, 0>> /\ z2 = <<0, 0>> /\ x3 = <<0, 0>> /\ z3 = <<1, 0>>
  /\ swap = 0 /\ t = Curve!Bits /\ acc = Curve!Infinity

Bounded == Trim(x2) /\ Trim(z2) /\ Trim(x3) /\ Trim(z3)

\* The loop has taken the scalar's bits from t up.
Under(s, n) ==
  /\ s \in Scalars /\ k = Curve!DecodeScalar(s) /\ t = n /\ n \in 0 .. Curve!Bits
  /\ acc = Curve!Multiple(k \div 2 ^ n, Curve!U)

OnTheWay ==
  /\ Trim(x1) /\ Curve!U \in Curve!Coordinates /\ swap \in {0, 1}
  /\ \E s, n : Under(s, n)
  /\ Climbing(swap, x2, z2, x3, z3, Curve!U, acc)

Returned == out = (IF acc = Curve!Infinity THEN 0 ELSE acc[1])

Laddering ==
  /\ Bounded
  /\ pc = "idle" => Fresh
  /\ pc \in {"ladder", "done"} => OnTheWay
  /\ pc = "done" => Returned

\* The limbs of the first pair are 0 and 1.
LEMMA SmallLimbs ==
  ASSUME NEW i \in {0, 1}
  PROVE  Trim(<<i, 0>>) /\ Curve!Value(<<i, 0>>) = i /\ Curve!Mod(i) = i /\ Curve!P > 1
<1>1. PICK b, f : FieldSizes(b, f)
  BY FieldSized
<1>2. PICK v : v = <<i, 0>> /\ v[1] = i /\ v[2] = 0
  <2> <<i, 0>>[1] = i /\ <<i, 0>>[2] = 0
    OBVIOUS
  <2> QED OBVIOUS
<1>3. Trim(v)
  BY <1>1, <1>2 DEF Trim, LimbPair, FieldSizes
<1>4. Curve!Value(v) = i
  <2>1. b * 0 = 0
    BY <1>1 DEF FieldSizes
  <2> QED BY <1>1, <1>2, <2>1 DEF Curve!Value, FieldSizes
<1>5. Curve!P > 1
  <2>1. 0 \in 0 .. Curve!P - 1 /\ Point(Curve!Infinity)
    BY FieldPrime DEF Point
  <2> QED BY <2>1, Successor
<1>6. Curve!Mod(i) = i
  <2>1. i \in 0 .. Curve!P - 1
    BY <1>5, FieldPrime
  <2> QED BY <2>1, FieldPrime, OwnRest DEF Curve!Mod
<1> QED BY <1>2, <1>3, <1>4, <1>5, <1>6

\* decode_u makes trim limbs of any bytes.
LEMMA DecodedTrim == ASSUME NEW v \in Nat PROVE Trim(Curve!DecodeU(v))
<1>1. PICK b, f : FieldSizes(b, f)
  BY FieldSized
<1>2. b \in Nat \ {0} /\ b = Curve!Base
  BY <1>1 DEF FieldSizes
<1>3. PICK i \in 0 .. b - 1, n \in Nat : i = v % b /\ n = v \div b
  BY <1>2, Divided
<1>4. PICK j \in 0 .. b - 1 : j = n % b
  BY <1>2, <1>3, Divided
<1>5. Curve!DecodeU(v) = <<i, j>>
  BY <1>2, <1>3, <1>4 DEF Curve!DecodeU, Curve!Low, Curve!Carry
<1>6. <<i, j>>[1] = i /\ <<i, j>>[2] = j
  OBVIOUS
<1>7. j \in 0 .. 2 * b - 2
  BY <1>2, <1>4
<1> QED BY <1>2, <1>3, <1>5, <1>6, <1>7 DEF Trim, LimbPair

\* Before the first bit: the point at infinity, and the point.
LEMMA LadderStarts ==
  ASSUME NEW w, Trim(w), NEW u, u = Curve!Mod(Curve!Value(w))
  PROVE  Climbing(0, <<1, 0>>, <<0, 0>>, w, <<1, 0>>, u, Curve!Infinity)
<1>1. PICK i \in Int : i = Curve!Value(w)
  BY TrimInt
<1>2. u \in 0 .. Curve!P - 1 /\ u \in Int
  BY <1>1, ModCong, FieldPrime
<1>3. Curve!Mod(u) = u
  BY <1>2, FieldPrime, OwnRest DEF Curve!Mod
<1>4. Curve!Plus(u, Curve!Infinity, <<u, 1>>) = <<u, 1>>
  BY DEF Curve!Plus
<1>5. Curve!Stands(<<1, 0>>, <<0, 0>>, Curve!Infinity)
  BY SmallLimbs DEF Curve!Stands, Curve!Ratio
<1>6. Curve!Stands(w, <<1, 0>>, <<u, 1>>)
  <2>1. <<u, 1>> # Curve!Infinity /\ <<u, 1>>[1] = u
    BY DEF Curve!Infinity
  <2>2. u * 1 = u
    BY <1>2
  <2>3. Curve!Value(<<1, 0>>) = 1 /\ Curve!Mod(1) = 1
    BY SmallLimbs
  <2> QED BY <1>3, <2>1, <2>2, <2>3 DEF Curve!Stands, Curve!Ratio
<1>7. Point(Curve!Infinity)
  BY DEF Point
<1> QED BY <1>4, <1>5, <1>6, <1>7 DEF Climbing, FirstPoint, SecondPoint

\* A call: no bit taken, the points at infinity and at u.
LEMMA CallLadders == ASSUME Laddering, NEW s \in Scalars, NEW v \in Points, Curve!Call(s, v) PROVE Laddering'
<1>1. /\ pc = "idle" /\ pc' = "ladder" /\ k' = Curve!DecodeScalar(s)
      /\ x1' = Curve!DecodeU(v) /\ x3' = Curve!DecodeU(v)
      /\ x2' = x2 /\ z2' = z2 /\ z3' = z3 /\ swap' = swap /\ t' = t /\ acc' = acc
  BY DEF Curve!Call
<1>2. Fresh /\ Bounded
  BY <1>1 DEF Laddering
<1>3. Trim(Curve!DecodeU(v))
  BY LimbAssumption, DecodedTrim
<1>4. Bounded'
  BY <1>1, <1>2, <1>3 DEF Bounded
<1>5. PICK u : u = Curve!Mod(Curve!Value(Curve!DecodeU(v)))
  OBVIOUS
<1>6. Curve!U' = u /\ u \in Curve!Coordinates
  BY <1>1, <1>5 DEF Curve!U, Curve!Coordinates
<1>7. Climbing(swap, x2, z2, x3, z3, Curve!U, acc)'
  BY <1>1, <1>2, <1>3, <1>5, <1>6, LadderStarts DEF Fresh
<1>8. Under(s, Curve!Bits)'
  <2>1. Curve!Bits \in 0 .. Curve!Bits
    BY LimbAssumption DEF Curve!Bits
  <2>2. PICK o \in Nat, g \in Nat \ {0} : o = Curve!DecodeScalar(s) /\ g = 2 ^ Curve!Bits /\ o < g
    BY <2>1, ScalarWithin, RecursionAssumption
  <2>3. o \div g = 0
    BY <2>2
  <2>4. 0 \in Curve!Prefixes
    BY <2>1, <2>2, <2>3 DEF Curve!Prefixes
  <2>5. Curve!Multiple(0, u) = Curve!Infinity
    BY <1>6, <2>4, RecursionAssumption
  <2> QED BY <1>1, <1>2, <1>6, <2>1, <2>2, <2>3, <2>5 DEF Under, Fresh
<1>9. OnTheWay'
  BY <1>1, <1>2, <1>3, <1>6, <1>7, <1>8 DEF OnTheWay, Fresh
<1> QED BY <1>1, <1>4, <1>9 DEF Laddering

\* What a step makes of the limbs.
LEMMA StepIs ==
  ASSUME Curve!Step
  PROVE  \E sw, x, z, y, v :
           /\ sw = (IF swap = Curve!Bit(t - 1) THEN 0 ELSE 1)
           /\ x = FirstPoint(sw, x2, x3) /\ z = FirstPoint(sw, z2, z3)
           /\ y = SecondPoint(sw, x2, x3) /\ v = SecondPoint(sw, z2, z3)
           /\ x2' = DoubleX(x, z) /\ z2' = DoubleZ(x, z)
           /\ x3' = SumX(x, z, y, v) /\ z3' = SumZ(x1, x, z, y, v)
           /\ swap' = Curve!Bit(t - 1) /\ t' = t - 1 /\ t > 0 /\ pc = "ladder" /\ pc' = pc
           /\ k' = k /\ x1' = x1 /\ acc' = Curve!MoreBit(Curve!U, acc, Curve!Bit(t - 1))
<1> DEFINE sw == IF swap = Curve!Bit(t - 1) THEN 0 ELSE 1
           x == FirstPoint(sw, x2, x3)   z == FirstPoint(sw, z2, z3)
           y == SecondPoint(sw, x2, x3)  v == SecondPoint(sw, z2, z3)
<1>1. /\ Curve!CSwapped(sw, x2, x3)[1] = x /\ Curve!CSwapped(sw, x2, x3)[2] = y
      /\ Curve!CSwapped(sw, z2, z3)[1] = z /\ Curve!CSwapped(sw, z2, z3)[2] = v
  BY SwappedTo
<1>2. /\ swap' = Curve!Bit(t - 1) /\ t' = t - 1 /\ t > 0 /\ pc = "ladder" /\ pc' = pc
      /\ k' = k /\ x1' = x1 /\ acc' = Curve!MoreBit(Curve!U, acc, Curve!Bit(t - 1))
  BY DEF Curve!Step, Curve!LadderStep
<1>3. x2' = DoubleX(x, z) /\ z2' = DoubleZ(x, z) /\ x3' = SumX(x, z, y, v) /\ z3' = SumZ(x1, x, z, y, v)
  <2> HIDE DEF x, z, y, v
  <2> QED BY <1>1 DEF Curve!Step, Curve!LadderStep, sw, DoubleX, DoubleE, DoubleZ, SumX, SumZ, SumDA, SumCB
<1> QED BY <1>2, <1>3

\* A turn of the loop.
LEMMA StepLadders == ASSUME Laddering, Curve!Step PROVE Laddering'
<1>1. PICK sw, x, z, y, v :
           /\ sw = (IF swap = Curve!Bit(t - 1) THEN 0 ELSE 1)
           /\ x = FirstPoint(sw, x2, x3) /\ z = FirstPoint(sw, z2, z3)
           /\ y = SecondPoint(sw, x2, x3) /\ v = SecondPoint(sw, z2, z3)
           /\ x2' = DoubleX(x, z) /\ z2' = DoubleZ(x, z)
           /\ x3' = SumX(x, z, y, v) /\ z3' = SumZ(x1, x, z, y, v)
           /\ swap' = Curve!Bit(t - 1) /\ t' = t - 1 /\ t > 0 /\ pc = "ladder" /\ pc' = pc
           /\ k' = k /\ x1' = x1 /\ acc' = Curve!MoreBit(Curve!U, acc, Curve!Bit(t - 1))
  BY StepIs
<1>2. Bounded /\ OnTheWay
  BY <1>1 DEF Laddering
<1>3. PICK s, n : Under(s, n)
  BY <1>2 DEF OnTheWay
<1>4. PICK u : u = Curve!U
  OBVIOUS
<1>5. PICK o \in Nat : o = k
  BY <1>3, ScalarWithin DEF Under
<1>6. n \in 1 .. Curve!Bits /\ t = n /\ n - 1 \in 0 .. Curve!Bits
  <2>1. Curve!Bits \in Nat
    BY LimbAssumption DEF Curve!Bits
  <2> QED BY <1>1, <1>3, <2>1 DEF Under
<1>7. PICK bit \in {0, 1} : bit = Curve!Bit(t - 1) /\ bit = (o \div 2 ^ (n - 1)) % 2
  <2>1. (o \div 2 ^ (n - 1)) % 2 \in {0, 1}
    BY <1>2, <1>3, <1>5, <1>6, BitOf DEF Under, OnTheWay
  <2> QED BY <1>5, <1>6, <2>1 DEF Curve!Bit
<1>8. /\ o \div 2 ^ n \in Curve!Prefixes /\ acc = Curve!Multiple(o \div 2 ^ n, u)
      /\ Curve!Multiple(o \div 2 ^ (n - 1), u) = Curve!MoreBit(u, acc, bit)
  <2>1. u \in Curve!Coordinates /\ s \in Scalars /\ o = Curve!DecodeScalar(s)
        /\ acc = Curve!Multiple(o \div 2 ^ n, u)
    BY <1>2, <1>3, <1>4, <1>5 DEF Under, OnTheWay
  <2> QED BY <1>6, <1>7, <2>1, BitOf
<1>9. /\ Trim(x2') /\ Trim(z2') /\ Trim(x3') /\ Trim(z3')
      /\ Climbing(bit, x2', z2', x3', z3', u, Curve!MoreBit(u, acc, bit))
  <2>1. Trim(x2) /\ Trim(z2) /\ Trim(x3) /\ Trim(z3) /\ Trim(x1)
    BY <1>2 DEF Bounded, OnTheWay
  <2>2. u \in Curve!Coordinates /\ u = Curve!Mod(Curve!Value(x1)) /\ swap \in {0, 1}
    BY <1>2, <1>4 DEF OnTheWay, Curve!U
  <2>3. Climbing(swap, x2, z2, x3, z3, u, acc)
    BY <1>2, <1>4 DEF OnTheWay
  <2> QED BY <1>1, <1>7, <1>8, <2>1, <2>2, <2>3, Climbs
<1>10. Curve!U' = u
  BY <1>1, <1>4 DEF Curve!U
<1>11. Under(s, n - 1)'
  BY <1>1, <1>3, <1>4, <1>5, <1>6, <1>7, <1>8, <1>10 DEF Under
<1>12. OnTheWay'
  BY <1>1, <1>2, <1>4, <1>7, <1>9, <1>10, <1>11 DEF OnTheWay
<1> QED BY <1>1, <1>9, <1>12 DEF Laddering, Bounded

\* The inverse on limbs, and what a division gives.
LEMMA InverseLimbs ==
  ASSUME NEW z, Trim(z)
  PROVE  Wide(Curve!FInvert(z)) /\ Curve!Value(Curve!FInvert(z)) = Curve!Inverse(Curve!Value(z))
<1>1. PICK b, f : FieldSizes(b, f)
  BY FieldSized
<1>2. /\ b \in Nat \ {0} /\ f \in Nat \ {0} /\ b = Curve!Base /\ Curve!P = b * b - f
  BY <1>1 DEF FieldSizes
<1>3. PICK w \in 0 .. Curve!P - 1 : w = Curve!Inverse(Curve!Value(z))
  BY TrimInt, InverseOf
<1>4. w \in Nat /\ w <= b * b - 1
  <2>1. PICK n \in Int : n = b * b
    BY <1>2
  <2> QED BY <1>2, <1>3, <2>1
<1>5. PICK q \in Int, r \in 0 .. b - 1 : w = b * q + r /\ w \div b = q /\ w % b = r
  BY <1>2, <1>4, Euclid
<1>6. q \in Nat
  BY <1>2, <1>4, <1>5, QuotientNat
<1>7. q <= b - 1
  <2>1. PICK n \in Int : n = b - 1
    BY <1>2
  <2>2. b * n = b * b - b
    BY <1>2, <2>1
  <2>3. PICK x \in Int, y \in Int, o \in Int : x = b * q /\ y = b * n /\ o = b * b
    BY <1>2, <1>5, <2>1
  <2>4. b * q + r <= b * n + b - 1
    BY <1>2, <1>4, <1>5, <2>2, <2>3
  <2>5. r \in Nat
    BY <1>5
  <2>6. q <= n
    BY <1>2, <1>5, <2>1, <2>4, <2>5, QuotientAtMost
  <2> QED BY <2>1, <2>6
<1>8. PICK v : v = <<r, q>> /\ v[1] = r /\ v[2] = q
  <2> <<r, q>>[1] = r /\ <<r, q>>[2] = q
    OBVIOUS
  <2> QED OBVIOUS
<1>9. Curve!FInvert(z) = v
  BY <1>2, <1>3, <1>5, <1>8 DEF Curve!FInvert, Curve!Low, Curve!Carry
<1>10. Wide(v)
  BY <1>2, <1>5, <1>6, <1>7, <1>8 DEF Wide, LimbPair
<1>11. Curve!Value(v) = w
  <2>1. PICK x \in Int : x = b * q
    BY <1>2, <1>5
  <2> QED BY <1>2, <1>5, <1>8, <2>1 DEF Curve!Value
<1> QED BY <1>3, <1>9, <1>10, <1>11

\* The division: the residue x / z, canonical, 0 where z is.
LEMMA Divides ==
  ASSUME NEW x, NEW z, Trim(x), Trim(z), NEW p, Point(p), Curve!Stands(x, z, p)
  PROVE  Curve!Encode(Curve!FMul(x, Curve!FInvert(z))) = (IF p = Curve!Infinity THEN 0 ELSE p[1])
<1>1. PICK i \in Int, j \in Int : i = Curve!Value(x) /\ j = Curve!Value(z)
  BY TrimInt
<1>2. PICK w \in Int : w = Curve!Inverse(j)
  BY <1>1, InverseOf, FieldPrime
<1>3. PICK m \in Nat \ {0} : m = Curve!P
  BY FieldPrime
<1>4. /\ Trim(Curve!FMul(x, Curve!FInvert(z)))
      /\ Cong(Curve!Value(Curve!FMul(x, Curve!FInvert(z))), i * w, m)
  BY <1>1, <1>2, <1>3, InverseLimbs, ProductField, TrimWide
<1>5. Curve!Encode(Curve!FMul(x, Curve!FInvert(z))) = (i * w) % m
  <2>1. Curve!Encode(Curve!FMul(x, Curve!FInvert(z))) = Curve!Value(Curve!FMul(x, Curve!FInvert(z))) % m
    BY <1>3, <1>4, Canonical
  <2> QED BY <1>3, <1>4, <2>1, CongSame
<1>6. Curve!Ratio(i, j, p)
  BY <1>1 DEF Curve!Stands
<1>7. CASE p = Curve!Infinity
  <2>1. w = 0
    BY <1>2, <1>6, <1>7, InverseOf DEF Curve!Ratio
  <2>2. i * w = 0
    BY <1>1, <2>1
  <2>3. 0 % m = 0
    BY <1>3, OwnRest
  <2> QED BY <1>5, <1>7, <2>2, <2>3
<1>8. CASE p # Curve!Infinity
  <2>1. PICK c \in 0 .. m - 1 : c = p[1]
    BY <1>3, <1>8 DEF Point
  <2>2. PICK d \in Int : d = Curve!Mod(j)
    BY <1>1, ModInt
  <2>3. d # 0 /\ Curve!Mod(i) = Curve!Mod(c * d) /\ Curve!Mod(d * w) = 1
    BY <1>1, <1>2, <1>6, <1>8, <2>1, <2>2, InverseOf DEF Curve!Ratio
  <2>4. c * d \in Int /\ d * w \in Int /\ i * w \in Int /\ c \in Int /\ m \in Int
    BY <1>1, <1>2, <2>1, <2>2
  <2>5. Cong(i, Curve!Mod(i), m) /\ Cong(Curve!Mod(i), c * d, m) /\ Cong(d * w, 1, m)
    <3>1. Cong(Curve!Mod(c * d), c * d, m) /\ Cong(i, Curve!Mod(i), m)
      BY <1>1, <1>3, <2>4, ModCong
    <3>2. Cong(d * w, Curve!Mod(d * w), m)
      BY <1>3, <2>4, ModCong
    <3> QED BY <2>3, <3>1, <3>2
  <2>6. Cong(i, c * d, m)
    BY <2>4, <2>5, CongTrans
  <2>7. Cong(i * w, (c * d) * w, m)
    BY <1>2, <2>4, <2>6, CongMul, CongRefl
  <2>8. (c * d) * w = c * (d * w) /\ c * 1 = c
    BY <1>2, <2>1, <2>2
  <2>9. Cong(c * (d * w), c * 1, m)
    BY <2>4, <2>5, CongMul, CongRefl
  <2>10. Cong(i * w, c, m)
    BY <2>4, <2>7, <2>8, <2>9, CongTrans
  <2>11. (i * w) % m = c % m
    BY <1>3, <2>10, CongSame
  <2>12. c % m = c
    BY <1>3, <2>1, OwnRest
  <2> QED BY <1>5, <1>8, <2>1, <2>11, <2>12
<1> QED BY <1>7, <1>8

\* The last swap and the division.
LEMMA ReturnLadders == ASSUME Laddering, Curve!Return PROVE Laddering'
<1> DEFINE x == FirstPoint(swap, x2, x3)  z == FirstPoint(swap, z2, z3)
<1>1. /\ pc = "ladder" /\ pc' = "done" /\ k' = k /\ x1' = x1 /\ x2' = x2 /\ z2' = z2 /\ x3' = x3
      /\ z3' = z3 /\ swap' = swap /\ t' = t /\ acc' = acc
  BY DEF Curve!Return
<1>2. out' = Curve!Encode(Curve!FMul(x, Curve!FInvert(z)))
  <2>1. Curve!CSwapped(swap, x2, x3)[1] = x /\ Curve!CSwapped(swap, z2, z3)[1] = z
    BY SwappedTo
  <2> HIDE DEF x, z
  <2> QED BY <2>1 DEF Curve!Return
<1>3. Bounded /\ OnTheWay
  BY <1>1 DEF Laddering
<1>4. Trim(x) /\ Trim(z)
  BY <1>3 DEF Bounded, FirstPoint
<1>5. Point(acc) /\ Curve!Stands(x, z, acc)
  BY <1>3 DEF OnTheWay, Climbing
<1> HIDE DEF x, z
<1>6. Returned'
  BY <1>1, <1>2, <1>4, <1>5, Divides DEF Returned
<1>7. Bounded'
  BY <1>1, <1>3 DEF Bounded
<1>8. Curve!U' = Curve!U
  BY <1>1 DEF Curve!U
<1>9. PICK s, n : Under(s, n)
  BY <1>3 DEF OnTheWay
<1>10. Under(s, n)'
  BY <1>1, <1>8, <1>9 DEF Under
<1>11. OnTheWay'
  BY <1>1, <1>3, <1>8, <1>10 DEF OnTheWay
<1> QED BY <1>1, <1>6, <1>7, <1>11 DEF Laddering

\* Every step keeps the ladder's invariant.
LEMMA LadderingStays == ASSUME Laddering, [Curve!Next]_curve PROVE Laddering'
<1>1. ASSUME UNCHANGED <<k, x1, x2, z2, x3, z3, swap, t, out, acc>>, pc' = pc \/ pc' = "invert"
      PROVE  Laddering'
  <2>1. Bounded'
    BY <1>1 DEF Laddering, Bounded
  <2>2. Curve!U' = Curve!U
    BY <1>1 DEF Curve!U
  <2>3. ASSUME OnTheWay PROVE OnTheWay'
    <3>1. PICK s, n : Under(s, n)
      BY <2>3 DEF OnTheWay
    <3>2. Under(s, n)'
      BY <1>1, <2>2, <3>1 DEF Under
    <3> QED BY <1>1, <2>2, <2>3, <3>2 DEF OnTheWay
  <2>4. Fresh => Fresh'
    BY <1>1 DEF Fresh
  <2>5. Returned => Returned'
    BY <1>1 DEF Returned
  <2> QED BY <1>1, <2>1, <2>3, <2>4, <2>5 DEF Laddering
<1>2. CASE UNCHANGED curve
  BY <1>1, <1>2 DEF curve
<1>3. CASE Curve!Invert
  BY <1>1, <1>3 DEF Curve!Invert, Curve!ladderVars
<1> QED BY <1>2, <1>3, CallLadders, StepLadders, ReturnLadders DEF Curve!Next

\* The limbs, the points and the result are what the ladder promises.
LEMMA LadderingComputes == ASSUME Laddering PROVE Curve!LadderComputes
<1>1. ASSUME NEW v, Trim(v), NEW i \in {1, 2} PROVE v[i] \in 0 .. 2 ^ (WordBits - 2) - 1
  <2>1. PICK b, f : FieldSizes(b, f)
    BY FieldSized
  <2>2. b \in Nat \ {0} /\ b = Curve!Base
    BY <2>1 DEF FieldSizes
  <2>3. PICK n : n = 2 ^ (WordBits - 2)
    OBVIOUS
  <2>4. v[1] \in 0 .. b - 1 /\ v[2] \in 0 .. 2 * b - 2
    BY <1>1, <2>2 DEF Trim, LimbPair
  <2>5. 2 * b <= n /\ n \in Int
    BY <2>2, <2>3, LimbAssumption
  <2>6. v[i] \in 0 .. n - 1
    BY <1>1, <2>2, <2>4, <2>5
  <2> QED BY <2>3, <2>6
<1>2. \A v \in {x2, z2, x3, z3} : \A i \in {1, 2} : v[i] \in 0 .. 2 ^ (WordBits - 2) - 1
  BY <1>1 DEF Laddering, Bounded
<1>3. ASSUME pc \in {"ladder", "done"}
      PROVE  /\ Curve!Stands(Curve!Pair[1][1], Curve!Pair[2][1], acc)
             /\ Curve!Stands(Curve!Pair[1][2], Curve!Pair[2][2], Curve!Plus(Curve!U, acc, Curve!Q))
  <2>1. Climbing(swap, x2, z2, x3, z3, Curve!U, acc)
    BY <1>3 DEF Laddering, OnTheWay
  <2>2. /\ Curve!Pair[1] = Curve!CSwapped(swap, x2, x3) /\ Curve!Pair[2] = Curve!CSwapped(swap, z2, z3)
    BY DEF Curve!Pair
  <2> QED BY <2>1, <2>2, SwappedTo DEF Climbing, Curve!Q
<1> QED BY <1>2, <1>3 DEF Laddering, Returned, Curve!LadderComputes

-----------------------------------------------------------------------------
(***************************************************************************)
(* finvert: the exponents of its lines.  The first are numbers, the next   *)
(* one less than a power of two, the last 21 less than 2^255.              *)
(***************************************************************************)
Tells(l, e, m) ==
  /\ e \in Int
  /\ l = "z" => Cong(e, 1, m)
  /\ l = "z2" => Cong(e, 2, m)
  /\ l = "t" => Cong(e, 8, m)
  /\ l = "z9" => Cong(e, 9, m)
  /\ l = "z11" => Cong(e, 11, m)
  /\ l = "z2_5_0" => Cong(e + 1, Curve!TwoTo(5, m), m)
  /\ l = "z2_10_0" => Cong(e + 1, Curve!TwoTo(10, m), m)
  /\ l = "z2_20_0" => Cong(e + 1, Curve!TwoTo(20, m), m)
  /\ l = "z2_40_0" => Cong(e + 1, Curve!TwoTo(40, m), m)
  /\ l = "z2_50_0" => Cong(e + 1, Curve!TwoTo(50, m), m)
  /\ l = "z2_100_0" => Cong(e + 1, Curve!TwoTo(100, m), m)
  /\ l = "z2_200_0" => Cong(e + 1, Curve!TwoTo(200, m), m)
  /\ l = "t250" => Cong(e + 1, Curve!TwoTo(250, m), m)
  /\ l = "inverse" => Cong(e + 21, Curve!TwoTo(255, m), m)

\* n doublings after others multiply by what n doublings make of 1.
Shifts(n, m) ==
  \A a \in 0 .. 255 : a + n <= 255 => Cong(Curve!TwoTo(a + n, m), Curve!TwoTo(a, m) * Curve!TwoTo(n, m), m)

\* Powers of two, modulo m, are numbers.
LEMMA TwoToInt ==
  ASSUME NEW m \in Primes, NEW n \in 0 .. 255 PROVE Curve!TwoTo(n, m) \in Int /\ m \in Nat \ {0} /\ m \in Int
<1>1. m \in Nat \ {0}
  BY LimbAssumption
<1>2. Curve!TwoTo(n, m) \in Nat
  BY RecursionAssumption
<1> QED BY <1>1, <1>2

LEMMA RestCong ==
  ASSUME NEW m \in Nat \ {0}, NEW a \in Int PROVE \E x \in Int : x = a % m /\ Cong(x, a, m)
<1>1. Cong(a % m, a, m)
  BY CongRest
<1> QED BY <1>1 DEF Cong

\* Doubling once, and n times after o times.
LEMMA ShiftsOne == ASSUME NEW m \in Primes PROVE Shifts(1, m) /\ Cong(Curve!TwoTo(1, m), 2, m)
<1>1. Curve!TwoTo(1, m) = 2 % m
  <2>1. Curve!TwoTo(1, m) = (2 * Curve!TwoTo(1 - 1, m)) % m /\ Curve!TwoTo(0, m) = 1
    BY RecursionAssumption
  <2>2. 1 - 1 = 0 /\ 2 * 1 = 2
    OBVIOUS
  <2> QED BY <2>1, <2>2
<1>2. Cong(Curve!TwoTo(1, m), 2, m) /\ Cong(2, Curve!TwoTo(1, m), m)
  BY <1>1, LimbAssumption, CongRest
<1>3. ASSUME NEW a \in 0 .. 255, a + 1 <= 255
      PROVE  Cong(Curve!TwoTo(a + 1, m), Curve!TwoTo(a, m) * Curve!TwoTo(1, m), m)
  <2>1. PICK b \in 1 .. 255 : b = a + 1 /\ b - 1 = a
    BY <1>3
  <2>2. PICK v \in Int : v = Curve!TwoTo(a, m)
    BY TwoToInt
  <2>3. PICK w \in Int : w = Curve!TwoTo(1, m)
    BY TwoToInt
  <2>4. Curve!TwoTo(b, m) = (2 * v) % m
    BY <2>1, <2>2, RecursionAssumption
  <2>5. 2 * v \in Int /\ v * 2 = 2 * v /\ m \in Int /\ m \in Nat \ {0}
    <3>1. m \in Int /\ m \in Nat \ {0}
      BY TwoToInt, <2>1
    <3> QED BY <2>2, <3>1
  <2>6. Cong(Curve!TwoTo(b, m), 2 * v, m)
    BY <2>4, <2>5, CongRest
  <2>7. Cong(v * 2, v * w, m)
    BY <1>2, <2>2, <2>3, <2>5, CongMul, CongRefl
  <2>8. Cong(Curve!TwoTo(b, m), v * w, m)
    BY <2>5, <2>6, <2>7, CongTrans
  <2> QED BY <2>1, <2>2, <2>3, <2>8
<1> QED BY <1>2, <1>3 DEF Shifts

LEMMA ShiftsTogether ==
  ASSUME NEW m \in Primes, NEW n \in 0 .. 255, NEW o \in 0 .. 255, n + o <= 255,
         Shifts(n, m), Shifts(o, m), NEW i, i = n + o
  PROVE  Shifts(i, m) /\ Cong(Curve!TwoTo(i, m), Curve!TwoTo(n, m) * Curve!TwoTo(o, m), m)
<1>1. Cong(Curve!TwoTo(i, m), Curve!TwoTo(n, m) * Curve!TwoTo(o, m), m)
  BY DEF Shifts
<1>2. ASSUME NEW a \in 0 .. 255, a + i <= 255
      PROVE  Cong(Curve!TwoTo(a + i, m), Curve!TwoTo(a, m) * Curve!TwoTo(i, m), m)
  <2>1. PICK b \in 0 .. 255 : b = a + n /\ b + o = a + i /\ b + o <= 255
    BY <1>2
  <2>2. PICK v \in Int, w \in Int, y \in Int : v = Curve!TwoTo(a, m) /\ w = Curve!TwoTo(n, m) /\ y = Curve!TwoTo(o, m)
    BY TwoToInt
  <2>3. PICK z \in Int, c \in Int : z = Curve!TwoTo(b, m) /\ c = Curve!TwoTo(i, m)
    <3>1. i \in 0 .. 255
      BY <1>2
    <3> QED BY <2>1, <3>1, TwoToInt
  <2>4. Cong(Curve!TwoTo(b + o, m), z * y, m)
    BY <2>1, <2>2, <2>3 DEF Shifts
  <2>5. Cong(z, v * w, m)
    <3>1. a + n <= 255
      BY <1>2
    <3>2. Cong(Curve!TwoTo(a + n, m), Curve!TwoTo(a, m) * Curve!TwoTo(n, m), m)
      BY <3>1 DEF Shifts
    <3> QED BY <2>1, <2>2, <2>3, <3>2
  <2>6. m \in Int
    BY TwoToInt
  <2>7. Cong(z * y, (v * w) * y, m)
    BY <2>2, <2>5, <2>6, CongMul, CongRefl
  <2>8. Cong(w * y, c, m)
    BY <1>1, <2>2, <2>3, <2>6, CongSym
  <2>9. Cong(v * (w * y), v * c, m)
    BY <2>2, <2>6, <2>8, CongMul, CongRefl
  <2>10. (v * w) * y = v * (w * y)
    BY <2>2
  <2>11. Cong(Curve!TwoTo(b + o, m), v * c, m)
    <3>1. Cong(Curve!TwoTo(b + o, m), (v * w) * y, m)
      BY <2>4, <2>6, <2>7, CongTrans
    <3> QED BY <2>6, <2>9, <2>10, <3>1, CongTrans
  <2> QED BY <2>1, <2>2, <2>3, <2>11
<1> QED BY <1>1, <1>2 DEF Shifts

\* The powers that the lines use.
LEMMA ShiftsAll ==
  ASSUME NEW m \in Primes
  PROVE  /\ Shifts(5, m) /\ Shifts(10, m) /\ Shifts(20, m) /\ Shifts(50, m) /\ Shifts(100, m)
         /\ Cong(Curve!TwoTo(1, m), 2, m) /\ Cong(Curve!TwoTo(2, m), 4, m) /\ Cong(Curve!TwoTo(5, m), 32, m)
<1>1. Shifts(1, m) /\ Cong(Curve!TwoTo(1, m), 2, m) /\ m \in Int
  <2>1. 1 \in 0 .. 255
    OBVIOUS
  <2> QED BY <2>1, ShiftsOne, TwoToInt
<1>2. Shifts(2, m) /\ Cong(Curve!TwoTo(2, m), 4, m)
  <2>1. Shifts(2, m) /\ Cong(Curve!TwoTo(2, m), Curve!TwoTo(1, m) * Curve!TwoTo(1, m), m)
    <3>1. 1 \in 0 .. 255 /\ 1 \in 0 .. 255 /\ 1 + 1 <= 255 /\ 2 = 1 + 1
      OBVIOUS
    <3> QED BY <1>1, <3>1, ShiftsTogether
  <2>2. Cong(Curve!TwoTo(1, m) * Curve!TwoTo(1, m), 2 * 2, m)
    BY <1>1, CongMul
  <2> QED BY <1>1, <2>1, <2>2, CongTrans
<1>3. Shifts(4, m) /\ Cong(Curve!TwoTo(4, m), 16, m)
  <2>1. Shifts(4, m) /\ Cong(Curve!TwoTo(4, m), Curve!TwoTo(2, m) * Curve!TwoTo(2, m), m)
    <3>1. 2 \in 0 .. 255 /\ 2 \in 0 .. 255 /\ 2 + 2 <= 255 /\ 4 = 2 + 2
      OBVIOUS
    <3> QED BY <1>2, <3>1, ShiftsTogether
  <2>2. Cong(Curve!TwoTo(2, m) * Curve!TwoTo(2, m), 4 * 4, m)
    BY <1>1, <1>2, CongMul
  <2> QED BY <1>1, <2>1, <2>2, CongTrans
<1>4. Shifts(5, m) /\ Cong(Curve!TwoTo(5, m), 32, m)
  <2>1. Shifts(5, m) /\ Cong(Curve!TwoTo(5, m), Curve!TwoTo(4, m) * Curve!TwoTo(1, m), m)
    <3>1. 4 \in 0 .. 255 /\ 1 \in 0 .. 255 /\ 4 + 1 <= 255 /\ 5 = 4 + 1
      OBVIOUS
    <3> QED BY <1>1, <1>3, <3>1, ShiftsTogether
  <2>2. Cong(Curve!TwoTo(4, m) * Curve!TwoTo(1, m), 16 * 2, m)
    BY <1>1, <1>3, CongMul
  <2> QED BY <1>1, <2>1, <2>2, CongTrans
<1>5. Shifts(10, m)
  <2>1. 5 \in 0 .. 255 /\ 5 \in 0 .. 255 /\ 5 + 5 <= 255 /\ 10 = 5 + 5
    OBVIOUS
  <2> QED BY <1>4, <2>1, ShiftsTogether
<1>6. Shifts(20, m)
  <2>1. 10 \in 0 .. 255 /\ 10 \in 0 .. 255 /\ 10 + 10 <= 255 /\ 20 = 10 + 10
    OBVIOUS
  <2> QED BY <1>5, <2>1, ShiftsTogether
<1>7. Shifts(40, m)
  <2>1. 20 \in 0 .. 255 /\ 20 \in 0 .. 255 /\ 20 + 20 <= 255 /\ 40 = 20 + 20
    OBVIOUS
  <2> QED BY <1>6, <2>1, ShiftsTogether
<1>8. Shifts(50, m)
  <2>1. 10 \in 0 .. 255 /\ 40 \in 0 .. 255 /\ 10 + 40 <= 255 /\ 50 = 10 + 40
    OBVIOUS
  <2> QED BY <1>5, <1>7, <2>1, ShiftsTogether
<1>9. Shifts(100, m)
  <2>1. PICK n \in 0 .. 255 : n = 50
    OBVIOUS
  <2>2. n + n <= 255 /\ 100 = n + n
    BY <2>1
  <2>3. Shifts(n, m)
    BY <1>8, <2>1
  <2>4. \A i : i = n + n => Shifts(i, m)
    BY <2>2, <2>3, ShiftsTogether
  <2> QED BY <2>2, <2>4
<1> QED BY <1>1, <1>2, <1>4, <1>5, <1>6, <1>8, <1>9

\* What a line makes of small exponents ...
LEMMA SmallLine ==
  ASSUME NEW m \in Primes, NEW e, NEW n \in 0 .. 255, NEW g, NEW c \in Int, NEW w \in Int, NEW d \in Int,
         Cong(e, c, m), Cong(Curve!TwoTo(n, m), w, m), Cong(g, d, m), NEW v, v = c * w + d
  PROVE  (e * Curve!TwoTo(n, m) + g) % m \in Int /\ Cong((e * Curve!TwoTo(n, m) + g) % m, v, m)
<1>1. PICK y \in Int : y = Curve!TwoTo(n, m)
  BY TwoToInt
<1>2. m \in Int /\ m \in Nat \ {0} /\ e \in Int /\ g \in Int
  BY TwoToInt DEF Cong
<1>3. Cong(e * y + g, v, m)
  BY <1>1, <1>2, CongMul, CongAdd
<1>4. e * y + g \in Int
  BY <1>1, <1>2
<1>5. PICK x \in Int : x = (e * y + g) % m /\ Cong(x, e * y + g, m)
  BY <1>2, <1>4, RestCong
<1>6. Cong(x, v, m)
  BY <1>2, <1>3, <1>5, CongTrans
<1> QED BY <1>1, <1>5, <1>6

\* ... and of one less than powers of two, plus what is more than that.
LEMMA BigLine ==
  ASSUME NEW m \in Primes, NEW e, NEW g, NEW o \in 0 .. 255, NEW n \in 0 .. 255, Shifts(n, m),
         NEW i, i = o + n, i <= 255, e \in Int, g \in Int, NEW d \in Int,
         Cong(e + 1, Curve!TwoTo(o, m), m), Cong(g + d, Curve!TwoTo(n, m), m)
  PROVE  /\ (e * Curve!TwoTo(n, m) + g) % m \in Int
         /\ Cong(((e * Curve!TwoTo(n, m) + g) % m) + d, Curve!TwoTo(i, m), m)
<1>1. PICK y \in Int, z \in Int : y = Curve!TwoTo(n, m) /\ z = Curve!TwoTo(o, m)
  BY TwoToInt
<1>2. m \in Int /\ m \in Nat \ {0}
  BY TwoToInt
<1>3. Cong(Curve!TwoTo(i, m), z * y, m)
  BY <1>1 DEF Shifts
<1>4. Cong(z * y, Curve!TwoTo(i, m), m)
  BY <1>2, <1>3, CongSym
<1>5. Cong((e + 1) * y, z * y, m)
  BY <1>1, <1>2, CongMul, CongRefl
<1>6. Cong(y, g + d, m)
  BY <1>1, <1>2, CongSym
<1>7. PICK j \in Int : j = e * y
  BY <1>1
<1>8. (e + 1) * y = j + y
  BY <1>1, <1>7
<1>9. Cong(j + (g + d), (e + 1) * y, m)
  <2>1. Cong(g + d, y, m) /\ Cong(j, j, m)
    BY <1>1, <1>2, <1>7, CongRefl
  <2> QED BY <1>2, <1>8, <2>1, CongAdd
<1>10. Cong(j + (g + d), Curve!TwoTo(i, m), m)
  <2>1. Cong(j + (g + d), z * y, m)
    BY <1>2, <1>5, <1>9, CongTrans
  <2> QED BY <1>2, <1>4, <2>1, CongTrans
<1>11. j + g \in Int
  BY <1>7
<1>12. PICK x \in Int : x = (j + g) % m /\ Cong(x, j + g, m)
  BY <1>2, <1>11, RestCong
<1>13. Cong(x + d, (j + g) + d, m)
  BY <1>2, <1>12, CongAdd, CongRefl
<1>14. (j + g) + d = j + (g + d)
  BY <1>7
<1>15. Cong(x + d, Curve!TwoTo(i, m), m)
  BY <1>2, <1>10, <1>13, <1>14, CongTrans
<1> QED BY <1>1, <1>7, <1>12, <1>15

-----------------------------------------------------------------------------
\* The lines of the chain, one by one.
LEMMA LineOf ==
  ASSUME NEW dst, NEW src, NEW n, NEW mul, NEW l, l = Curve!Line(dst, src, n, mul)
  PROVE  l.dst = dst /\ l.src = src /\ l.n = n /\ l.mul = mul
BY DEF Curve!Line

\* The i-th line is the given one, and i says where it stands.
IsLine(i, place, dst, src, n, mul) ==
  /\ i = place
  /\ Curve!Chain[i].dst = dst /\ Curve!Chain[i].src = src
  /\ Curve!Chain[i].n = n /\ Curve!Chain[i].mul = mul

LEMMA ChainIs ==
  /\ Len(Curve!Chain) = 13
  /\ IsLine(1, 1, "z2", "z", 1, Curve!One)
  /\ IsLine(2, 2, "t", "z2", 2, Curve!One)
  /\ IsLine(3, 3, "z9", "t", 0, "z")
  /\ IsLine(4, 4, "z11", "z9", 0, "z2")
  /\ IsLine(5, 5, "z2_5_0", "z11", 1, "z9")
  /\ IsLine(6, 6, "z2_10_0", "z2_5_0", 5, "z2_5_0")
  /\ IsLine(7, 7, "z2_20_0", "z2_10_0", 10, "z2_10_0")
  /\ IsLine(8, 8, "z2_40_0", "z2_20_0", 20, "z2_20_0")
  /\ IsLine(9, 9, "z2_50_0", "z2_40_0", 10, "z2_10_0")
  /\ IsLine(10, 10, "z2_100_0", "z2_50_0", 50, "z2_50_0")
  /\ IsLine(11, 11, "z2_200_0", "z2_100_0", 100, "z2_100_0")
  /\ IsLine(12, 12, "t250", "z2_200_0", 50, "z2_50_0")
  /\ IsLine(13, 13, "inverse", "t250", 5, "z11")
<1>1. Len(Curve!Chain) = 13
  BY DEF Curve!Chain
<1>2. Curve!Chain[1] = Curve!Line("z2", "z", 1, Curve!One)
  BY DEF Curve!Chain
<1>3. Curve!Chain[2] = Curve!Line("t", "z2", 2, Curve!One)
  BY DEF Curve!Chain
<1>4. Curve!Chain[3] = Curve!Line("z9", "t", 0, "z")
  BY DEF Curve!Chain
<1>5. Curve!Chain[4] = Curve!Line("z11", "z9", 0, "z2")
  BY DEF Curve!Chain
<1>6. Curve!Chain[5] = Curve!Line("z2_5_0", "z11", 1, "z9")
  BY DEF Curve!Chain
<1>7. Curve!Chain[6] = Curve!Line("z2_10_0", "z2_5_0", 5, "z2_5_0")
  BY DEF Curve!Chain
<1>8. Curve!Chain[7] = Curve!Line("z2_20_0", "z2_10_0", 10, "z2_10_0")
  BY DEF Curve!Chain
<1>9. Curve!Chain[8] = Curve!Line("z2_40_0", "z2_20_0", 20, "z2_20_0")
  BY DEF Curve!Chain
<1>10. Curve!Chain[9] = Curve!Line("z2_50_0", "z2_40_0", 10, "z2_10_0")
  BY DEF Curve!Chain
<1>11. Curve!Chain[10] = Curve!Line("z2_100_0", "z2_50_0", 50, "z2_50_0")
  BY DEF Curve!Chain
<1>12. Curve!Chain[11] = Curve!Line("z2_200_0", "z2_100_0", 100, "z2_100_0")
  BY DEF Curve!Chain
<1>13. Curve!Chain[12] = Curve!Line("t250", "z2_200_0", 50, "z2_50_0")
  BY DEF Curve!Chain
<1>14. Curve!Chain[13] = Curve!Line("inverse", "t250", 5, "z11")
  BY DEF Curve!Chain
<1> QED BY <1>1, <1>2, <1>3, <1>4, <1>5, <1>6, <1>7, <1>8, <1>9, <1>10, <1>11, <1>12, <1>13, <1>14, LineOf DEF IsLine

\* What the lines of a place tell, when those it reads tell theirs.
LineTells(i) ==
  \A m \in Primes : \A e, g :
    /\ Tells(Curve!Chain[i].src, e, m)
    /\ IF Curve!Chain[i].mul = Curve!One THEN g = 0 ELSE Tells(Curve!Chain[i].mul, g, m)
    => Tells(Curve!Chain[i].dst, (e * Curve!TwoTo(Curve!Chain[i].n, m) + g) % m, m)

LEMMA TwoToZero ==
  ASSUME NEW m \in Primes
  PROVE  m \in Int /\ m \in Nat \ {0} /\ Cong(Curve!TwoTo(0, m), 1, m)
<1>1. 0 \in 0 .. 255 /\ 1 \in Int
  OBVIOUS
<1>2. m \in Int /\ m \in Nat \ {0} /\ Curve!TwoTo(0, m) = 1
  BY <1>1, TwoToInt, RecursionAssumption
<1> QED BY <1>1, <1>2, CongRefl

\* Congruences put together for a line.
LEMMA BothTell ==
  ASSUME NEW m \in Int, NEW x, NEW y, NEW a \in Int, NEW d \in Int, NEW b, b = a + d, Cong(x, a, m), Cong(y, b, m)
  PROVE  Cong(x + d, y, m)
<1>1. Cong(d, d, m)
  BY CongRefl
<1>2. Cong(x + d, b, m)
  BY <1>1, CongAdd
<1>3. Cong(b, y, m)
  BY CongSym
<1> QED BY <1>2, <1>3, CongTrans

\* A line that reads e and g, and makes x of them.
Reads(m, e, g, o, n, i, d, x) ==
  /\ m \in Primes /\ e \in Int /\ g \in Int /\ o \in 0 .. 255 /\ n \in 0 .. 255 /\ Shifts(n, m)
  /\ i = o + n /\ i <= 255 /\ d \in Int
  /\ Cong(e + 1, Curve!TwoTo(o, m), m) /\ Cong(g + d, Curve!TwoTo(n, m), m)
  /\ x = (e * Curve!TwoTo(n, m) + g) % m

LEMMA BigLineOf ==
  ASSUME NEW m, NEW e, NEW g, NEW o, NEW n, NEW i, NEW d, NEW x, Reads(m, e, g, o, n, i, d, x)
  PROVE  x \in Int /\ Cong(x + d, Curve!TwoTo(i, m), m)
<1>1. /\ m \in Primes /\ e \in Int /\ g \in Int /\ o \in 0 .. 255 /\ n \in 0 .. 255 /\ Shifts(n, m)
      /\ i = o + n /\ i <= 255 /\ d \in Int
      /\ Cong(e + 1, Curve!TwoTo(o, m), m) /\ Cong(g + d, Curve!TwoTo(n, m), m)
  BY DEF Reads
<1>2. PICK y : y = (e * Curve!TwoTo(n, m) + g) % m
  OBVIOUS
<1>3. y \in Int /\ Cong(y + d, Curve!TwoTo(i, m), m)
  BY <1>1, <1>2, BigLine
<1> QED BY <1>2, <1>3 DEF Reads

\* What each line computes, from what it reads: the source line's exponent times
\* 2^n, plus that of the local multiplied by.
LEMMA Line1 == LineTells(1)
<1>1. IsLine(1, 1, "z2", "z", 1, Curve!One)
  BY ChainIs
<1>2. ASSUME NEW m \in Primes, NEW e, NEW g, Tells("z", e, m), g = 0
      PROVE  Tells("z2", (e * Curve!TwoTo(1, m) + g) % m, m)
  <2>1. Cong(e, 1, m)
    BY <1>2 DEF Tells
  <2>2. Cong(g, 0, m)
    BY <1>2, TwoToZero, CongRefl
  <2>3. Cong(Curve!TwoTo(1, m), 2, m)
    BY ShiftsAll
  <2>4. 1 \in 0 .. 255 /\ 2 = 1 * 2 + 0
    OBVIOUS
  <2>5. PICK x : x = (e * Curve!TwoTo(1, m) + g) % m
    OBVIOUS
  <2>6. x \in Int /\ Cong(x, 2, m)
    BY <2>1, <2>2, <2>3, <2>4, <2>5, SmallLine
  <2> QED BY <2>5, <2>6 DEF Tells
<1> QED BY <1>1, <1>2 DEF LineTells, IsLine

LEMMA Line2 == LineTells(2)
<1>1. IsLine(2, 2, "t", "z2", 2, Curve!One)
  BY ChainIs
<1>2. ASSUME NEW m \in Primes, NEW e, NEW g, Tells("z2", e, m), g = 0
      PROVE  Tells("t", (e * Curve!TwoTo(2, m) + g) % m, m)
  <2>1. Cong(e, 2, m)
    BY <1>2 DEF Tells
  <2>2. Cong(g, 0, m)
    BY <1>2, TwoToZero, CongRefl
  <2>3. Cong(Curve!TwoTo(2, m), 4, m)
    BY ShiftsAll
  <2>4. 2 \in 0 .. 255 /\ 8 = 2 * 4 + 0
    OBVIOUS
  <2>5. PICK x : x = (e * Curve!TwoTo(2, m) + g) % m
    OBVIOUS
  <2>6. x \in Int /\ Cong(x, 8, m)
    BY <2>1, <2>2, <2>3, <2>4, <2>5, SmallLine
  <2> QED BY <2>5, <2>6 DEF Tells
<1> QED BY <1>1, <1>2 DEF LineTells, IsLine

LEMMA Line3 == LineTells(3)
<1>1. IsLine(3, 3, "z9", "t", 0, "z")
  BY ChainIs
<1>2. ASSUME NEW m \in Primes, NEW e, NEW g, Tells("t", e, m), Tells("z", g, m)
      PROVE  Tells("z9", (e * Curve!TwoTo(0, m) + g) % m, m)
  <2>1. Cong(e, 8, m)
    BY <1>2 DEF Tells
  <2>2. Cong(g, 1, m)
    BY <1>2 DEF Tells
  <2>3. Cong(Curve!TwoTo(0, m), 1, m)
    BY TwoToZero
  <2>4. 0 \in 0 .. 255 /\ 9 = 8 * 1 + 1
    OBVIOUS
  <2>5. PICK x : x = (e * Curve!TwoTo(0, m) + g) % m
    OBVIOUS
  <2>6. x \in Int /\ Cong(x, 9, m)
    BY <2>1, <2>2, <2>3, <2>4, <2>5, SmallLine
  <2> QED BY <2>5, <2>6 DEF Tells
<1> QED BY <1>1, <1>2 DEF LineTells, IsLine, Curve!One

LEMMA Line4 == LineTells(4)
<1>1. IsLine(4, 4, "z11", "z9", 0, "z2")
  BY ChainIs
<1>2. ASSUME NEW m \in Primes, NEW e, NEW g, Tells("z9", e, m), Tells("z2", g, m)
      PROVE  Tells("z11", (e * Curve!TwoTo(0, m) + g) % m, m)
  <2>1. Cong(e, 9, m)
    BY <1>2 DEF Tells
  <2>2. Cong(g, 2, m)
    BY <1>2 DEF Tells
  <2>3. Cong(Curve!TwoTo(0, m), 1, m)
    BY TwoToZero
  <2>4. 0 \in 0 .. 255 /\ 11 = 9 * 1 + 2
    OBVIOUS
  <2>5. PICK x : x = (e * Curve!TwoTo(0, m) + g) % m
    OBVIOUS
  <2>6. x \in Int /\ Cong(x, 11, m)
    BY <2>1, <2>2, <2>3, <2>4, <2>5, SmallLine
  <2> QED BY <2>5, <2>6 DEF Tells
<1> QED BY <1>1, <1>2 DEF LineTells, IsLine, Curve!One

LEMMA Line5 == LineTells(5)
<1>1. IsLine(5, 5, "z2_5_0", "z11", 1, "z9")
  BY ChainIs
<1>2. ASSUME NEW m \in Primes, NEW e, NEW g, Tells("z11", e, m), Tells("z9", g, m)
      PROVE  Tells("z2_5_0", (e * Curve!TwoTo(1, m) + g) % m, m)
  <2>1. Cong(e, 11, m)
    BY <1>2 DEF Tells
  <2>2. Cong(g, 9, m)
    BY <1>2 DEF Tells
  <2>3. Cong(Curve!TwoTo(1, m), 2, m)
    BY ShiftsAll
  <2>4. 1 \in 0 .. 255 /\ 31 = 11 * 2 + 9
    OBVIOUS
  <2>5. PICK x : x = (e * Curve!TwoTo(1, m) + g) % m
    OBVIOUS
  <2>6. x \in Int /\ Cong(x, 31, m)
    BY <2>1, <2>2, <2>3, <2>4, <2>5, SmallLine
  <2>7. m \in Int /\ Cong(Curve!TwoTo(5, m), 32, m) /\ 32 = 31 + 1
    BY ShiftsAll, TwoToZero
  <2>8. Cong(x + 1, Curve!TwoTo(5, m), m)
    <3>1. PICK a \in Int, d \in Int, b \in Int : a = 31 /\ d = 1 /\ b = 32 /\ b = a + d
      OBVIOUS
    <3> QED BY <2>6, <2>7, <3>1, BothTell
  <2> QED BY <2>5, <2>6, <2>8 DEF Tells
<1> QED BY <1>1, <1>2 DEF LineTells, IsLine, Curve!One

LEMMA Line6 == LineTells(6)
<1>1. IsLine(6, 6, "z2_10_0", "z2_5_0", 5, "z2_5_0")
  BY ChainIs
<1>2. ASSUME NEW m \in Primes, NEW e, NEW g, Tells("z2_5_0", e, m), Tells("z2_5_0", g, m)
      PROVE  Tells("z2_10_0", (e * Curve!TwoTo(5, m) + g) % m, m)
  <2>1. PICK o \in 0 .. 255, n \in 0 .. 255, i \in 0 .. 255, d \in Int : o = 5 /\ n = 5 /\ i = 10 /\ i = o + n /\ i <= 255 /\ d = 1
    OBVIOUS
  <2>2. e \in Int /\ Cong(e + 1, Curve!TwoTo(o, m), m)
    BY <1>2, <2>1 DEF Tells
  <2>3. g \in Int /\ Cong(g + d, Curve!TwoTo(n, m), m)
    BY <1>2, <2>1 DEF Tells
  <2>4. Shifts(n, m)
    BY <2>1, ShiftsAll
  <2>5. PICK x : x = (e * Curve!TwoTo(n, m) + g) % m
    OBVIOUS
  <2>6. Reads(m, e, g, o, n, i, d, x)
    BY <2>1, <2>2, <2>3, <2>4, <2>5 DEF Reads
  <2>7. x \in Int /\ Cong(x + d, Curve!TwoTo(i, m), m)
    BY <2>6, BigLineOf
  <2> QED BY <2>1, <2>5, <2>7 DEF Tells
<1> QED BY <1>1, <1>2 DEF LineTells, IsLine, Curve!One

LEMMA Line7 == LineTells(7)
<1>1. IsLine(7, 7, "z2_20_0", "z2_10_0", 10, "z2_10_0")
  BY ChainIs
<1>2. ASSUME NEW m \in Primes, NEW e, NEW g, Tells("z2_10_0", e, m), Tells("z2_10_0", g, m)
      PROVE  Tells("z2_20_0", (e * Curve!TwoTo(10, m) + g) % m, m)
  <2>1. PICK o \in 0 .. 255, n \in 0 .. 255, i \in 0 .. 255, d \in Int : o = 10 /\ n = 10 /\ i = 20 /\ i = o + n /\ i <= 255 /\ d = 1
    OBVIOUS
  <2>2. e \in Int /\ Cong(e + 1, Curve!TwoTo(o, m), m)
    BY <1>2, <2>1 DEF Tells
  <2>3. g \in Int /\ Cong(g + d, Curve!TwoTo(n, m), m)
    BY <1>2, <2>1 DEF Tells
  <2>4. Shifts(n, m)
    BY <2>1, ShiftsAll
  <2>5. PICK x : x = (e * Curve!TwoTo(n, m) + g) % m
    OBVIOUS
  <2>6. Reads(m, e, g, o, n, i, d, x)
    BY <2>1, <2>2, <2>3, <2>4, <2>5 DEF Reads
  <2>7. x \in Int /\ Cong(x + d, Curve!TwoTo(i, m), m)
    BY <2>6, BigLineOf
  <2> QED BY <2>1, <2>5, <2>7 DEF Tells
<1> QED BY <1>1, <1>2 DEF LineTells, IsLine, Curve!One

LEMMA Line8 == LineTells(8)
<1>1. IsLine(8, 8, "z2_40_0", "z2_20_0", 20, "z2_20_0")
  BY ChainIs
<1>2. ASSUME NEW m \in Primes, NEW e, NEW g, Tells("z2_20_0", e, m), Tells("z2_20_0", g, m)
      PROVE  Tells("z2_40_0", (e * Curve!TwoTo(20, m) + g) % m, m)
  <2>1. PICK o \in 0 .. 255, n \in 0 .. 255, i \in 0 .. 255, d \in Int : o = 20 /\ n = 20 /\ i = 40 /\ i = o + n /\ i <= 255 /\ d = 1
    OBVIOUS
  <2>2. e \in Int /\ Cong(e + 1, Curve!TwoTo(o, m), m)
    BY <1>2, <2>1 DEF Tells
  <2>3. g \in Int /\ Cong(g + d, Curve!TwoTo(n, m), m)
    BY <1>2, <2>1 DEF Tells
  <2>4. Shifts(n, m)
    BY <2>1, ShiftsAll
  <2>5. PICK x : x = (e * Curve!TwoTo(n, m) + g) % m
    OBVIOUS
  <2>6. Reads(m, e, g, o, n, i, d, x)
    BY <2>1, <2>2, <2>3, <2>4, <2>5 DEF Reads
  <2>7. x \in Int /\ Cong(x + d, Curve!TwoTo(i, m), m)
    BY <2>6, BigLineOf
  <2> QED BY <2>1, <2>5, <2>7 DEF Tells
<1> QED BY <1>1, <1>2 DEF LineTells, IsLine, Curve!One

LEMMA Line9 == LineTells(9)
<1>1. IsLine(9, 9, "z2_50_0", "z2_40_0", 10, "z2_10_0")
  BY ChainIs
<1>2. ASSUME NEW m \in Primes, NEW e, NEW g, Tells("z2_40_0", e, m), Tells("z2_10_0", g, m)
      PROVE  Tells("z2_50_0", (e * Curve!TwoTo(10, m) + g) % m, m)
  <2>1. PICK o \in 0 .. 255, n \in 0 .. 255, i \in 0 .. 255, d \in Int : o = 40 /\ n = 10 /\ i = 50 /\ i = o + n /\ i <= 255 /\ d = 1
    OBVIOUS
  <2>2. e \in Int /\ Cong(e + 1, Curve!TwoTo(o, m), m)
    BY <1>2, <2>1 DEF Tells
  <2>3. g \in Int /\ Cong(g + d, Curve!TwoTo(n, m), m)
    BY <1>2, <2>1 DEF Tells
  <2>4. Shifts(n, m)
    BY <2>1, ShiftsAll
  <2>5. PICK x : x = (e * Curve!TwoTo(n, m) + g) % m
    OBVIOUS
  <2>6. Reads(m, e, g, o, n, i, d, x)
    BY <2>1, <2>2, <2>3, <2>4, <2>5 DEF Reads
  <2>7. x \in Int /\ Cong(x + d, Curve!TwoTo(i, m), m)
    BY <2>6, BigLineOf
  <2> QED BY <2>1, <2>5, <2>7 DEF Tells
<1> QED BY <1>1, <1>2 DEF LineTells, IsLine, Curve!One

LEMMA Line10 == LineTells(10)
<1>1. IsLine(10, 10, "z2_100_0", "z2_50_0", 50, "z2_50_0")
  BY ChainIs
<1>2. ASSUME NEW m \in Primes, NEW e, NEW g, Tells("z2_50_0", e, m), Tells("z2_50_0", g, m)
      PROVE  Tells("z2_100_0", (e * Curve!TwoTo(50, m) + g) % m, m)
  <2>1. PICK o \in 0 .. 255, n \in 0 .. 255, i \in 0 .. 255, d \in Int : o = 50 /\ n = 50 /\ i = 100 /\ i = o + n /\ i <= 255 /\ d = 1
    OBVIOUS
  <2>2. e \in Int /\ Cong(e + 1, Curve!TwoTo(o, m), m)
    BY <1>2, <2>1 DEF Tells
  <2>3. g \in Int /\ Cong(g + d, Curve!TwoTo(n, m), m)
    BY <1>2, <2>1 DEF Tells
  <2>4. Shifts(n, m)
    BY <2>1, ShiftsAll
  <2>5. PICK x : x = (e * Curve!TwoTo(n, m) + g) % m
    OBVIOUS
  <2>6. Reads(m, e, g, o, n, i, d, x)
    BY <2>1, <2>2, <2>3, <2>4, <2>5 DEF Reads
  <2>7. x \in Int /\ Cong(x + d, Curve!TwoTo(i, m), m)
    BY <2>6, BigLineOf
  <2> QED BY <2>1, <2>5, <2>7 DEF Tells
<1> QED BY <1>1, <1>2 DEF LineTells, IsLine, Curve!One

LEMMA Line11 == LineTells(11)
<1>1. IsLine(11, 11, "z2_200_0", "z2_100_0", 100, "z2_100_0")
  BY ChainIs
<1>2. ASSUME NEW m \in Primes, NEW e, NEW g, Tells("z2_100_0", e, m), Tells("z2_100_0", g, m)
      PROVE  Tells("z2_200_0", (e * Curve!TwoTo(100, m) + g) % m, m)
  <2>1. PICK o \in 0 .. 255, n \in 0 .. 255, i \in 0 .. 255, d \in Int : o = 100 /\ n = 100 /\ i = 200 /\ i = o + n /\ i <= 255 /\ d = 1
    OBVIOUS
  <2>2. e \in Int /\ Cong(e + 1, Curve!TwoTo(o, m), m)
    BY <1>2, <2>1 DEF Tells
  <2>3. g \in Int /\ Cong(g + d, Curve!TwoTo(n, m), m)
    BY <1>2, <2>1 DEF Tells
  <2>4. Shifts(n, m)
    BY <2>1, ShiftsAll
  <2>5. PICK x : x = (e * Curve!TwoTo(n, m) + g) % m
    OBVIOUS
  <2>6. Reads(m, e, g, o, n, i, d, x)
    BY <2>1, <2>2, <2>3, <2>4, <2>5 DEF Reads
  <2>7. x \in Int /\ Cong(x + d, Curve!TwoTo(i, m), m)
    BY <2>6, BigLineOf
  <2> QED BY <2>1, <2>5, <2>7 DEF Tells
<1> QED BY <1>1, <1>2 DEF LineTells, IsLine, Curve!One

LEMMA Line12 == LineTells(12)
<1>1. IsLine(12, 12, "t250", "z2_200_0", 50, "z2_50_0")
  BY ChainIs
<1>2. ASSUME NEW m \in Primes, NEW e, NEW g, Tells("z2_200_0", e, m), Tells("z2_50_0", g, m)
      PROVE  Tells("t250", (e * Curve!TwoTo(50, m) + g) % m, m)
  <2>1. PICK o \in 0 .. 255, n \in 0 .. 255, i \in 0 .. 255, d \in Int : o = 200 /\ n = 50 /\ i = 250 /\ i = o + n /\ i <= 255 /\ d = 1
    OBVIOUS
  <2>2. e \in Int /\ Cong(e + 1, Curve!TwoTo(o, m), m)
    BY <1>2, <2>1 DEF Tells
  <2>3. g \in Int /\ Cong(g + d, Curve!TwoTo(n, m), m)
    BY <1>2, <2>1 DEF Tells
  <2>4. Shifts(n, m)
    BY <2>1, ShiftsAll
  <2>5. PICK x : x = (e * Curve!TwoTo(n, m) + g) % m
    OBVIOUS
  <2>6. Reads(m, e, g, o, n, i, d, x)
    BY <2>1, <2>2, <2>3, <2>4, <2>5 DEF Reads
  <2>7. x \in Int /\ Cong(x + d, Curve!TwoTo(i, m), m)
    BY <2>6, BigLineOf
  <2> QED BY <2>1, <2>5, <2>7 DEF Tells
<1> QED BY <1>1, <1>2 DEF LineTells, IsLine, Curve!One

LEMMA Line13 == LineTells(13)
<1>1. IsLine(13, 13, "inverse", "t250", 5, "z11")
  BY ChainIs
<1>2. ASSUME NEW m \in Primes, NEW e, NEW g, Tells("t250", e, m), Tells("z11", g, m)
      PROVE  Tells("inverse", (e * Curve!TwoTo(5, m) + g) % m, m)
  <2>1. PICK o \in 0 .. 255, n \in 0 .. 255, i \in 0 .. 255, d \in Int : o = 250 /\ n = 5 /\ i = 255 /\ i = o + n /\ i <= 255 /\ d = 21
    OBVIOUS
  <2>2. e \in Int /\ Cong(e + 1, Curve!TwoTo(o, m), m)
    BY <1>2, <2>1 DEF Tells
  <2>3. g \in Int /\ Cong(g + d, Curve!TwoTo(n, m), m)
    <3>1. g \in Int /\ Cong(g, 11, m)
      BY <1>2 DEF Tells
    <3>2. m \in Int /\ Cong(Curve!TwoTo(5, m), 32, m) /\ 32 = 11 + 21
      BY ShiftsAll, TwoToZero
    <3>3. Cong(g + 21, Curve!TwoTo(5, m), m)
      BY <3>1, <3>2, BothTell
    <3> QED BY <2>1, <3>1, <3>3
  <2>4. Shifts(n, m)
    BY <2>1, ShiftsAll
  <2>5. PICK x : x = (e * Curve!TwoTo(n, m) + g) % m
    OBVIOUS
  <2>6. Reads(m, e, g, o, n, i, d, x)
    BY <2>1, <2>2, <2>3, <2>4, <2>5 DEF Reads
  <2>7. x \in Int /\ Cong(x + d, Curve!TwoTo(i, m), m)
    BY <2>6, BigLineOf
  <2> QED BY <2>1, <2>5, <2>7 DEF Tells
<1> QED BY <1>1, <1>2 DEF LineTells, IsLine, Curve!One


-----------------------------------------------------------------------------
\* What a line reads was written by those before it, or is the argument.
Earlier(i) ==
  \A S : "z" \in S /\ (\A j \in 1 .. i - 1 : Curve!Chain[j].dst \in S)
         => Curve!Chain[i].src \in S /\ (Curve!Chain[i].mul = Curve!One \/ Curve!Chain[i].mul \in S)

LEMMA AllEarlier == ASSUME NEW i \in 1 .. 13 PROVE Earlier(i)
<1>1. Earlier(1)
  <2>1. Curve!Chain[1].src = "z" /\ Curve!Chain[1].mul = Curve!One
    BY ChainIs DEF IsLine
  <2> QED BY <2>1 DEF Earlier
<1>2. Earlier(2)
  <2>1. Curve!Chain[2].src = "z2" /\ Curve!Chain[2].mul = Curve!One
    BY ChainIs DEF IsLine
  <2>2. 1 \in 1 .. 2 - 1 /\ Curve!Chain[1].dst = "z2"
    BY ChainIs DEF IsLine
  <2> QED BY <2>1, <2>2 DEF Earlier
<1>3. Earlier(3)
  <2>1. Curve!Chain[3].src = "t" /\ Curve!Chain[3].mul = "z"
    BY ChainIs DEF IsLine
  <2>2. 2 \in 1 .. 3 - 1 /\ Curve!Chain[2].dst = "t"
    BY ChainIs DEF IsLine
  <2> QED BY <2>1, <2>2 DEF Earlier
<1>4. Earlier(4)
  <2>1. Curve!Chain[4].src = "z9" /\ Curve!Chain[4].mul = "z2"
    BY ChainIs DEF IsLine
  <2>2. 3 \in 1 .. 4 - 1 /\ Curve!Chain[3].dst = "z9"
    BY ChainIs DEF IsLine
  <2>3. 1 \in 1 .. 4 - 1 /\ Curve!Chain[1].dst = "z2"
    BY ChainIs DEF IsLine
  <2> QED BY <2>1, <2>2, <2>3 DEF Earlier
<1>5. Earlier(5)
  <2>1. Curve!Chain[5].src = "z11" /\ Curve!Chain[5].mul = "z9"
    BY ChainIs DEF IsLine
  <2>2. 4 \in 1 .. 5 - 1 /\ Curve!Chain[4].dst = "z11"
    BY ChainIs DEF IsLine
  <2>3. 3 \in 1 .. 5 - 1 /\ Curve!Chain[3].dst = "z9"
    BY ChainIs DEF IsLine
  <2> QED BY <2>1, <2>2, <2>3 DEF Earlier
<1>6. Earlier(6)
  <2>1. Curve!Chain[6].src = "z2_5_0" /\ Curve!Chain[6].mul = "z2_5_0"
    BY ChainIs DEF IsLine
  <2>2. 5 \in 1 .. 6 - 1 /\ Curve!Chain[5].dst = "z2_5_0"
    BY ChainIs DEF IsLine
  <2> QED BY <2>1, <2>2 DEF Earlier
<1>7. Earlier(7)
  <2>1. Curve!Chain[7].src = "z2_10_0" /\ Curve!Chain[7].mul = "z2_10_0"
    BY ChainIs DEF IsLine
  <2>2. 6 \in 1 .. 7 - 1 /\ Curve!Chain[6].dst = "z2_10_0"
    BY ChainIs DEF IsLine
  <2> QED BY <2>1, <2>2 DEF Earlier
<1>8. Earlier(8)
  <2>1. Curve!Chain[8].src = "z2_20_0" /\ Curve!Chain[8].mul = "z2_20_0"
    BY ChainIs DEF IsLine
  <2>2. 7 \in 1 .. 8 - 1 /\ Curve!Chain[7].dst = "z2_20_0"
    BY ChainIs DEF IsLine
  <2> QED BY <2>1, <2>2 DEF Earlier
<1>9. Earlier(9)
  <2>1. Curve!Chain[9].src = "z2_40_0" /\ Curve!Chain[9].mul = "z2_10_0"
    BY ChainIs DEF IsLine
  <2>2. 8 \in 1 .. 9 - 1 /\ Curve!Chain[8].dst = "z2_40_0"
    BY ChainIs DEF IsLine
  <2>3. 6 \in 1 .. 9 - 1 /\ Curve!Chain[6].dst = "z2_10_0"
    BY ChainIs DEF IsLine
  <2> QED BY <2>1, <2>2, <2>3 DEF Earlier
<1>10. Earlier(10)
  <2>1. Curve!Chain[10].src = "z2_50_0" /\ Curve!Chain[10].mul = "z2_50_0"
    BY ChainIs DEF IsLine
  <2>2. 9 \in 1 .. 10 - 1 /\ Curve!Chain[9].dst = "z2_50_0"
    BY ChainIs DEF IsLine
  <2> QED BY <2>1, <2>2 DEF Earlier
<1>11. Earlier(11)
  <2>1. Curve!Chain[11].src = "z2_100_0" /\ Curve!Chain[11].mul = "z2_100_0"
    BY ChainIs DEF IsLine
  <2>2. 10 \in 1 .. 11 - 1 /\ Curve!Chain[10].dst = "z2_100_0"
    BY ChainIs DEF IsLine
  <2> QED BY <2>1, <2>2 DEF Earlier
<1>12. Earlier(12)
  <2>1. Curve!Chain[12].src = "z2_200_0" /\ Curve!Chain[12].mul = "z2_50_0"
    BY ChainIs DEF IsLine
  <2>2. 11 \in 1 .. 12 - 1 /\ Curve!Chain[11].dst = "z2_200_0"
    BY ChainIs DEF IsLine
  <2>3. 9 \in 1 .. 12 - 1 /\ Curve!Chain[9].dst = "z2_50_0"
    BY ChainIs DEF IsLine
  <2> QED BY <2>1, <2>2, <2>3 DEF Earlier
<1>13. Earlier(13)
  <2>1. Curve!Chain[13].src = "t250" /\ Curve!Chain[13].mul = "z11"
    BY ChainIs DEF IsLine
  <2>2. 12 \in 1 .. 13 - 1 /\ Curve!Chain[12].dst = "t250"
    BY ChainIs DEF IsLine
  <2>3. 4 \in 1 .. 13 - 1 /\ Curve!Chain[4].dst = "z11"
    BY ChainIs DEF IsLine
  <2> QED BY <2>1, <2>2, <2>3 DEF Earlier
<1> QED BY <1>1, <1>2, <1>3, <1>4, <1>5, <1>6, <1>7, <1>8, <1>9, <1>10, <1>11, <1>12, <1>13

\* Every line tells its exponent.
LEMMA AllTell == ASSUME NEW i \in 1 .. 13 PROVE LineTells(i)
BY Line1, Line2, Line3, Line4, Line5, Line6, Line7, Line8, Line9, Line10, Line11, Line12, Line13

\* Every local of finvert written so far holds its exponent.
Inverted ==
  /\ "z" \in DOMAIN expo
  /\ \A l \in DOMAIN expo : \A m \in Primes : Tells(l, expo[l][m], m)

\* A line of finvert keeps the exponents of all lines.
LEMMA InvertStays == ASSUME Inverted, Curve!Invert PROVE Inverted'
<1>0. PICK i \in 1 .. Len(Curve!Chain) :
        LET l == Curve!Chain[i] IN
        /\ l.dst \notin Curve!Lines /\ \A j \in 1 .. i - 1 : Curve!Chain[j].dst \in Curve!Lines
        /\ expo' = [z \in Curve!Lines \cup {l.dst} |->
                      IF z \in Curve!Lines THEN expo[z]
                      ELSE [m \in Primes |->
                              (expo[l.src][m] * Curve!TwoTo(l.n, m)
                               + (IF l.mul = Curve!One THEN 0 ELSE expo[l.mul][m])) % m]]
  BY DEF Curve!Invert
<1>1. i \in 1 .. 13
  <2>1. Len(Curve!Chain) = 13
    BY ChainIs
  <2> QED BY <2>1
<1>2. PICK D : D = DOMAIN expo
  OBVIOUS
<1>3. PICK l : l = Curve!Chain[i]
  OBVIOUS
<1>4. PICK w : w = [m \in Primes |-> (expo[l.src][m] * Curve!TwoTo(l.n, m)
                               + (IF l.mul = Curve!One THEN 0 ELSE expo[l.mul][m])) % m]
  OBVIOUS
<1>5. expo' = [z \in D \cup {l.dst} |-> IF z \in D THEN expo[z] ELSE w]
  BY <1>0, <1>2, <1>3, <1>4 DEF Curve!Lines
<1>6. l.src \in D /\ (l.mul = Curve!One \/ l.mul \in D)
  <2>1. "z" \in D /\ \A j \in 1 .. i - 1 : Curve!Chain[j].dst \in D
    BY <1>0, <1>2 DEF Curve!Lines, Inverted
  <2>2. Earlier(i)
    BY <1>1, AllEarlier
  <2> QED BY <1>3, <2>1, <2>2 DEF Earlier
<1>7. ASSUME NEW m \in Primes PROVE Tells(l.dst, w[m], m)
  <2>1. PICK e : e = expo[l.src][m]
    OBVIOUS
  <2>2. PICK g : g = IF l.mul = Curve!One THEN 0 ELSE expo[l.mul][m]
    OBVIOUS
  <2>3. w[m] = (e * Curve!TwoTo(l.n, m) + g) % m
    BY <1>4, <1>7, <2>1, <2>2
  <2>4. Tells(l.src, e, m)
    BY <1>2, <1>6, <1>7, <2>1 DEF Inverted
  <2>5. IF l.mul = Curve!One THEN g = 0 ELSE Tells(l.mul, g, m)
    BY <1>2, <1>6, <1>7, <2>2 DEF Inverted
  <2>6. LineTells(i)
    BY <1>1, AllTell
  <2> QED BY <1>3, <1>7, <2>3, <2>4, <2>5, <2>6 DEF LineTells
<1>8. "z" \in DOMAIN expo'
  BY <1>2, <1>5 DEF Inverted
<1>9. ASSUME NEW z \in DOMAIN expo', NEW m \in Primes PROVE Tells(z, expo'[z][m], m)
  <2>1. CASE z \in D
    <3>1. expo'[z] = expo[z]
      BY <1>5, <2>1
    <3> QED BY <1>2, <1>9, <2>1, <3>1 DEF Inverted
  <2>2. CASE z \notin D
    <3>1. z = l.dst /\ expo'[z] = w
      BY <1>5, <1>9, <2>2
    <3> QED BY <1>7, <1>9, <3>1
  <2> QED BY <2>1, <2>2
<1> QED BY <1>8, <1>9 DEF Inverted

\* So does every step.
LEMMA InvertedStays == ASSUME Inverted, [Curve!Next]_curve PROVE Inverted'
<1>1. CASE expo' = expo
  BY <1>1 DEF Inverted
<1>2. CASE Curve!Invert
  BY <1>2, InvertStays
<1>3. ASSUME [Curve!Next]_curve, ~Curve!Invert PROVE expo' = expo
  BY <1>3 DEF curve, Curve!Next, Curve!Call, Curve!Step, Curve!Return
<1> QED BY <1>1, <1>2, <1>3

\* The last line's exponent is that of the inverse.
LEMMA InvertedInverts == ASSUME Inverted PROVE Curve!ChainInverts
<1>1. ASSUME "inverse" \in DOMAIN expo, NEW m \in Primes
      PROVE  (expo["inverse"][m] + 21) % m = Curve!TwoTo(255, m)
  <2>1. PICK e : e = expo["inverse"][m]
    OBVIOUS
  <2>2. e \in Int /\ Cong(e + 21, Curve!TwoTo(255, m), m)
    <3>1. Tells("inverse", e, m)
      BY <1>1, <2>1 DEF Inverted
    <3> QED BY <3>1 DEF Tells
  <2>3. m \in Nat \ {0} /\ m \in Int
    BY TwoToZero
  <2>4. PICK v \in Int : v = Curve!TwoTo(254, m)
    <3>1. 254 \in 0 .. 255
      OBVIOUS
    <3> QED BY <3>1, TwoToInt
  <2>5. PICK j \in Int : j = 2 * v
    BY <2>4
  <2>6. Curve!TwoTo(255, m) = j % m
    <3>1. 255 \in 1 .. 255 /\ 255 - 1 = 254
      OBVIOUS
    <3>2. Curve!TwoTo(255, m) = (2 * Curve!TwoTo(255 - 1, m)) % m
      BY <3>1, RecursionAssumption
    <3> QED BY <2>4, <2>5, <3>1, <3>2
  <2>7. PICK y : y = e + 21
    OBVIOUS
  <2>8. Cong(y, j % m, m)
    BY <2>2, <2>6, <2>7
  <2>9. Cong(y, j, m)
    <3>1. Cong(j % m, j, m)
      BY <2>3, CongRest
    <3> QED BY <2>3, <2>8, <3>1, CongTrans
  <2>10. y % m = j % m
    BY <2>3, <2>9, CongSame
  <2> QED BY <2>1, <2>6, <2>7, <2>10
<1> QED BY <1>1 DEF Curve!ChainInverts, Curve!Lines

\* Both invariants hold at first.
LEMMA InitLadders == ASSUME Curve!Init PROVE Laddering
<1>1. Trim(<<0, 0>>) /\ Trim(<<1, 0>>)
  BY SmallLimbs
<1>2. Bounded
  BY <1>1 DEF Curve!Init, Bounded
<1>3. Fresh /\ pc = "idle"
  BY DEF Curve!Init, Fresh
<1> QED BY <1>2, <1>3 DEF Laddering

LEMMA InitInverted == ASSUME Curve!Init PROVE Inverted
<1>1. expo = [l \in {"z"} |-> [m \in Primes |-> 1]]
  BY DEF Curve!Init
<1>2. ASSUME NEW m \in Primes PROVE Tells("z", expo["z"][m], m)
  <2>1. expo["z"][m] = 1
    BY <1>1
  <2>2. Cong(1, 1, m)
    BY TwoToZero, CongRefl
  <2> QED BY <2>1, <2>2 DEF Tells
<1>3. DOMAIN expo = {"z"}
  BY <1>1
<1> QED BY <1>2, <1>3 DEF Inverted

\* X25519 computes the multiple of the point: for every size of the limbs, every
\* prime next to their end and every curve over it, every scalar and coordinate,
\* at every step of the ladder both points are the multiples of the group law, no
\* limb is negative or leaves half a word, the bytes returned are the canonical
\* coordinate of the product; and the chain of finvert ends at p - 2.
THEOREM CurveComputes == CryptoSpec => []Computes
<1>1. CryptoInit => Laddering /\ Inverted
  BY InitLadders, InitInverted DEF CryptoInit
<1>2. Laddering /\ Inverted /\ [CryptoNext]_all => (Laddering /\ Inverted)'
  <2>1. [CryptoNext]_all => [Curve!Next]_curve
    BY DEF CryptoNext, all
  <2> QED BY <2>1, LadderingStays, InvertedStays
<1>3. Laddering /\ Inverted => Computes
  BY LadderingComputes, InvertedInverts DEF Computes, Curve!Computes
<1> QED BY <1>1, <1>2, <1>3, PTL DEF CryptoSpec
=============================================================================
