---------------------------- MODULE UnitsProofs -----------------------------
(***************************************************************************)
(* What holds of the data session, the TCP proxy and the TUN device for    *)
(* every width of the window, length of a session, number and size of      *)
(* connections, and set of packets: the proofs of what the run of MCUnits  *)
(* checks on a small instance.  Three parts, one for each: the anti-replay *)
(* window of akurai-transport; the bytes of a proxied stream, followed     *)
(* from one end to the other; the handles of the device, and the packets   *)
(* that cross it.                                                          *)
(***************************************************************************)
EXTENDS MCUnits, SequenceTheorems, TLAPS

\* The inductive invariant: what the mask and the maximum say about the history
\* of accepted packets is exactly what the next decision needs.
Inv == /\ TypeOK
       /\ MaskMeansAccepted
       /\ MaxIsHighest
       /\ AcceptedAtMostOnce

-----------------------------------------------------------------------------
\* The cheap reject before the tag check (session.rs, "also re-checked
\* authoritatively below") turns away exactly the counters the authoritative
\* check would: it never loses a packet and never lets an old one pass.
LEMMA PreAuthAgrees ==
  ASSUME TypeOK, NEW c \in Counters
  PROVE  PreAuthReject(c) <=> BeyondWindow(c)
BY WindowAssumption, MaxCounterAssumption
   DEF TypeOK, Counters, PreAuthReject, BeyondWindow

\* A packet the window admits was never handed over.
LEMMA AdmittedIsFresh ==
  ASSUME Inv, NEW c \in Counters, ~WindowRefuses(c)
  PROVE  handed[c] = 0
<1>1. CASE ~recv_started
  BY <1>1 DEF Inv, TypeOK, MaxIsHighest
<1>2. CASE recv_started /\ c > recv_max
  BY <1>2, MaxCounterAssumption DEF Inv, TypeOK, MaxIsHighest, Counters
<1>3. CASE recv_started /\ c <= recv_max
  <2>1. /\ recv_max - c \in Bits
        /\ recv_max - c \notin recv_mask
        /\ recv_max - (recv_max - c) = c
        /\ recv_max - c <= recv_max
    BY <1>3, WindowAssumption, MaxCounterAssumption
       DEF WindowRefuses, BeyondWindow, AlreadySeen, Bits, Counters, Inv, TypeOK
  <2>2. ~(handed[c] > 0)
    BY <1>3, <2>1 DEF Inv, MaskMeansAccepted
  <2> QED
    BY <2>2 DEF Inv, TypeOK
<1> QED
  BY <1>1, <1>2, <1>3, MaxCounterAssumption DEF Inv, TypeOK, Counters

-----------------------------------------------------------------------------
\* One accepted packet: the window it leaves behind again means the history.
LEMMA AcceptStep ==
  ASSUME Inv, NEW c \in Counters, c < send_counter, ~WindowRefuses(c),
         SlideTo(c), HandOver(c), UNCHANGED send_counter
  PROVE  Inv'
<1> USE WindowAssumption, MaxCounterAssumption
<1>0. TypeOK
  BY DEF Inv
<1>01. c \in Nat /\ recv_max \in Nat
  BY <1>0 DEF TypeOK, Counters
<1>1. handed[c] = 0
  BY AdmittedIsFresh
<1>2. /\ handed' = [handed EXCEPT ![c] = 1]
      /\ \A d \in Counters : handed'[d] = IF d = c THEN 1 ELSE handed[d]
  BY <1>0, <1>1 DEF HandOver, Return, TypeOK
<1>3. TypeOK'
  <2>1. recv_mask' \in SUBSET Bits
    <3>1. 0 \in Bits /\ ShiftLeft(recv_mask, c - recv_max) \subseteq Bits
      BY DEF Bits, ShiftLeft
    <3>2. recv_started /\ c <= recv_max => recv_max - c \in Bits
      BY <1>0 DEF TypeOK, WindowRefuses, BeyondWindow, Bits, Counters
    <3> QED
      BY <1>0, <3>1, <3>2, <1>01 DEF SlideTo, TypeOK
  <2> QED
    BY <1>0, <1>2, <2>1 DEF TypeOK, SlideTo, HandOver, Return, Results
<1>4. MaxIsHighest'
  BY <1>0, <1>2 DEF Inv, MaxIsHighest, SlideTo, TypeOK, Counters
<1>5. AcceptedAtMostOnce'
  BY <1>0, <1>2 DEF Inv, AcceptedAtMostOnce, TypeOK, Counters
<1>6. MaskMeansAccepted'
  <2> SUFFICES ASSUME NEW i \in Bits
               PROVE  i \in recv_mask' <=> (i <= recv_max' /\ handed'[recv_max' - i] > 0)
    BY DEF MaskMeansAccepted, Bits
  <2>1. CASE ~recv_started
    BY <1>0, <1>2, <2>1 DEF SlideTo, Inv, MaxIsHighest, TypeOK, Counters, Bits
  <2>2. CASE recv_started /\ c > recv_max
    <3> DEFINE s == c - recv_max
    <3>1. /\ s \in Nat \ {0}
          /\ recv_max' = c
          /\ recv_mask' = (IF s >= Window THEN {} ELSE ShiftLeft(recv_mask, s)) \cup {0}
      BY <1>0, <2>2 DEF SlideTo, TypeOK, Counters
    <3>2. CASE i = 0
      BY <1>0, <1>2, <3>1, <3>2 DEF Counters
    <3>3. CASE i > 0 /\ i < s
      <4>1. i \notin recv_mask'
        BY <3>1, <3>3 DEF ShiftLeft, Bits
      <4>2. i <= c => c - i \in Counters /\ c - i > recv_max /\ c - i # c
        BY <1>0, <3>1, <3>3 DEF Counters, Bits, TypeOK
      <4>3. i <= c => handed'[c - i] = 0
        BY <1>0, <1>2, <4>2 DEF Inv, MaxIsHighest, TypeOK, Counters
      <4> QED
        BY <3>1, <4>1, <4>3
    <3>4. CASE i >= s
      <4>1. s < Window
        BY <3>1, <3>4 DEF Bits
      <4>2. i \in recv_mask' <=> i - s \in recv_mask
        BY <3>1, <3>4, <4>1 DEF ShiftLeft, Bits
      <4>3. /\ i - s \in Bits
            /\ recv_max - (i - s) = c - i
            /\ i - s <= recv_max <=> i <= c
        BY <1>0, <3>1, <3>4 DEF Bits, TypeOK, Counters
      <4>4. i - s \in recv_mask <=> (i <= c /\ handed[c - i] > 0)
        BY <2>2, <4>3 DEF Inv, MaskMeansAccepted
      <4>5. i <= c => c - i \in Counters /\ c - i # c
        BY <3>1, <3>4 DEF Counters, Bits
      <4> QED
        BY <1>2, <3>1, <4>2, <4>4, <4>5
    <3> QED
      BY <3>1, <3>2, <3>3, <3>4 DEF Bits
  <2>3. CASE recv_started /\ c <= recv_max
    <3>1. recv_max' = recv_max /\ recv_mask' = recv_mask \cup {recv_max - c}
      BY <1>0, <2>3 DEF SlideTo, TypeOK, Counters
    <3>2. i \in recv_mask <=> (i <= recv_max /\ handed[recv_max - i] > 0)
      BY <2>3 DEF Inv, MaskMeansAccepted
    <3>3. i <= recv_max => recv_max - i \in Counters
      BY <1>0 DEF Bits, TypeOK, Counters
    <3>4. i = recv_max - c <=> (i <= recv_max /\ recv_max - i = c)
      BY <1>0, <2>3 DEF Bits, TypeOK, Counters
    <3> QED
      BY <1>2, <3>1, <3>2, <3>3, <3>4
  <2> QED
    BY <1>0, <2>1, <2>2, <2>3 DEF TypeOK, Counters
<1> QED
  BY <1>3, <1>4, <1>5, <1>6 DEF Inv

\* A new session satisfies the invariant.
LEMMA InitInv == Init => Inv
<1> SUFFICES ASSUME Init PROVE Inv
  OBVIOUS
<1> USE WindowAssumption, MaxCounterAssumption
<1>1. TypeOK
  <2>1. 0 \in Counters /\ 0 \in 0 .. MaxCounter /\ {} \in SUBSET Bits
    BY DEF Counters
  <2> QED
    BY <2>1 DEF Init, TypeOK, Results
<1>2. MaskMeansAccepted
  BY DEF Init, MaskMeansAccepted
<1>3. MaxIsHighest /\ AcceptedAtMostOnce
  BY DEF Init, MaxIsHighest, AcceptedAtMostOnce
<1> QED
  BY <1>1, <1>2, <1>3 DEF Inv

\* Sealing and receiving keep it.
LEMMA NextInv == Inv /\ [Next]_vars => Inv'
<1> SUFFICES ASSUME Inv, [Next]_vars PROVE Inv'
  OBVIOUS
<1>1. CASE Encrypt
  BY <1>1, MaxCounterAssumption
     DEF Encrypt, Inv, TypeOK, MaskMeansAccepted, MaxIsHighest, AcceptedAtMostOnce, Counters
<1>2. ASSUME NEW c \in Counters, NEW genuine \in BOOLEAN,
             genuine => c < send_counter, Decrypt(c, genuine)
      PROVE  Inv'
  <2>1. ASSUME NEW r \in Results, Refuse(r) PROVE Inv'
    BY <1>2, <2>1 DEF Decrypt, Refuse, Return, Inv, TypeOK, MaskMeansAccepted,
                      MaxIsHighest, AcceptedAtMostOnce
  <2>2. CASE genuine /\ ~WindowRefuses(c) /\ SlideTo(c) /\ HandOver(c)
    BY <1>2, <2>2, AcceptStep DEF Decrypt
  <2> QED
    BY <1>2, <2>1, <2>2 DEF Decrypt, Results
<1>3. CASE UNCHANGED vars
  BY <1>3 DEF vars, Inv, TypeOK, MaskMeansAccepted, MaxIsHighest, AcceptedAtMostOnce
<1> QED
  BY <1>1, <1>2, <1>3 DEF Next, Arrive

-----------------------------------------------------------------------------
\* Every state of `Session` reached by encrypt and decrypt is well typed: in
\* particular no bit of the mask lies outside the word.
THEOREM TypeCorrect == Spec => []TypeOK
<1>1. Inv => TypeOK
  BY DEF Inv
<1> QED
  BY <1>1, InitInv, NextInv, PTL DEF Spec

\* Under every schedule of losses, duplicates and reorderings decrypt hands a
\* counter over at most once, and only one the other end's encrypt produced.
THEOREM NoReplay == Spec => []AcceptedAtMostOnce
<1>1. Inv => AcceptedAtMostOnce
  BY DEF Inv
<1> QED
  BY <1>1, InitInv, NextInv, PTL DEF Spec

\* The doc of recv_mask and recv_max holds at all times: bit i says that
\* recv_max - i was accepted, and recv_max is the highest accepted counter.
THEOREM WindowMeansHistory == Spec => [](MaskMeansAccepted /\ MaxIsHighest)
<1>1. Inv => MaskMeansAccepted /\ MaxIsHighest
  BY DEF Inv
<1> QED
  BY <1>1, InitInv, NextInv, PTL DEF Spec

\* decrypt refuses no genuine first arrival that is less than Window behind the
\* highest accepted counter, whatever arrived before it.
THEOREM ReorderingAccepted == Spec => []NoFalseRefusal
<1>1. ASSUME Inv, NEW c \in Counters, handed[c] = 0,
             recv_started => recv_max < c + Window
      PROVE  ~PreAuthReject(c) /\ ~WindowRefuses(c)
  <2>1. ~BeyondWindow(c)
    BY <1>1, WindowAssumption, MaxCounterAssumption
       DEF BeyondWindow, Inv, TypeOK, Counters
  <2>2. ~AlreadySeen(c)
    <3> SUFFICES ASSUME recv_started, c <= recv_max, recv_max - c \in recv_mask
                 PROVE  FALSE
      BY DEF AlreadySeen
    <3>1. recv_max - c \in Bits /\ recv_max - (recv_max - c) = c
      BY <1>1, MaxCounterAssumption DEF Inv, TypeOK, Counters
    <3> QED
      BY <1>1, <3>1 DEF Inv, MaskMeansAccepted
  <2>3. ~PreAuthReject(c)
    BY <1>1, <2>1, PreAuthAgrees DEF Inv
  <2> QED
    BY <2>1, <2>2, <2>3 DEF WindowRefuses
<1>2. Inv => NoFalseRefusal
  BY <1>1 DEF NoFalseRefusal
<1> QED
  BY <1>2, InitInv, NextInv, PTL DEF Spec

-----------------------------------------------------------------------------
\* encrypt and decrypt implement at-most-once delivery of sealed packets: each
\* of their steps is a Send, a Hand or a stutter of AtMostOnce.
THEOREM Refinement == Spec => ImplementsAtMostOnce
<1> USE MaxCounterAssumption
<1>1. Init => Abstract!Init
  BY DEF Init, Abstract!Init
<1>2. Inv /\ [Next]_vars => [Abstract!Next]_Abstract!vars
  <2> SUFFICES ASSUME Inv, [Next]_vars PROVE [Abstract!Next]_Abstract!vars
    OBVIOUS
  <2>1. CASE Encrypt
    <3>1. /\ send_counter \in Counters \ (0 .. send_counter - 1)
          /\ (0 .. send_counter - 1)' = (0 .. send_counter - 1) \cup {send_counter}
      BY <2>1 DEF Encrypt, Inv, TypeOK, Counters
    <3>2. Abstract!Send
      BY <2>1, <3>1 DEF Encrypt, Abstract!Send
    <3> QED
      BY <3>2 DEF Abstract!Next
  <2>2. ASSUME NEW c \in Counters, NEW genuine \in BOOLEAN,
               genuine => c < send_counter, Decrypt(c, genuine)
        PROVE  [Abstract!Next]_Abstract!vars
    <3>1. ASSUME NEW r \in Results, Refuse(r) PROVE UNCHANGED Abstract!vars
      BY <2>2, <3>1 DEF Decrypt, Refuse, Abstract!vars
    <3>2. CASE genuine /\ ~WindowRefuses(c) /\ HandOver(c)
      <4>1. handed[c] = 0
        BY <3>2, AdmittedIsFresh
      <4>2. c \in 0 .. send_counter - 1
        BY <2>2, <3>2 DEF Counters, Inv, TypeOK
      <4>3. handed' = [handed EXCEPT ![c] = 1]
        BY <3>2, <4>1 DEF HandOver, Inv, TypeOK
      <4>4. Abstract!Hand
        BY <2>2, <4>1, <4>2, <4>3 DEF Decrypt, Abstract!Hand
      <4> QED
        BY <4>4 DEF Abstract!Next
    <3> QED
      BY <2>2, <3>1, <3>2 DEF Decrypt, Results
  <2>3. CASE UNCHANGED vars
    BY <2>3 DEF vars, Abstract!vars
  <2> QED
    BY <2>1, <2>2, <2>3 DEF Next, Arrive
<1> QED
  BY <1>1, <1>2, InitInv, NextInv, PTL DEF Spec, ImplementsAtMostOnce, Abstract!Spec

-----------------------------------------------------------------------------
\* s holds the bytes from k + 1 on: byte n of a stream stands for its place in it.
From(s, k) == \A i \in 1 .. Len(s) : s[i] = k + i

\* The bytes from k + 1 on, one after the other: none, one more, one fewer, more of
\* them, and one.
LEMMA FromEmpty ==
  ASSUME NEW k
  PROVE  From(<<>>, k)
  BY DEF From

LEMMA FromAppend ==
  ASSUME NEW s \in Seq(Nat), NEW k \in Nat, NEW x \in Nat, From(s, k), x = k + Len(s) + 1
  PROVE  Append(s, x) \in Seq(Nat) /\ From(Append(s, x), k) /\ Len(Append(s, x)) = Len(s) + 1
<1>1. Len(s) \in Nat /\ Len(Append(s, x)) = Len(s) + 1 /\ Append(s, x) \in Seq(Nat)
  OBVIOUS
<1>2. \A i \in 1 .. Len(s) + 1 : Append(s, x)[i] = IF i <= Len(s) THEN s[i] ELSE x
  BY <1>1, AppendProperties
<1>3. PICK n, t : n \in Nat /\ n = Len(s) /\ t = Append(s, x)
  BY <1>1
<1>4. \A i \in 1 .. n + 1 : t[i] = k + i
  BY <1>2, <1>3 DEF From
<1> QED BY <1>1, <1>3, <1>4 DEF From

LEMMA FromTail ==
  ASSUME NEW s \in Seq(Nat), NEW k \in Nat, From(s, k), s # <<>>
  PROVE  /\ Head(s) = k + 1 /\ Tail(s) \in Seq(Nat)
         /\ From(Tail(s), k + 1) /\ Len(s) = Len(Tail(s)) + 1
<1>1. Len(s) \in Nat /\ Len(s) > 0
  BY EmptySeq
<1>2. Tail(s) \in Seq(Nat) /\ Len(Tail(s)) = Len(s) - 1 /\ Head(s) = s[1]
  BY <1>1
<1>3. \A i \in 1 .. Len(s) - 1 : Tail(s)[i] = s[i + 1]
  BY <1>1, HeadTailProperties
<1> QED BY <1>1, <1>2, <1>3 DEF From

LEMMA FromConcat ==
  ASSUME NEW s \in Seq(Nat), NEW c \in Seq(Nat), NEW k \in Nat, From(s, k), From(c, k + Len(s))
  PROVE  s \o c \in Seq(Nat) /\ From(s \o c, k) /\ Len(s \o c) = Len(s) + Len(c)
<1>1. Len(s) \in Nat /\ Len(c) \in Nat /\ Len(s \o c) = Len(s) + Len(c) /\ s \o c \in Seq(Nat)
  OBVIOUS
<1>2. \A i \in 1 .. Len(s) + Len(c) : (s \o c)[i] = IF i <= Len(s) THEN s[i] ELSE c[i - Len(s)]
  BY ConcatProperties
<1>3. ASSUME NEW i \in 1 .. Len(s \o c) PROVE (s \o c)[i] = k + i
  <2>1. CASE i <= Len(s)
    BY <1>1, <1>2, <2>1 DEF From
  <2>2. CASE ~(i <= Len(s))
    <3>1. i - Len(s) \in 1 .. Len(c) /\ (s \o c)[i] = c[i - Len(s)]
      BY <1>1, <1>2, <2>2
    <3>2. c[i - Len(s)] = (k + Len(s)) + (i - Len(s))
      BY <3>1 DEF From
    <3> QED BY <1>1, <3>1, <3>2
  <2> QED BY <2>1, <2>2
<1> QED BY <1>1, <1>3 DEF From

LEMMA FromOne ==
  ASSUME NEW k \in Nat
  PROVE  <<k + 1>> \in Seq(Nat) /\ From(<<k + 1>>, k) /\ Len(<<k + 1>>) = 1
  BY DEF From

-----------------------------------------------------------------------------
\* The two ends of a connection, as the proxy calls them.
Sides == Proxy!Ends
Other(e) == Proxy!Other(e)

\* The types of the proxy's state.
Wired ==
  /\ handler \in {"none", "connect", "splice", "done"}
  /\ copier \in [Sides -> {"read", "write", "shutdown_write", "shutdown_read", "done"}]
  /\ chunk \in [Sides -> Seq(Nat)] /\ sent \in [Sides -> Seq(Nat)] /\ inq \in [Sides -> Seq(Nat)]
  /\ outq \in [Sides -> Seq(Nat)] /\ got \in [Sides -> Seq(Nat)]
  /\ fin \in [Sides -> BOOLEAN] /\ eof \in [Sides -> BOOLEAN] /\ wr \in [Sides -> BOOLEAN]
  /\ rd \in [Sides -> BOOLEAN] /\ rst \in [Sides -> BOOLEAN]

\* The bytes of one direction: s sent, g read at the other end, q written for it,
\* c in the hands of the copier, i yet to be read by it.
InOrder(s, g)        == From(s, 0) /\ From(g, 0) /\ Len(g) <= Len(s)
Ahead(s, g, q, c)    == /\ From(q, Len(g)) /\ From(c, Len(g) + Len(q))
                        /\ Len(g) + Len(q) + Len(c) <= Len(s)
Whole(s, g, q, c, i) == /\ From(i, Len(g) + Len(q) + Len(c))
                        /\ Len(g) + Len(q) + Len(c) + Len(i) = Len(s)
Delivered(s, g, q)   == Len(g) + Len(q) = Len(s)

\* Before the first byte.
LEMMA NothingYet ==
  /\ InOrder(<<>>, <<>>)
  /\ Ahead(<<>>, <<>>, <<>>, <<>>)
  /\ Whole(<<>>, <<>>, <<>>, <<>>, <<>>)
<1>1. Len(<<>>) = 0 /\ From(<<>>, 0)
  BY FromEmpty
<1> QED BY <1>1 DEF InOrder, Ahead, Whole

\* The end that sends sends byte b.
LEMMA ByteSent ==
  ASSUME NEW s \in Seq(Nat), NEW g \in Seq(Nat), NEW q \in Seq(Nat), NEW c \in Seq(Nat),
         NEW i \in Seq(Nat), NEW b, b = Len(s) + 1, InOrder(s, g)
  PROVE  /\ Append(s, b) \in Seq(Nat) /\ Append(i, b) \in Seq(Nat)
         /\ InOrder(Append(s, b), g)
         /\ Ahead(s, g, q, c) => Ahead(Append(s, b), g, q, c)
         /\ Whole(s, g, q, c, i) => Whole(Append(s, b), g, q, c, Append(i, b))
<1>1. PICK k \in Nat, l \in Nat, m \in Nat, n \in Nat, r \in Nat :
        k = Len(s) /\ l = Len(g) /\ m = Len(q) /\ n = Len(c) /\ r = Len(i)
  OBVIOUS
<1>2. b \in Nat /\ b = k + 1
  BY <1>1
<1>3. Append(s, b) \in Seq(Nat) /\ Append(i, b) \in Seq(Nat)
      /\ Len(Append(s, b)) = k + 1 /\ Len(Append(i, b)) = r + 1
  BY <1>1, <1>2
<1>4. From(Append(s, b), 0)
  BY <1>2, FromAppend DEF InOrder
<1>5. Whole(s, g, q, c, i) => From(Append(i, b), l + m + n)
  BY <1>1, <1>2, FromAppend DEF Whole
<1> QED BY <1>1, <1>3, <1>4, <1>5 DEF InOrder, Ahead, Whole

\* The copier, which holds none, takes the first byte that waits for it.
LEMMA ByteTaken ==
  ASSUME NEW s \in Seq(Nat), NEW g \in Seq(Nat), NEW q \in Seq(Nat), NEW i \in Seq(Nat), i # <<>>,
         NEW d \in Seq(Nat), Len(d) = 0, Ahead(s, g, q, d), NEW c, c = <<Head(i)>>
  PROVE  /\ c \in Seq(Nat) /\ Tail(i) \in Seq(Nat)
         /\ Whole(s, g, q, d, i) => Ahead(s, g, q, c) /\ Whole(s, g, q, c, Tail(i))
<1>1. PICK k \in Nat, l \in Nat, m \in Nat, r \in Nat :
        k = Len(s) /\ l = Len(g) /\ m = Len(q) /\ r = Len(i)
  OBVIOUS
<1>2. Head(i) \in Nat /\ c \in Seq(Nat) /\ Len(c) = 1 /\ Tail(i) \in Seq(Nat)
      /\ Len(Tail(i)) = r - 1 /\ r > 0
  BY <1>1, EmptySeq
<1>3. ASSUME Whole(s, g, q, d, i)
      PROVE  Ahead(s, g, q, c) /\ Whole(s, g, q, c, Tail(i))
  <2> DEFINE passed == Len(g) + Len(q) + Len(d)
  <2>1. passed = l + m
    BY <1>1
  <2>2. l + m + r = k /\ From(i, l + m)
    <3>1. From(i, passed) /\ passed + Len(i) = Len(s)
      BY <1>3 DEF Whole
    <3> HIDE DEF passed
    <3> QED BY <1>1, <2>1, <3>1
  <2>3. Head(i) = l + m + 1 /\ From(Tail(i), l + m + 1)
    BY <2>2, FromTail
  <2>4. From(c, l + m)
    BY <2>3, FromOne
  <2>5. Ahead(s, g, q, c)
    BY <1>1, <1>2, <2>2, <2>4 DEF Ahead
  <2>6. Whole(s, g, q, c, Tail(i))
    <3>1. Len(g) + Len(q) + Len(c) = l + m + 1
      BY <1>1, <1>2
    <3>2. From(Tail(i), Len(g) + Len(q) + Len(c))
      BY <2>3, <3>1
    <3>3. Len(g) + Len(q) + Len(c) + Len(Tail(i)) = Len(s)
      BY <1>1, <1>2, <2>2, <3>1
    <3> QED BY <3>2, <3>3 DEF Whole
  <2> QED BY <2>5, <2>6
<1> QED BY <1>2, <1>3

\* The copier writes what it holds.
LEMMA ByteWritten ==
  ASSUME NEW s \in Seq(Nat), NEW g \in Seq(Nat), NEW q \in Seq(Nat), NEW c \in Seq(Nat),
         NEW i \in Seq(Nat)
  PROVE  /\ q \o c \in Seq(Nat)
         /\ Ahead(s, g, q, c) => Ahead(s, g, q \o c, <<>>)
         /\ Whole(s, g, q, c, i) => Whole(s, g, q \o c, <<>>, i)
<1>1. PICK k \in Nat, l \in Nat, m \in Nat, n \in Nat :
        k = Len(s) /\ l = Len(g) /\ m = Len(q) /\ n = Len(c)
  OBVIOUS
<1>2. Len(<<>>) = 0 /\ q \o c \in Seq(Nat) /\ Len(q \o c) = m + n /\ From(<<>>, l + (m + n))
  BY <1>1, FromEmpty
<1>3. Ahead(s, g, q, c) => From(q \o c, l)
  BY <1>1, FromConcat DEF Ahead
<1> QED BY <1>1, <1>2, <1>3 DEF Ahead, Whole

\* The other end reads the first byte that waits for it.
LEMMA ByteRead ==
  ASSUME NEW s \in Seq(Nat), NEW g \in Seq(Nat), NEW q \in Seq(Nat), NEW c \in Seq(Nat),
         NEW i \in Seq(Nat), q # <<>>, InOrder(s, g), Ahead(s, g, q, c),
         NEW h, h = Append(g, Head(q))
  PROVE  /\ h \in Seq(Nat) /\ Tail(q) \in Seq(Nat)
         /\ InOrder(s, h) /\ Ahead(s, h, Tail(q), c)
         /\ Whole(s, g, q, c, i) => Whole(s, h, Tail(q), c, i)
         /\ Delivered(s, g, q) => Delivered(s, h, Tail(q))
<1>1. PICK k \in Nat, l \in Nat, m \in Nat, n \in Nat, r \in Nat :
        k = Len(s) /\ l = Len(g) /\ m = Len(q) /\ n = Len(c) /\ r = Len(i)
  OBVIOUS
<1>2. Head(q) = l + 1 /\ Tail(q) \in Seq(Nat) /\ From(Tail(q), l + 1)
      /\ Len(Tail(q)) = m - 1 /\ m > 0
  <2>1. From(q, l)
    BY <1>1 DEF Ahead
  <2>2. Head(q) = l + 1 /\ Tail(q) \in Seq(Nat) /\ From(Tail(q), l + 1) /\ m = Len(Tail(q)) + 1
    BY <1>1, <2>1, FromTail
  <2>3. Len(Tail(q)) \in Nat
    BY <2>2
  <2> QED BY <2>2, <2>3
<1>3. h \in Seq(Nat) /\ From(h, 0) /\ Len(h) = l + 1
  BY <1>1, <1>2, FromAppend DEF InOrder
<1>4. From(c, l + m) /\ l + m + n <= k
  BY <1>1 DEF Ahead
<1>5. (l + 1) + (m - 1) = l + m
  BY <1>1
<1>6. InOrder(s, h)
  BY <1>1, <1>2, <1>3, <1>4 DEF InOrder
<1>7. Ahead(s, h, Tail(q), c)
  BY <1>1, <1>2, <1>3, <1>4, <1>5 DEF Ahead
<1>8. Whole(s, g, q, c, i) => Whole(s, h, Tail(q), c, i)
  BY <1>1, <1>2, <1>3, <1>5 DEF Whole
<1> QED BY <1>1, <1>2, <1>3, <1>5, <1>6, <1>7, <1>8 DEF Delivered

\* Nothing is left before the other end.
LEMMA AllDelivered ==
  ASSUME NEW s \in Seq(Nat), NEW g \in Seq(Nat), NEW q \in Seq(Nat), Whole(s, g, q, <<>>, <<>>)
  PROVE  Delivered(s, g, q)
<1>1. Len(<<>>) = 0 /\ Len(s) \in Nat /\ Len(g) \in Nat /\ Len(q) \in Nat
  OBVIOUS
<1> QED BY <1>1 DEF Whole, Delivered

-----------------------------------------------------------------------------
\* The copiers have not started; copier e may still pass bytes on.
Early == handler \in {"none", "connect"}
Copying(e) == Early \/ copier[e] \in {"read", "write"}

\* Of the bytes e sent, those o got are the first, and until a reset loses some,
\* those written, held and waiting are the next; none is lost between a copier
\* that ended and o.
Passed(e, o) ==
  /\ InOrder(sent[e], got[o])
  /\ copier[e] # "write" => chunk[e] = <<>>
  /\ ~rst[o] => Ahead(sent[e], got[o], outq[o], chunk[e])
  /\ ~rst[e] /\ ~rst[o] /\ Copying(e) => Whole(sent[e], got[o], outq[o], chunk[e], inq[e])
  /\ ~rst[e] /\ ~rst[o] /\ ~Copying(e) => fin[e] /\ Delivered(sent[e], got[o], outq[o])

\* No end sees the end of a stream before all its bytes, and before the copier ended.
Closed(e, o) ==
  /\ handler # "splice" => copier[e] = "done"
  /\ Early => outq[o] = <<>> /\ got[o] = <<>>
  /\ ~rd[e] => ~Early /\ copier[e] = "done"
  /\ ~wr[o] => ~Early /\ copier[e] \in {"shutdown_read", "done"}
  /\ eof[o] => ~wr[o] /\ outq[o] = <<>>
  /\ eof[o] /\ ~rst[e] => fin[e] /\ Delivered(sent[e], got[o], <<>>)

\* The inductive invariant behind StreamsIntact.
Streaming == Wired /\ \A e \in Sides : Passed(e, Other(e)) /\ Closed(e, Other(e))

\* There are two ends.
LEMMA OtherEnd ==
  ASSUME NEW e \in Sides
  PROVE  Other(e) \in Sides /\ Other(e) # e /\ Other(Other(e)) = e /\ \A x \in Sides : x = e \/ x = Other(e)
  BY DEF Sides, Other, Proxy!Ends, Proxy!Other

\* Nothing that concerns the bytes from e to o changes.
SameWay(e, o) ==
  /\ UNCHANGED handler /\ copier'[e] = copier[e] /\ chunk'[e] = chunk[e]
  /\ sent'[e] = sent[e] /\ fin'[e] = fin[e] /\ inq'[e] = inq[e] /\ rd'[e] = rd[e] /\ rst'[e] = rst[e]
  /\ outq'[o] = outq[o] /\ got'[o] = got[o] /\ eof'[o] = eof[o] /\ wr'[o] = wr[o] /\ rst'[o] = rst[o]

\* What does not concern the bytes from e to o keeps what is said of them.
LEMMA SameWayStays ==
  ASSUME NEW e, NEW o, Passed(e, o), Closed(e, o), SameWay(e, o)
  PROVE  Passed(e, o)' /\ Closed(e, o)'
  BY DEF SameWay, Passed, Closed, Copying, Early

\* An end sends a byte.
LEMMA SendsStream ==
  ASSUME Streaming, NEW x \in Sides, Proxy!PeerSends(x)
  PROVE  Streaming'
<1>1. Wired'
  BY DEF Streaming, Wired, Proxy!PeerSends
<1>2. ASSUME NEW e \in Sides, NEW o \in Sides, o = Other(e) PROVE Passed(e, o)' /\ Closed(e, o)'
  <2>1. Passed(e, o) /\ Closed(e, o) /\ o # e
    BY <1>2, OtherEnd DEF Streaming
  <2>2. CASE e = x
    <3>1. PICK byte : byte = Len(sent[e]) + 1
      OBVIOUS
    <3>2. /\ sent'[e] = Append(sent[e], byte) /\ inq'[e] = Append(inq[e], byte)
          /\ UNCHANGED handler /\ copier'[e] = copier[e] /\ chunk'[e] = chunk[e]
          /\ fin'[e] = fin[e] /\ rd'[e] = rd[e] /\ rst'[e] = rst[e] /\ rst'[o] = rst[o]
          /\ outq'[o] = outq[o] /\ got'[o] = got[o] /\ eof'[o] = eof[o] /\ wr'[o] = wr[o]
          /\ ~fin[e] /\ ~rst[e]
      BY <2>2, <3>1 DEF Proxy!PeerSends, Streaming, Wired
    <3>3. /\ sent[e] \in Seq(Nat) /\ inq[e] \in Seq(Nat) /\ chunk[e] \in Seq(Nat)
          /\ outq[o] \in Seq(Nat) /\ got[o] \in Seq(Nat)
      BY DEF Streaming, Wired
    <3>4. /\ InOrder(sent'[e], got[o])
          /\ Ahead(sent[e], got[o], outq[o], chunk[e]) => Ahead(sent'[e], got[o], outq[o], chunk[e])
          /\ Whole(sent[e], got[o], outq[o], chunk[e], inq[e])
               => Whole(sent'[e], got[o], outq[o], chunk[e], inq'[e])
      BY <2>1, <3>1, <3>2, <3>3, ByteSent DEF Passed
    <3>5. Passed(e, o)'
      BY <2>1, <3>2, <3>4 DEF Passed, Copying, Early
    <3>6. Closed(e, o)'
      BY <2>1, <3>2 DEF Closed, Early
    <3> QED BY <3>5, <3>6
  <2>3. CASE e # x
    <3>1. SameWay(e, o)
      BY <2>3 DEF SameWay, Proxy!PeerSends, Streaming, Wired
    <3> QED BY <2>1, <3>1, SameWayStays
  <2> QED BY <2>2, <2>3
<1> QED BY <1>1, <1>2, OtherEnd DEF Streaming

\* serve binds its listeners, or fails to.
LEMMA BindStream ==
  ASSUME Streaming, Proxy!Bind
  PROVE  Streaming'
<1>1. Wired'
  BY DEF Streaming, Wired, Proxy!Bind, Proxy!conn
<1>2. ASSUME NEW e \in Sides PROVE Passed(e, Other(e))' /\ Closed(e, Other(e))'
  <2>1. SameWay(e, Other(e))
    BY DEF SameWay, Proxy!Bind, Proxy!conn
  <2> QED BY <2>1, SameWayStays DEF Streaming
<1> QED BY <1>1, <1>2 DEF Streaming, Other

\* Both connections are gone, and with them what they held.
LEMMA DroppedStream ==
  ASSUME Streaming, Proxy!Dropped, handler' = "done", copier' = Proxy!AtEnds("done"),
         chunk' = Proxy!AtEnds(<<>>)
  PROVE  Streaming'
<1>1. Wired' /\ \A e \in Sides : /\ rst'[e] = TRUE /\ copier'[e] = "done" /\ chunk'[e] = <<>>
                                 /\ outq'[e] = <<>>
                                 /\ UNCHANGED <<sent[e], got[e], rd[e], wr[e], eof[e], fin[e]>>
  BY DEF Streaming, Wired, Proxy!Dropped, Proxy!AtEnds, Sides
<1>2. ASSUME NEW e \in Sides, NEW o \in Sides, o = Other(e) PROVE Passed(e, o)' /\ Closed(e, o)'
  <2>1. Passed(e, o) /\ Closed(e, o)
    BY <1>2 DEF Streaming
  <2>2. Passed(e, o)'
    BY <1>1, <2>1 DEF Passed
  <2>3. Closed(e, o)'
    BY <1>1, <2>1 DEF Closed, Early
  <2> QED BY <2>2, <2>3
<1> QED BY <1>1, <1>2, OtherEnd DEF Streaming, Other

LEMMA BindFailsStream ==
  ASSUME Streaming, Proxy!BindFails
  PROVE  Streaming'
  BY DroppedStream DEF Proxy!BindFails

\* The backend refuses: the accepted connection is dropped.
LEMMA ConnectFailsStream ==
  ASSUME Streaming, Proxy!ConnectFails
  PROVE  Streaming'
<1>1. \A e \in Sides : copier[e] = "done" /\ chunk[e] = <<>>
  BY DEF Streaming, Passed, Closed, Proxy!ConnectFails
<1>2. copier' = Proxy!AtEnds("done") /\ chunk' = Proxy!AtEnds(<<>>)
  BY <1>1 DEF Streaming, Wired, Proxy!ConnectFails, Proxy!AtEnds, Sides
<1> QED BY <1>2, DroppedStream DEF Proxy!ConnectFails

\* A fresh connection.
LEMMA FreshStream ==
  ASSUME handler' \in {"none", "connect"}, copier' = Proxy!AtEnds("done"), chunk' = Proxy!AtEnds(<<>>),
         sent' = Proxy!AtEnds(<<>>), fin' = Proxy!AtEnds(FALSE), inq' = Proxy!AtEnds(<<>>),
         outq' = Proxy!AtEnds(<<>>), got' = Proxy!AtEnds(<<>>), eof' = Proxy!AtEnds(FALSE),
         wr' = Proxy!AtEnds(TRUE), rd' = Proxy!AtEnds(TRUE), rst' = Proxy!AtEnds(FALSE)
  PROVE  Streaming'
<1>1. Wired'
  BY DEF Wired, Proxy!AtEnds, Sides
<1>2. ASSUME NEW e \in Sides, NEW o \in Sides, o = Other(e) PROVE Passed(e, o)' /\ Closed(e, o)'
  <2>1. /\ sent'[e] = <<>> /\ inq'[e] = <<>> /\ chunk'[e] = <<>> /\ outq'[o] = <<>> /\ got'[o] = <<>>
        /\ copier'[e] = "done" /\ ~fin'[e] /\ ~eof'[o] /\ rd'[e] /\ wr'[o] /\ Early'
    BY DEF Proxy!AtEnds, Sides, Early
  <2>2. Passed(e, o)'
    BY <2>1, NothingYet DEF Passed, Copying
  <2>3. Closed(e, o)'
    BY <2>1 DEF Closed, Early
  <2> QED BY <2>2, <2>3
<1> QED BY <1>1, <1>2, OtherEnd DEF Streaming, Other

\* A connection is accepted.
LEMMA AcceptStream ==
  ASSUME Streaming, Proxy!Accept
  PROVE  Streaming'
<1>1. \A e \in Sides : copier[e] = "done" /\ chunk[e] = <<>>
  BY DEF Streaming, Passed, Closed, Proxy!Accept
<1>2. copier' = Proxy!AtEnds("done") /\ chunk' = Proxy!AtEnds(<<>>)
  BY <1>1 DEF Streaming, Wired, Proxy!Accept, Proxy!AtEnds, Sides
<1> QED BY <1>2, FreshStream DEF Proxy!Accept

\* The backend is there, and the two copiers start.
LEMMA ConnectStream ==
  ASSUME Streaming, Proxy!Connect
  PROVE  Streaming'
<1>1. Wired' /\ \A e \in Sides : copier'[e] = "read"
  BY DEF Streaming, Wired, Proxy!Connect, Proxy!conn, Proxy!AtEnds, Sides
<1>2. ASSUME NEW e \in Sides, NEW o \in Sides, o = Other(e) PROVE Passed(e, o)' /\ Closed(e, o)'
  <2>1. /\ Passed(e, o) /\ Closed(e, o) /\ Early /\ handler' = "splice" /\ copier'[e] = "read"
        /\ UNCHANGED <<chunk, sent, fin, inq, outq, got, eof, wr, rd, rst>>
    BY <1>1, <1>2 DEF Streaming, Early, Proxy!Connect, Proxy!conn
  <2>2. chunk[e] = <<>> /\ copier[e] = "done" /\ rd[e] /\ wr[o] /\ ~eof[o]
    BY <2>1 DEF Passed, Closed, Early
  <2>3. Passed(e, o)'
    BY <2>1, <2>2 DEF Passed, Copying
  <2>4. Closed(e, o)'
    BY <2>1, <2>2 DEF Closed, Early
  <2> QED BY <2>3, <2>4
<1> QED BY <1>1, <1>2, OtherEnd DEF Streaming, Other

\* Both copiers are done: closing a connection with bytes unread resets it.
LEMMA JoinStream ==
  ASSUME Streaming, Proxy!Join
  PROVE  Streaming'
<1> DEFINE Unread == {e \in Proxy!Ends : inq[e] # <<>>}
<1>1. /\ Wired' /\ handler = "splice" /\ handler' = "done"
      /\ UNCHANGED <<copier, chunk, sent, fin, inq, got, eof, wr, rd>>
      /\ \A e \in Sides : /\ copier[e] = "done" /\ copier'[e] = "done"
                          /\ rst'[e] = (rst[e] \/ e \in Unread)
                          /\ outq'[e] = IF e \in Unread THEN <<>> ELSE outq[e]
  BY DEF Streaming, Wired, Proxy!Join, Proxy!AtEnds, Sides
<1>2. ASSUME NEW e \in Sides, NEW o \in Sides, o = Other(e) PROVE Passed(e, o)' /\ Closed(e, o)'
  <2>1. Passed(e, o) /\ Closed(e, o)
    BY <1>2 DEF Streaming
  <2>2. ~rst'[e] => ~rst[e]
    BY <1>1
  <2>3. ~rst'[o] => ~rst[o] /\ outq'[o] = outq[o]
    BY <1>1
  <2>4. outq'[o] = outq[o] \/ outq'[o] = <<>>
    BY <1>1
  <2> HIDE DEF Unread
  <2>5. copier'[e] = "done" /\ copier[e] = "done"
    BY <1>1
  <2>6. Passed(e, o)'
    BY <1>1, <2>1, <2>2, <2>3, <2>5 DEF Passed, Copying, Early
  <2>7. Closed(e, o)'
    BY <1>1, <2>1, <2>2, <2>4, <2>5 DEF Closed, Early
  <2> QED BY <2>6, <2>7
<1> QED BY <1>1, <1>2, OtherEnd DEF Streaming, Other

\* A step that concerns the bytes from x, and those to x.
LEMMA ThisWay ==
  ASSUME Streaming, Wired', NEW x \in Sides,
         Passed(x, Other(x))' /\ Closed(x, Other(x))',
         Passed(Other(x), x)' /\ Closed(Other(x), x)'
  PROVE  Streaming'
<1>1. ASSUME NEW e \in Sides PROVE Passed(e, Other(e))' /\ Closed(e, Other(e))'
  <2>1. CASE e = x
    BY <2>1 DEF Other
  <2>2. CASE e # x
    <3>1. e = Other(x) /\ Other(e) = x
      BY <2>2, OtherEnd
    <3> QED BY <3>1
  <2> QED BY <2>1, <2>2
<1> QED BY <1>1 DEF Streaming, Other

\* The empty chunk.
LEMMA EmptyBytes == <<>> \in Seq(Nat)
  OBVIOUS

\* What copier x does concerns the bytes from x; of the other way, it may end
\* the reading of x or the writing to it.
LEMMA ReadStream ==
  ASSUME Streaming, NEW x \in Sides, NEW o \in Sides, o = Other(x), copier[x] = "read",
         Proxy!ReadBytes(x), UNCHANGED <<process, bound, handler>>
  PROVE  Streaming'
<1>1. o # x /\ x = Other(o) /\ Passed(x, o) /\ Closed(x, o) /\ Passed(o, x) /\ Closed(o, x)
  BY OtherEnd DEF Streaming
<1>2. /\ UNCHANGED <<handler, sent, fin, outq, got, eof, wr, rd, rst>>
      /\ ~rst[x] /\ inq[x] # <<>> /\ handler = "splice"
      /\ copier'[x] = "write" /\ chunk'[x] = <<Head(inq[x])>> /\ inq'[x] = Tail(inq[x])
      /\ copier'[o] = copier[o] /\ chunk'[o] = chunk[o] /\ inq'[o] = inq[o]
  BY <1>1 DEF Proxy!ReadBytes, Proxy!Goto, Streaming, Wired, Closed
<1>3. /\ sent[x] \in Seq(Nat) /\ inq[x] \in Seq(Nat) /\ outq[o] \in Seq(Nat) /\ got[o] \in Seq(Nat)
      /\ chunk[x] \in Seq(Nat) /\ chunk[x] = <<>> /\ Len(chunk[x]) = 0
  BY <1>1 DEF Streaming, Wired, Passed
<1>4. ASSUME ~rst[o]
      PROVE  /\ Ahead(sent[x], got[o], outq[o], chunk'[x])
             /\ Whole(sent[x], got[o], outq[o], chunk'[x], inq'[x])
  <2>1. Ahead(sent[x], got[o], outq[o], chunk[x]) /\ Whole(sent[x], got[o], outq[o], chunk[x], inq[x])
    BY <1>1, <1>2, <1>4 DEF Passed, Copying
  <2>2. PICK s \in Seq(Nat), g \in Seq(Nat), q \in Seq(Nat), i \in Seq(Nat), d \in Seq(Nat) :
          s = sent[x] /\ g = got[o] /\ q = outq[o] /\ i = inq[x] /\ d = chunk[x]
    BY <1>3
  <2>3. PICK c : c = <<Head(i)>>
    OBVIOUS
  <2>4. i # <<>> /\ Len(d) = 0 /\ Ahead(s, g, q, d) /\ Whole(s, g, q, d, i)
    BY <1>2, <1>3, <2>1, <2>2
  <2>5. Ahead(s, g, q, c) /\ Whole(s, g, q, c, Tail(i))
    BY <2>3, <2>4, ByteTaken
  <2> QED BY <1>2, <2>2, <2>3, <2>5
<1>5. Passed(x, o)'
  BY <1>1, <1>2, <1>4 DEF Passed, Copying
<1>6. Closed(x, o)'
  BY <1>1, <1>2 DEF Closed, Early
<1>7. SameWay(o, x)
  BY <1>2 DEF SameWay
<1>8. Wired'
  <2>1. chunk'[x] \in Seq(Nat) /\ inq'[x] \in Seq(Nat)
    BY <1>2, <1>3, EmptySeq
  <2> QED BY <1>2, <2>1 DEF Streaming, Wired, Proxy!ReadBytes, Proxy!Goto
<1> QED BY <1>1, <1>5, <1>6, <1>7, <1>8, SameWayStays, ThisWay

\* Copier x saw the end of the stream, or an error.
LEMMA EndStream ==
  ASSUME Streaming, NEW x \in Sides, NEW o \in Sides, o = Other(x), copier[x] = "read",
         Proxy!ReadEnds(x), UNCHANGED <<process, bound, handler>>
  PROVE  Streaming'
<1>1. o # x /\ x = Other(o) /\ Passed(x, o) /\ Closed(x, o) /\ Passed(o, x) /\ Closed(o, x)
  BY OtherEnd DEF Streaming
<1>2. /\ UNCHANGED <<handler, chunk, sent, fin, inq, outq, got, eof, wr, rd, rst>>
      /\ handler = "splice" /\ copier'[x] = "shutdown_write" /\ copier'[o] = copier[o]
      /\ rst[x] \/ (inq[x] = <<>> /\ fin[x])
  BY <1>1 DEF Proxy!ReadEnds, Proxy!Goto, Proxy!conn, Streaming, Wired, Closed
<1>3. ASSUME ~rst[x], ~rst[o] PROVE Delivered(sent[x], got[o], outq[o])
  <2>1. Whole(sent[x], got[o], outq[o], <<>>, <<>>)
    BY <1>1, <1>2, <1>3 DEF Passed, Copying
  <2> QED BY <2>1, AllDelivered DEF Streaming, Wired
<1>4. Passed(x, o)'
  BY <1>1, <1>2, <1>3 DEF Passed, Copying, Early
<1>5. Closed(x, o)'
  BY <1>1, <1>2 DEF Closed, Early
<1>6. SameWay(o, x)
  BY <1>2 DEF SameWay
<1>7. Wired'
  BY <1>2 DEF Streaming, Wired, Proxy!ReadEnds, Proxy!Goto
<1> QED BY <1>1, <1>4, <1>5, <1>6, <1>7, SameWayStays, ThisWay

\* Copier x wrote its chunk.
LEMMA WriteStream ==
  ASSUME Streaming, NEW x \in Sides, NEW o \in Sides, o = Other(x), copier[x] = "write",
         Proxy!WriteBytes(x), UNCHANGED <<process, bound, handler>>
  PROVE  Streaming'
<1>1. o # x /\ x = Other(o) /\ Passed(x, o) /\ Closed(x, o) /\ Passed(o, x) /\ Closed(o, x)
  BY OtherEnd DEF Streaming
<1>2. /\ UNCHANGED <<handler, sent, fin, inq, got, eof, wr, rd, rst>>
      /\ ~rst[o] /\ wr[o] /\ handler = "splice"
      /\ copier'[x] = "read" /\ chunk'[x] = <<>> /\ outq'[o] = outq[o] \o chunk[x]
      /\ copier'[o] = copier[o] /\ chunk'[o] = chunk[o] /\ outq'[x] = outq[x]
  BY <1>1 DEF Proxy!WriteBytes, Proxy!Goto, Streaming, Wired, Closed, Other
<1>3. /\ sent[x] \in Seq(Nat) /\ inq[x] \in Seq(Nat) /\ outq[o] \in Seq(Nat) /\ got[o] \in Seq(Nat)
      /\ chunk[x] \in Seq(Nat)
  BY DEF Streaming, Wired
<1>4. /\ Ahead(sent[x], got[o], outq'[o], <<>>) /\ outq'[o] \in Seq(Nat)
      /\ Whole(sent[x], got[o], outq[o], chunk[x], inq[x]) => Whole(sent[x], got[o], outq'[o], <<>>, inq[x])
  <2>1. PICK s \in Seq(Nat), g \in Seq(Nat), q \in Seq(Nat), i \in Seq(Nat), c \in Seq(Nat) :
          s = sent[x] /\ g = got[o] /\ q = outq[o] /\ i = inq[x] /\ c = chunk[x]
    BY <1>3
  <2>2. outq'[o] = q \o c /\ Ahead(s, g, q, c)
    BY <1>1, <1>2, <2>1 DEF Passed
  <2>3. /\ q \o c \in Seq(Nat)
        /\ Ahead(s, g, q, c) => Ahead(s, g, q \o c, <<>>)
        /\ Whole(s, g, q, c, i) => Whole(s, g, q \o c, <<>>, i)
    BY ByteWritten
  <2> QED BY <2>1, <2>2, <2>3
<1>5. Passed(x, o)'
  BY <1>1, <1>2, <1>4 DEF Passed, Copying
<1>6. Closed(x, o)'
  BY <1>1, <1>2 DEF Closed, Early
<1>7. SameWay(o, x)
  BY <1>2 DEF SameWay
<1>8. Wired'
  <2>1. outq' = [outq EXCEPT ![o] = outq'[o]] /\ chunk' = [chunk EXCEPT ![x] = <<>>]
    BY <1>2 DEF Proxy!WriteBytes, Streaming, Wired, Other
  <2>2. chunk' \in [Sides -> Seq(Nat)] /\ outq' \in [Sides -> Seq(Nat)]
    BY <1>4, <2>1, EmptyBytes DEF Streaming, Wired
  <2> QED BY <1>2, <2>2 DEF Streaming, Wired, Proxy!WriteBytes, Proxy!Goto
<1> QED BY <1>1, <1>5, <1>6, <1>7, <1>8, SameWayStays, ThisWay

\* Copier x could not write.
LEMMA WriteFailsStream ==
  ASSUME Streaming, NEW x \in Sides, NEW o \in Sides, o = Other(x), copier[x] = "write",
         Proxy!WriteFails(x), UNCHANGED <<process, bound, handler>>
  PROVE  Streaming'
<1>1. o # x /\ x = Other(o) /\ Passed(x, o) /\ Closed(x, o) /\ Passed(o, x) /\ Closed(o, x)
  BY OtherEnd DEF Streaming
<1>2. /\ UNCHANGED <<handler, sent, fin, inq, outq, got, eof, wr, rd, rst>>
      /\ rst[o] /\ handler = "splice" /\ copier'[x] = "shutdown_write" /\ chunk'[x] = <<>>
      /\ copier'[o] = copier[o] /\ chunk'[o] = chunk[o]
  BY <1>1 DEF Proxy!WriteFails, Proxy!Goto, Proxy!conn, Streaming, Wired, Closed, Other
<1>3. Passed(x, o)'
  BY <1>1, <1>2 DEF Passed
<1>4. Closed(x, o)'
  BY <1>1, <1>2 DEF Closed, Early
<1>5. SameWay(o, x)
  BY <1>2 DEF SameWay
<1>6. Wired'
  <2>1. chunk' = [chunk EXCEPT ![x] = <<>>]
    BY DEF Proxy!WriteFails
  <2>2. chunk' \in [Sides -> Seq(Nat)]
    BY <2>1, EmptyBytes DEF Streaming, Wired
  <2> QED BY <1>2, <2>2 DEF Streaming, Wired, Proxy!WriteFails, Proxy!Goto
<1> QED BY <1>1, <1>3, <1>4, <1>5, <1>6, SameWayStays, ThisWay

\* Copier x ends its two halves.
LEMMA ShutdownStream ==
  ASSUME Streaming, NEW x \in Sides, NEW o \in Sides, o = Other(x),
         \/ copier[x] = "shutdown_write" /\ Proxy!ShutdownWrite(x)
         \/ copier[x] = "shutdown_read" /\ Proxy!ShutdownRead(x),
         UNCHANGED <<process, bound, handler>>
  PROVE  Streaming'
<1>1. o # x /\ x = Other(o) /\ Passed(x, o) /\ Closed(x, o) /\ Passed(o, x) /\ Closed(o, x)
  BY OtherEnd DEF Streaming
<1>2. /\ UNCHANGED <<handler, chunk, sent, fin, inq, outq, got, eof, rst>>
      /\ handler = "splice" /\ copier'[o] = copier[o]
      /\ wr'[x] = wr[x] /\ rd'[o] = rd[o]
      /\ copier[x] \in {"shutdown_write", "shutdown_read"} /\ copier'[x] \in {"shutdown_read", "done"}
      /\ ~rd'[x] => copier'[x] = "done" \/ ~rd[x]
      /\ wr[o] \/ ~wr'[o]
  BY <1>1 DEF Proxy!ShutdownWrite, Proxy!ShutdownRead, Proxy!Goto, Streaming, Wired, Closed, Other
<1>3. Passed(x, o)'
  BY <1>1, <1>2 DEF Passed, Copying, Early
<1>4. Closed(x, o)'
  BY <1>1, <1>2 DEF Closed, Early
<1>5. SameWay(o, x)
  BY <1>2 DEF SameWay
<1>6. Wired'
  BY <1>2 DEF Streaming, Wired, Proxy!ShutdownWrite, Proxy!ShutdownRead, Proxy!Goto, Other
<1> QED BY <1>1, <1>3, <1>4, <1>5, <1>6, SameWayStays, ThisWay

\* Any step of a copier.
LEMMA SpliceStream ==
  ASSUME Streaming, NEW x \in Sides, Proxy!Splice(x)
  PROVE  Streaming'
<1>1. PICK o \in Sides : o = Other(x)
  BY OtherEnd
<1> QED BY <1>1, ReadStream, EndStream, WriteStream, WriteFailsStream, ShutdownStream DEF Proxy!Splice

-----------------------------------------------------------------------------
\* An end says that it sends no more.
LEMMA ClosesStream ==
  ASSUME Streaming, NEW x \in Sides, Proxy!PeerCloses(x)
  PROVE  Streaming'
<1>1. PICK o \in Sides : o = Other(x)
  BY OtherEnd
<1>2. o # x /\ x = Other(o) /\ Passed(x, o) /\ Closed(x, o) /\ Passed(o, x) /\ Closed(o, x)
  BY <1>1, OtherEnd DEF Streaming
<1>3. /\ UNCHANGED <<handler, copier, chunk, sent, inq, outq, got, eof, wr, rd, rst>>
      /\ fin'[x] = TRUE /\ fin'[o] = fin[o]
  BY <1>2 DEF Proxy!PeerCloses, Streaming, Wired
<1>4. Passed(x, o)'
  BY <1>2, <1>3 DEF Passed, Copying, Early
<1>5. Closed(x, o)'
  BY <1>2, <1>3 DEF Closed, Early
<1>6. SameWay(o, x)
  BY <1>3 DEF SameWay
<1>7. Wired'
  BY DEF Streaming, Wired, Proxy!PeerCloses
<1> QED BY <1>1, <1>2, <1>4, <1>5, <1>6, <1>7, SameWayStays, ThisWay

\* An end reads a byte.
LEMMA ReadsStream ==
  ASSUME Streaming, NEW x \in Sides, Proxy!PeerReads(x)
  PROVE  Streaming'
<1>1. PICK o \in Sides : o = Other(x)
  BY OtherEnd
<1>2. o # x /\ x = Other(o) /\ Passed(x, o) /\ Closed(x, o) /\ Passed(o, x) /\ Closed(o, x)
  BY <1>1, OtherEnd DEF Streaming
<1>3. /\ UNCHANGED <<handler, copier, chunk, sent, fin, inq, eof, wr, rd, rst>>
      /\ ~rst[x] /\ outq[x] # <<>>
      /\ got'[x] = Append(got[x], Head(outq[x])) /\ outq'[x] = Tail(outq[x])
      /\ got'[o] = got[o] /\ outq'[o] = outq[o]
  BY <1>2 DEF Proxy!PeerReads, Streaming, Wired
<1>4. /\ sent[o] \in Seq(Nat) /\ inq[o] \in Seq(Nat) /\ outq[x] \in Seq(Nat) /\ got[x] \in Seq(Nat)
      /\ chunk[o] \in Seq(Nat)
  BY DEF Streaming, Wired
<1>5. /\ got'[x] \in Seq(Nat) /\ outq'[x] \in Seq(Nat)
      /\ InOrder(sent[o], got'[x]) /\ Ahead(sent[o], got'[x], outq'[x], chunk[o])
      /\ Whole(sent[o], got[x], outq[x], chunk[o], inq[o])
           => Whole(sent[o], got'[x], outq'[x], chunk[o], inq[o])
      /\ Delivered(sent[o], got[x], outq[x]) => Delivered(sent[o], got'[x], outq'[x])
  <2>1. PICK s \in Seq(Nat), g \in Seq(Nat), q \in Seq(Nat), i \in Seq(Nat), c \in Seq(Nat) :
          s = sent[o] /\ g = got[x] /\ q = outq[x] /\ i = inq[o] /\ c = chunk[o]
    BY <1>4
  <2>2. PICK h : h = Append(g, Head(q))
    OBVIOUS
  <2>3. q # <<>> /\ InOrder(s, g) /\ Ahead(s, g, q, c) /\ got'[x] = h /\ outq'[x] = Tail(q)
    BY <1>2, <1>3, <2>1, <2>2 DEF Passed
  <2>4. /\ h \in Seq(Nat) /\ Tail(q) \in Seq(Nat) /\ InOrder(s, h) /\ Ahead(s, h, Tail(q), c)
        /\ Whole(s, g, q, c, i) => Whole(s, h, Tail(q), c, i)
        /\ Delivered(s, g, q) => Delivered(s, h, Tail(q))
    BY <2>2, <2>3, ByteRead
  <2> QED BY <2>1, <2>3, <2>4
<1>6. Passed(o, x)'
  BY <1>2, <1>3, <1>5 DEF Passed, Copying, Early
<1>7. Closed(o, x)'
  BY <1>2, <1>3 DEF Closed, Early
<1>8. SameWay(x, o)
  BY <1>3 DEF SameWay
<1>9. Wired'
  BY <1>3, <1>5 DEF Streaming, Wired, Proxy!PeerReads
<1> QED BY <1>1, <1>2, <1>6, <1>7, <1>8, <1>9, SameWayStays, ThisWay

\* An end sees the end of the stream.
LEMMA EofStream ==
  ASSUME Streaming, NEW x \in Sides, Proxy!PeerSeesEof(x)
  PROVE  Streaming'
<1>1. PICK o \in Sides : o = Other(x)
  BY OtherEnd
<1>2. o # x /\ x = Other(o) /\ Passed(x, o) /\ Closed(x, o) /\ Passed(o, x) /\ Closed(o, x)
  BY <1>1, OtherEnd DEF Streaming
<1>3. /\ UNCHANGED <<handler, copier, chunk, sent, fin, inq, outq, got, wr, rd, rst>>
      /\ ~rst[x] /\ outq[x] = <<>> /\ ~wr[x] /\ eof'[x] = TRUE /\ eof'[o] = eof[o]
  BY <1>2 DEF Proxy!PeerSeesEof, Streaming, Wired
<1>4. Passed(o, x)'
  BY <1>2, <1>3 DEF Passed, Copying, Early
<1>5. ~rst[o] => fin[o] /\ Delivered(sent[o], got[x], <<>>)
  BY <1>2, <1>3 DEF Passed, Closed, Copying
<1>6. Closed(o, x)'
  BY <1>2, <1>3, <1>5 DEF Closed, Early
<1>7. SameWay(x, o)
  BY <1>3 DEF SameWay
<1>8. Wired'
  BY DEF Streaming, Wired, Proxy!PeerSeesEof
<1> QED BY <1>1, <1>2, <1>4, <1>6, <1>7, <1>8, SameWayStays, ThisWay

\* An end resets the connection.
LEMMA ResetStream ==
  ASSUME Streaming, NEW x \in Sides, Proxy!PeerResets(x)
  PROVE  Streaming'
<1>1. PICK o \in Sides : o = Other(x)
  BY OtherEnd
<1>2. o # x /\ x = Other(o) /\ Passed(x, o) /\ Closed(x, o) /\ Passed(o, x) /\ Closed(o, x)
  BY <1>1, OtherEnd DEF Streaming
<1>3. /\ UNCHANGED <<handler, copier, chunk, sent, fin, got, eof, wr, rd>>
      /\ rst'[x] = TRUE /\ rst'[o] = rst[o]
      /\ outq'[x] = <<>> /\ outq'[o] = outq[o] /\ inq'[o] = inq[o]
  BY <1>2 DEF Proxy!PeerResets, Streaming, Wired
<1>4. Passed(x, o)' /\ Passed(o, x)'
  BY <1>2, <1>3 DEF Passed
<1>5. Closed(x, o)' /\ Closed(o, x)'
  BY <1>2, <1>3 DEF Closed, Early
<1>6. Wired'
  BY DEF Streaming, Wired, Proxy!PeerResets
<1> QED BY <1>1, <1>2, <1>4, <1>5, <1>6, ThisWay

\* The first state, and every step of the proxy.
LEMMA StreamFirst == Proxy!Init => Streaming
<1> SUFFICES ASSUME Proxy!Init PROVE Streaming
  OBVIOUS
<1>1. Wired
  BY DEF Proxy!Init, Wired, Proxy!AtEnds, Sides
<1>2. ASSUME NEW e \in Sides, NEW o \in Sides, o = Other(e) PROVE Passed(e, o) /\ Closed(e, o)
  <2>1. /\ sent[e] = <<>> /\ inq[e] = <<>> /\ chunk[e] = <<>> /\ outq[o] = <<>> /\ got[o] = <<>>
        /\ copier[e] = "done" /\ ~fin[e] /\ ~eof[o] /\ rd[e] /\ wr[o] /\ Early
    BY DEF Proxy!Init, Proxy!AtEnds, Sides, Early
  <2>2. Passed(e, o)
    BY <2>1, NothingYet DEF Passed, Copying
  <2>3. Closed(e, o)
    BY <2>1 DEF Closed, Early
  <2> QED BY <2>2, <2>3
<1> QED BY <1>1, <1>2, OtherEnd DEF Streaming, Other

LEMMA StreamStays == Streaming /\ [Proxy!Next]_proxy => Streaming'
<1> SUFFICES ASSUME Streaming, [Proxy!Next]_proxy PROVE Streaming'
  OBVIOUS
<1>1. CASE Proxy!Bind \/ Proxy!BindFails \/ Proxy!Accept \/ Proxy!Connect \/ Proxy!ConnectFails \/ Proxy!Join
  BY <1>1, BindStream, BindFailsStream, AcceptStream, ConnectStream, ConnectFailsStream, JoinStream
<1>2. ASSUME NEW x \in Proxy!Ends, Proxy!Splice(x) \/ Proxy!Peer(x) PROVE Streaming'
  <2>1. x \in Sides
    BY DEF Sides
  <2> QED BY <1>2, <2>1, SpliceStream, SendsStream, ClosesStream, ReadsStream, EofStream, ResetStream
          DEF Proxy!Peer
<1>3. CASE UNCHANGED proxy
  <2>1. Wired' /\ \A e \in Sides : SameWay(e, Other(e))
    BY <1>3 DEF proxy, Streaming, Wired, SameWay
  <2> QED BY <2>1, SameWayStays DEF Streaming, Other
<1> QED BY <1>1, <1>2, <1>3 DEF Proxy!Next

\* The invariant says what the property asks.
LEMMA StreamIntact == Streaming => StreamsIntact
<1> SUFFICES ASSUME Streaming, NEW e \in Proxy!Ends, NEW o, o = Proxy!Other(e)
             PROVE  /\ Len(got[o]) <= Len(sent[e])
                    /\ \A i \in 1 .. Len(got[o]) : got[o][i] = sent[e][i]
                    /\ eof[o] /\ ~rst[e] => got[o] = sent[e]
  BY DEF StreamsIntact, Proxy!StreamsIntact
<1>1. e \in Sides /\ o \in Sides /\ o = Other(e) /\ Passed(e, o) /\ Closed(e, o)
  BY OtherEnd DEF Sides, Other, Streaming
<1>2. PICK s \in Seq(Nat), g \in Seq(Nat) : s = sent[e] /\ g = got[o]
  BY <1>1 DEF Streaming, Wired
<1>3. From(s, 0) /\ From(g, 0) /\ Len(g) <= Len(s)
  BY <1>1, <1>2 DEF Passed, InOrder
<1>4. \A i \in 1 .. Len(g) : g[i] = s[i]
  <2>1. PICK k \in Nat, l \in Nat : k = Len(s) /\ l = Len(g) /\ l <= k
    BY <1>3
  <2>2. \A i \in 1 .. l : i \in 1 .. k /\ g[i] = 0 + i /\ s[i] = 0 + i
    BY <1>3, <2>1 DEF From
  <2> QED BY <2>1, <2>2
<1>5. eof[o] /\ ~rst[e] => g = s
  <2> SUFFICES ASSUME eof[o], ~rst[e] PROVE g = s
    OBVIOUS
  <2>1. Len(g) = Len(s)
    <3>1. Delivered(s, g, <<>>)
      BY <1>1, <1>2 DEF Closed
    <3>2. Len(<<>>) = 0 /\ Len(g) \in Nat
      OBVIOUS
    <3> QED BY <3>1, <3>2 DEF Delivered
  <2> QED BY <1>4, <2>1, SeqEqual
<1> QED BY <1>2, <1>3, <1>4, <1>5

THEOREM SplicesIntact == UnitsSpec => []StreamsIntact
<1>1. UnitsInit => Streaming
  BY StreamFirst DEF UnitsInit
<1>2. Streaming /\ [UnitsNext]_all => Streaming'
  <2>1. [UnitsNext]_all => [Proxy!Next]_proxy
    BY DEF UnitsNext, all
  <2> QED BY <2>1, StreamStays
<1> QED BY <1>1, <1>2, StreamIntact, PTL DEF UnitsSpec

-----------------------------------------------------------------------------
\* What the code has closed when it stops: nothing, the descriptor, the adapter
\* of a session that failed, or a session and then its adapter.
Closings == {<<>>, <<"fd">>, <<"adapter">>, <<"session", "adapter">>}

\* What create holds before its step k on system s, and what it returns with.
HeldBefore(s, k) == CASE s = "windows" -> IF k = 0 THEN {} ELSE
                                          IF k = 3 THEN {"module", "adapter"} ELSE {"module"}
                      [] OTHER -> IF k = 0 THEN {} ELSE {"fd"}
Complete(s) == IF s = "windows" THEN {"module", "adapter", "session"} ELSE {"fd"}

\* The inductive invariant behind HandlesReturned: the stage says what is held,
\* and until the code stops it has closed nothing.
Holding ==
  /\ released \in Closings
  /\ stage \in {"off", "open", "configure", "up", "half", "failed", "exited"}
  /\ stage = "off" => step = 0 /\ held = {} /\ released = <<>>
  /\ stage = "open" => /\ os \in Tun!Systems /\ step \in 0 .. Len(Tun!Opening[os]) - 1
                       /\ held = HeldBefore(os, step) /\ released = <<>>
  /\ stage \in {"configure", "up", "half"} =>
       os \in Tun!Systems /\ held = Complete(os) /\ released = <<>>
  /\ stage \in {"failed", "exited"} => held \subseteq {"module"}

\* The invariant says what the property asks.
LEMMA HoldingReturns == Holding => Tun!HandlesReturned
<1> SUFFICES ASSUME Holding PROVE Tun!HandlesReturned
  OBVIOUS
<1>1. /\ stage \in {"up", "half"} =>
           held \ {"module"} = IF os = "windows" THEN {"adapter", "session"} ELSE {"fd"}
      /\ stage \in {"failed", "exited"} => held \subseteq {"module"}
  BY DEF Holding, Complete
<1>2. released # <<>> => held \subseteq {"module"}
  BY DEF Holding
<1>3. CASE released = <<>>
  BY <1>1, <1>3 DEF Tun!HandlesReturned
<1>4. CASE released # <<>>
  <2>1. \A i, j \in DOMAIN released :
          /\ released[i] = released[j] => i = j
          /\ released[i] = "adapter" /\ released[j] = "session" => j < i
          /\ released[i] \in {"fd", "adapter", "session"}
    BY <1>4 DEF Holding, Closings
  <2> QED
    BY <1>1, <1>2, <1>4, <2>1 DEF Tun!HandlesReturned
<1> QED
  BY <1>3, <1>4

-----------------------------------------------------------------------------
\* Closing one handle, and closing two that are held.
LEMMA OneClosed ==
  ASSUME released = <<>>, NEW h, Tun!Close(<<h>>)
  PROVE  released' = (IF h \in held THEN <<h>> ELSE <<>>) /\ held' = held \ {h}
<1> DEFINE one == <<h>>
<1>1. Len(one) = 1 /\ one[1] = h /\ {one[i] : i \in DOMAIN one} = {h}
  OBVIOUS
<1> QED
  BY <1>1 DEF Tun!Close, Tun!IfHeld

LEMMA TwoClosed ==
  ASSUME released = <<>>, NEW h \in held, NEW g \in held, Tun!Close(<<h, g>>)
  PROVE  released' = <<h, g>> /\ held' = held \ {h, g}
<1> DEFINE two == <<h, g>>
<1>1. Len(two) = 2 /\ two[1] = h /\ two[2] = g /\ {two[i] : i \in DOMAIN two} = {h, g}
  OBVIOUS
<1>2. /\ released' = released \o Tun!IfHeld(h) \o Tun!IfHeld(g)
      /\ held' = held \ {h, g}
  BY <1>1 DEF Tun!Close
<1>3. Tun!IfHeld(h) = <<h>> /\ Tun!IfHeld(g) = <<g>>
  BY DEF Tun!IfHeld
<1>4. <<h>> \in Seq({h}) /\ <<>> \o <<h>> = <<h>>
  BY ConcatEmptySeq
<1>5. <<h>> \o <<g>> = two
  <2>1. <<h>> \in Seq({h, g}) /\ <<g>> \in Seq({h, g}) /\ two \in Seq({h, g})
    OBVIOUS
  <2>2. PICK s : s = <<h>> \o <<g>>
    OBVIOUS
  <2>3. s \in Seq({h, g}) /\ Len(s) = 2 /\ s[1] = h /\ s[2] = g
    BY <2>1, <2>2, ConcatProperties
  <2>4. \A i \in 1 .. Len(s) : s[i] = two[i]
    BY <2>3
  <2> QED
    BY <1>1, <2>1, <2>2, <2>3, <2>4, SeqEqual
<1> QED
  BY <1>2, <1>3, <1>4, <1>5

\* The drop of a device that is whole.
LEMMA DropClosed ==
  ASSUME Holding, stage \in {"configure", "up"}, Tun!Close(Tun!DropOrder)
  PROVE  released' \in Closings /\ held' \subseteq {"module"}
<1>1. os \in Tun!Systems /\ held = Complete(os) /\ released = <<>>
  BY DEF Holding
<1>2. CASE os = "windows"
  <2>1. Tun!DropOrder = <<"session", "adapter">>
    BY <1>2 DEF Tun!DropOrder, Tun!WindowsDrop
  <2>2. Tun!Close(<<"session", "adapter">>)
    BY <2>1
  <2>3. released' = <<"session", "adapter">> /\ held' = held \ {"session", "adapter"}
    BY <1>1, <1>2, <2>2, TwoClosed DEF Complete
  <2> QED
    BY <1>1, <1>2, <2>3 DEF Closings, Complete
<1>3. CASE os # "windows"
  <2>1. Tun!DropOrder = <<"fd">>
    BY <1>3 DEF Tun!DropOrder
  <2>2. Tun!Close(<<"fd">>)
    BY <2>1
  <2>3. released' = <<"fd">> /\ held' = held \ {"fd"}
    BY <1>1, <1>3, <2>2, OneClosed DEF Complete
  <2> QED
    BY <1>1, <1>3, <2>3 DEF Closings, Complete
<1> QED
  BY <1>2, <1>3

\* create, one step or the failure of one.
LEMMA OpenHolding == ASSUME Holding, Tun!Open PROVE Holding'
<1>1. /\ os \in Tun!Systems /\ step \in 0 .. Len(Tun!Opening[os]) - 1
      /\ held = HeldBefore(os, step) /\ released = <<>>
      /\ os' = os /\ released' = released
  BY DEF Holding, Tun!Open
<1> DEFINE s == Tun!Opening[os][step + 1]
<1>2. held' = held \cup Tun!HandlesOf(s)
  BY DEF Tun!Open
<1>3. CASE os = "windows"
  <2>1. Tun!Opening[os] = <<"load", "exports", "adapter", "session">>
    BY <1>3 DEF Tun!Opening, Tun!WindowsOpening
  <2>2. step \in {0, 1, 2, 3}
    BY <1>1, <2>1
  <2>3. /\ step = 0 => s = "load"
        /\ step = 1 => s = "exports"
        /\ step = 2 => s = "adapter"
        /\ step = 3 => s = "session"
    BY <2>1
  <2>4. held' = IF step = 3 THEN Complete(os) ELSE HeldBefore(os, step + 1)
    BY <1>1, <1>2, <1>3, <2>2, <2>3 DEF HeldBefore, Complete, Tun!HandlesOf, Tun!Yields
  <2> QED
    BY <1>1, <2>1, <2>2, <2>4 DEF Holding, Tun!Open, Closings
<1>4. CASE os = "linux"
  <2>1. Tun!Opening[os] = <<"open", "tunsetiff">>
    BY <1>4 DEF Tun!Opening, Tun!LinuxOpening
  <2>2. step \in {0, 1}
    BY <1>1, <2>1
  <2>3. (step = 0 => s = "open") /\ (step = 1 => s = "tunsetiff")
    BY <2>1
  <2>4. held' = IF step = 1 THEN Complete(os) ELSE HeldBefore(os, step + 1)
    BY <1>1, <1>2, <1>4, <2>2, <2>3 DEF HeldBefore, Complete, Tun!HandlesOf, Tun!Yields
  <2> QED
    BY <1>1, <2>1, <2>2, <2>4 DEF Holding, Tun!Open, Closings
<1>5. CASE os = "macos"
  <2>1. Tun!Opening[os] = <<"socket", "ctlinfo", "connect">>
    BY <1>5 DEF Tun!Opening, Tun!MacOpening
  <2>2. step \in {0, 1, 2}
    BY <1>1, <2>1
  <2>3. (step = 0 => s = "socket") /\ (step = 1 => s = "ctlinfo") /\ (step = 2 => s = "connect")
    BY <2>1
  <2>4. held' = IF step = 2 THEN Complete(os) ELSE HeldBefore(os, step + 1)
    BY <1>1, <1>2, <1>5, <2>2, <2>3 DEF HeldBefore, Complete, Tun!HandlesOf, Tun!Yields
  <2> QED
    BY <1>1, <2>1, <2>2, <2>4 DEF Holding, Tun!Open, Closings
<1> QED
  BY <1>1, <1>3, <1>4, <1>5 DEF Tun!Systems

\* create fails at one of its steps.
LEMMA OpenFailsHolding == ASSUME Holding, Tun!OpenFails PROVE Holding'
<1>1. /\ os \in Tun!Systems /\ step \in 0 .. Len(Tun!Opening[os]) - 1
      /\ held = HeldBefore(os, step) /\ released = <<>>
      /\ stage' = "failed"
      /\ Tun!Close(Tun!OnFailure(Tun!Opening[os][step + 1]))
  BY DEF Holding, Tun!OpenFails
<1>2. CASE Tun!Opening[os][step + 1] = "session"
  <2>1. os = "windows" /\ step = 3
    <3>1. CASE os = "windows"
      BY <1>1, <1>2, <3>1 DEF Tun!Opening, Tun!WindowsOpening
    <3>2. CASE os = "linux"
      BY <1>1, <1>2, <3>2 DEF Tun!Opening, Tun!LinuxOpening
    <3>3. CASE os = "macos"
      BY <1>1, <1>2, <3>3 DEF Tun!Opening, Tun!MacOpening
    <3> QED
      BY <1>1, <3>1, <3>2, <3>3 DEF Tun!Systems
  <2>2. held = {"module", "adapter"}
    BY <1>1, <2>1 DEF HeldBefore
  <2>3. Tun!Close(<<"adapter">>)
    BY <1>1, <1>2 DEF Tun!OnFailure
  <2>4. released' = <<"adapter">> /\ held' = held \ {"adapter"}
    BY <1>1, <2>2, <2>3, OneClosed
  <2> QED
    BY <1>1, <2>2, <2>4 DEF Holding, Closings
<1>3. CASE Tun!Opening[os][step + 1] # "session"
  <2>1. held \subseteq {"module", "fd"}
    <3>1. os = "windows" => step # 3
      BY <1>3 DEF Tun!Opening, Tun!WindowsOpening
    <3> QED
      BY <1>1, <3>1 DEF HeldBefore
  <2>2. Tun!Close(<<"fd">>)
    BY <1>1, <1>3 DEF Tun!OnFailure
  <2>3. released' = (IF "fd" \in held THEN <<"fd">> ELSE <<>>) /\ held' = held \ {"fd"}
    BY <1>1, <2>2, OneClosed
  <2> QED
    BY <1>1, <2>1, <2>3 DEF Holding, Closings
<1> QED
  BY <1>2, <1>3

\* setup_interface, its failure, and the ways out of the programs.
LEMMA ConfigureHolding == ASSUME Holding, Tun!Configure PROVE Holding'
BY DEF Holding, Tun!Configure

\* setup_interface fails, or selftest is over: the device is dropped.
LEMMA DropsHolding ==
  ASSUME Holding, Tun!ConfigureFails \/ Tun!SelftestReturns
  PROVE  Holding'
<1>1. /\ stage \in {"configure", "up"} /\ Tun!Close(Tun!DropOrder)
      /\ stage' \in {"failed", "exited"}
  BY DEF Tun!ConfigureFails, Tun!SelftestReturns
<1> QED
  BY <1>1, DropClosed DEF Holding

\* The reading thread, which leaves the device to the system.
LEMMA ReaderHolding ==
  ASSUME Holding, Tun!Read \/ Tun!ReceivePacket \/ Tun!ReleasePacket \/ Tun!Wait
  PROVE  Holding'
<1>1. CASE UNCHANGED Tun!owner
  BY <1>1 DEF Tun!owner, Holding
<1>2. CASE stage = "up" /\ (Tun!Exits \/ Tun!Half)
  BY <1>2 DEF Tun!Exits, Tun!Half, Holding
<1> QED
  BY <1>1, <1>2 DEF Tun!Read, Tun!ReceivePacket, Tun!ReleasePacket, Tun!Wait, Tun!Took,
                    Tun!RecvErr, Tun!RecvEof

\* Every step of the device keeps the invariant.
LEMMA HoldingStays == ASSUME Holding, [Tun!Next]_tun PROVE Holding'
<1>1. ASSUME NEW s \in Tun!Systems, NEW prog \in Tun!Programs, Tun!Start(s, prog)
      PROVE  Holding'
  <2>1. Len(Tun!Opening[s]) \in Nat \ {0}
    BY DEF Tun!Systems, Tun!Opening, Tun!LinuxOpening, Tun!MacOpening, Tun!WindowsOpening
  <2>2. stage' = "open" /\ os' = s /\ step' = 0 /\ held' = {} /\ released' = <<>>
    BY <1>1 DEF Tun!Start, Holding
  <2> QED
    BY <2>1, <2>2 DEF Holding, HeldBefore, Closings
<1>2. CASE UNCHANGED Tun!owner
  BY <1>2 DEF Tun!owner, Holding
<1>3. CASE UNCHANGED tun
  BY <1>3 DEF tun, Holding
<1>4. CASE \/ \E p \in Packets : Tun!Queue(p) \/ Tun!Send(p)
           \/ Tun!Remove \/ Tun!TakeSent \/ Tun!Expire
  BY <1>2, <1>4 DEF Tun!Queue, Tun!Send, Tun!Remove, Tun!TakeSent, Tun!Expire
<1> QED
  BY <1>1, <1>3, <1>4, OpenHolding, OpenFailsHolding, ConfigureHolding, DropsHolding,
     ReaderHolding DEF Tun!Next, Tun!Reader

\* "Guarantees the socket is released if any step of create fails" and "each is
\* ended/closed exactly once, session before adapter" (tun.rs), on every path out
\* of create, setup_interface, run and selftest.
THEOREM DeviceReturned == UnitsSpec => []HandlesReturned
<1>1. UnitsInit => Holding
  <2>1. ASSUME UnitsInit
        PROVE  stage = "off" /\ step = 0 /\ held = {} /\ released = <<>>
    BY <2>1 DEF UnitsInit, Tun!Init
  <2> QED
    BY <2>1 DEF Holding, Closings
<1>2. Holding /\ [UnitsNext]_all => Holding'
  <2>1. [UnitsNext]_all => [Tun!Next]_tun
    BY DEF UnitsNext, all
  <2> QED
    BY <2>1, HoldingStays
<1>3. Holding => HandlesReturned
  BY HoldingReturns DEF HandlesReturned
<1> QED
  BY <1>1, <1>2, <1>3, PTL DEF UnitsSpec

-----------------------------------------------------------------------------
\* The frame of packet p on system s, the packet of frame f, and the part of
\* it that fits the buffer of recv.
Framed(s, p)   == IF s = "macos" THEN <<0, 0, 0, IF p[1] = 6 THEN 30 ELSE 2>> \o p ELSE p
Unframed(s, f) == IF s = "macos" THEN SubSeq(f, 5, Len(f)) ELSE f
Cut(p)         == SubSeq(p, 1, IF Len(p) < Buf THEN Len(p) ELSE Buf)

\* Of the packets q queued, t are taken, and r waits: the next ones, up to a
\* loss of the last.
Received(s, q, r, t) ==
  /\ q \in Seq(Packets) /\ r \in Seq(Seq(Nat)) /\ t \in Seq(Seq(Nat))
  /\ Len(t) + Len(r) <= Len(q)
  /\ \A i \in 1 .. Len(r) : r[i] = Framed(s, q[Len(t) + i])
  /\ \A i \in 1 .. Len(t) : t[i] = Cut(q[i])

\* Of the packets g given to send, the frames of a arrived and those of x wait.
Carried(s, g, x, a) ==
  /\ g \in Seq(Seq(Nat)) /\ x \in Seq(Seq(Nat)) /\ a \in Seq(Seq(Nat))
  /\ Len(a) + Len(x) = Len(g)
  /\ \A i \in 1 .. Len(a) : a[i] = Framed(s, g[i])
  /\ \A i \in 1 .. Len(x) : x[i] = Framed(s, g[Len(a) + i])

\* The inductive invariant behind PacketsIntact.
Carrying ==
  /\ Received(os, queued, rx, taken)
  /\ Carried(os, given, tx, arrived)
  /\ ~gone => Len(taken) + Len(rx) = Len(queued)
  /\ reader = "copy" => rx # <<>>
  /\ stage = "off" => /\ reader = "off" /\ queued = <<>> /\ rx = <<>> /\ taken = <<>>
                      /\ given = <<>> /\ tx = <<>> /\ arrived = <<>>

-----------------------------------------------------------------------------
\* What follows h in h \o p is p.
LEMMA Behind ==
  ASSUME NEW h \in Seq(Nat), NEW p \in Seq(Nat)
  PROVE  h \o p \in Seq(Nat) /\ SubSeq(h \o p, Len(h) + 1, Len(h \o p)) = p
<1>1. PICK f : f = h \o p
  OBVIOUS
<1>2. PICK k \in Nat, n \in Nat : k = Len(h) /\ n = Len(p)
  OBVIOUS
<1>3. /\ f \in Seq(Nat) /\ Len(f) = k + n
      /\ \A i \in 1 .. k + n : f[i] = IF i <= k THEN h[i] ELSE p[i - k]
  BY <1>1, <1>2, ConcatProperties
<1>4. PICK a \in Int, b \in Int : a = k + 1 /\ b = k + n
  OBVIOUS
<1>5. PICK g : g = SubSeq(f, a, b)
  OBVIOUS
<1>6. \A i \in a .. b : f[i] \in Nat
  BY <1>2, <1>3, <1>4, ElementOfSeq
<1>7. /\ g \in Seq(Nat)
      /\ Len(g) = IF a <= b THEN b - a + 1 ELSE 0
      /\ \A i \in 1 .. b - a + 1 : g[i] = f[a + i - 1]
  BY <1>5, <1>6, SubSeqProperties
<1>8. Len(g) = n /\ \A i \in 1 .. n : g[i] = p[i]
  <2>1. b - a + 1 = n /\ (a <= b <=> n > 0)
    BY <1>4
  <2>2. ASSUME NEW i \in 1 .. n PROVE g[i] = p[i]
    <3>1. /\ a + i - 1 = k + i /\ k + i \in 1 .. k + n
          /\ ~(k + i <= k) /\ (k + i) - k = i
      BY <1>4
    <3> QED
      BY <1>3, <1>7, <2>1, <3>1
  <2> QED
    BY <1>7, <2>1, <2>2
<1>9. g = p
  BY <1>2, <1>7, <1>8, SeqEqual
<1> QED
  BY <1>1, <1>2, <1>3, <1>4, <1>5, <1>9

\* A frame is a sequence of bytes, and its packet comes back from it.
LEMMA FramedBytes ==
  ASSUME NEW p \in Seq(Nat), NEW s
  PROVE  Framed(s, p) \in Seq(Nat) /\ Unframed(s, Framed(s, p)) = p
<1>1. CASE s # "macos"
  BY <1>1 DEF Framed, Unframed
<1>2. CASE s = "macos"
  <2>1. PICK v \in Nat : v = IF p[1] = 6 THEN 30 ELSE 2
    OBVIOUS
  <2>2. PICK h : h = <<0, 0, 0, v>>
    OBVIOUS
  <2>3. h \in Seq(Nat) /\ Len(h) = 4
    <3>1. ASSUME NEW w \in Nat PROVE <<0, 0, 0, w>> \in Seq(Nat) /\ Len(<<0, 0, 0, w>>) = 4
      OBVIOUS
    <3> QED
      BY <2>1, <2>2, <3>1
  <2>4. Framed(s, p) = h \o p
    BY <1>2, <2>1, <2>2 DEF Framed
  <2>5. h \o p \in Seq(Nat) /\ SubSeq(h \o p, 5, Len(h \o p)) = p
    <3>1. Len(h) + 1 = 5
      BY <2>3
    <3> QED
      BY <2>3, <3>1, Behind
  <2> QED
    BY <1>2, <2>4, <2>5 DEF Unframed
<1> QED
  BY <1>1, <1>2

\* What fits the buffer is a sequence of bytes.
LEMMA CutBytes == ASSUME NEW p \in Seq(Nat) PROVE Cut(p) \in Seq(Nat)
<1>1. PICK n \in Nat : n = Len(p)
  OBVIOUS
<1>2. PICK m : m = IF n < Buf THEN n ELSE Buf
  OBVIOUS
<1>3. m \in 0 .. n
  BY <1>1, <1>2, PacketsAssumption
<1>4. \A i \in 1 .. m : p[i] \in Nat
  BY <1>1, <1>3, ElementOfSeq
<1>5. SubSeq(p, 1, m) \in Seq(Nat)
  BY <1>3, <1>4, SubSeqProperties
<1> QED
  BY <1>1, <1>2, <1>5 DEF Cut

\* At first there is nothing.
LEMMA NoneYet ==
  ASSUME NEW s
  PROVE  /\ Received(s, <<>>, <<>>, <<>>) /\ Carried(s, <<>>, <<>>, <<>>)
         /\ Len(<<>>) + Len(<<>>) = Len(<<>>)
<1>1. <<>> \in Seq(Packets) /\ <<>> \in Seq(Seq(Nat)) /\ Len(<<>>) = 0
  BY EmptySeq
<1> QED
  BY <1>1 DEF Received, Carried

\* A packet is queued; recv takes the first that waits; some that wait are lost.
LEMMA OneQueued ==
  ASSUME NEW s, NEW q, NEW r, NEW t, Received(s, q, r, t), NEW p \in Packets,
         Len(t) + Len(r) = Len(q)
  PROVE  /\ Received(s, Append(q, p), Append(r, Framed(s, p)), t)
         /\ Len(t) + Len(Append(r, Framed(s, p))) = Len(Append(q, p))
<1>1. PICK k \in Nat, m \in Nat, n \in Nat : k = Len(q) /\ m = Len(r) /\ n = Len(t)
  BY DEF Received
<1>2. PICK f : f = Framed(s, p)
  OBVIOUS
<1>3. p \in Seq(Nat) /\ f \in Seq(Nat)
  BY <1>2, PacketsAssumption, FramedBytes
<1>4. PICK qq, rr : qq = Append(q, p) /\ rr = Append(r, f)
  OBVIOUS
<1>5. /\ qq \in Seq(Packets) /\ Len(qq) = k + 1
      /\ \A i \in 1 .. k : qq[i] = q[i]
      /\ qq[k + 1] = p
  BY <1>1, <1>4, AppendProperties DEF Received
<1>6. /\ rr \in Seq(Seq(Nat)) /\ Len(rr) = m + 1
      /\ \A i \in 1 .. m : rr[i] = r[i]
      /\ rr[m + 1] = f
  BY <1>1, <1>3, <1>4, AppendProperties DEF Received
<1>7. n + m = k
  BY <1>1
<1>8. \A i \in 1 .. m + 1 : rr[i] = Framed(s, qq[n + i])
  <2> SUFFICES ASSUME NEW i \in 1 .. m + 1 PROVE rr[i] = Framed(s, qq[n + i])
    OBVIOUS
  <2>1. CASE i = m + 1
    <3>1. n + i = k + 1
      BY <1>7, <2>1
    <3> QED
      BY <1>2, <1>5, <1>6, <2>1, <3>1
  <2>2. CASE i \in 1 .. m
    <3>1. n + i \in 1 .. k
      BY <1>7, <2>2
    <3>2. r[i] = Framed(s, q[n + i])
      BY <1>1, <2>2 DEF Received
    <3> QED
      BY <1>5, <1>6, <2>2, <3>1, <3>2
  <2> QED
    BY <2>1, <2>2
<1>9. \A i \in 1 .. n : t[i] = Cut(qq[i])
  <2> SUFFICES ASSUME NEW i \in 1 .. n PROVE t[i] = Cut(qq[i])
    OBVIOUS
  <2>1. i \in 1 .. k /\ t[i] = Cut(q[i])
    BY <1>1, <1>7 DEF Received
  <2> QED
    BY <1>5, <2>1
<1>10. Received(s, qq, rr, t)
  <2>1. n + (m + 1) <= k + 1
    BY <1>7
  <2> QED
    BY <1>1, <1>5, <1>6, <1>8, <1>9, <2>1 DEF Received
<1>11. Len(t) + Len(rr) = Len(qq)
  <2>1. n + (m + 1) = k + 1
    BY <1>7
  <2> QED
    BY <1>1, <1>5, <1>6, <2>1
<1> QED
  BY <1>2, <1>4, <1>10, <1>11

\* recv takes the first frame that waits.
LEMMA OneTaken ==
  ASSUME NEW s, NEW q, NEW r, NEW t, Received(s, q, r, t), r # <<>>
  PROVE  /\ Received(s, q, Tail(r), Append(t, Cut(Unframed(s, Head(r)))))
         /\ Len(Append(t, Cut(Unframed(s, Head(r))))) + Len(Tail(r)) = Len(t) + Len(r)
         /\ Cut(Unframed(s, Head(r))) \in Seq(Nat)
<1>1. PICK k \in Nat, m \in Nat, n \in Nat : k = Len(q) /\ m = Len(r) /\ n = Len(t)
  BY DEF Received
<1>2. m > 0 /\ n + m <= k
  BY <1>1, EmptySeq DEF Received
<1>3. PICK p, rr, tt : p = q[n + 1] /\ rr = Tail(r) /\ tt = Append(t, Cut(p))
  OBVIOUS
<1>4. p \in Packets /\ p \in Seq(Nat) /\ Cut(p) \in Seq(Nat)
  <2>1. n + 1 \in 1 .. k
    BY <1>2
  <2>2. p \in Packets
    BY <1>1, <1>3, <2>1, ElementOfSeq DEF Received
  <2> QED
    BY <2>2, PacketsAssumption, CutBytes
<1>5. Cut(Unframed(s, Head(r))) = Cut(p)
  <2>1. Head(r) = r[1] /\ r[1] = Framed(s, q[n + 1])
    BY <1>1, <1>2 DEF Received
  <2> QED
    BY <1>3, <1>4, <2>1, FramedBytes
<1>6. /\ rr \in Seq(Seq(Nat)) /\ Len(rr) = m - 1
      /\ \A i \in 1 .. m - 1 : rr[i] = r[i + 1]
  BY <1>1, <1>3, HeadTailProperties DEF Received
<1>7. /\ tt \in Seq(Seq(Nat)) /\ Len(tt) = n + 1
      /\ \A i \in 1 .. n : tt[i] = t[i]
      /\ tt[n + 1] = Cut(p)
  BY <1>1, <1>3, <1>4, AppendProperties DEF Received
<1>8. \A i \in 1 .. m - 1 : rr[i] = Framed(s, q[(n + 1) + i])
  <2> SUFFICES ASSUME NEW i \in 1 .. m - 1 PROVE rr[i] = Framed(s, q[(n + 1) + i])
    OBVIOUS
  <2>1. i + 1 \in 1 .. m /\ n + (i + 1) = (n + 1) + i
    OBVIOUS
  <2>2. r[i + 1] = Framed(s, q[n + (i + 1)])
    BY <1>1, <2>1 DEF Received
  <2> QED
    BY <1>6, <2>1, <2>2
<1>9. \A i \in 1 .. n + 1 : tt[i] = Cut(q[i])
  <2> SUFFICES ASSUME NEW i \in 1 .. n + 1 PROVE tt[i] = Cut(q[i])
    OBVIOUS
  <2>1. i \in 1 .. n => t[i] = Cut(q[i])
    BY <1>1 DEF Received
  <2> QED
    BY <1>3, <1>7, <2>1
<1>10. Received(s, q, rr, tt)
  <2>1. (n + 1) + (m - 1) <= k
    BY <1>2
  <2> QED
    BY <1>1, <1>6, <1>7, <1>8, <1>9, <2>1 DEF Received
<1>11. Len(tt) + Len(rr) = Len(t) + Len(r)
  <2>1. (n + 1) + (m - 1) = n + m
    OBVIOUS
  <2> QED
    BY <1>1, <1>6, <1>7, <2>1
<1> QED
  BY <1>3, <1>4, <1>5, <1>10, <1>11

\* The interface is removed: all that waits is lost, but for the slot in use.
LEMMA OthersLost ==
  ASSUME NEW s, NEW q, NEW r, NEW t, Received(s, q, r, t)
  PROVE  /\ Received(s, q, <<>>, t)
         /\ r # <<>> => Received(s, q, <<Head(r)>>, t) /\ <<Head(r)>> # <<>>
<1>1. PICK k \in Nat, m \in Nat, n \in Nat : k = Len(q) /\ m = Len(r) /\ n = Len(t)
  BY DEF Received
<1>2. n + m <= k
  BY <1>1 DEF Received
<1>3. Received(s, q, <<>>, t)
  <2>1. <<>> \in Seq(Seq(Nat)) /\ Len(<<>>) = 0
    BY EmptySeq
  <2>2. n + 0 <= k
    BY <1>2
  <2> QED
    BY <1>1, <2>1, <2>2 DEF Received
<1>4. ASSUME r # <<>> PROVE Received(s, q, <<Head(r)>>, t) /\ <<Head(r)>> # <<>>
  <2>1. m > 0
    BY <1>1, <1>4, EmptySeq DEF Received
  <2>2. PICK f : f = Head(r)
    OBVIOUS
  <2>3. f \in Seq(Nat) /\ f = r[1]
    BY <1>4, <2>2, HeadTailProperties DEF Received
  <2>4. f = Framed(s, q[n + 1])
    BY <1>1, <2>1, <2>3 DEF Received
  <2>5. <<f>> \in Seq(Seq(Nat)) /\ Len(<<f>>) = 1 /\ <<f>>[1] = f
    BY <2>3
  <2>6. n + 1 <= k
    BY <1>2, <2>1
  <2>7. \A i \in 1 .. 1 : <<f>>[i] = Framed(s, q[n + i])
    BY <2>4, <2>5
  <2>8. Received(s, q, <<f>>, t)
    BY <1>1, <2>5, <2>6, <2>7 DEF Received
  <2> QED
    BY <2>2, <2>5, <2>8
<1> QED
  BY <1>3, <1>4

\* A packet is given to send, the kernel takes a frame.
LEMMA OneGiven ==
  ASSUME NEW s, NEW g, NEW x, NEW a, Carried(s, g, x, a), NEW p \in Seq(Nat)
  PROVE  Carried(s, Append(g, p), Append(x, Framed(s, p)), a)
<1>1. PICK k \in Nat, m \in Nat, n \in Nat : k = Len(g) /\ m = Len(x) /\ n = Len(a)
  BY DEF Carried
<1>2. PICK f : f = Framed(s, p)
  OBVIOUS
<1>3. f \in Seq(Nat)
  BY <1>2, FramedBytes
<1>4. PICK gg, xx : gg = Append(g, p) /\ xx = Append(x, f)
  OBVIOUS
<1>5. /\ gg \in Seq(Seq(Nat)) /\ Len(gg) = k + 1
      /\ \A i \in 1 .. k : gg[i] = g[i]
      /\ gg[k + 1] = p
  BY <1>1, <1>4, AppendProperties DEF Carried
<1>6. /\ xx \in Seq(Seq(Nat)) /\ Len(xx) = m + 1
      /\ \A i \in 1 .. m : xx[i] = x[i]
      /\ xx[m + 1] = f
  BY <1>1, <1>3, <1>4, AppendProperties DEF Carried
<1>7. n + m = k
  BY <1>1 DEF Carried
<1>8. \A i \in 1 .. m + 1 : xx[i] = Framed(s, gg[n + i])
  <2> SUFFICES ASSUME NEW i \in 1 .. m + 1 PROVE xx[i] = Framed(s, gg[n + i])
    OBVIOUS
  <2>1. CASE i = m + 1
    <3>1. n + i = k + 1
      BY <1>7, <2>1
    <3> QED
      BY <1>2, <1>5, <1>6, <2>1, <3>1
  <2>2. CASE i \in 1 .. m
    <3>1. n + i \in 1 .. k
      BY <1>7, <2>2
    <3>2. x[i] = Framed(s, g[n + i])
      BY <1>1, <2>2 DEF Carried
    <3> QED
      BY <1>5, <1>6, <2>2, <3>1, <3>2
  <2> QED
    BY <2>1, <2>2
<1>9. \A i \in 1 .. n : a[i] = Framed(s, gg[i])
  <2> SUFFICES ASSUME NEW i \in 1 .. n PROVE a[i] = Framed(s, gg[i])
    OBVIOUS
  <2>1. i \in 1 .. k /\ a[i] = Framed(s, g[i])
    BY <1>1, <1>7 DEF Carried
  <2> QED
    BY <1>5, <2>1
<1>10. Carried(s, gg, xx, a)
  <2>1. n + (m + 1) = k + 1
    BY <1>7
  <2> QED
    BY <1>1, <1>5, <1>6, <1>8, <1>9, <2>1 DEF Carried
<1> QED
  BY <1>2, <1>4, <1>10

\* The kernel takes a frame.
LEMMA OneArrived ==
  ASSUME NEW s, NEW g, NEW x, NEW a, Carried(s, g, x, a), x # <<>>
  PROVE  Carried(s, g, Tail(x), Append(a, Head(x)))
<1>1. PICK k \in Nat, m \in Nat, n \in Nat : k = Len(g) /\ m = Len(x) /\ n = Len(a)
  BY DEF Carried
<1>2. m > 0 /\ n + m = k
  BY <1>1, EmptySeq DEF Carried
<1>3. PICK f, xx, aa : f = Head(x) /\ xx = Tail(x) /\ aa = Append(a, f)
  OBVIOUS
<1>4. f \in Seq(Nat) /\ f = x[1]
  BY <1>3, HeadTailProperties DEF Carried
<1>5. f = Framed(s, g[n + 1])
  BY <1>1, <1>2, <1>4 DEF Carried
<1>6. /\ xx \in Seq(Seq(Nat)) /\ Len(xx) = m - 1
      /\ \A i \in 1 .. m - 1 : xx[i] = x[i + 1]
  BY <1>1, <1>3, HeadTailProperties DEF Carried
<1>7. /\ aa \in Seq(Seq(Nat)) /\ Len(aa) = n + 1
      /\ \A i \in 1 .. n : aa[i] = a[i]
      /\ aa[n + 1] = f
  BY <1>1, <1>3, <1>4, AppendProperties DEF Carried
<1>8. \A i \in 1 .. m - 1 : xx[i] = Framed(s, g[(n + 1) + i])
  <2> SUFFICES ASSUME NEW i \in 1 .. m - 1 PROVE xx[i] = Framed(s, g[(n + 1) + i])
    OBVIOUS
  <2>1. i + 1 \in 1 .. m /\ n + (i + 1) = (n + 1) + i
    OBVIOUS
  <2>2. x[i + 1] = Framed(s, g[n + (i + 1)])
    BY <1>1, <2>1 DEF Carried
  <2> QED
    BY <1>6, <2>1, <2>2
<1>9. \A i \in 1 .. n + 1 : aa[i] = Framed(s, g[i])
  <2> SUFFICES ASSUME NEW i \in 1 .. n + 1 PROVE aa[i] = Framed(s, g[i])
    OBVIOUS
  <2>1. i \in 1 .. n => a[i] = Framed(s, g[i])
    BY <1>1 DEF Carried
  <2> QED
    BY <1>5, <1>7, <2>1
<1>10. Carried(s, g, xx, aa)
  <2>1. (n + 1) + (m - 1) = k
    BY <1>2
  <2> QED
    BY <1>1, <1>6, <1>7, <1>8, <1>9, <2>1 DEF Carried
<1> QED
  BY <1>3, <1>10

-----------------------------------------------------------------------------
\* The operators of the model are these.
LEMMA SameFrames ==
  /\ \A p : Tun!Wire(p) = Framed(os, p) /\ Tun!FrameOf(p) = Framed(os, p)
  /\ \A f : Tun!Copy(f) = Cut(Unframed(os, f))
BY DEF Tun!Wire, Tun!Family, Tun!FrameOf, Tun!AddressFamily, Tun!Copy, Tun!Strip,
       Framed, Unframed, Cut

\* What the reader took, and what becomes of it.
LEMMA TookCarries ==
  ASSUME Carrying, rx # <<>>, stage # "off", Tun!Took(Head(rx))
  PROVE  Carrying'
<1> DEFINE p == Cut(Unframed(os, Head(rx)))
<1>1. /\ rx' = Tail(rx) /\ taken' = Append(taken, p) /\ reader' = "recv"
      /\ os' = os /\ stage' = stage /\ gone' = gone /\ queued' = queued /\ arrived' = arrived
  BY SameFrames DEF Tun!Took, Tun!owner
<1>2. /\ Received(os, queued, Tail(rx), Append(taken, p))
      /\ Len(Append(taken, p)) + Len(Tail(rx)) = Len(taken) + Len(rx)
      /\ p \in Seq(Nat)
  BY OneTaken DEF Carrying
<1>3. \/ given' = given /\ tx' = tx
      \/ given' = Append(given, p) /\ tx' = Append(tx, Framed(os, p))
  BY SameFrames DEF Tun!Took, Tun!Handled, Tun!Sends
<1>4. Carried(os, given', tx', arrived)
  BY <1>2, <1>3, OneGiven DEF Carrying
<1> QED
  BY <1>1, <1>2, <1>4 DEF Carrying

\* The reading thread.
LEMMA ReaderCarries ==
  ASSUME Carrying, Tun!Read \/ Tun!ReceivePacket \/ Tun!ReleasePacket \/ Tun!Wait
  PROVE  Carrying'
<1>1. stage # "off" \/ reader = "off"
  BY DEF Carrying
<1>2. stage # "off"
  BY <1>1 DEF Carrying, Tun!Read, Tun!ReceivePacket, Tun!ReleasePacket, Tun!Wait
<1>3. CASE rx # <<>> /\ Tun!Took(Head(rx))
  BY <1>2, <1>3, TookCarries
<1>4. CASE /\ os' = os /\ stage' # "off" /\ (reader' = "copy" => rx # <<>>)
           /\ UNCHANGED <<rx, gone, Tun!hist, tx, given, arrived>>
  BY <1>2, <1>4 DEF Carrying, Tun!hist
<1> QED
  BY <1>2, <1>3, <1>4 DEF Tun!Read, Tun!ReceivePacket, Tun!ReleasePacket, Tun!Wait,
     Tun!RecvErr, Tun!RecvEof, Tun!Exits, Tun!Half, Tun!owner, Tun!links, Carrying

\* Every step of the device keeps the invariant.
LEMMA CarryingStays == ASSUME Carrying, [Tun!Next]_tun PROVE Carrying'
<1>1. ASSUME NEW s \in Tun!Systems, NEW prog \in Tun!Programs, Tun!Start(s, prog)
      PROVE  Carrying'
  <2>1. /\ queued = <<>> /\ rx = <<>> /\ taken = <<>> /\ given = <<>> /\ tx = <<>>
        /\ arrived = <<>> /\ reader = "off"
        /\ os' = s /\ stage' = "open"
        /\ UNCHANGED <<rx, gone, queued, taken, tx, given, arrived, reader>>
    BY <1>1 DEF Tun!Start, Carrying, Tun!links, Tun!hist
  <2>2. Received(s, <<>>, <<>>, <<>>) /\ Carried(s, <<>>, <<>>, <<>>)
    BY NoneYet
  <2> QED
    BY <2>1, <2>2 DEF Carrying
<1>2. CASE /\ os' = os /\ stage # "off" /\ stage' # "off" /\ reader' # "copy"
           /\ UNCHANGED <<rx, gone, Tun!hist, tx, given, arrived>>
  BY <1>2 DEF Carrying, Tun!hist
<1>3. CASE Tun!Open \/ Tun!OpenFails \/ Tun!Configure \/ Tun!ConfigureFails
  <2>1. reader' = reader \/ reader' = "recv"
    BY <1>3 DEF Tun!Open, Tun!OpenFails, Tun!Configure, Tun!ConfigureFails
  <2>2. /\ os' = os /\ stage # "off" /\ stage' # "off"
        /\ UNCHANGED <<rx, gone, Tun!hist, tx, given, arrived>>
    BY <1>3 DEF Tun!Open, Tun!OpenFails, Tun!Configure, Tun!ConfigureFails, Tun!links
  <2> QED
    BY <2>1, <2>2 DEF Carrying, Tun!hist
<1>4. CASE Tun!SelftestReturns
  <2>1. /\ os' = os /\ stage # "off" /\ stage' # "off" /\ reader' # "copy"
        /\ UNCHANGED <<rx, gone, Tun!hist, tx, given, arrived>>
    BY <1>4 DEF Tun!SelftestReturns, Tun!links
  <2> QED
    BY <1>2, <2>1
<1>5. CASE Tun!Expire
  BY <1>5 DEF Tun!Expire, Tun!owner, Tun!links, Tun!hist, Carrying
<1>6. ASSUME NEW p \in Packets, Tun!Queue(p) PROVE Carrying'
  <2>1. /\ rx' = Append(rx, Framed(os, p)) /\ queued' = Append(queued, p)
        /\ ~gone /\ stage # "off"
        /\ UNCHANGED <<os, stage, gone, reader, taken, tx, given, arrived>>
    BY <1>6, SameFrames DEF Tun!Queue, Tun!owner
  <2>2. /\ Received(os, Append(queued, p), Append(rx, Framed(os, p)), taken)
        /\ Len(taken) + Len(Append(rx, Framed(os, p))) = Len(Append(queued, p))
    BY <2>1, OneQueued DEF Carrying
  <2>3. Append(rx, Framed(os, p)) # <<>>
    <3>1. p \in Seq(Nat)
      BY PacketsAssumption
    <3>2. PICK f \in Seq(Nat) : f = Framed(os, p)
      BY <3>1, FramedBytes
    <3>3. rx \in Seq(Seq(Nat))
      BY DEF Carrying, Received
    <3> QED
      BY <3>2, <3>3, AppendProperties
  <2> QED
    BY <2>1, <2>2, <2>3 DEF Carrying
<1>7. ASSUME NEW p \in Packets, Tun!Send(p) PROVE Carrying'
  <2>1. /\ stage # "off"
        /\ \/ given' = given /\ tx' = tx
           \/ given' = Append(given, p) /\ tx' = Append(tx, Framed(os, p))
        /\ UNCHANGED <<os, stage, rx, gone, reader, queued, taken, arrived>>
    BY <1>7, SameFrames DEF Tun!Send, Tun!Sends, Tun!owner, Tun!links, Tun!hist
  <2>2. p \in Seq(Nat)
    BY PacketsAssumption
  <2>3. Carried(os, given', tx', arrived)
    BY <2>1, <2>2, OneGiven DEF Carrying
  <2> QED
    BY <2>1, <2>3 DEF Carrying
<1>8. CASE Tun!Remove
  <2>1. /\ stage # "off" /\ gone' = TRUE
        /\ rx' = IF reader = "copy" THEN <<Head(rx)>> ELSE <<>>
        /\ UNCHANGED <<os, stage, reader, queued, taken, tx, given, arrived>>
    BY <1>8 DEF Tun!Remove, Tun!owner, Tun!hist
  <2>2. Received(os, queued, rx', taken) /\ (reader = "copy" => rx' # <<>>)
    BY <2>1, OthersLost DEF Carrying
  <2> QED
    BY <2>1, <2>2 DEF Carrying
<1>9. CASE Tun!TakeSent
  <2>1. /\ tx # <<>> /\ arrived' = Append(arrived, Head(tx)) /\ tx' = Tail(tx)
        /\ UNCHANGED <<os, stage, rx, gone, reader, queued, taken, given>>
    BY <1>9 DEF Tun!TakeSent, Tun!owner, Tun!links, Tun!hist
  <2>2. Carried(os, given, tx', arrived')
    BY <2>1, OneArrived DEF Carrying
  <2> QED
    BY <2>1, <2>2 DEF Carrying
<1>10. CASE UNCHANGED tun
  BY <1>10 DEF tun, Carrying
<1> QED
  BY <1>1, <1>3, <1>4, <1>5, <1>6, <1>7, <1>8, <1>9, <1>10, ReaderCarries
     DEF Tun!Next, Tun!Reader

\* The invariant says what the property asks.
LEMMA CarryingIntact == Carrying => Tun!PacketsIntact
<1> SUFFICES ASSUME Carrying PROVE Tun!PacketsIntact
  OBVIOUS
<1>1. Received(os, queued, rx, taken) /\ Carried(os, given, tx, arrived)
  BY DEF Carrying
<1>2. Len(taken) <= Len(queued)
  <2>1. PICK k \in Nat, m \in Nat, n \in Nat : k = Len(queued) /\ m = Len(rx) /\ n = Len(taken)
    BY <1>1 DEF Received
  <2>2. n + m <= k
    BY <1>1, <2>1 DEF Received
  <2> QED
    BY <2>1, <2>2
<1>3. \A i \in 1 .. Len(taken) :
        taken[i] = SubSeq(queued[i], 1, IF Len(queued[i]) < Buf THEN Len(queued[i]) ELSE Buf)
  BY <1>1 DEF Received, Cut
<1>4. PICK n \in Nat, m \in Nat : n = Len(arrived) /\ m = Len(tx)
  BY <1>1 DEF Carried
<1>5. Len(given) = n + m
  BY <1>1, <1>4 DEF Carried
<1>6. PICK w : w = arrived \o tx
  OBVIOUS
<1>7. Len(w) = n + m /\ \A i \in 1 .. n + m : w[i] = IF i <= n THEN arrived[i] ELSE tx[i - n]
  BY <1>1, <1>4, <1>6, ConcatProperties DEF Carried
<1>8. \A i \in 1 .. n + m : w[i] = Framed(os, given[i])
  <2> SUFFICES ASSUME NEW i \in 1 .. n + m PROVE w[i] = Framed(os, given[i])
    OBVIOUS
  <2>1. CASE i <= n
    <3>1. arrived[i] = Framed(os, given[i])
      BY <1>1, <1>4, <2>1 DEF Carried
    <3> QED
      BY <1>7, <2>1, <3>1
  <2>2. CASE ~(i <= n)
    <3>1. i - n \in 1 .. m /\ n + (i - n) = i
      BY <2>2
    <3>2. tx[i - n] = Framed(os, given[n + (i - n)])
      BY <1>1, <1>4, <3>1 DEF Carried
    <3> QED
      BY <1>7, <2>2, <3>1, <3>2
  <2> QED
    BY <2>1, <2>2
<1>9. \A i \in 1 .. n + m : w[i] = Tun!Wire(given[i])
  BY <1>8, SameFrames
<1> QED
  BY <1>2, <1>3, <1>5, <1>6, <1>7, <1>9 DEF Tun!PacketsIntact

\* "Callers still see bare packets" (tun.rs): recv returns what the kernel
\* queued, in order, up to the length of the buffer, and the kernel sees what
\* send took, on each of the three systems.
THEOREM PacketsCarried == UnitsSpec => []PacketsIntact
<1>1. UnitsInit => Carrying
  <2>1. ASSUME UnitsInit
        PROVE  /\ queued = <<>> /\ rx = <<>> /\ taken = <<>> /\ given = <<>> /\ tx = <<>>
               /\ arrived = <<>> /\ reader = "off"
    BY <2>1 DEF UnitsInit, Tun!Init
  <2> QED
    BY <2>1, NoneYet DEF Carrying
<1>2. Carrying /\ [UnitsNext]_all => Carrying'
  <2>1. [UnitsNext]_all => [Tun!Next]_tun
    BY DEF UnitsNext, all
  <2> QED
    BY <2>1, CarryingStays
<1>3. Carrying => PacketsIntact
  BY CarryingIntact DEF PacketsIntact
<1> QED
  BY <1>1, <1>2, <1>3, PTL DEF UnitsSpec
=============================================================================
