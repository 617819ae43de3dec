---------------------------- MODULE ReplayWindow ----------------------------
(***************************************************************************)
(* One direction of a data session of akurai-transport: the `encrypt` of   *)
(* one end, the datagram network, and the `decrypt` of the other end with  *)
(* its sliding anti-replay window (crates/akurai-transport/src/session.rs).*)
(*                                                                         *)
(* The network is the worst UDP allows: every genuine packet sealed so far *)
(* may arrive at any moment, any number of times and in any order, or      *)
(* never; besides, a datagram whose tag does not verify may arrive with    *)
(* any counter in its clear-text header.                                   *)
(*                                                                         *)
(* The u64 bit mask is the set of its set bits; the word is Window bits    *)
(* wide, as in the code where WINDOW = 64 is the width of u64.             *)
(***************************************************************************)
EXTENDS Naturals

CONSTANTS Window,       \* WINDOW
          MaxCounter    \* number of counters a session may use (2^64 in the code)

ASSUME WindowAssumption == Window \in Nat \ {0}
ASSUME MaxCounterAssumption == MaxCounter \in Nat \ {0}

Counters == 0 .. MaxCounter - 1
Bits     == 0 .. Window - 1

VARIABLES send_counter,   \* next outbound counter of the sending end
          recv_started,   \* the receiving end's window ...
          recv_max,
          recv_mask,
          result,         \* what the last decrypt returned, and why
          handed          \* history: how often packet c was handed to the TUN

window == <<recv_started, recv_max, recv_mask>>
vars == <<send_counter, recv_started, recv_max, recv_mask, result, handed>>

Results == {"none", "accepted", "stale", "forged", "replay"}

TypeOK == /\ send_counter \in 0 .. MaxCounter
          /\ recv_started \in BOOLEAN
          /\ recv_max \in Counters
          /\ recv_mask \in SUBSET Bits
          /\ result \in Results
          /\ handed \in [Counters -> Nat]

Init == /\ send_counter = 0
        /\ recv_started = FALSE
        /\ recv_max = 0
        /\ recv_mask = {}
        /\ result = "none"
        /\ handed = [c \in Counters |-> 0]

-----------------------------------------------------------------------------
\* encrypt: the packet carries the old value of the counter.
Encrypt == /\ send_counter < MaxCounter
           /\ send_counter' = send_counter + 1
           /\ UNCHANGED <<recv_started, recv_max, recv_mask, result, handed>>

-----------------------------------------------------------------------------
\* Variants of the definitions below, each with a slip the code could contain;
\* no specification uses them, they show which property would notice.
PreAuthRejectSaturating(c) ==
  recv_started /\ c <= (IF recv_max >= Window THEN recv_max - Window ELSE 0)
AlreadySeenOffByOne(c) == recv_started /\ c < recv_max /\ recv_max - c - 1 \in recv_mask

-----------------------------------------------------------------------------
\* recv_mask << s: bits pushed beyond the word are lost.
ShiftLeft(mask, s) == {i \in Bits : i >= s /\ i - s \in mask}

\* The reject before the tag is verified.
PreAuthReject(c) == /\ recv_started
                    /\ recv_max >= Window
                    /\ c <= recv_max - Window

\* The authoritative check, behind the tag: older than the window, or seen.
BeyondWindow(c)  == recv_started /\ c <= recv_max /\ recv_max - c >= Window
AlreadySeen(c)   == recv_started /\ c <= recv_max /\ recv_max - c \in recv_mask
WindowRefuses(c) == BeyondWindow(c) \/ AlreadySeen(c)

\* The window after an accepted packet.
SlideTo(c) ==
  /\ recv_started' = TRUE
  /\ \/ /\ ~recv_started
        /\ recv_max' = c
        /\ recv_mask' = {0}
     \/ /\ recv_started /\ c > recv_max
        /\ recv_max' = c
        /\ recv_mask' = (IF c - recv_max >= Window
                         THEN {} ELSE ShiftLeft(recv_mask, c - recv_max)) \cup {0}
     \/ /\ recv_started /\ c <= recv_max
        /\ recv_max' = recv_max
        /\ recv_mask' = recv_mask \cup {recv_max - c}

Return(r) == result' = r
Refuse(r) == Return(r) /\ UNCHANGED <<recv_started, recv_max, recv_mask, handed>>
HandOver(c) == Return("accepted") /\ handed' = [handed EXCEPT ![c] = @ + 1]

\* decrypt of a datagram with counter c in its header whose tag verifies or not.
Decrypt(c, genuine) ==
  /\ UNCHANGED send_counter
  /\ \/ /\ PreAuthReject(c)
        /\ Refuse("stale")
     \/ /\ ~PreAuthReject(c) /\ ~genuine
        /\ Refuse("forged")
     \/ /\ ~PreAuthReject(c) /\ genuine /\ WindowRefuses(c)
        /\ Refuse(IF BeyondWindow(c) THEN "stale" ELSE "replay")
     \/ /\ ~PreAuthReject(c) /\ genuine /\ ~WindowRefuses(c)
        /\ SlideTo(c)
        /\ HandOver(c)

\* Any sealed packet may arrive again; a forged one may carry any counter.
Arrive == \E c \in Counters, genuine \in BOOLEAN :
            (genuine => c < send_counter) /\ Decrypt(c, genuine)

Next == Encrypt \/ Arrive

Spec == Init /\ [][Next]_vars

-----------------------------------------------------------------------------
(***************************************************************************)
(* Properties                                                              *)
(***************************************************************************)

\* The doc of `recv_mask`: bit i is set exactly when recv_max - i has been
\* accepted.  It ties the window to the whole history of accepted packets,
\* across slides that push old bits out and jumps that clear the word.
MaskMeansAccepted ==
  recv_started =>
    \A i \in Bits : i \in recv_mask <=> (i <= recv_max /\ handed[recv_max - i] > 0)

\* recv_max is the highest counter accepted so far, and bit 0 stands for it.
MaxIsHighest ==
  /\ recv_started => handed[recv_max] > 0
  /\ \A c \in Counters : handed[c] > 0 => recv_started /\ c <= recv_max

\* "A captured packet cannot be replayed": over every schedule of losses,
\* duplicates and reorderings, `decrypt` hands a counter over at most once,
\* and only a counter the other end sealed.
AcceptedAtMostOnce ==
  \A c \in Counters : handed[c] <= 1 /\ (handed[c] > 0 => c < send_counter)

\* "Within-window reordering is still accepted": neither the early reject nor
\* the window turns away a packet that was never handed over and is less than
\* Window behind the highest one, however the window came to be what it is.
NoFalseRefusal ==
  \A c \in Counters :
    handed[c] = 0 /\ (recv_started => recv_max < c + Window)
      => ~PreAuthReject(c) /\ ~WindowRefuses(c)

\* The session implements the abstract delivery promise.
Abstract == INSTANCE AtMostOnce WITH sent <- 0 .. send_counter - 1
ImplementsAtMostOnce == Abstract!Spec
=============================================================================
