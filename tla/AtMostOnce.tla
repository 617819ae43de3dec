----------------------------- MODULE AtMostOnce -----------------------------
(***************************************************************************)
(* What one direction of a data session promises to the two TUN devices,  *)
(* whatever the datagram network does in between: a packet is handed over  *)
(* only if the other end sealed it, and at most once.  Nothing is said of  *)
(* order, and a packet may be lost.  ReplayWindow implements this.         *)
(***************************************************************************)
EXTENDS Naturals

CONSTANT Counters        \* the packet counters of the session

VARIABLES sent,          \* counters sealed so far under the session key
          handed         \* handed[c]: how often packet c reached the TUN

vars == <<sent, handed>>

Init == /\ sent = {}
        /\ handed = [c \in Counters |-> 0]

\* The sending node seals one more packet, under a counter not used before.
Send == /\ \E c \in Counters \ sent : sent' = sent \cup {c}
        /\ UNCHANGED handed

\* The receiving node hands a packet over, for the first and only time.
Hand == /\ \E c \in sent : /\ handed[c] = 0
                           /\ handed' = [handed EXCEPT ![c] = 1]
        /\ UNCHANGED sent

Next == Send \/ Hand

Spec == Init /\ [][Next]_vars
=============================================================================
