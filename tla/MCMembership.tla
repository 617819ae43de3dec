---------------------------- MODULE MCMembership ----------------------------
(***************************************************************************)
(* Membership on two nodes that are enrolled, the second with an address   *)
(* of its own, and a third that may be.                                    *)
(***************************************************************************)
EXTENDS Membership, TLC

CONSTANTS k1, k2, k3

Given == k1 :> None @@ k2 :> <<k2, 0>> @@ k3 :> None

\* Only the first has its token yet.
Seeded == k1 :> 1 @@ k2 :> 0 @@ k3 :> 0

Two == <<[key |-> k1, ips |-> <<2>>, active |-> TRUE, token |-> 1],
         [key |-> k2, ips |-> <<3>>, active |-> TRUE, token |-> 2]>>
=============================================================================
