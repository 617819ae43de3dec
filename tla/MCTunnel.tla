------------------------------ MODULE MCTunnel ------------------------------
(***************************************************************************)
(* Tunnel on two nodes a and b.                                            *)
(***************************************************************************)
EXTENDS Tunnel

CONSTANTS a, b

\* Reachable: every node hears every other, as in one LAN.
Everyone == {<<a, b>>, <<b, a>>}
=============================================================================
