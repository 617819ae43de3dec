-------------------------------- MODULE Ipam --------------------------------
(***************************************************************************)
(* The overlay address allocator                                           *)
(* (crates/akurai-control/src/ipam.rs).  An overlay address is its index   *)
(* in 100.88.0.0/16.  Of allowed_ips a record keeps the overlay entries,   *)
(* in order: a new record has at most one, a legacy one may have several.  *)
(* The result of an allocation is a set, so that no choice is hidden in a  *)
(* CHOOSE: one index, or {None} when the pool is exhausted.                *)
(***************************************************************************)
EXTENDS Naturals, Sequences

CONSTANTS None,     \* Option::None
          MaxIndex  \* OverlayIpv4::MAX_INDEX, 65535

ASSUME IpamAssumption == MaxIndex \in Nat /\ None \notin Nat

FIRST_NODE_INDEX == 2   \* 0 is the network, 1 the control plane

Indices == 0 .. MaxIndex
Pool    == FIRST_NODE_INDEX .. MaxIndex

OverlayIndices(e) == {e.ips[k] : k \in DOMAIN e.ips}
OverlayIndex(e)   == IF e.ips = <<>> THEN None ELSE e.ips[1]

\* Variants with a slip, used by no specification: a revoked record, a second
\* overlay entry of a record does not count.
UsedByActive(endpoints) ==
  UNION {OverlayIndices(endpoints[id]) : id \in {i \in DOMAIN endpoints : endpoints[i].active}}
UsedFirstOnly(endpoints) ==
  {OverlayIndex(endpoints[id]) : id \in DOMAIN endpoints} \ {None}

UsedIndices(endpoints) ==
  UNION {OverlayIndices(endpoints[id]) : id \in DOMAIN endpoints}

LowestFree(used) == {i \in Pool \ used : \A j \in Pool \ used : i <= j}

Allocate(used) == IF Pool \subseteq used THEN {None} ELSE LowestFree(used)

ChooseForEnrollment(supplied, used) ==
  IF supplied \in Pool \ used THEN {supplied} ELSE Allocate(used)

\* allowed_ips of a record given this index.
Cidrs(index) == IF index = None THEN <<>> ELSE <<index>>
=============================================================================
