------------------------------ MODULE Registry ------------------------------
(***************************************************************************)
(* The endpoint registry of the control plane: enrolment, revocation,      *)
(* token rotation, node-token requests, and the file that mirrors the      *)
(* registry (listener.rs, state.rs, vpn_endpoint.rs, peermap.rs of         *)
(* crates/akurai-control/src).                                             *)
(*                                                                         *)
(* Every connection has a thread; one mutex guards the state.  The handler *)
(* of an owner's request reads the registry under one lock, so it is one   *)
(* step.  A request with a node token is authenticated under one lock and  *)
(* handled under another: two steps, between which it is in `calls`.       *)
(*                                                                         *)
(* endpoints is the Vec of AppState, disk the list in vpn-endpoints.json.  *)
(* A record leaves the Vec only when a start does not find it in the file; *)
(* what refers to it in memory is gone then, so that its position stands   *)
(* for its id.                                                             *)
(* save writes a temporary file and renames it: it takes effect whole or,  *)
(* on an error or a crash, not at all.  load is not its inverse: its       *)
(* split_objects counts braces inside strings too, so a name with an       *)
(* opening brace hides its record and every later one; and a file that is  *)
(* read in part, or not at all, passes for a shorter one, which the next   *)
(* save writes over it.                                                    *)
(*                                                                         *)
(* Tokens are numbered in the order they are generated, 0 is "not yet      *)
(* assigned".  The token of an enrolment that fails is never seen and its  *)
(* number is used again, as is the position of its record.                 *)
(***************************************************************************)
EXTENDS Ipam, FiniteSets

CONSTANTS
  Keys,         \* public keys of nodes
  Owners,       \* organization/workspace scopes that can log in
  NoTenant,     \* the empty scope of records from before tenants
  Names,        \* names of nodes: Plain, Opening (with an unmatched "{")
  Plain, Opening,
  InitialDisks, \* the files the first start may find
  Supplied,     \* overlay indices a caller may put in allowed_ips
  MaxEndpoints, \* bound: records
  MaxCalls,     \* bound: node-token requests between their two locks
  MaxTokens,    \* bound: tokens generated on request of an owner
  MaxRestarts,  \* bound: restarts
  MaxMisreads   \* bound: starts that read part of the file only

Tenants == Owners \cup {NoTenant}

Records == [key : Keys, tenant : Tenants, name : {Plain, Opening},
            ips : Seq(Indices), active : BOOLEAN, token : Nat]

\* At most one active record of a key in a tenant.
UniqueKeys(recs) ==
  \A i, j \in DOMAIN recs :
    /\ recs[i].active /\ recs[j].active
    /\ recs[i].tenant = recs[j].tenant /\ recs[i].key = recs[j].key
    => i = j

\* No overlay address in two records, revoked ones included.
DisjointAddresses(recs) ==
  \A i, j \in DOMAIN recs :
    i # j => OverlayIndices(recs[i]) \cap OverlayIndices(recs[j]) = {}

ASSUME RegistryAssumption ==
  /\ NoTenant \notin Owners
  /\ Plain # Opening
  /\ Names \subseteq {Plain, Opening}
  /\ Supplied \subseteq Nat \cup {None}
  /\ MaxEndpoints \in Nat /\ MaxCalls \in Nat
  /\ MaxTokens \in Nat /\ MaxRestarts \in Nat /\ MaxMisreads \in Nat
  /\ \A d \in InitialDisks :
       /\ d \in Seq(Records)
       /\ UniqueKeys(d) /\ DisjointAddresses(d)
       /\ \A i \in DOMAIN d : d[i].token = 0

VARIABLES
  endpoints,  \* AppState.endpoints
  disk,       \* the records in vpn-endpoints.json
  boot,       \* where AppState::new is
  heartbeats, \* the ids with an entry in AppState.heartbeats
  calls,      \* node-token requests authenticated and not yet handled
  drawn,      \* tokens generated
  restarts,   \* restarts so far
  misreads,   \* how many starts read part of the file only
  told,       \* history: overlay addresses told to nodes, with whose they are
  confirmed   \* history: tokens whose owner was told they are rotated or revoked

registry == <<endpoints, disk, boot, heartbeats, calls, drawn, restarts, misreads>>
history  == <<told, confirmed>>
vars     == <<endpoints, disk, boot, heartbeats, calls, drawn, restarts, misreads, told, confirmed>>

-----------------------------------------------------------------------------
Ids     == 1 .. MaxEndpoints
Calls   == [op : {"peermap", "heartbeat"}, tenant : Tenants, id : Nat]
Stages  == [stage : {"addresses", "tokens", "running"}, next : Nat \ {0}, changed : BOOLEAN]
Telling == [index : Indices, id : Nat]

TypeOK ==
  /\ endpoints \in Seq(Records) /\ disk \in Seq(Records)
  /\ boot \in Stages
  /\ heartbeats \subseteq Nat
  /\ calls \subseteq Calls
  /\ drawn \in Nat /\ restarts \in Nat /\ misreads \in Nat
  /\ told \subseteq Telling
  /\ confirmed \subseteq Nat

Stage(s) == [stage |-> s, next |-> 1, changed |-> FALSE]

\* load: what split_objects finds in the file, the records before the first name
\* with an opening brace.
Found(recs, n) == /\ \A i \in 1 .. n : recs[i].name = Plain
                  /\ n < Len(recs) => recs[n + 1].name = Opening
Load(recs)     == {SubSeq(recs, 1, n) : n \in {m \in 0 .. Len(recs) : Found(recs, m)}}

\* An error of open or of read_to_string is ignored: the records read before it,
\* if any, pass for the registry.
Cut(recs) == {SubSeq(recs, 1, n) :
                n \in {m \in 0 .. Len(recs) : /\ m < Len(recs)
                                              /\ \A i \in 1 .. m : recs[i].name = Plain}}

Init ==
  /\ disk \in InitialDisks
  /\ \/ endpoints \in Load(disk) /\ misreads = 0
     \/ endpoints \in Cut(disk) /\ misreads = 1 /\ MaxMisreads > 0
  /\ boot = Stage("addresses")
  /\ heartbeats = {} /\ calls = {}
  /\ drawn = 0 /\ restarts = 0
  /\ told = {} /\ confirmed = {}

Running == boot.stage = "running"

Active(id) == id \in DOMAIN endpoints /\ endpoints[id].active
Mine(tenant, id) == Active(id) /\ endpoints[id].tenant = tenant

Tell(recs, ids) == {[index |-> recs[id].ips[1], id |-> id] :
                      id \in {i \in ids : recs[i].ips # <<>>}}

\* save(&st.endpoints) of the new value; ok is its Result.
Save(ok, recs) == disk' = IF ok THEN recs ELSE disk

-----------------------------------------------------------------------------
(***************************************************************************)
(* AppState::new                                                           *)
(***************************************************************************)
\* One turn of the loop of assign_missing.
BackfillAddress ==
  /\ boot.stage = "addresses" /\ boot.next \in DOMAIN endpoints
  /\ \E index \in (IF endpoints[boot.next].ips = <<>>
                   THEN Allocate(UsedIndices(endpoints)) ELSE {None}) :
       IF index = None THEN /\ boot' = [boot EXCEPT !.next = @ + 1]
                            /\ UNCHANGED endpoints
       ELSE /\ boot' = [boot EXCEPT !.next = @ + 1, !.changed = TRUE]
            /\ endpoints' = [endpoints EXCEPT ![boot.next].ips = <<index>>]
  /\ UNCHANGED <<disk, heartbeats, calls, drawn, restarts, misreads, history>>

\* One turn of the loop over records without a token.
BackfillToken ==
  /\ boot.stage = "tokens" /\ boot.next \in DOMAIN endpoints
  /\ IF endpoints[boot.next].token # 0
     THEN /\ boot' = [boot EXCEPT !.next = @ + 1]
          /\ UNCHANGED <<endpoints, drawn>>
     ELSE /\ drawn' = drawn + 1
          /\ boot' = [boot EXCEPT !.next = @ + 1, !.changed = TRUE]
          /\ endpoints' = [endpoints EXCEPT ![boot.next].token = drawn']
  /\ UNCHANGED <<disk, heartbeats, calls, restarts, misreads, history>>

\* The end of either loop: save if anything changed; an error is only logged.
EndBackfill ==
  /\ ~Running /\ boot.next \notin DOMAIN endpoints
  /\ \E ok \in BOOLEAN : (~boot.changed => ~ok) /\ Save(ok, endpoints)
  /\ boot' = Stage(IF boot.stage = "addresses" THEN "tokens" ELSE "running")
  /\ UNCHANGED <<endpoints, heartbeats, calls, drawn, restarts, misreads, history>>

\* The process ends, at any time, and starts again.
Restart ==
  /\ restarts < MaxRestarts
  /\ restarts' = restarts + 1
  /\ \/ endpoints' \in Load(disk) /\ UNCHANGED misreads
     \/ endpoints' \in Cut(disk) /\ misreads' = misreads + 1 /\ misreads < MaxMisreads
  /\ boot' = Stage("addresses")
  /\ heartbeats' = {} /\ calls' = {}
  /\ UNCHANGED <<disk, drawn, history>>

-----------------------------------------------------------------------------
(***************************************************************************)
(* Requests of an owner                                                    *)
(***************************************************************************)
\* Variant with a slip, used by no specification: only the last record is compared.
EnrolledLast(tenant, key) ==
  {id \in {Len(endpoints)} : Mine(tenant, id) /\ endpoints[id].key = key}

Enrolled(tenant, key) ==
  {id \in DOMAIN endpoints : Mine(tenant, id) /\ endpoints[id].key = key}

\* do_add_endpoint, the key is enrolled already.
AlreadyEnrolled(tenant, key) ==
  /\ Running
  /\ \E id \in Enrolled(tenant, key) : told' = told \cup Tell(endpoints, {id})
  /\ UNCHANGED <<registry, confirmed>>

NewRecord(tenant, key, name, index) ==
  [key |-> key, tenant |-> tenant, name |-> name, ips |-> Cidrs(index),
   active |-> TRUE, token |-> drawn + 1]

\* Variant with a slip, used by no specification: the record is not taken back.
PushedAnyway(ok, pushed) == pushed

PushedIf(ok, pushed) == IF ok THEN pushed ELSE endpoints

\* do_add_endpoint, a new key: persist before acknowledging, or take the record
\* back (which leaves everything as it was).
Enroll(tenant, key, name, supplied) ==
  /\ Running
  /\ Enrolled(tenant, key) = {}
  /\ Len(endpoints) < MaxEndpoints /\ drawn < MaxTokens
  /\ \E index \in ChooseForEnrollment(supplied, UsedIndices(endpoints)), ok \in BOOLEAN :
       LET pushed == Append(endpoints, NewRecord(tenant, key, name, index)) IN
       /\ Save(ok, pushed)
       /\ endpoints' = PushedIf(ok, pushed)
       /\ drawn' = IF ok THEN drawn + 1 ELSE drawn
       /\ told' = IF ok THEN told \cup Tell(pushed, {Len(pushed)}) ELSE told
  /\ UNCHANGED <<boot, heartbeats, calls, restarts, misreads, confirmed>>

\* Variant with a slip, used by no specification: the error is only logged.
RetireLogged(id, ok) == confirmed' = confirmed \cup {endpoints[id].token}

\* What both of the next two do to the token of id; ok is the answer given.
Retire(id, ok) ==
  confirmed' = IF ok THEN confirmed \cup {endpoints[id].token} ELSE confirmed

\* delete_endpoint: a failed save is answered with 500, and not undone.
DeleteEndpoint(tenant, id) ==
  /\ Running /\ Mine(tenant, id)
  /\ endpoints' = [endpoints EXCEPT ![id].active = FALSE]
  /\ heartbeats' = heartbeats \ {id}
  /\ \E ok \in BOOLEAN : Save(ok, endpoints') /\ Retire(id, ok)
  /\ UNCHANGED <<boot, calls, drawn, restarts, misreads, told>>

\* rotate_token: likewise.
RotateToken(tenant, id) ==
  /\ Running /\ Mine(tenant, id)
  /\ drawn < MaxTokens
  /\ drawn' = drawn + 1
  /\ endpoints' = [endpoints EXCEPT ![id].token = drawn']
  /\ \E ok \in BOOLEAN : Save(ok, endpoints') /\ Retire(id, ok)
  /\ UNCHANGED <<boot, heartbeats, calls, restarts, misreads, told>>

\* handle_heartbeat, with a session cookie: any node of the tenant.
HeartbeatOwner(tenant, id) ==
  /\ Running /\ Mine(tenant, id)
  /\ heartbeats' = heartbeats \cup {id}
  /\ UNCHANGED <<endpoints, disk, boot, calls, drawn, restarts, misreads, history>>

-----------------------------------------------------------------------------
(***************************************************************************)
(* Requests with a node token                                              *)
(***************************************************************************)
\* auth_node: the scope and id of the active record with this token, or 401.
AuthNode(token, op) ==
  /\ Running /\ token # 0
  /\ Cardinality(calls) < MaxCalls
  /\ calls' = calls \cup {[op |-> op, tenant |-> endpoints[id].tenant, id |-> id] :
                           id \in {i \in DOMAIN endpoints :
                                    Active(i) /\ endpoints[i].token = token}}
  /\ UNCHANGED <<endpoints, disk, boot, heartbeats, drawn, restarts, misreads, history>>

\* Variant with a slip, used by no specification: what was authenticated is not
\* looked at again.
OwnedAtAuth(call) == TRUE

StillOwned(call) == Mine(call.tenant, call.id)

\* handle_heartbeat_token: the record is looked up again under the second lock.
HeartbeatToken(call) ==
  /\ call.op = "heartbeat"
  /\ calls' = calls \ {call}
  /\ heartbeats' = IF StillOwned(call) THEN heartbeats \cup {call.id} ELSE heartbeats
  /\ UNCHANGED <<endpoints, disk, boot, drawn, restarts, misreads, history>>

\* handle_peermap: the active records of the tenant but the one self names, if any.
Peermap(call) ==
  /\ call.op = "peermap"
  /\ calls' = calls \ {call}
  /\ \E self \in {0} \cup DOMAIN endpoints :
       told' = told \cup Tell(endpoints, {id \in DOMAIN endpoints :
                                            Mine(call.tenant, id) /\ id # self})
  /\ UNCHANGED <<endpoints, disk, boot, heartbeats, drawn, restarts, misreads, confirmed>>

-----------------------------------------------------------------------------
Owner(tenant) ==
  \/ \E key \in Keys : \/ AlreadyEnrolled(tenant, key)
                       \/ \E name \in Names, supplied \in Supplied :
                            Enroll(tenant, key, name, supplied)
  \/ \E id \in Ids : \/ DeleteEndpoint(tenant, id) \/ RotateToken(tenant, id)
                     \/ HeartbeatOwner(tenant, id)

Next ==
  \/ BackfillAddress \/ BackfillToken \/ EndBackfill \/ Restart
  \/ \E tenant \in Owners : Owner(tenant)
  \/ \E token \in 1 .. drawn, op \in {"peermap", "heartbeat"} : AuthNode(token, op)
  \/ \E call \in calls : HeartbeatToken(call) \/ Peermap(call)

Spec == Init /\ [][Next]_vars

-----------------------------------------------------------------------------
(***************************************************************************)
(* Properties                                                              *)
(***************************************************************************)

\* "Done under the state lock so concurrent enrollments cannot race onto the same
\* index", and "counting all of them prevents a stray index from being silently
\* re-allocated": no overlay address is in two records, in memory or on disk,
\* whatever failed to be saved or read and was allocated again after a restart.
AddressesDisjoint == DisjointAddresses(endpoints) /\ DisjointAddresses(disk)

\* Enrolment is idempotent: however a key is revoked, enrolled again, un-revoked by
\* a restart after a failed save, it is active at most once in its tenant.
OneActivePerKey == UniqueKeys(endpoints) /\ UniqueKeys(disk)

\* handle_heartbeat_token takes the lock a second time: a revocation between its
\* two locks leaves no heartbeat of the revoked node behind.
LiveHeartbeats == \A id \in heartbeats : Active(id)

\* What delete and rotate-token confirmed with 200 is for good: no restart, no
\* failed and no later save, and no read cut short lets the old token authenticate again.
ConfirmedIsFinal ==
  \A recs \in {endpoints, disk} : \A id \in DOMAIN recs :
    recs[id].active => recs[id].token \notin confirmed

\* "Hands each enrolled node a stable, globally-unique overlay IPv4": of all that
\* nodes were ever told, in answers to enrolments and in peer maps they may still
\* hold, an address names one node and a node has one address; also after
\* revocations, and restarts that allocate anew what was not saved.  It holds until
\* a start reads part of the file only: what it missed is allocated again.
AddressNamesOneNode ==
  misreads = 0 => \A x, y \in told : x.index = y.index <=> x.id = y.id

\* "Persist BEFORE acknowledging success ... rather than be told ok and silently
\* vanish on the next restart": an enrolled record stays, but for a start that
\* reads part of the file only.
NoRecordVanishes ==
  [][misreads' = misreads => \A id \in DOMAIN endpoints :
       /\ id \in DOMAIN endpoints'
       /\ endpoints'[id].key = endpoints[id].key
       /\ endpoints'[id].tenant = endpoints[id].tenant]_vars
=============================================================================
