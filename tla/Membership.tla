----------------------------- MODULE Membership -----------------------------
(***************************************************************************)
(* How nodes learn of each other: the peer map of the control plane, the   *)
(* heartbeats that feed it, and the threads of a node that fetch the one   *)
(* and send the other (peers.rs, heartbeat.rs, main.rs and tunnel.rs of    *)
(* crates/akurai-node/src; peermap.rs, heartbeat.rs and the handlers in    *)
(* listener.rs of crates/akurai-control/src).                              *)
(*                                                                         *)
(* One tenant, whose registry is as in Registry with saves that succeed;   *)
(* records are named by their position.  That a request of a node is       *)
(* authenticated under one lock and handled under another is in Registry;  *)
(* here the two are one step, and what matters is the answer that travels  *)
(* while the registry changes, and the heartbeat that arrives after the    *)
(* daemon that sent it.  Each thread of a node waits for its curl, so it   *)
(* has one request under way.                                              *)
(*                                                                         *)
(* Time is relative: of a heartbeat the age is kept, of a node how long    *)
(* ago its last heartbeat ended.  The clock of the control plane does not  *)
(* jump.  A node is on an address <<k, n>> in its n-th run, and finds it.  *)
(* Nodes have a control URL and no static peers file.  A node without      *)
(* a token neither gets a peer map nor sends heartbeats: its cookie is     *)
(* refused by /api/peermap, and the list of /api/endpoints, where it looks *)
(* for its token and its id, has neither tokens nor keys.                  *)
(***************************************************************************)
EXTENDS Ipam, FiniteSets

CONSTANTS
  Keys,       \* public keys, each of one node
  Saved,      \* endpoint_addr given at the enrolment of each key, or None
  Hidden,     \* keys enrolled under a name with a closing brace
  Interval,   \* HEARTBEAT_INTERVAL, 30 s
  Slack,      \* bound: time a heartbeat takes, the sleep's delay included
  TTL,        \* HEARTBEAT_TTL_SECS, 120 s
  Misses,     \* heartbeats that may be missed in a row
  InitialEndpoints, \* the registry the control plane starts with
  InitialFile,      \* the token files of the nodes then
  MaxEvents   \* bound: what owners and operators do, and what fails

Addresses == Keys \X Nat
Records   == [key : Keys, ips : Seq(Indices), active : BOOLEAN, token : Nat]

ASSUME MembershipAssumption ==
  /\ Saved \in [Keys -> Addresses \cup {None}]
  /\ Hidden \subseteq Keys
  /\ None \notin Addresses
  /\ Interval \in Nat \ {0} /\ Slack \in Nat /\ TTL \in Nat /\ Misses \in Nat
  /\ InitialEndpoints \in Seq(Records) /\ InitialFile \in [Keys -> 0 .. Len(InitialEndpoints)]
  /\ \A id \in DOMAIN InitialEndpoints :
       LET e == InitialEndpoints[id]
       IN /\ e.active /\ e.token = id
          /\ \A i \in DOMAIN InitialEndpoints \ {id} :
               /\ InitialEndpoints[i].key # e.key
               /\ OverlayIndices(InitialEndpoints[i]) \cap OverlayIndices(e) = {}
  /\ (Misses + 1) * (Interval + Slack) <= TTL
  /\ MaxEvents \in Nat

VARIABLES
  endpoints,  \* AppState.endpoints
  heartbeats, \* AppState.heartbeats
  drawn,      \* tokens generated; token 0 is none
  late,       \* heartbeats under way of daemons that were killed
  file,       \* node.token of each node
  node,       \* each node's daemon
  events      \* events so far

vars == <<endpoints, heartbeats, drawn, late, file, node, events>>

-----------------------------------------------------------------------------
Peers   == [ip : Indices, key : Keys, endpoint : Addresses \cup {None}]
Idle    == [answered |-> FALSE, peers |-> {}]
Fetches == [answered : BOOLEAN, peers : SUBSET Peers]   \* the answer to a fetch

\* missed counts the heartbeats that were not recorded since the last that was.
Daemons == [run : {"down", "starting", "running"}, runs : Nat, token : Nat,
            peers : SUBSET Peers, fetch : Fetches,
            waited : 0 .. Interval + Slack, missed : 0 .. Misses + 1]

\* Every variable has its type; no thread waits longer than the bounds.
TypeOK ==
  /\ endpoints \in Seq(Records)
  /\ DOMAIN heartbeats \subseteq DOMAIN endpoints
  /\ \A id \in DOMAIN heartbeats :
       heartbeats[id] \in [endpoint : Addresses, age : 0 .. TTL + 1]
  /\ drawn \in Nat /\ events \in Nat
  /\ late \subseteq [id : Nat, endpoint : Addresses]
  /\ file \in [Keys -> Nat]
  /\ node \in [Keys -> Daemons]

Down(runs) == [run |-> "down", runs |-> runs, token |-> 0, peers |-> {},
               fetch |-> Idle, waited |-> 0, missed |-> Misses + 1]

\* With the token of the file, which the bootstrap by cookie never supplies; the
\* first heartbeat does not wait.
Starting(runs, token) == [run |-> "starting", runs |-> runs, token |-> token, peers |-> {},
                          fetch |-> Idle, waited |-> Interval, missed |-> Misses + 1]

Init ==
  /\ endpoints = InitialEndpoints
  /\ heartbeats = <<>>
  /\ drawn = Len(InitialEndpoints)
  /\ late = {}
  /\ file = InitialFile
  /\ node = [k \in Keys |-> Down(0)]
  /\ events = 0

Event == events < MaxEvents /\ events' = events + 1

Running(k) == node[k].run = "running"
Here(k)    == <<k, node[k].runs>>   \* the socket of this run
Active(id) == id \in DOMAIN endpoints /\ endpoints[id].active

\* auth_node: the active record with this token.
AuthNode(token) == {id \in DOMAIN endpoints :
                      Active(id) /\ token # 0 /\ endpoints[id].token = token}

-----------------------------------------------------------------------------
(***************************************************************************)
(* What owners do.                                                         *)
(***************************************************************************)
Enroll(k) ==
  /\ \A id \in DOMAIN endpoints : Active(id) => endpoints[id].key # k
  /\ Event
  /\ \E supplied \in Indices \cup {None} :
     \E index \in ChooseForEnrollment(supplied, UsedIndices(endpoints)) :
       endpoints' = Append(endpoints, [key |-> k, ips |-> Cidrs(index),
                                       active |-> TRUE, token |-> drawn + 1])
  /\ drawn' = drawn + 1
  /\ UNCHANGED <<heartbeats, late, file, node>>

DeleteEndpoint(id) ==
  /\ Active(id) /\ Event
  /\ endpoints' = [endpoints EXCEPT ![id].active = FALSE]
  /\ heartbeats' = [i \in DOMAIN heartbeats \ {id} |-> heartbeats[i]]
  /\ UNCHANGED <<drawn, late, file, node>>

RotateToken(id) ==
  /\ Active(id) /\ Event
  /\ endpoints' = [endpoints EXCEPT ![id].token = drawn + 1]
  /\ drawn' = drawn + 1
  /\ UNCHANGED <<heartbeats, late, file, node>>

\* bootstrap_device_token hands the token of a key's active record to its
\* owner, who puts it in the node's token file.
BootstrapDeviceToken(k) ==
  /\ Event
  /\ \E id \in DOMAIN endpoints :
       /\ Active(id) /\ endpoints[id].key = k /\ endpoints[id].token # file[k]
       /\ file' = [file EXCEPT ![k] = endpoints[id].token]
  /\ UNCHANGED <<endpoints, heartbeats, drawn, late, node>>

-----------------------------------------------------------------------------
(***************************************************************************)
(* The peer map.                                                           *)
(***************************************************************************)
\* Variant with a slip, used by no specification: the edge is excluded.
IsOnlineBefore(age) == age < TTL

IsOnline(age) == age <= TTL

Online(id) == id \in DOMAIN heartbeats /\ IsOnline(heartbeats[id].age)

\* What the node reads out of peer_json: the name comes before the endpoint,
\* and a closing brace in it ends what the node takes for the object.
PeerOf(id, endpoint) ==
  [ip       |-> endpoints[id].ips[1],
   key      |-> endpoints[id].key,
   endpoint |-> IF endpoints[id].key \in Hidden THEN None ELSE endpoint]

\* The active records but the caller's own; one without an address does not parse.
Others(self) == {id \in DOMAIN endpoints :
                   Active(id) /\ id # self /\ endpoints[id].ips # <<>>}

Candidate(id) == IF Online(id) THEN heartbeats[id].endpoint ELSE Saved[endpoints[id].key]

PeerMap(self) == {PeerOf(id, Candidate(id)) : id \in Others(self)}

\* A daemon at work, with this table and no fetch under way.
Knowing(n, table) ==
  [run |-> "running", runs |-> n.runs, token |-> n.token, peers |-> table,
   fetch |-> Idle, waited |-> n.waited, missed |-> n.missed]

\* Variant with a slip, used by no specification: the fetch of the start-up
\* stays the only one.
AfterFetchOnce(n, peers) ==
  Knowing(n, IF n.run = "starting" THEN peers ELSE n.peers)

\* A fetch ends, empty-handed if it failed.  The start-up takes what it gets;
\* the refresh thread swaps the table only for one that is not empty.
AfterFetch(n, peers) ==
  Knowing(n, IF peers = {} /\ n.run = "running" THEN n.peers ELSE peers)

Answered(n, map) ==
  [run |-> n.run, runs |-> n.runs, token |-> n.token, peers |-> n.peers,
   fetch |-> [answered |-> TRUE, peers |-> map], waited |-> n.waited, missed |-> n.missed]

\* handle_peermap; a request that is not authenticated fails.
Answer(k) ==
  /\ node[k].run # "down" /\ ~ node[k].fetch.answered
  /\ \E self \in AuthNode(node[k].token) :
       node' = [node EXCEPT ![k] = Answered(@, PeerMap(self))]
  /\ UNCHANGED <<endpoints, heartbeats, drawn, late, file, events>>

Refused(k) ==
  /\ node[k].run # "down" /\ ~ node[k].fetch.answered /\ AuthNode(node[k].token) = {}
  /\ node' = [node EXCEPT ![k] = AfterFetch(@, {})]
  /\ UNCHANGED <<endpoints, heartbeats, drawn, late, file, events>>

Refresh(k) ==
  /\ node[k].fetch.answered
  /\ node' = [node EXCEPT ![k] = AfterFetch(@, @.fetch.peers)]
  /\ UNCHANGED <<endpoints, heartbeats, drawn, late, file, events>>

FetchFails(k) ==
  /\ node[k].run # "down" /\ Event
  /\ node' = [node EXCEPT ![k] = AfterFetch(@, {})]
  /\ UNCHANGED <<endpoints, heartbeats, drawn, late, file>>

-----------------------------------------------------------------------------
(***************************************************************************)
(* Heartbeats.                                                             *)
(***************************************************************************)
\* A daemon with its heartbeat loop at this point.
Looping(n, waited, missed) ==
  [run |-> n.run, runs |-> n.runs, token |-> n.token, peers |-> n.peers,
   fetch |-> n.fetch, waited |-> waited, missed |-> missed]

\* The loop's turn is over, and the sleep begins.
AfterBeat(n, recorded) ==
  Looping(n, 0, IF recorded THEN 0 ELSE IF n.missed > Misses THEN n.missed ELSE n.missed + 1)

BeatDue(k) == Running(k) /\ node[k].token # 0 /\ node[k].waited >= Interval

\* handle_heartbeat_token: the record of the token was heard of at this address.
Heard(id, endpoint) == [i \in DOMAIN heartbeats \cup {id} |->
  IF i = id THEN [endpoint |-> endpoint, age |-> 0] ELSE heartbeats[i]]

Beat(k) ==
  /\ BeatDue(k)
  /\ \E id \in AuthNode(node[k].token) : heartbeats' = Heard(id, Here(k))
  /\ node' = [node EXCEPT ![k] = AfterBeat(@, TRUE)]
  /\ UNCHANGED <<endpoints, drawn, late, file, events>>

BeatRefused(k) ==
  /\ BeatDue(k) /\ AuthNode(node[k].token) = {}
  /\ node' = [node EXCEPT ![k] = AfterBeat(@, FALSE)]
  /\ UNCHANGED <<endpoints, heartbeats, drawn, late, file, events>>

BeatLost(k) ==
  /\ BeatDue(k) /\ Event
  /\ node' = [node EXCEPT ![k] = AfterBeat(@, FALSE)]
  /\ UNCHANGED <<endpoints, heartbeats, drawn, late, file>>

\* It was authenticated while the daemon lived; its node may be revoked by now.
LateBeat(p) ==
  /\ p \in late
  /\ late' = late \ {p}
  /\ heartbeats' = IF Active(p.id) THEN Heard(p.id, p.endpoint) ELSE heartbeats
  /\ UNCHANGED <<endpoints, drawn, file, node, events>>

-----------------------------------------------------------------------------
(***************************************************************************)
(* Starts, restarts, time.                                                 *)
(***************************************************************************)
\* tunnel_cmd reads the token file, once.
Start(k) ==
  /\ node[k].run = "down" /\ file[k] # 0
  /\ node' = [node EXCEPT ![k] = Starting(@.runs + 1, file[k])]
  /\ UNCHANGED <<endpoints, heartbeats, drawn, late, file, events>>

\* The daemon is killed; a heartbeat it sent may still be recorded.
Stop(k) ==
  /\ node[k].run # "down" /\ Event
  /\ \/ UNCHANGED late
     \/ BeatDue(k) /\ late' = late \cup {[id |-> id, endpoint |-> Here(k)] :
                                            id \in AuthNode(node[k].token)}
  /\ node' = [node EXCEPT ![k] = Down(@.runs)]
  /\ UNCHANGED <<endpoints, heartbeats, drawn, file>>

\* The table of heartbeats and the requests under way are lost.
ControlRestart ==
  /\ Event
  /\ heartbeats' = <<>> /\ late' = {}
  /\ node' = [k \in Keys |-> Looping(node[k], node[k].waited, Misses + 1)]
  /\ UNCHANGED <<endpoints, drawn, file>>

Beats(k) == Running(k) /\ node[k].token # 0

\* An age counts until it is too old.
Older(age) == IF IsOnline(age) THEN age + 1 ELSE age

\* No turn of a heartbeat loop takes longer than Interval + Slack.
Tick ==
  /\ \A k \in Keys : Beats(k) => node[k].waited < Interval + Slack
  /\ node' = [k \in Keys |-> IF Beats(k) THEN Looping(node[k], node[k].waited + 1, node[k].missed)
                                   ELSE node[k]]
  /\ heartbeats' = [id \in DOMAIN heartbeats |->
       [endpoint |-> heartbeats[id].endpoint, age |-> Older(heartbeats[id].age)]]
  /\ UNCHANGED <<endpoints, drawn, late, file, events>>

Owner == \/ \E k \in Keys : Enroll(k) \/ BootstrapDeviceToken(k)
         \/ \E id \in DOMAIN endpoints : DeleteEndpoint(id) \/ RotateToken(id)

Daemon(k) == \/ Start(k) \/ Stop(k)
             \/ Answer(k) \/ Refused(k) \/ Refresh(k) \/ FetchFails(k)
             \/ Beat(k) \/ BeatRefused(k) \/ BeatLost(k)

Next == \/ Owner
        \/ \E k \in Keys : Daemon(k)
        \/ \E p \in late : LateBeat(p)
        \/ ControlRestart \/ Tick

\* The loops of a daemon run on, the control plane answers, time passes.
Fairness ==
  /\ \A k \in Keys : /\ WF_vars(Answer(k)) /\ WF_vars(Refused(k)) /\ WF_vars(Refresh(k))
                     /\ WF_vars(Beat(k)) /\ WF_vars(BeatRefused(k))
  /\ WF_vars(Tick)

Spec     == Init /\ [][Next]_vars
FairSpec == Spec /\ Fairness

-----------------------------------------------------------------------------
\* Every overlay address in a table, or in an answer on its way to one, stands
\* with the only key that ever had it.  A table may be stale for ever (a token
\* was rotated, the last peer revoked), so this is what keeps a node from
\* sealing packets to the wrong peer (peers.rs route_to; ipam.rs:65).
Learned(k) == node[k].peers \cup node[k].fetch.peers

EntriesNameOwner ==
  \A k \in Keys : \A p \in Learned(k) : \A id \in DOMAIN endpoints :
    p.ip \in OverlayIndices(endpoints[id]) => endpoints[id].key = p.key

\* A running node whose token is good stays online though Misses heartbeats in
\* a row were lost: the interval is "well within the control plane's 120s TTL"
\* (heartbeat.rs:23), its edge included.
StaysOnline ==
  \A k \in Keys : Running(k) /\ node[k].missed <= Misses =>
    \A id \in AuthNode(node[k].token) : Online(id)

\* An active record is served while a running daemon holds its token.
Server(id) == {k \in Keys : Running(k) /\ id \in AuthNode(node[k].token)}

Present(id) == IF Server(id) = {} THEN Saved[endpoints[id].key]
               ELSE Here(CHOOSE k \in Server(id) : TRUE)

Expected(k) == UNION {{PeerOf(id, Present(id)) : id \in Others(self)} :
                        self \in AuthNode(node[k].token)}

\* Once things settle, the table of a running node with a good token is the
\* tenant's other active nodes, each at the address it has now, or, if it is
\* gone, at the one it was enrolled with: after whatever revocations, rotations,
\* restarts, lost requests and late answers.  That is, unless there are none:
\* an empty map is not applied (tunnel.rs:485), and the last peer stays.
Converges ==
  \A k \in Keys : <>[](Running(k) /\ Expected(k) # {}) => <>[](node[k].peers = Expected(k))
=============================================================================
