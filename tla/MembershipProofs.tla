-------------------------- MODULE MembershipProofs --------------------------
(***************************************************************************)
(* The safety of Membership, for every set of keys, every initial registry *)
(* that satisfies MembershipAssumption, all intervals, and every bound.    *)
(* What makes it inductive: addresses and tokens are of one record each    *)
(* and never move, so what a table says of a record stays true, and no     *)
(* daemon holds a token that is not drawn yet; and a heartbeat is no older *)
(* than the loop that sent it has waited and missed.                       *)
(***************************************************************************)
EXTENDS Membership, SequenceTheorems, TLAPS

Period == Interval + Slack

DisjointIps == \A i, j \in DOMAIN endpoints :
  i # j => OverlayIndices(endpoints[i]) \cap OverlayIndices(endpoints[j]) = {}

DistinctTokens == \A i, j \in DOMAIN endpoints :
  endpoints[i].token = endpoints[j].token => i = j

TokensDrawn == /\ \A i \in DOMAIN endpoints : endpoints[i].token <= drawn
               /\ \A k \in Keys : file[k] <= drawn /\ node[k].token <= drawn

\* What a table entry says of some record, its endpoint apart.
OfRecord(p, recs) == \E id \in DOMAIN recs :
  p.ip \in OverlayIndices(recs[id]) /\ p.key = recs[id].key

Known == \A k \in Keys : \A p \in Learned(k) : OfRecord(p, endpoints)

\* Variables as parameters, for a daemon n that takes the place of another.
YoungEnough(n, id, beats) ==
  id \in DOMAIN beats /\ beats[id].age <= n.waited + n.missed * Period

Punctual(n, ids, beats) ==
  n.missed <= Misses => n.run = "running" /\ \A id \in ids : YoungEnough(n, id, beats)

Timely == \A k \in Keys : Punctual(node[k], AuthNode(node[k].token), heartbeats)

Inv == TypeOK /\ DisjointIps /\ DistinctTokens /\ TokensDrawn /\ Known /\ Timely

-----------------------------------------------------------------------------
(***************************************************************************)
(* Records and daemons                                                     *)
(***************************************************************************)
\* An element of the registry is a record, at a position that is a number.
LEMMA Element ==
  ASSUME TypeOK, NEW id \in DOMAIN endpoints
  PROVE  /\ endpoints[id] \in Records /\ id \in Nat
         /\ endpoints[id].key \in Keys /\ endpoints[id].ips \in Seq(Indices)
         /\ endpoints[id].active \in BOOLEAN /\ endpoints[id].token \in Nat
<1>1. endpoints[id] \in Records /\ id \in Nat
  BY ElementOfSeq, LenProperties DEF TypeOK
<1> QED BY <1>1 DEF Records

\* A daemon whose fetch has ended keeps its credential and its heartbeat loop,
\* and has learned nothing but what it was given.
LEMMA FetchEnds ==
  ASSUME NEW n \in Daemons, NEW peers \in SUBSET Peers
  PROVE  LET m == AfterFetch(n, peers) IN
         /\ m \in Daemons
         /\ m.token = n.token /\ m.missed = n.missed /\ m.waited = n.waited
         /\ m.run = "running"
         /\ m.peers \subseteq n.peers \cup peers /\ m.fetch.peers = {}
<1>1. Idle \in Fetches /\ Idle.peers = {}
  BY DEF Idle, Fetches
<1>2. n.peers \in SUBSET Peers
  BY DEF Daemons
<1>3. ASSUME NEW table \in SUBSET Peers
      PROVE  LET m == Knowing(n, table) IN
             /\ m \in Daemons
             /\ m.token = n.token /\ m.missed = n.missed /\ m.waited = n.waited
             /\ m.run = "running" /\ m.peers = table /\ m.fetch.peers = {}
  BY <1>1 DEF Knowing, Daemons
<1>4. CASE peers = {} /\ n.run = "running"
  <2>1. AfterFetch(n, peers) = Knowing(n, n.peers)
    BY <1>4 DEF AfterFetch
  <2> QED BY <1>2, <1>3, <2>1
<1>5. CASE ~(peers = {} /\ n.run = "running")
  <2>1. AfterFetch(n, peers) = Knowing(n, peers)
    BY <1>5 DEF AfterFetch
  <2> QED BY <1>2, <1>3, <2>1
<1> QED BY <1>4, <1>5

\* A daemon given another place in its heartbeat loop is a daemon.
LEMMA LoopingIs ==
  ASSUME NEW n \in Daemons, NEW waited \in 0 .. Interval + Slack, NEW missed \in 0 .. Misses + 1
  PROVE  LET m == Looping(n, waited, missed) IN
         /\ m \in Daemons
         /\ m.token = n.token /\ m.run = n.run /\ m.peers = n.peers /\ m.fetch = n.fetch
         /\ m.waited = waited /\ m.missed = missed
BY DEF Looping, Daemons

\* A daemon whose heartbeat has ended keeps all but its loop's state.
LEMMA BeatEnds ==
  ASSUME NEW n \in Daemons, NEW recorded \in BOOLEAN
  PROVE  LET m == AfterBeat(n, recorded) IN
         /\ m \in Daemons
         /\ m.token = n.token /\ m.run = n.run
         /\ m.peers = n.peers /\ m.fetch = n.fetch
         /\ m.waited = 0
         /\ m.missed = IF recorded THEN 0
                       ELSE IF n.missed > Misses THEN n.missed ELSE n.missed + 1
<1>1. n.missed \in 0 .. Misses + 1 /\ Misses \in Nat /\ Interval \in Nat /\ Slack \in Nat
  BY MembershipAssumption DEF Daemons
<1>2. CASE recorded
  <2>1. AfterBeat(n, recorded) = Looping(n, 0, 0)
    BY <1>2 DEF AfterBeat
  <2>2. 0 \in 0 .. Interval + Slack /\ 0 \in 0 .. Misses + 1
    BY <1>1
  <2>3. /\ Looping(n, 0, 0) \in Daemons /\ Looping(n, 0, 0).missed = 0
        /\ Looping(n, 0, 0).token = n.token /\ Looping(n, 0, 0).run = n.run
        /\ Looping(n, 0, 0).peers = n.peers /\ Looping(n, 0, 0).fetch = n.fetch
        /\ Looping(n, 0, 0).waited = 0
    BY <2>2, LoopingIs
  <2> QED BY <1>2, <2>1, <2>3
<1>3. CASE ~recorded /\ n.missed > Misses
  <2>1. AfterBeat(n, recorded) = Looping(n, 0, n.missed)
    BY <1>3 DEF AfterBeat
  <2> QED BY <1>1, <1>3, <2>1, LoopingIs
<1>4. CASE ~recorded /\ ~(n.missed > Misses)
  <2>1. AfterBeat(n, recorded) = Looping(n, 0, n.missed + 1)
    BY <1>4 DEF AfterBeat
  <2> QED BY <1>1, <1>4, <2>1, LoopingIs
<1> QED BY <1>2, <1>3, <1>4

\* A daemon that is down, and one that starts, is a daemon that knows nothing
\* and has missed every heartbeat.
LEMMA DownIs ==
  ASSUME NEW runs \in Nat
  PROVE  /\ Down(runs) \in Daemons
         /\ Down(runs).token = 0 /\ Down(runs).missed = Misses + 1
         /\ Down(runs).peers = {} /\ Down(runs).fetch.peers = {}
<1>1. Idle \in Fetches /\ Idle.peers = {}
  BY DEF Idle, Fetches
<1> QED BY <1>1, MembershipAssumption DEF Down, Daemons

-----------------------------------------------------------------------------
(***************************************************************************)
(* The invariant                                                           *)
(***************************************************************************)
\* It holds at the start.
LEMMA InitInv == Init => Inv
<1> SUFFICES ASSUME Init PROVE Inv
  OBVIOUS
<1> USE DEF Init
<1>1. /\ endpoints \in Seq(Records)
      /\ DOMAIN endpoints = 1 .. Len(endpoints) /\ Len(endpoints) \in Nat
  BY MembershipAssumption, LenProperties
<1>2. \A k \in Keys : /\ node[k] \in Daemons
                      /\ node[k].token = 0 /\ node[k].missed = Misses + 1
                      /\ node[k].peers = {} /\ node[k].fetch.peers = {}
  BY DownIs
<1>3. TypeOK
  BY <1>1, <1>2, MembershipAssumption DEF TypeOK
<1>4. DisjointIps
  BY MembershipAssumption DEF DisjointIps
<1>5. DistinctTokens /\ TokensDrawn
  BY <1>1, <1>2, MembershipAssumption DEF DistinctTokens, TokensDrawn
<1>6. Known /\ Timely
  BY <1>2, MembershipAssumption DEF Known, Learned, Timely, Punctual
<1> QED BY <1>3, <1>4, <1>5, <1>6 DEF Inv

\* A step that only puts another daemon in the place of one preserves it, if the
\* new one's token is drawn, its entries are known or of records, and it is
\* punctual.
LEMMA DaemonStep ==
  ASSUME Inv, NEW k \in Keys, NEW m \in Daemons,
         node' = [node EXCEPT ![k] = m],
         UNCHANGED <<endpoints, heartbeats, drawn, file>>,
         late' \subseteq [id : Nat, endpoint : Addresses], events' \in Nat,
         m.token <= drawn,
         \A p \in m.peers \cup m.fetch.peers : p \in Learned(k) \/ OfRecord(p, endpoints),
         Punctual(m, AuthNode(m.token), heartbeats)
  PROVE  Inv'
<1> USE DEF Inv
<1>1. node \in [Keys -> Daemons] /\ node'[k] = m
      /\ \A j \in Keys : j # k => node'[j] = node[j]
  BY DEF TypeOK
<1>2. TypeOK'
  BY <1>1 DEF TypeOK
<1>3. DisjointIps' /\ DistinctTokens'
  BY DEF DisjointIps, DistinctTokens
<1>4. TokensDrawn'
  BY <1>1 DEF TokensDrawn
<1>5. Known'
  <2> SUFFICES ASSUME NEW j \in Keys, NEW p \in node'[j].peers \cup node'[j].fetch.peers
               PROVE  OfRecord(p, endpoints)
    BY DEF Known, Learned
  <2>1. CASE j = k
    BY <2>1, <1>1 DEF Known
  <2>2. CASE j # k
    BY <2>2, <1>1 DEF Known, Learned
  <2> QED BY <2>1, <2>2
<1>6. Timely'
  <2>1. \A t : AuthNode(t)' = {id \in DOMAIN endpoints : /\ id \in DOMAIN endpoints /\ endpoints[id].active
                                                        /\ t # 0 /\ endpoints[id].token = t}
    BY DEF AuthNode, Active
  <2>2. \A t : AuthNode(t)' = AuthNode(t)
    BY <2>1 DEF AuthNode, Active
  <2> SUFFICES ASSUME NEW j \in Keys
               PROVE  Punctual(node'[j], AuthNode(node'[j].token), heartbeats)
    BY <2>2 DEF Timely
  <2> QED BY <1>1 DEF Timely
<1> QED BY <1>2, <1>3, <1>4, <1>5, <1>6

\* An answer carries what records say, in the shape of a table.
LEMMA MapIsOfRecords ==
  ASSUME TypeOK, NEW self
  PROVE  /\ PeerMap(self) \in SUBSET Peers
         /\ \A p \in PeerMap(self) : OfRecord(p, endpoints)
<1> SUFFICES ASSUME NEW id \in Others(self)
             PROVE  PeerOf(id, Candidate(id)) \in Peers /\ OfRecord(PeerOf(id, Candidate(id)), endpoints)
  BY DEF PeerMap
<1>1. id \in DOMAIN endpoints /\ endpoints[id].ips # <<>>
  BY DEF Others
<1>2. /\ endpoints[id].key \in Keys /\ endpoints[id].ips \in Seq(Indices)
  BY <1>1, Element
<1>3. 1 \in DOMAIN endpoints[id].ips /\ endpoints[id].ips[1] \in Indices
  BY <1>1, <1>2, EmptySeq, LenProperties, ElementOfSeq
<1>4. Candidate(id) \in Addresses \cup {None}
  BY <1>2, MembershipAssumption DEF Candidate, Online, TypeOK
<1>5. /\ PeerOf(id, Candidate(id)) \in Peers
      /\ PeerOf(id, Candidate(id)).ip = endpoints[id].ips[1]
      /\ PeerOf(id, Candidate(id)).key = endpoints[id].key
  BY <1>2, <1>3, <1>4 DEF PeerOf, Peers
<1>6. endpoints[id].ips[1] \in OverlayIndices(endpoints[id])
  BY <1>3 DEF OverlayIndices
<1> QED BY <1>1, <1>5, <1>6 DEF OfRecord

-----------------------------------------------------------------------------
(***************************************************************************)
(* Every action keeps the invariant: daemons                               *)
(***************************************************************************)
\* What a daemon is.
LEMMA DaemonIs ==
  ASSUME TypeOK, NEW k \in Keys
  PROVE  /\ node[k] \in Daemons
         /\ node[k].runs \in Nat /\ node[k].token \in Nat
         /\ node[k].peers \in SUBSET Peers /\ node[k].fetch.peers \in SUBSET Peers
         /\ node[k].waited \in 0 .. Period /\ node[k].missed \in 0 .. Misses + 1
         /\ node[k].run \in {"down", "starting", "running"}
<1>1. node[k] \in Daemons
  BY DEF TypeOK
<1> QED BY <1>1 DEF Daemons, Fetches, Period

\* A daemon with the credential and the loop of the one it replaces is as punctual.
LEMMA SamePace ==
  ASSUME Inv, NEW k \in Keys, NEW m,
         m.token = node[k].token, m.waited = node[k].waited, m.missed = node[k].missed,
         node[k].run = "running" => m.run = "running"
  PROVE  m.token <= drawn /\ Punctual(m, AuthNode(m.token), heartbeats)
<1>1. Punctual(node[k], AuthNode(node[k].token), heartbeats)
  BY DEF Inv, Timely
<1> QED BY <1>1 DEF Inv, TokensDrawn, Punctual, YoungEnough

\* An event is counted.
LEMMA Counted ==
  ASSUME TypeOK, Event \/ UNCHANGED events
  PROVE  events' \in Nat
BY DEF TypeOK, Event

\* The fetches: an answer says what records say, and that or nothing is learned.
LEMMA FetchInv ==
  ASSUME Inv, NEW k \in Keys, Answer(k) \/ Refused(k) \/ Refresh(k) \/ FetchFails(k)
  PROVE  Inv'
<1>1. TypeOK /\ late \subseteq [id : Nat, endpoint : Addresses]
  BY DEF Inv, TypeOK
<1>2. CASE Answer(k)
  <2>1. PICK self \in AuthNode(node[k].token) :
          node' = [node EXCEPT ![k] = Answered(node[k], PeerMap(self))]
    BY <1>2 DEF Answer
  <2>2. PICK map : map = PeerMap(self)
    OBVIOUS
  <2>3. map \in SUBSET Peers /\ \A p \in map : OfRecord(p, endpoints)
    BY <1>1, <2>2, MapIsOfRecords
  <2>4. PICK m : m = Answered(node[k], map)
    OBVIOUS
  <2>5. [answered |-> TRUE, peers |-> map] \in Fetches
    BY <2>3 DEF Fetches
  <2>6. /\ m \in Daemons
        /\ m.token = node[k].token /\ m.missed = node[k].missed /\ m.waited = node[k].waited
        /\ m.run = node[k].run /\ m.peers = node[k].peers /\ m.fetch.peers = map
    BY <1>1, <2>4, <2>5, DaemonIs DEF Answered, Daemons
  <2>7. node' = [node EXCEPT ![k] = m]
    BY <2>1, <2>2, <2>4
  <2>8. UNCHANGED <<endpoints, heartbeats, drawn, late, file, events>>
    BY <1>2 DEF Answer
  <2>9. events' \in Nat /\ late' \subseteq [id : Nat, endpoint : Addresses]
    BY <1>1, <2>8, Counted
  <2>10. \A p \in m.peers \cup m.fetch.peers : p \in Learned(k) \/ OfRecord(p, endpoints)
    BY <2>3, <2>6 DEF Learned
  <2>11. m.token <= drawn /\ Punctual(m, AuthNode(m.token), heartbeats)
    BY <2>6, SamePace
  <2> QED BY <2>6, <2>7, <2>8, <2>9, <2>10, <2>11, DaemonStep
<1>3. CASE Refused(k) \/ Refresh(k) \/ FetchFails(k)
  <2>1. PICK peers \in SUBSET Peers :
          /\ node' = [node EXCEPT ![k] = AfterFetch(node[k], peers)]
          /\ peers \subseteq node[k].fetch.peers
    BY <1>1, <1>3, DaemonIs DEF Refused, Refresh, FetchFails
  <2>2. PICK m : m = AfterFetch(node[k], peers)
    OBVIOUS
  <2>3. /\ m \in Daemons
        /\ m.token = node[k].token /\ m.missed = node[k].missed /\ m.waited = node[k].waited
        /\ m.run = "running"
        /\ m.peers \subseteq node[k].peers \cup peers /\ m.fetch.peers = {}
    BY <1>1, <2>2, DaemonIs, FetchEnds
  <2>4. node' = [node EXCEPT ![k] = m]
    BY <2>1, <2>2
  <2>5. UNCHANGED <<endpoints, heartbeats, drawn, late, file>> /\ (Event \/ UNCHANGED events)
    BY <1>3 DEF Refused, Refresh, FetchFails
  <2>6. events' \in Nat /\ late' \subseteq [id : Nat, endpoint : Addresses]
    BY <1>1, <2>5, Counted
  <2>7. \A p \in m.peers \cup m.fetch.peers : p \in Learned(k) \/ OfRecord(p, endpoints)
    BY <2>1, <2>3 DEF Learned
  <2>8. m.token <= drawn /\ Punctual(m, AuthNode(m.token), heartbeats)
    BY <2>3, SamePace
  <2> QED BY <2>3, <2>4, <2>5, <2>6, <2>7, <2>8, DaemonStep
<1> QED BY <1>2, <1>3

\* The period passes once more.
LEMMA OneMore ==
  ASSUME NEW i \in Nat
  PROVE  /\ Period \in Nat /\ i * Period \in Nat
         /\ (i + 1) * Period = i * Period + Period
<1>1. Period \in Nat
  BY MembershipAssumption DEF Period
<1>2. \A p \in Nat : i * p \in Nat /\ (i + 1) * p = i * p + p
  OBVIOUS
<1> QED BY <1>1, <1>2

\* A heartbeat that is not recorded is one more period that its age may have.
LEMMA BeatMissedInv ==
  ASSUME Inv, NEW k \in Keys, BeatRefused(k) \/ BeatLost(k)
  PROVE  Inv'
<1>1. TypeOK /\ late \subseteq [id : Nat, endpoint : Addresses]
  BY DEF Inv, TypeOK
<1>2. PICK m : m = AfterBeat(node[k], FALSE)
  OBVIOUS
<1>3. /\ node' = [node EXCEPT ![k] = m]
      /\ UNCHANGED <<endpoints, heartbeats, drawn, late, file>> /\ (Event \/ UNCHANGED events)
  BY <1>2 DEF BeatRefused, BeatLost
<1>4. /\ m \in Daemons /\ m.token = node[k].token /\ m.run = node[k].run
      /\ m.peers = node[k].peers /\ m.fetch = node[k].fetch /\ m.waited = 0
      /\ m.missed = IF node[k].missed > Misses THEN node[k].missed ELSE node[k].missed + 1
  BY <1>1, <1>2, DaemonIs, BeatEnds
<1>5. events' \in Nat /\ late' \subseteq [id : Nat, endpoint : Addresses]
  BY <1>1, <1>3, Counted
<1>6. \A p \in m.peers \cup m.fetch.peers : p \in Learned(k)
  BY <1>4 DEF Learned
<1>7. m.token <= drawn
  BY <1>4 DEF Inv, TokensDrawn
<1>8. Punctual(m, AuthNode(m.token), heartbeats)
  <2> SUFFICES ASSUME m.missed <= Misses
               PROVE  m.run = "running" /\ \A id \in AuthNode(m.token) : YoungEnough(m, id, heartbeats)
    BY DEF Punctual
  <2>1. /\ node[k].missed \in Nat /\ node[k].missed <= Misses
        /\ m.missed = node[k].missed + 1 /\ node[k].waited \in 0 .. Period
    BY <1>1, <1>4, DaemonIs, MembershipAssumption
  <2>2. /\ node[k].run = "running"
        /\ \A id \in AuthNode(node[k].token) : YoungEnough(node[k], id, heartbeats)
    BY <2>1 DEF Inv, Timely, Punctual
  <2>3. ASSUME NEW id \in AuthNode(m.token) PROVE YoungEnough(m, id, heartbeats)
    <3>1. /\ id \in DOMAIN heartbeats
          /\ heartbeats[id].age <= node[k].waited + node[k].missed * Period
      BY <1>4, <2>2, <2>3 DEF YoungEnough
    <3>2. heartbeats[id].age \in Nat
      BY <1>1, <3>1, MembershipAssumption DEF TypeOK
    <3>3. /\ Period \in Nat /\ node[k].missed * Period \in Nat
          /\ m.missed * Period = node[k].missed * Period + Period
      BY <2>1, OneMore
    <3>4. heartbeats[id].age <= 0 + m.missed * Period
      BY <2>1, <3>1, <3>2, <3>3
    <3> QED BY <1>4, <3>1, <3>4 DEF YoungEnough
  <2> QED BY <1>4, <2>2, <2>3
<1> QED BY <1>3, <1>4, <1>5, <1>6, <1>7, <1>8, DaemonStep

\* A daemon starts with the token of the file, and ends with none.
LEMMA StartStopInv ==
  ASSUME Inv, NEW k \in Keys, Start(k) \/ Stop(k)
  PROVE  Inv'
<1>1. /\ TypeOK /\ late \subseteq [id : Nat, endpoint : Addresses]
      /\ file[k] \in Nat /\ file[k] <= drawn /\ drawn \in Nat
      /\ node[k].runs \in Nat /\ node[k].runs + 1 \in Nat
  <2>1. TypeOK
    BY DEF Inv
  <2> QED BY <2>1, DaemonIs DEF Inv, TypeOK, TokensDrawn
<1>2. Idle \in Fetches /\ Idle.peers = {}
  BY DEF Idle, Fetches
<1>3. PICK m \in Daemons :
        /\ node' = [node EXCEPT ![k] = m]
        /\ m.token <= drawn /\ m.missed = Misses + 1 /\ m.peers = {} /\ m.fetch.peers = {}
  <2>1. CASE Start(k)
    <3>1. PICK m : m = Starting(node[k].runs + 1, file[k])
      OBVIOUS
    <3>2. Interval \in 0 .. Interval + Slack /\ Misses + 1 \in 0 .. Misses + 1
      BY MembershipAssumption
    <3>3. /\ m \in Daemons /\ m.token = file[k] /\ m.missed = Misses + 1
          /\ m.peers = {} /\ m.fetch = Idle
      BY <1>1, <1>2, <3>1, <3>2 DEF Starting, Daemons
    <3>4. node' = [node EXCEPT ![k] = m]
      BY <2>1, <3>1 DEF Start
    <3>5. m.token <= drawn /\ m.fetch.peers = {}
      BY <1>1, <1>2, <3>3
    <3> QED BY <3>3, <3>4, <3>5
  <2>2. CASE Stop(k)
    <3>1. node' = [node EXCEPT ![k] = Down(node[k].runs)]
      BY <2>2 DEF Stop
    <3>2. PICK m : m = Down(node[k].runs)
      OBVIOUS
    <3>3. /\ m \in Daemons /\ m.token = 0 /\ m.missed = Misses + 1
          /\ m.peers = {} /\ m.fetch.peers = {}
      BY <1>1, <3>2, DownIs
    <3>4. node' = [node EXCEPT ![k] = m] /\ m.token <= drawn
      BY <1>1, <3>1, <3>2, <3>3
    <3> QED BY <3>3, <3>4
  <2> QED BY <2>1, <2>2
<1>4. UNCHANGED <<endpoints, heartbeats, drawn, file>> /\ (Event \/ UNCHANGED events)
  BY DEF Start, Stop
<1>5. late' \subseteq [id : Nat, endpoint : Addresses]
  <2>1. Here(k) \in Addresses
    BY <1>1 DEF Here, Addresses
  <2>2. AuthNode(node[k].token) \subseteq Nat
    BY <1>1, Element DEF AuthNode
  <2>3. {[id |-> id, endpoint |-> Here(k)] : id \in AuthNode(node[k].token)}
          \subseteq [id : Nat, endpoint : Addresses]
    BY <2>1, <2>2
  <2> QED BY <1>1, <2>3 DEF Start, Stop
<1>6. events' \in Nat
  BY <1>1, <1>4, Counted
<1>7. Punctual(m, AuthNode(m.token), heartbeats)
  BY <1>3, MembershipAssumption DEF Punctual
<1> QED BY <1>3, <1>4, <1>5, <1>6, <1>7, DaemonStep

-----------------------------------------------------------------------------
(***************************************************************************)
(* Heartbeats and time                                                     *)
(***************************************************************************)
\* A step that leaves the registry, the token files and what daemons know as
\* they are preserves the invariant, if every daemon is as punctual after it.
LEMMA BeatStep ==
  ASSUME Inv, UNCHANGED <<endpoints, drawn, file>>,
         node' \in [Keys -> Daemons],
         \A k \in Keys : /\ node'[k].token = node[k].token /\ node'[k].peers = node[k].peers
                          /\ node'[k].fetch = node[k].fetch,
         \A k \in Keys : Punctual(node'[k], AuthNode(node[k].token), heartbeats'),
         DOMAIN heartbeats' \subseteq DOMAIN endpoints,
         \A id \in DOMAIN heartbeats' :
           heartbeats'[id] \in [endpoint : Addresses, age : 0 .. TTL + 1],
         late' \subseteq [id : Nat, endpoint : Addresses], events' \in Nat
  PROVE  Inv'
<1>1. TypeOK'
  BY DEF Inv, TypeOK
<1>2. DisjointIps' /\ DistinctTokens'
  BY DEF Inv, DisjointIps, DistinctTokens
<1>3. TokensDrawn'
  BY DEF Inv, TokensDrawn
<1>4. Known'
  BY DEF Inv, Known, Learned
<1>5. Timely'
  <2>1. \A t : AuthNode(t)' = {id \in DOMAIN endpoints : /\ id \in DOMAIN endpoints /\ endpoints[id].active
                                                        /\ t # 0 /\ endpoints[id].token = t}
    BY DEF AuthNode, Active
  <2>2. \A t : AuthNode(t)' = AuthNode(t)
    BY <2>1 DEF AuthNode, Active
  <2> QED BY <2>2 DEF Timely
<1> QED BY <1>1, <1>2, <1>3, <1>4, <1>5 DEF Inv

\* Hearing of a record makes no heartbeat older.
LEMMA HeardIs ==
  ASSUME TypeOK, NEW id \in DOMAIN endpoints, NEW endpoint \in Addresses,
         NEW beats, beats = Heard(id, endpoint)
  PROVE  /\ DOMAIN beats = DOMAIN heartbeats \cup {id}
         /\ DOMAIN beats \subseteq DOMAIN endpoints
         /\ \A i \in DOMAIN beats : beats[i] \in [endpoint : Addresses, age : 0 .. TTL + 1]
         /\ beats[id].age = 0
         /\ \A i \in DOMAIN heartbeats \ {id} : beats[i] = heartbeats[i]
<1>1. [endpoint |-> endpoint, age |-> 0] \in [endpoint : Addresses, age : 0 .. TTL + 1]
  BY MembershipAssumption
<1> QED BY <1>1 DEF Heard, TypeOK

\* Zero is no age that a loop can be late for.
LEMMA NeverLate ==
  ASSUME NEW n \in Daemons
  PROVE  0 <= n.waited + n.missed * Period
<1>1. n.missed \in Nat /\ n.waited \in Nat
  BY MembershipAssumption DEF Daemons
<1>2. n.missed * Period \in Nat
  BY <1>1, OneMore
<1> QED BY <1>1, <1>2

\* Hearing of a record leaves a daemon punctual.
LEMMA StillPunctual ==
  ASSUME TypeOK, NEW id \in DOMAIN endpoints, NEW endpoint \in Addresses,
         NEW n \in Daemons, NEW ids, Punctual(n, ids, heartbeats)
  PROVE  Punctual(n, ids, Heard(id, endpoint))
<1>1. PICK beats : beats = Heard(id, endpoint)
  OBVIOUS
<1>2. /\ DOMAIN beats = DOMAIN heartbeats \cup {id} /\ beats[id].age = 0
      /\ \A i \in DOMAIN heartbeats \ {id} : beats[i] = heartbeats[i]
  BY <1>1 DEF Heard
<1>3. 0 <= n.waited + n.missed * Period
  BY NeverLate
<1>4. \A i \in ids : YoungEnough(n, i, heartbeats) => YoungEnough(n, i, beats)
  BY <1>2, <1>3 DEF YoungEnough
<1> QED BY <1>1, <1>4 DEF Punctual

\* A heartbeat that is recorded is of the one record with that token.
LEMMA BeatInv ==
  ASSUME Inv, NEW k \in Keys, Beat(k)
  PROVE  Inv'
<1>1. TypeOK /\ late \subseteq [id : Nat, endpoint : Addresses] /\ node \in [Keys -> Daemons]
  BY DEF Inv, TypeOK
<1>2. PICK id \in AuthNode(node[k].token) : heartbeats' = Heard(id, Here(k))
  BY DEF Beat
<1>3. /\ node' = [node EXCEPT ![k] = AfterBeat(node[k], TRUE)]
      /\ node[k].run = "running"
      /\ UNCHANGED <<endpoints, drawn, late, file, events>>
  BY DEF Beat, BeatDue, Running
<1>4. PICK m : m = AfterBeat(node[k], TRUE)
  OBVIOUS
<1>5. /\ m \in Daemons /\ m.token = node[k].token /\ m.run = node[k].run
      /\ m.peers = node[k].peers /\ m.fetch = node[k].fetch /\ m.waited = 0
      /\ m.missed = 0
  BY <1>1, <1>4, BeatEnds
<1>6. /\ node' \in [Keys -> Daemons] /\ node'[k] = m
      /\ \A j \in Keys : j # k => node'[j] = node[j]
  BY <1>1, <1>3, <1>4, <1>5
<1>7. id \in DOMAIN endpoints /\ Here(k) \in Addresses
  BY <1>1, DaemonIs DEF AuthNode, Here, Addresses
<1>8. /\ DOMAIN heartbeats' = DOMAIN heartbeats \cup {id}
      /\ DOMAIN heartbeats' \subseteq DOMAIN endpoints
      /\ \A i \in DOMAIN heartbeats' : heartbeats'[i] \in [endpoint : Addresses, age : 0 .. TTL + 1]
      /\ heartbeats'[id].age = 0
  BY <1>1, <1>2, <1>7, HeardIs
<1>9. ASSUME NEW j \in Keys PROVE Punctual(node'[j], AuthNode(node[j].token), heartbeats')
  <2>1. CASE j = k
    <3>1. AuthNode(node[k].token) = {id}
      BY <1>2 DEF AuthNode, Inv, DistinctTokens
    <3>2. YoungEnough(m, id, heartbeats')
      BY <1>5, <1>8, NeverLate DEF YoungEnough
    <3> QED BY <1>3, <1>5, <1>6, <2>1, <3>1, <3>2 DEF Punctual
  <2>2. CASE j # k
    <3>1. Punctual(node[j], AuthNode(node[j].token), heartbeats) /\ node[j] \in Daemons
      BY <1>1 DEF Inv, Timely
    <3>2. Punctual(node[j], AuthNode(node[j].token), Heard(id, Here(k)))
      BY <1>1, <1>7, <3>1, StillPunctual
    <3> QED BY <1>2, <1>6, <2>2, <3>2
  <2> QED BY <2>1, <2>2
<1>10. \A j \in Keys : /\ node'[j].token = node[j].token /\ node'[j].peers = node[j].peers
                        /\ node'[j].fetch = node[j].fetch
  BY <1>5, <1>6
<1>11. events' \in Nat
  BY <1>1, <1>3 DEF TypeOK
<1> QED BY <1>1, <1>3, <1>6, <1>8, <1>9, <1>10, <1>11, BeatStep

\* So is one that arrives after its daemon.
LEMMA LateBeatInv ==
  ASSUME Inv, NEW p \in late, LateBeat(p)
  PROVE  Inv'
<1>1. /\ TypeOK /\ late \subseteq [id : Nat, endpoint : Addresses] /\ node \in [Keys -> Daemons]
      /\ events \in Nat
  BY DEF Inv, TypeOK
<1>2. /\ late' = late \ {p}
      /\ heartbeats' = IF Active(p.id) THEN Heard(p.id, p.endpoint) ELSE heartbeats
      /\ UNCHANGED <<endpoints, drawn, file, node, events>>
  BY DEF LateBeat
<1>3. /\ p.endpoint \in Addresses
      /\ \A k \in Keys : Punctual(node[k], AuthNode(node[k].token), heartbeats)
  BY <1>1 DEF Inv, Timely
<1>4. /\ DOMAIN heartbeats' \subseteq DOMAIN endpoints
      /\ \A i \in DOMAIN heartbeats' : heartbeats'[i] \in [endpoint : Addresses, age : 0 .. TTL + 1]
      /\ \A k \in Keys : Punctual(node[k], AuthNode(node[k].token), heartbeats')
  <2>1. CASE Active(p.id)
    <3>1. p.id \in DOMAIN endpoints /\ heartbeats' = Heard(p.id, p.endpoint)
      BY <1>2, <2>1 DEF Active
    <3>2. \A k \in Keys : Punctual(node[k], AuthNode(node[k].token), Heard(p.id, p.endpoint))
      BY <1>1, <1>3, <3>1, StillPunctual
    <3>3. /\ DOMAIN heartbeats' \subseteq DOMAIN endpoints
          /\ \A i \in DOMAIN heartbeats' : heartbeats'[i] \in [endpoint : Addresses, age : 0 .. TTL + 1]
      BY <1>1, <1>3, <3>1, HeardIs
    <3> QED BY <3>1, <3>2, <3>3
  <2>2. CASE ~Active(p.id)
    BY <1>1, <1>2, <1>3, <2>2 DEF TypeOK
  <2> QED BY <2>1, <2>2
<1>5. late' \subseteq [id : Nat, endpoint : Addresses]
  BY <1>1, <1>2
<1> QED BY <1>1, <1>2, <1>4, <1>5, BeatStep

\* After a restart of the control plane every node has every heartbeat to send.
LEMMA ControlRestartInv ==
  ASSUME Inv, ControlRestart
  PROVE  Inv'
<1>1. TypeOK /\ node \in [Keys -> Daemons]
  BY DEF Inv, TypeOK
<1>2. /\ heartbeats' = <<>> /\ late' = {} /\ Event
      /\ node' = [k \in Keys |-> Looping(node[k], node[k].waited, Misses + 1)]
      /\ UNCHANGED <<endpoints, drawn, file>>
  BY DEF ControlRestart
<1>3. ASSUME NEW k \in Keys
      PROVE  /\ node'[k] \in Daemons /\ node'[k].missed = Misses + 1
             /\ node'[k].token = node[k].token /\ node'[k].peers = node[k].peers
             /\ node'[k].fetch = node[k].fetch
  <2>1. /\ node[k].waited \in 0 .. Interval + Slack /\ Misses + 1 \in 0 .. Misses + 1
        /\ node[k] \in Daemons
    BY <1>1, DaemonIs, MembershipAssumption DEF Period
  <2>2. node'[k] = Looping(node[k], node[k].waited, Misses + 1)
    BY <1>2
  <2> QED BY <2>1, <2>2, LoopingIs
<1>4. \A k \in Keys : Punctual(node'[k], AuthNode(node[k].token), heartbeats')
  BY <1>3, MembershipAssumption DEF Punctual
<1>5. node' \in [Keys -> Daemons]
  BY <1>2, <1>3
<1>6. events' \in Nat
  BY <1>1, <1>2, Counted
<1>7. DOMAIN heartbeats' = {}
  BY <1>2
<1> QED BY <1>2, <1>3, <1>4, <1>5, <1>6, <1>7, BeatStep

\* When a heartbeat grows older, its loop has waited longer.
LEMMA TickInv ==
  ASSUME Inv, Tick
  PROVE  Inv'
<1>1. TypeOK /\ node \in [Keys -> Daemons] /\ late \subseteq [id : Nat, endpoint : Addresses]
  BY DEF Inv, TypeOK
<1>2. /\ \A k \in Keys : Beats(k) => node[k].waited < Interval + Slack
      /\ node' = [k \in Keys |-> IF Beats(k) THEN Looping(node[k], node[k].waited + 1, node[k].missed)
                                 ELSE node[k]]
      /\ heartbeats' = [id \in DOMAIN heartbeats |->
           [endpoint |-> heartbeats[id].endpoint, age |-> Older(heartbeats[id].age)]]
      /\ UNCHANGED <<endpoints, drawn, late, file, events>>
  BY DEF Tick
<1>3. ASSUME NEW id \in DOMAIN heartbeats
      PROVE  /\ heartbeats[id].age \in Nat /\ heartbeats'[id].age \in Nat
             /\ heartbeats'[id].age <= heartbeats[id].age + 1
             /\ heartbeats'[id] \in [endpoint : Addresses, age : 0 .. TTL + 1]
  <2>1. /\ heartbeats[id].age \in 0 .. TTL + 1 /\ heartbeats[id].endpoint \in Addresses
        /\ TTL \in Nat
    BY <1>1, MembershipAssumption DEF TypeOK
  <2>2. heartbeats'[id] = [endpoint |-> heartbeats[id].endpoint, age |-> Older(heartbeats[id].age)]
    BY <1>2
  <2>3. /\ Older(heartbeats[id].age) \in 0 .. TTL + 1
        /\ Older(heartbeats[id].age) <= heartbeats[id].age + 1
    BY <2>1 DEF Older, IsOnline
  <2> QED BY <2>1, <2>2, <2>3
<1>4. ASSUME NEW k \in Keys
      PROVE  /\ node'[k] \in Daemons /\ node'[k].missed = node[k].missed
             /\ node'[k].token = node[k].token /\ node'[k].peers = node[k].peers
             /\ node'[k].fetch = node[k].fetch /\ node'[k].run = node[k].run
             /\ Beats(k) => node'[k].waited = node[k].waited + 1
  <2>1. /\ node[k].waited \in 0 .. Interval + Slack /\ node[k].missed \in 0 .. Misses + 1
        /\ node[k] \in Daemons /\ Interval + Slack \in Nat
    BY <1>1, DaemonIs, MembershipAssumption DEF Period
  <2>2. CASE Beats(k)
    <3>1. PICK waited \in 0 .. Interval + Slack : waited = node[k].waited + 1
      BY <1>2, <2>1, <2>2
    <3>2. node'[k] = Looping(node[k], waited, node[k].missed)
      BY <1>2, <2>2, <3>1
    <3> QED BY <2>1, <3>1, <3>2, LoopingIs
  <2>3. CASE ~Beats(k)
    BY <1>2, <2>1, <2>3
  <2> QED BY <2>2, <2>3
<1>5. ASSUME NEW k \in Keys PROVE Punctual(node'[k], AuthNode(node[k].token), heartbeats')
  <2> SUFFICES ASSUME node'[k].missed <= Misses, NEW id \in AuthNode(node[k].token)
               PROVE  node'[k].run = "running" /\ YoungEnough(node'[k], id, heartbeats')
    <3>1. Punctual(node[k], AuthNode(node[k].token), heartbeats)
      BY DEF Inv, Timely
    <3> QED BY <1>4, <3>1 DEF Punctual
  <2>1. node[k].run = "running" /\ YoungEnough(node[k], id, heartbeats)
    BY <1>4 DEF Inv, Timely, Punctual
  <2>2. Beats(k)
    BY <2>1 DEF Beats, Running, AuthNode
  <2>3. /\ id \in DOMAIN heartbeats /\ id \in DOMAIN heartbeats'
        /\ heartbeats[id].age <= node[k].waited + node[k].missed * Period
    BY <1>2, <2>1 DEF YoungEnough
  <2>4. /\ node[k].missed \in Nat /\ node[k].waited \in Nat /\ node[k].missed * Period \in Nat
        /\ heartbeats'[id].age \in Nat /\ heartbeats[id].age \in Nat
        /\ heartbeats'[id].age <= heartbeats[id].age + 1
    <3>1. node[k].missed \in Nat /\ node[k].waited \in Nat
      BY <1>1, DaemonIs, MembershipAssumption
    <3>2. node[k].missed * Period \in Nat
      BY <3>1, OneMore
    <3> QED BY <1>3, <2>3, <3>1, <3>2
  <2>5. heartbeats'[id].age <= (node[k].waited + 1) + node[k].missed * Period
    BY <2>3, <2>4
  <2> QED BY <1>4, <2>1, <2>2, <2>3, <2>5 DEF YoungEnough
<1>6. node' \in [Keys -> Daemons]
  BY <1>2, <1>4
<1>7. DOMAIN heartbeats' = DOMAIN heartbeats /\ DOMAIN heartbeats \subseteq DOMAIN endpoints
  BY <1>1, <1>2 DEF TypeOK
<1>8. events' \in Nat /\ late' \subseteq [id : Nat, endpoint : Addresses]
  BY <1>1, <1>2 DEF TypeOK
<1> QED BY <1>2, <1>3, <1>4, <1>5, <1>6, <1>7, <1>8, BeatStep

-----------------------------------------------------------------------------
(***************************************************************************)
(* The registry                                                            *)
(***************************************************************************)
\* A step of an owner preserves the invariant if records keep their keys and
\* addresses, stay disjoint and distinct, no old token gets a record, and
\* heartbeats are lost of records only that no old token has.
LEMMA OwnerStep ==
  ASSUME Inv, UNCHANGED <<late, node>>, Event \/ UNCHANGED events,
         endpoints' \in Seq(Records), DOMAIN endpoints \subseteq DOMAIN endpoints',
         \A i \in DOMAIN endpoints : /\ endpoints'[i].key = endpoints[i].key
                                    /\ OverlayIndices(endpoints'[i]) = OverlayIndices(endpoints[i]),
         DisjointIps', DistinctTokens',
         drawn' \in Nat, drawn <= drawn', file' \in [Keys -> Nat],
         \A i \in DOMAIN endpoints' : endpoints'[i].token <= drawn',
         \A k \in Keys : file'[k] <= drawn',
         DOMAIN heartbeats' \subseteq DOMAIN heartbeats,
         \A i \in DOMAIN heartbeats' : heartbeats'[i] = heartbeats[i],
         \A i \in DOMAIN endpoints' :
           endpoints'[i].active /\ endpoints'[i].token <= drawn =>
             /\ i \in DOMAIN endpoints /\ endpoints[i].active
             /\ endpoints[i].token = endpoints'[i].token
             /\ i \in DOMAIN heartbeats => i \in DOMAIN heartbeats'
  PROVE  Inv'
<1>1. TypeOK
  BY DEF Inv
<1>2. TypeOK'
  <2>1. events' \in Nat
    BY <1>1, Counted
  <2> QED BY <1>1, <2>1 DEF TypeOK
<1>3. TokensDrawn'
  <2>1. \A k \in Keys : node[k].token \in Nat /\ node[k].token <= drawn /\ drawn \in Nat
    BY <1>1, DaemonIs DEF Inv, TokensDrawn, TypeOK
  <2>2. \A k \in Keys : node[k].token <= drawn'
    BY <2>1
  <2> QED BY <2>2 DEF TokensDrawn
<1>4. Known'
  <2> SUFFICES ASSUME NEW k \in Keys, NEW p \in Learned(k) PROVE OfRecord(p, endpoints')
    BY DEF Known, Learned
  <2>1. PICK id \in DOMAIN endpoints : p.ip \in OverlayIndices(endpoints[id]) /\ p.key = endpoints[id].key
    BY DEF Inv, Known, OfRecord
  <2>2. /\ id \in DOMAIN endpoints' /\ p.ip \in OverlayIndices(endpoints'[id])
        /\ p.key = endpoints'[id].key
    BY <2>1
  <2> QED BY <2>2 DEF OfRecord
<1>5. Timely'
  <2> SUFFICES ASSUME NEW k \in Keys, node[k].missed <= Misses
               PROVE  /\ node[k].run = "running"
                      /\ \A id \in AuthNode(node[k].token)' : YoungEnough(node[k], id, heartbeats')
    BY DEF Timely, Punctual
  <2>1. /\ node[k].run = "running"
        /\ \A id \in AuthNode(node[k].token) : YoungEnough(node[k], id, heartbeats)
    BY DEF Inv, Timely, Punctual
  <2>2. node[k].token <= drawn
    BY DEF Inv, TokensDrawn
  <2>3. ASSUME NEW id \in AuthNode(node[k].token)' PROVE YoungEnough(node[k], id, heartbeats')
    <3>1. /\ id \in DOMAIN endpoints' /\ endpoints'[id].active
          /\ node[k].token # 0 /\ endpoints'[id].token = node[k].token
      BY <2>3 DEF AuthNode, Active
    <3>2. id \in AuthNode(node[k].token) /\ (id \in DOMAIN heartbeats => id \in DOMAIN heartbeats')
      BY <2>2, <3>1 DEF AuthNode, Active
    <3> QED BY <2>1, <3>2 DEF YoungEnough
  <2> QED BY <2>1, <2>3
<1> QED BY <1>2, <1>3, <1>4, <1>5 DEF Inv

\* The numbers of the registry.
LEMMA Numbers ==
  ASSUME Inv
  PROVE  /\ TypeOK /\ drawn \in Nat /\ drawn + 1 \in Nat /\ endpoints \in Seq(Records)
         /\ \A i \in DOMAIN endpoints : endpoints[i].token \in Nat /\ endpoints[i].token <= drawn
         /\ \A k \in Keys : file[k] \in Nat /\ file[k] <= drawn
         /\ file \in [Keys -> Nat]
<1>1. TypeOK
  BY DEF Inv
<1>2. \A i \in DOMAIN endpoints : endpoints[i].token \in Nat /\ endpoints[i].token <= drawn
  BY <1>1, Element DEF Inv, TokensDrawn
<1> QED BY <1>1, <1>2 DEF Inv, TypeOK, TokensDrawn

\* An index that the allocator returns is of no record.
LEMMA ChosenIsFree ==
  ASSUME NEW supplied, NEW index \in ChooseForEnrollment(supplied, UsedIndices(endpoints)),
         index # None
  PROVE  /\ index \in Indices
         /\ \A i \in DOMAIN endpoints : index \notin OverlayIndices(endpoints[i])
BY IpamAssumption DEF ChooseForEnrollment, Allocate, LowestFree, UsedIndices, Pool, FIRST_NODE_INDEX, Indices

\* Enrolment appends a record whose address and token nobody had.
LEMMA EnrollInv ==
  ASSUME Inv, NEW k \in Keys, Enroll(k)
  PROVE  Inv'
<1>1. PICK supplied, index :
        /\ index \in ChooseForEnrollment(supplied, UsedIndices(endpoints))
        /\ endpoints' = Append(endpoints, [key |-> k, ips |-> Cidrs(index),
                                          active |-> TRUE, token |-> drawn + 1])
  BY DEF Enroll
<1>2. /\ UNCHANGED <<late, node, file, heartbeats>> /\ Event /\ drawn' = drawn + 1
  BY DEF Enroll
<1>3. PICK rec : rec = [key |-> k, ips |-> Cidrs(index), active |-> TRUE, token |-> drawn + 1]
  OBVIOUS
<1>4. /\ Cidrs(index) \in Seq(Indices)
      /\ \A i \in DOMAIN Cidrs(index), j \in DOMAIN endpoints :
           Cidrs(index)[i] \notin OverlayIndices(endpoints[j])
  <2>1. CASE index = None
    BY <2>1 DEF Cidrs
  <2>2. CASE index # None
    <3>1. /\ index \in Indices /\ Cidrs(index) = <<index>>
          /\ \A j \in DOMAIN endpoints : index \notin OverlayIndices(endpoints[j])
      <4>1. Cidrs(index) = <<index>>
        BY <2>2 DEF Cidrs
      <4> QED BY <1>1, <2>2, <4>1, ChosenIsFree
    <3>2. <<index>> \in Seq(Indices) /\ \A i \in DOMAIN <<index>> : <<index>>[i] = index
      BY <3>1
    <3> QED BY <3>1, <3>2
  <2> QED BY <2>1, <2>2
<1>5. /\ rec \in Records /\ rec.token = drawn + 1
      /\ \A j \in DOMAIN endpoints : OverlayIndices(rec) \cap OverlayIndices(endpoints[j]) = {}
  <2>1. rec \in Records /\ rec.token = drawn + 1 /\ rec.ips = Cidrs(index)
    BY <1>3, <1>4, Numbers DEF Records
  <2> QED BY <1>4, <2>1 DEF OverlayIndices
<1>6. PICK n : n = Len(endpoints) + 1
  OBVIOUS
<1>7. /\ endpoints' \in Seq(Records)
      /\ DOMAIN endpoints' = DOMAIN endpoints \cup {n} /\ n \notin DOMAIN endpoints
      /\ \A i \in DOMAIN endpoints : endpoints'[i] = endpoints[i]
      /\ endpoints'[n] = rec
  <2>1. endpoints \in Seq(Records) /\ endpoints' = Append(endpoints, rec)
    BY <1>1, <1>3, Numbers
  <2>2. /\ endpoints' \in Seq(Records) /\ Len(endpoints') = Len(endpoints) + 1
        /\ \A i \in 1 .. Len(endpoints) : endpoints'[i] = endpoints[i]
        /\ endpoints'[Len(endpoints) + 1] = rec
    BY <1>5, <2>1, AppendProperties
  <2>3. /\ DOMAIN endpoints = 1 .. Len(endpoints) /\ Len(endpoints) \in Nat
        /\ DOMAIN endpoints' = 1 .. Len(endpoints) + 1
    BY <2>1, <2>2, LenProperties
  <2> QED BY <1>6, <2>2, <2>3
<1>8. DisjointIps'
  BY <1>5, <1>7 DEF Inv, DisjointIps
<1>9. DistinctTokens'
  BY <1>5, <1>7, Numbers DEF Inv, DistinctTokens
<1>10. /\ drawn' \in Nat /\ drawn <= drawn' /\ file' \in [Keys -> Nat]
       /\ \A j \in Keys : file'[j] <= drawn'
       /\ \A i \in DOMAIN endpoints' : endpoints'[i].token <= drawn'
  BY <1>2, <1>5, <1>7, Numbers
<1>11. \A i \in DOMAIN endpoints' : endpoints'[i].token <= drawn => i \in DOMAIN endpoints
  BY <1>5, <1>7, Numbers
<1> QED BY <1>2, <1>7, <1>8, <1>9, <1>10, <1>11, OwnerStep

\* A record with another state or token in its place in the registry.
LEMMA Updated ==
  ASSUME TypeOK, NEW id \in DOMAIN endpoints
  PROVE  /\ LET new == [endpoints EXCEPT ![id].active = FALSE]
            IN /\ new \in Seq(Records) /\ DOMAIN new = DOMAIN endpoints
               /\ \A i \in DOMAIN endpoints \ {id} : new[i] = endpoints[i]
               /\ new[id] = [endpoints[id] EXCEPT !.active = FALSE]
         /\ \A token \in Nat :
              LET new == [endpoints EXCEPT ![id].token = token]
              IN /\ new \in Seq(Records) /\ DOMAIN new = DOMAIN endpoints
                 /\ \A i \in DOMAIN endpoints \ {id} : new[i] = endpoints[i]
                 /\ new[id] = [endpoints[id] EXCEPT !.token = token]
<1>1. endpoints[id] \in Records /\ endpoints \in Seq(Records)
  BY Element DEF TypeOK
<1>2. ASSUME NEW rec \in Records
      PROVE  /\ [endpoints EXCEPT ![id] = rec] \in Seq(Records)
             /\ DOMAIN [endpoints EXCEPT ![id] = rec] = DOMAIN endpoints
             /\ \A i \in DOMAIN endpoints \ {id} : [endpoints EXCEPT ![id] = rec][i] = endpoints[i]
             /\ [endpoints EXCEPT ![id] = rec][id] = rec
  BY <1>1, ExceptSeq, LenProperties
<1>3. [endpoints[id] EXCEPT !.active = FALSE] \in Records
  BY <1>1 DEF Records
<1>4. \A token \in Nat : [endpoints[id] EXCEPT !.token = token] \in Records
  BY <1>1 DEF Records
<1> QED BY <1>2, <1>3, <1>4

\* A revoked record has no token that anybody is known by, and no heartbeat.
LEMMA DeleteInv ==
  ASSUME Inv, NEW id \in DOMAIN endpoints, DeleteEndpoint(id)
  PROVE  Inv'
<1>1. /\ endpoints' = [endpoints EXCEPT ![id].active = FALSE]
      /\ heartbeats' = [i \in DOMAIN heartbeats \ {id} |-> heartbeats[i]]
      /\ Event /\ UNCHANGED <<drawn, late, file, node>>
  BY DEF DeleteEndpoint
<1>2. PICK new : new = [endpoints EXCEPT ![id].active = FALSE]
  OBVIOUS
<1>3. /\ new \in Seq(Records) /\ DOMAIN new = DOMAIN endpoints
      /\ \A i \in DOMAIN endpoints \ {id} : new[i] = endpoints[i]
      /\ new[id] = [endpoints[id] EXCEPT !.active = FALSE]
  BY <1>2, Numbers, Updated
<1>4. /\ new[id].active = FALSE /\ new[id].token = endpoints[id].token
      /\ new[id].key = endpoints[id].key /\ OverlayIndices(new[id]) = OverlayIndices(endpoints[id])
  BY <1>3, Numbers, Element DEF Records, OverlayIndices
<1>5. /\ endpoints' = new
      /\ \A i \in DOMAIN endpoints :
           /\ new[i].key = endpoints[i].key /\ new[i].token = endpoints[i].token
           /\ OverlayIndices(new[i]) = OverlayIndices(endpoints[i])
           /\ (new[i].active => i # id /\ endpoints[i].active)
  BY <1>1, <1>2, <1>3, <1>4
<1>6. DisjointIps' /\ DistinctTokens'
  BY <1>3, <1>5 DEF Inv, DisjointIps, DistinctTokens
<1>7. /\ DOMAIN heartbeats' = DOMAIN heartbeats \ {id}
      /\ \A i \in DOMAIN heartbeats' : heartbeats'[i] = heartbeats[i]
  BY <1>1
<1>8. /\ drawn' \in Nat /\ drawn <= drawn' /\ file' \in [Keys -> Nat]
      /\ \A j \in Keys : file'[j] <= drawn'
      /\ \A i \in DOMAIN endpoints' : endpoints'[i].token <= drawn'
  BY <1>1, <1>3, <1>5, Numbers
<1> QED BY <1>1, <1>3, <1>5, <1>6, <1>7, <1>8, OwnerStep

\* A rotated record has a token that nobody holds yet.
LEMMA RotateInv ==
  ASSUME Inv, NEW id \in DOMAIN endpoints, RotateToken(id)
  PROVE  Inv'
<1>1. /\ endpoints' = [endpoints EXCEPT ![id].token = drawn + 1] /\ drawn' = drawn + 1
      /\ Event /\ UNCHANGED <<heartbeats, late, file, node>>
  BY DEF RotateToken
<1>2. PICK token \in Nat : token = drawn + 1
  BY Numbers
<1>3. PICK new : new = [endpoints EXCEPT ![id].token = token]
  OBVIOUS
<1>4. /\ new \in Seq(Records) /\ DOMAIN new = DOMAIN endpoints
      /\ \A i \in DOMAIN endpoints \ {id} : new[i] = endpoints[i]
      /\ new[id] = [endpoints[id] EXCEPT !.token = token]
  BY <1>3, Numbers, Updated
<1>5. /\ new[id].token = token
      /\ new[id].key = endpoints[id].key /\ OverlayIndices(new[id]) = OverlayIndices(endpoints[id])
  BY <1>4, Numbers, Element DEF Records, OverlayIndices
<1>6. /\ endpoints' = new
      /\ \A i \in DOMAIN endpoints :
           /\ new[i].key = endpoints[i].key
           /\ OverlayIndices(new[i]) = OverlayIndices(endpoints[i])
           /\ (i # id => new[i] = endpoints[i])
  BY <1>1, <1>2, <1>3, <1>4, <1>5
<1>7. DisjointIps'
  BY <1>4, <1>6 DEF Inv, DisjointIps
<1>8. DistinctTokens'
  <2>1. \A i \in DOMAIN endpoints : endpoints[i].token # token
    BY <1>2, Numbers
  <2>2. \A i, j \in DOMAIN endpoints : endpoints[i].token = endpoints[j].token => i = j
    BY DEF Inv, DistinctTokens
  <2>3. \A i, j \in DOMAIN endpoints : new[i].token = new[j].token => i = j
    BY <1>5, <1>6, <2>1, <2>2
  <2> QED BY <1>4, <1>6, <2>3 DEF DistinctTokens
<1>9. /\ drawn' \in Nat /\ drawn <= drawn' /\ file' \in [Keys -> Nat]
      /\ \A j \in Keys : file'[j] <= drawn'
      /\ \A i \in DOMAIN endpoints' : endpoints'[i].token <= drawn'
  BY <1>1, <1>2, <1>4, <1>5, <1>6, Numbers
<1>10. \A i \in DOMAIN endpoints' : endpoints'[i].token <= drawn => i # id
  BY <1>2, <1>5, <1>6, Numbers
<1> QED BY <1>1, <1>4, <1>6, <1>7, <1>8, <1>9, <1>10, OwnerStep

\* A token that is handed to a node is one that was drawn.
LEMMA BootstrapInv ==
  ASSUME Inv, NEW k \in Keys, BootstrapDeviceToken(k)
  PROVE  Inv'
<1>1. Event /\ UNCHANGED <<endpoints, heartbeats, drawn, late, node>>
  BY DEF BootstrapDeviceToken
<1>2. PICK id \in DOMAIN endpoints : file' = [file EXCEPT ![k] = endpoints[id].token]
  BY DEF BootstrapDeviceToken
<1>3. /\ drawn' \in Nat /\ drawn <= drawn' /\ file' \in [Keys -> Nat]
      /\ \A j \in Keys : file'[j] <= drawn'
      /\ \A i \in DOMAIN endpoints' : endpoints'[i].token <= drawn'
      /\ endpoints' \in Seq(Records)
  BY <1>1, <1>2, Numbers
<1>4. DisjointIps' /\ DistinctTokens'
  BY <1>1 DEF Inv, DisjointIps, DistinctTokens
<1> QED BY <1>1, <1>3, <1>4, OwnerStep

\* Every step keeps the invariant.
LEMMA NextInv == Inv /\ [Next]_vars => Inv'
<1> SUFFICES ASSUME Inv, [Next]_vars PROVE Inv'
  OBVIOUS
<1>1. CASE Owner
  BY <1>1, EnrollInv, BootstrapInv, DeleteInv, RotateInv DEF Owner
<1>2. ASSUME NEW k \in Keys, Daemon(k)
      PROVE  Inv'
  BY <1>2, StartStopInv, FetchInv, BeatInv, BeatMissedInv DEF Daemon
<1>3. ASSUME NEW p \in late, LateBeat(p)
      PROVE  Inv'
  BY <1>3, LateBeatInv
<1>4. CASE ControlRestart
  BY <1>4, ControlRestartInv
<1>5. CASE Tick
  BY <1>5, TickInv
<1>6. CASE UNCHANGED vars
  <2>1. UNCHANGED <<endpoints, heartbeats, drawn, late, file, node, events>>
    BY <1>6 DEF vars
  <2>2. endpoints' \in Seq(Records) /\ drawn' \in Nat /\ drawn <= drawn' /\ file' \in [Keys -> Nat]
        /\ (\A j \in Keys : file'[j] <= drawn')
        /\ \A i \in DOMAIN endpoints' : endpoints'[i].token <= drawn'
    BY <2>1, Numbers
  <2>3. DisjointIps' /\ DistinctTokens'
    BY <2>1 DEF Inv, DisjointIps, DistinctTokens
  <2> QED BY <2>1, <2>2, <2>3, OwnerStep
<1> QED BY <1>1, <1>2, <1>3, <1>4, <1>5, <1>6 DEF Next

-----------------------------------------------------------------------------
\* Everything below follows from Inv.
THEOREM Invariance == Spec => []Inv
BY InitInv, NextInv, PTL DEF Spec

\* Types, and the bounds of the waits and ages, for every value of the constants.
THEOREM TypeCorrect == Spec => []TypeOK
<1>1. Inv => TypeOK
  BY DEF Inv
<1> QED BY <1>1, Invariance, PTL

\* However stale a peer table is, the address of every entry is of the key it
\* stands with and of no other record, revoked or active (peers.rs, ipam.rs).
THEOREM NoWrongPeer == Spec => []EntriesNameOwner
<1>1. Inv => EntriesNameOwner
  <2> SUFFICES ASSUME Inv, NEW k \in Keys, NEW p \in Learned(k), NEW id \in DOMAIN endpoints,
                      p.ip \in OverlayIndices(endpoints[id])
               PROVE  endpoints[id].key = p.key
    BY DEF EntriesNameOwner
  <2>1. PICK i \in DOMAIN endpoints : p.ip \in OverlayIndices(endpoints[i]) /\ p.key = endpoints[i].key
    BY DEF Inv, Known, OfRecord
  <2> QED BY <2>1 DEF Inv, DisjointIps
<1> QED BY <1>1, Invariance, PTL

\* For all intervals that fit: a running node whose token is good is online while
\* it has missed no more heartbeats in a row than the TTL has room for.
THEOREM MissesTolerated == Spec => []StaysOnline
<1>1. Inv => StaysOnline
  <2> SUFFICES ASSUME Inv, NEW k \in Keys, node[k].missed <= Misses,
                      NEW id \in AuthNode(node[k].token)
               PROVE  Online(id)
    BY DEF StaysOnline
  <2>1. YoungEnough(node[k], id, heartbeats)
    BY DEF Inv, Timely, Punctual
  <2>2. /\ node[k].waited \in 0 .. Period /\ node[k].missed \in Nat
        /\ Misses \in Nat /\ TTL \in Nat /\ Period \in Nat
    <3>1. Misses \in Nat /\ TTL \in Nat /\ Period \in Nat
      BY MembershipAssumption DEF Period
    <3>2. node[k].waited \in 0 .. Period /\ node[k].missed \in 0 .. Misses + 1
      BY DaemonIs DEF Inv
    <3> QED BY <3>1, <3>2
  <2>3. heartbeats[id].age \in Nat
    BY <2>1, <2>2 DEF YoungEnough, Inv, TypeOK
  <2>4. (Misses + 1) * Period <= TTL
    BY MembershipAssumption DEF Period
  <2>5. node[k].missed * Period <= Misses * Period
    <3>1. ASSUME NEW a \in Nat, NEW d \in Nat, NEW p \in Nat
          PROVE  a * p <= (a + d) * p
      <4>1. (a + d) * p = a * p + d * p /\ d * p \in Nat /\ a * p \in Nat
        OBVIOUS
      <4> QED BY <4>1
    <3>2. PICK d \in Nat : Misses = node[k].missed + d
      <4>1. Misses - node[k].missed \in Nat /\ Misses = node[k].missed + (Misses - node[k].missed)
        BY <2>2
      <4> QED BY <4>1
    <3> QED BY <2>2, <3>1, <3>2
  <2>6. /\ (Misses + 1) * Period = Misses * Period + Period
        /\ Misses * Period \in Nat /\ node[k].missed * Period \in Nat
    BY <2>2, OneMore
  <2>7. heartbeats[id].age <= node[k].waited + node[k].missed * Period /\ id \in DOMAIN heartbeats
    BY <2>1 DEF YoungEnough
  <2>8. heartbeats[id].age <= TTL
    BY <2>2, <2>3, <2>4, <2>5, <2>6, <2>7
  <2> QED BY <2>7, <2>8 DEF Online, IsOnline
<1> QED BY <1>1, Invariance, PTL
=============================================================================
