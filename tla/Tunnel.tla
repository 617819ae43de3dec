------------------------------- MODULE Tunnel -------------------------------
(***************************************************************************)
(* The data plane: the pump threads of every akurai-node                   *)
(* (crates/akurai-node/src/tunnel.rs), the Noise_IK exchange they run      *)
(* (crates/akurai-transport/src/noise.rs) and the relay hub that carries   *)
(* their frames (crates/akurai-relay/src/forward.rs), over UDP.            *)
(*                                                                         *)
(* A UDP address is the relay or <<n, k>>: node n binds a fresh ephemeral  *)
(* port each time it starts, k counts its restarts.  An ephemeral secret   *)
(* is <<n, i>>, the i-th one node n drew.  The transport keys of a         *)
(* completed exchange are <<e, r>>, the two ephemerals they mix: two ends  *)
(* share keys iff they mixed the same two, which is what the transcript    *)
(* hash and the DH of both establish.                                      *)
(*                                                                         *)
(* A step is one locked section of the table.  A send is one step with the *)
(* section that computes it: the code sends after the unlock, and the      *)
(* network below may delay any datagram for any time, which includes that  *)
(* gap.  udp_pump locks the table up to three times for a frame: to note   *)
(* that it came straight from the peer (`heard` until the next), to handle *)
(* it, and to react to a Data frame that it cannot decrypt (`reacting`     *)
(* from the one before).                                                   *)
(*                                                                         *)
(* The network loses, delays, repeats and reorders datagrams and forges    *)
(* none: each was sent by the node its frame names.                        *)
(*                                                                         *)
(* The anti-replay window is the set of accepted counters: a session here  *)
(* has at most MaxData <= 64 packets, so none falls out of the window      *)
(* (ReplayWindow has the window itself).                                   *)
(***************************************************************************)
EXTENDS Naturals, FiniteSets, Bags

CONSTANTS
  Nodes,          \* the nodes, each other's peers
  Relay,          \* the address of the relay
  None,           \* Option::None
  Talkers,        \* the nodes whose TUN yields packets for their peers
  Reachable,      \* <<m, n>>: a datagram m sends straight to n gets through
  Advertise,      \* do peer maps carry heartbeat endpoints
  Duplicates,     \* may the network deliver a datagram again
  Timely,         \* are 3 s longer than a round trip, pauses of the TUN than 3 s
  Warm,           \* have the first keepalives reached the relay already
  Restarters,     \* the nodes that may restart
  MaxEph,         \* bound: ephemerals a node draws
  MaxData,        \* bound: packets sealed under one session
  MaxRestart,     \* bound: restarts of a node
  MaxFaults       \* bound: restarts of the relay and datagrams lost, together

ASSUME TunnelAssumption ==
  /\ Talkers \subseteq Nodes
  /\ Reachable \subseteq Nodes \X Nodes
  /\ Restarters \subseteq Nodes
  /\ Advertise \in BOOLEAN /\ Duplicates \in BOOLEAN
  /\ Timely \in BOOLEAN /\ Warm \in BOOLEAN
  /\ MaxEph \in Nat /\ MaxData \in 0 .. 64
  /\ MaxRestart \in Nat /\ MaxFaults \in Nat
  /\ None \notin Nodes /\ Relay # None
  /\ {None, Relay} \cap (Nodes \X (0 .. MaxRestart)) = {}

VARIABLES
  st,         \* st[n][p]: PeerState of peer p in the table of node n
  heard,      \* heard[n]: the frame udp_pump of n is about to handle
  reacting,   \* reacting[n]: the Data frame udp_pump of n failed to decrypt
  port,       \* port[n]: how often n restarted; its address is <<n, port[n]>>
  eph,        \* eph[n]: ephemerals n has drawn
  learned,    \* learned[n]: where the relay last heard from n
  net,        \* datagrams in flight
  faults,     \* restarts of the relay and losses so far
  sealed,     \* history: the bag of packets sealed ...
  handed      \* ... and of packets handed to a TUN

history == <<sealed, handed>>
vars == <<st, heard, reacting, port, eph, learned, net, faults, sealed, handed>>

-----------------------------------------------------------------------------
(***************************************************************************)
(* Addresses, frames, datagrams                                            *)
(***************************************************************************)
Ports     == 0 .. MaxRestart
Addresses == {Relay} \cup (Nodes \X Ports)
Ephs      == Nodes \X (1 .. MaxEph)
Keys      == Ephs \X Ephs
Packets   == [key : Keys, src : Nodes, ctr : 0 .. MaxData - 1]

Peers(n)  == Nodes \ {n}              \* the peer table of n
Addr(n)   == <<n, port[n]>>

InitFrame(n, p, e)    == [kind |-> "HandshakeInit", src |-> n, dest |-> p, eph |-> e]
RespFrame(n, p, e, r) == [kind |-> "HandshakeResp", src |-> n, dest |-> p, eph |-> e, reph |-> r]
DataFrame(n, p, pkt)  == [kind |-> "Data", src |-> n, dest |-> p, packet |-> pkt]
HintFrame(n, p, a)    == [kind |-> "PeerAddr", src |-> n, dest |-> p, addr |-> a]
KeepaliveFrame(n)     == [kind |-> "Keepalive", src |-> n]

IsFrame(f) ==
  /\ f.src \in Nodes
  /\ \/ f.kind = "HandshakeInit" /\ f.dest \in Nodes /\ f.eph \in Ephs
     \/ f.kind = "HandshakeResp" /\ f.dest \in Nodes /\ f.eph \in Ephs /\ f.reph \in Ephs
     \/ f.kind = "Data" /\ f.dest \in Nodes /\ f.packet \in Packets
     \/ f.kind = "PeerAddr" /\ f.dest \in Nodes /\ f.addr \in Addresses
     \/ f.kind = "Keepalive"

Datagram(from, to, f)    == [from |-> from, to |-> to, frame |-> f]
Copies(from, addrs, f)   == {Datagram(from, a, f) : a \in addrs}

-----------------------------------------------------------------------------
(***************************************************************************)
(* State                                                                   *)
(***************************************************************************)
NewSession(key) == [key |-> key, sent |-> 0, seen |-> {}]
Sessions == [key : Keys, sent : 0 .. MaxData, seen : SUBSET (0 .. MaxData - 1)]
Pendings == [eph : Ephs, expired : BOOLEAN]

ASSUME NoneAssumption == None \notin Sessions

Fresh == [session |-> None, pending |-> None, direct |-> None, candidate |-> None]

PeerStates == [session   : Sessions \cup {None},
               pending   : Pendings \cup {None},
               direct    : Addresses \cup {None},
               candidate : Addresses \cup {None}]

\* Datagrams in flight or received and not yet handled.
UnderWay == net \cup ({heard[n] : n \in Nodes} \ {None})

TypeOK ==
  /\ st \in [Nodes -> [Nodes -> PeerStates]]
  /\ reacting \in [Nodes -> [peer : Nodes, from : Addresses] \cup {None}]
  /\ port \in [Nodes -> Ports]
  /\ eph \in [Nodes -> 0 .. MaxEph]
  /\ learned \in [Nodes -> Addresses \cup {None}]
  /\ \A d \in UnderWay : d.from \in Addresses /\ d.to \in Addresses /\ IsFrame(d.frame)
  /\ faults \in 0 .. MaxFaults
  /\ DOMAIN sealed \subseteq Packets
  /\ DOMAIN handed \subseteq Packets

Init ==
  /\ st = [n \in Nodes |-> [p \in Nodes |-> Fresh]]
  /\ heard = [n \in Nodes |-> None]
  /\ reacting = [n \in Nodes |-> None]
  /\ port = [n \in Nodes |-> 0]
  /\ eph = [n \in Nodes |-> 0]
  /\ learned = [n \in Nodes |-> IF Warm THEN <<n, 0>> ELSE None]
  /\ net = {}
  /\ faults = 0
  /\ sealed = EmptyBag
  /\ handed = EmptyBag

-----------------------------------------------------------------------------
(***************************************************************************)
(* The network                                                             *)
(***************************************************************************)
\* d gets through to the relay or to a live socket.  Any other datagram is gone
\* at once: it can never be received.
Reaches(d, n) == d.to = Addr(n) /\ (d.from # Relay => <<d.from[1], n>> \in Reachable)
Wire(ds)      == {d \in ds : d.to = Relay \/ \E n \in Nodes : Reaches(d, n)}

Send(ds) == net' = net \cup Wire(ds)
\* d is taken off the wire, unless the network may repeat it.
Exchange(d, ds) == net' = (IF Duplicates THEN net ELSE net \ {d}) \cup Wire(ds)

Exchanges == {"HandshakeInit", "HandshakeResp", "Data"}
Quiet == /\ \A d \in UnderWay : d.frame.kind \notin Exchanges
         /\ \A n \in Nodes : reacting[n] = None
         /\ \A n \in Nodes : \A p \in Peers(n) :
              st[n][p].pending # None => st[n][p].pending.expired

\* Timely traffic: what was sent before has arrived, keepalives included, and
\* handshakes have ended one way or the other, when the TUN of n yields its next
\* packet for p.
Paced(n, p) == Timely => Quiet /\ learned[n] = Addr(n) /\ learned[p] = Addr(p)

\* A datagram is lost on the way (where it may repeat, it simply never arrives).
Lose(d) == /\ ~Duplicates
           /\ faults < MaxFaults
           /\ faults' = faults + 1
           /\ net' = net \ {d}
           /\ UNCHANGED <<st, heard, reacting, port, eph, learned, history>>

-----------------------------------------------------------------------------
(***************************************************************************)
(* Handshake and path helpers                                              *)
(***************************************************************************)
\* rand32: at the bound it fails, as the code's Err branches allow.
CanDraw(n)  == eph[n] < MaxEph
NextEph(n)  == <<n, eph[n] + 1>>
Draw(n, e)  == eph' = [eph EXCEPT ![n] = IF e = NextEph(n) THEN @ + 1 ELSE @]

\* Nothing derived from the initiator's ephemeral e is left anywhere.
Forgotten(e) ==
  /\ \A d \in UnderWay :
                     /\ d.frame.kind \in {"HandshakeInit", "HandshakeResp"} => d.frame.eph # e
                    /\ d.frame.kind = "Data" => d.frame.packet.key[1] # e
  /\ \A n \in Nodes : \A p \in Peers(n) :
       st[n][p].session # None => st[n][p].session.key[1] # e
  /\ \A pkt \in DOMAIN sealed : pkt.key[1] # e

\* The ephemeral of a new handshake with p.  That of an expired one of which
\* nothing is left is as good as new, so retries alone never reach MaxEph.
InitEphs(n, p) ==
  LET old == st[n][p].pending IN
  IF old # None /\ Forgotten(old.eph) THEN {old.eph}
  ELSE IF CanDraw(n) THEN {NextEph(n)} ELSE {}

\* Variants with a slip, used by no specification: no retry gate; no retry.
MayInitiateAlways(ps) == TRUE
MayInitiateOnce(ps)   == ps.pending = None

\* No handshake in flight, or one older than HANDSHAKE_RETRY_AFTER.
MayInitiate(ps) == ps.pending # None => ps.pending.expired
InFlight(e)     == [eph |-> e, expired |-> FALSE]

\* The endpoint a peer map may list for p: any p has heartbeat so far.
Endpoints(p) == {None} \cup (IF Advertise THEN {<<p, k>> : k \in 0 .. port[p]} ELSE {})

\* handshake_paths: the candidate it seeds, and the addresses it returns.
SeededCandidate(ps, advertised) ==
  IF ps.direct = None /\ ps.candidate = None THEN advertised ELSE ps.candidate
HandshakePaths(ps, advertised) ==
  IF ps.direct # None THEN {ps.direct}
  ELSE {Relay} \cup ({SeededCandidate(ps, advertised)} \ {None})

SetPeer(n, p, ps) == st' = [st EXCEPT ![n][p] = ps]

-----------------------------------------------------------------------------
(***************************************************************************)
(* tun_pump: the TUN yields a packet routed to peer p                      *)
(***************************************************************************)
\* Variants with a slip, used by no specification: no replay check; counter 0
\* taken for a replay.
DecryptsAnyCounter(session, pkt) == session # None /\ session.key = pkt.key
DecryptsFromOne(session, pkt) ==
  /\ session # None /\ session.key = pkt.key
  /\ pkt.ctr \notin session.seen \cup {0}

Decrypts(session, pkt) ==
  session # None /\ session.key = pkt.key /\ pkt.ctr \notin session.seen

SealAndSend(n, p) ==
  LET session == st[n][p].session
      pkt     == [key |-> session.key, src |-> n, ctr |-> session.sent]
  IN  /\ session # None
      /\ session.sent < MaxData
      /\ SetPeer(n, p, [st[n][p] EXCEPT !.session.sent = @ + 1])
      /\ sealed' = sealed (+) SetToBag({pkt})
      /\ Send({Datagram(Addr(n), Relay, DataFrame(n, p, pkt))})
      /\ UNCHANGED <<eph, handed>>

Initiate(n, p) ==
  LET ps == st[n][p] IN
  /\ ps.session = None
  /\ MayInitiate(ps)
  /\ \E e \in InitEphs(n, p), advertised \in Endpoints(p) :
       /\ Draw(n, e)
       /\ SetPeer(n, p, [ps EXCEPT !.pending = InFlight(e),
                                   !.candidate = SeededCandidate(ps, advertised)])
       /\ Send(Copies(Addr(n), HandshakePaths(ps, advertised), InitFrame(n, p, e)))
  /\ UNCHANGED history

TunPacket(n, p) == /\ n \in Talkers /\ Paced(n, p)
                   /\ SealAndSend(n, p) \/ Initiate(n, p)
                   /\ UNCHANGED <<heard, reacting, port, learned, faults>>

-----------------------------------------------------------------------------
(***************************************************************************)
(* udp_pump: one received frame                                            *)
(***************************************************************************)
\* A frame straight from a known peer sets the direct path, before anything in it
\* is opened: that it is the peer's is what this network grants.
Straight(d) == d.from # Relay /\ d.frame.kind # "PeerAddr"

Hear(n, d) ==
  /\ heard[n] = None /\ reacting[n] = None
  /\ Reaches(d, n) /\ d.frame.src \in Peers(n)
  /\ Straight(d)
  /\ SetPeer(n, d.frame.src, [st[n][d.frame.src] EXCEPT !.direct = d.from])
  /\ heard' = [heard EXCEPT ![n] = d]
  /\ Exchange(d, {})
  /\ UNCHANGED <<reacting, port, eph, learned, faults, history>>

\* udp_pump goes on with the frame it heard, or takes one off its socket.
Handles(n, d, kind) == /\ reacting[n] = None
                       /\ \/ heard[n] # None /\ d = heard[n]
                          \/ heard[n] = None /\ d \in net /\ Reaches(d, n) /\ ~Straight(d)
                       /\ d.frame.kind = kind
                       /\ d.frame.src \in Peers(n)
                       /\ heard' = [heard EXCEPT ![n] = None]
                       /\ UNCHANGED <<port, learned, faults, sealed>>

Answer(n, d, ds) == IF heard[n] = None THEN Exchange(d, ds) ELSE Send(ds)

RecvKeepalive(n, d) ==
  /\ Handles(n, d, "Keepalive")
  /\ Answer(n, d, {})
  /\ UNCHANGED <<st, reacting, eph, handed>>

RecvPeerAddr(n, d) ==
  LET ps == st[n][d.frame.src] IN
  /\ Handles(n, d, "PeerAddr")
  /\ SetPeer(n, d.frame.src,
             [ps EXCEPT !.candidate = IF ps.direct = None THEN d.frame.addr ELSE @])
  /\ Answer(n, d, {Datagram(Addr(n), d.frame.addr, KeepaliveFrame(n))})
  /\ UNCHANGED <<reacting, eph, handed>>

\* Variant with a slip, used by no specification: a live session is not replaced.
AcceptKeepsSession(ps, key) ==
  [ps EXCEPT !.session = IF @ = None THEN NewSession(key) ELSE @, !.pending = None]

\* respond: fresh keys for every message 1; the answer takes the arrival path.
Accept(ps, key) == [ps EXCEPT !.session = NewSession(key), !.pending = None]

AcceptInit(n, d) ==
  LET p == d.frame.src IN
  /\ Handles(n, d, "HandshakeInit")
  /\ CanDraw(n)
  /\ Draw(n, NextEph(n))
  /\ SetPeer(n, p, Accept(st[n][p], <<d.frame.eph, NextEph(n)>>))
  /\ Answer(n, d, {Datagram(Addr(n), d.from, RespFrame(n, p, d.frame.eph, NextEph(n)))})
  /\ UNCHANGED <<reacting, handed>>

\* accept_handshake gives None where rand32 fails: the frame is used up, no more.
DropInit(n, d) ==
  /\ Handles(n, d, "HandshakeInit")
  /\ ~CanDraw(n)
  /\ Answer(n, d, {})
  /\ UNCHANGED <<st, reacting, eph, handed>>

RecvHandshakeInit(n, d) == AcceptInit(n, d) \/ DropInit(n, d)

\* finalize succeeds on the answer to the message 1 in flight; any answer at all
\* takes the in-flight state away.
Answers(ps, f) == ps.pending # None /\ ps.pending.eph = f.eph

\* Variant with a slip, used by no specification: the in-flight state is used without being taken.
FinishKeepsPending(ps, f) ==
  [ps EXCEPT !.session = IF Answers(ps, f) THEN NewSession(<<f.eph, f.reph>>) ELSE @]

Finish(ps, f) ==
  [ps EXCEPT !.pending = None,
             !.session = IF Answers(ps, f) THEN NewSession(<<f.eph, f.reph>>) ELSE @]

RecvHandshakeResp(n, d) ==
  /\ Handles(n, d, "HandshakeResp")
  /\ SetPeer(n, d.frame.src, Finish(st[n][d.frame.src], d.frame))
  /\ Answer(n, d, {})
  /\ UNCHANGED <<reacting, eph, handed>>

\* A Data frame is decrypted and handed to the TUN, or the table lock is given
\* back and the thread goes on to react.
RecvData(n, d) ==
  LET p   == d.frame.src
      ps  == st[n][p]
      pkt == d.frame.packet
  IN  /\ Handles(n, d, "Data")
      /\ \/ /\ Decrypts(ps.session, pkt)
            /\ SetPeer(n, p, [ps EXCEPT !.session.seen = @ \cup {pkt.ctr}])
            /\ handed' = handed (+) SetToBag({pkt})
            /\ UNCHANGED reacting
         \/ /\ ~Decrypts(ps.session, pkt)
            /\ reacting' = [reacting EXCEPT ![n] = [peer |-> p, from |-> d.from]]
            /\ UNCHANGED <<st, handed>>
      /\ Answer(n, d, {})
      /\ UNCHANGED eph

\* The second locked section: discard the session and initiate, unless a young
\* handshake is in flight by now.
React(n) ==
  /\ reacting[n] # None
  /\ LET p  == reacting[n].peer
         ps == st[n][p]
     IN  \/ /\ MayInitiate(ps)
            /\ \E e \in InitEphs(n, p) :
                 /\ Draw(n, e)
                 /\ SetPeer(n, p, [ps EXCEPT !.session = None, !.pending = InFlight(e)])
                 /\ Send(Copies(Addr(n), {Relay, reacting[n].from}, InitFrame(n, p, e)))
         \/ /\ ~MayInitiate(ps) \/ InitEphs(n, p) = {}
            /\ UNCHANGED <<st, eph, net>>
  /\ reacting' = [reacting EXCEPT ![n] = None]
  /\ UNCHANGED <<heard, port, learned, faults, history>>

-----------------------------------------------------------------------------
(***************************************************************************)
(* Timers and restarts of a node                                           *)
(***************************************************************************)
\* The 15 s thread: adopt advertised endpoints as candidates, tell the relay
\* where this node is, probe every direct path or candidate.
KeepaliveTick(n) ==
  \E endpoint \in [Peers(n) -> Addresses \cup {None}] :
    /\ \A p \in Peers(n) : endpoint[p] \in Endpoints(p)
    /\ st' = [st EXCEPT ![n] = [p \in Nodes |->
               IF p # n /\ @[p].direct = None /\ endpoint[p] # None
               THEN [@[p] EXCEPT !.candidate = endpoint[p]] ELSE @[p]]]
    /\ Send(Copies(Addr(n),
                   {Relay} \cup ({IF ps.direct # None THEN ps.direct ELSE ps.candidate :
                                    ps \in {st'[n][p] : p \in Peers(n)}} \ {None}),
                   KeepaliveFrame(n)))
    /\ UNCHANGED <<heard, reacting, port, eph, learned, faults, history>>

\* HANDSHAKE_RETRY_AFTER has passed since the handshake began.
Expire(n, p) ==
  /\ st[n][p].pending # None
  /\ ~st[n][p].pending.expired
  /\ Timely => \A d \in UnderWay :
                 d.frame.kind \in {"HandshakeInit", "HandshakeResp"}
                   => d.frame.eph # st[n][p].pending.eph
  /\ SetPeer(n, p, [st[n][p] EXCEPT !.pending.expired = TRUE])
  /\ UNCHANGED <<heard, reacting, port, eph, learned, net, faults, history>>

\* Timely: a restart takes longer than a datagram of the old socket is under way.
\* Bound: n restarts while its peers can still send it a packet under the
\* session it forgets, so that it is not MaxData that ends the behaviour.
MayRestart(n) == Timely =>
  /\ \A d \in UnderWay : d.from # Addr(n)
  /\ \A p \in Peers(n) : st[p][n].session # None
       => st[p][n].session.sent + (MaxFaults - faults) < MaxData

\* The daemon is restarted: a new socket and an empty table, the same identity.
Restart(n) ==
  /\ n \in Restarters
  /\ port[n] < MaxRestart
  /\ MayRestart(n)
  /\ port' = [port EXCEPT ![n] = @ + 1]
  /\ st' = [st EXCEPT ![n] = [p \in Nodes |-> Fresh]]
  /\ heard' = [heard EXCEPT ![n] = None]
  /\ reacting' = [reacting EXCEPT ![n] = None]
  /\ net' = {d \in net : d.to # Addr(n)}
  /\ UNCHANGED <<eph, learned, faults, history>>

-----------------------------------------------------------------------------
(***************************************************************************)
(* The relay                                                               *)
(***************************************************************************)
\* Variant with a slip, used by no specification: each end is told its own address.
HintsSwapped(d, to) ==
  LET f == d.frame IN
  IF f.kind \in {"HandshakeInit", "HandshakeResp"}
  THEN {Datagram(Relay, to,     HintFrame(f.src, f.dest, to)),
        Datagram(Relay, d.from, HintFrame(f.dest, f.src, d.from))}
  ELSE {}

\* PeerAddr hints on a handshake frame: tell each end where the other is.
Hints(d, to) ==
  LET f == d.frame IN
  IF f.kind \in {"HandshakeInit", "HandshakeResp"}
  THEN {Datagram(Relay, to,     HintFrame(f.src, f.dest, d.from)),
        Datagram(Relay, d.from, HintFrame(f.dest, f.src, to))}
  ELSE {}

\* Variant with a slip, used by no specification: a known endpoint is not updated.
LearnFirst(d) ==
  learned' = [learned EXCEPT ![d.frame.src] = IF @ = None THEN d.from ELSE @]

Learn(d) == learned' = [learned EXCEPT ![d.frame.src] = d.from]

\* forward_one: learn the source, then forward, or drop what has no endpoint.
Forward(d) ==
  /\ d.to = Relay
  /\ Learn(d)
  /\ LET to == IF d.frame.kind = "Keepalive" THEN None ELSE learned'[d.frame.dest]
     IN  Exchange(d, IF to = None THEN {}
                     ELSE {Datagram(Relay, to, d.frame)} \cup Hints(d, to))
  /\ UNCHANGED <<st, heard, reacting, port, eph, faults, history>>

\* The table lives in memory only.
RelayRestart ==
  /\ faults < MaxFaults
  /\ faults' = faults + 1
  /\ learned' = [n \in Nodes |-> None]
  /\ UNCHANGED <<st, heard, reacting, port, eph, net, history>>

-----------------------------------------------------------------------------
Node(n) ==
  \/ \E p \in Peers(n) : TunPacket(n, p) \/ Expire(n, p)
  \/ \E d \in net : Hear(n, d)
  \/ \E d \in UnderWay : \/ RecvKeepalive(n, d) \/ RecvPeerAddr(n, d)
                         \/ RecvHandshakeInit(n, d) \/ RecvHandshakeResp(n, d)
                         \/ RecvData(n, d)
  \/ React(n)
  \/ KeepaliveTick(n)
  \/ Restart(n)

Next ==
  \/ \E n \in Nodes : Node(n)
  \/ \E d \in net : Forward(d) \/ Lose(d)
  \/ RelayRestart

Spec == Init /\ [][Next]_vars

\* Scheduling.  Every thread of a node and the relay loop run on; the network
\* delivers what it does not lose, whatever else it carries; the 3 s pass; the
\* TUN of a talker keeps yielding packets.  Losses and restarts may happen.
Receive(n, kind) ==
  \/ \E d \in net : d.frame.kind = kind /\ Hear(n, d)
  \/ \E d \in UnderWay : /\ d.frame.kind = kind
                         /\ \/ RecvKeepalive(n, d) \/ RecvPeerAddr(n, d)
                            \/ RecvHandshakeInit(n, d) \/ RecvHandshakeResp(n, d)
                            \/ RecvData(n, d)

Kinds == Exchanges \cup {"PeerAddr", "Keepalive"}

Fairness ==
  /\ \A n \in Nodes : /\ WF_vars(React(n))
                      /\ WF_vars(KeepaliveTick(n))
                      /\ \A kind \in Kinds : WF_vars(Receive(n, kind))
                      /\ \A p \in Peers(n) : WF_vars(TunPacket(n, p)) /\ WF_vars(Expire(n, p))
  /\ \A kind \in Kinds, n \in Nodes :
       WF_vars(\E d \in net : d.frame.kind = kind /\ d.frame.src = n /\ Forward(d))

FairSpec == Spec /\ Fairness

-----------------------------------------------------------------------------
(***************************************************************************)
(* Properties                                                              *)
(***************************************************************************)

\* Session::encrypt's "never reused under send_key", across handshakes: no two
\* packets are sealed under the same key and counter by the same end, although
\* sessions are installed again and again, by late and repeated messages, and
\* each new session counts from zero.
NonceUnique == \A pkt \in DOMAIN sealed : sealed[pkt] <= 1

\* No packet reaches a TUN twice, although windows are forgotten with every
\* session that is discarded, replaced or lost in a restart; and every packet
\* handed over was sealed by the peer.
HandedAtMostOnce ==
  \A pkt \in DOMAIN handed : handed[pkt] <= 1 /\ pkt \in DOMAIN sealed

\* Between the failed decrypt and the reaction of udp_pump the TUN thread may
\* have begun a handshake of its own: neither thread replaces a handshake that
\* is younger than HANDSHAKE_RETRY_AFTER, whose answer may be on its way.
YoungHandshakeKept ==
  [][\A n \in Nodes : \A p \in Peers(n) :
       LET now == st[n][p].pending  next == st'[n][p].pending IN
       now # None /\ next # None /\ ~now.expired => next.eph = now.eph]_vars

\* Everything the tables say of where p is comes from p: the relay's learned
\* endpoint, the hints it sends about it, the path confirmed by a frame of p (on a
\* network where nobody writes frames in the name of p).
PathsLeadToPeer ==
  \A p \in Nodes :
    LET home == {<<p, k>> : k \in 0 .. port[p]} \cup {None} IN
    /\ learned[p] \in home
    /\ \A n \in Peers(p) : st[n][p].direct \in home /\ st[n][p].candidate \in home

\* Both ends of an exchange hold the same transport keys, or one has none.
SameKeys ==
  \A n, p \in Nodes :
    st[n][p].session # None /\ st[p][n].session # None
      => st[n][p].session.key = st[p][n].session.key

\* tun_pump's comment on relay-only delivery: on a network that repeats nothing
\* and keeps up with the traffic, the recovery logic never takes a packet for
\* the sign of a lost session: a session is given up only in a restart.
NoSpuriousTeardown ==
  [][\A n \in Nodes : \A p \in Peers(n) :
       st[n][p].session # None /\ st'[n][p].session = None => port'[n] # port[n]]_vars

\* "Expire and retry pending handshakes" and "Start reactive handshake recovery":
\* whatever is lost and whoever restarts, in the end the two ends of a tunnel
\* that carries traffic one way hold matching sessions for good.
Established(n, p) == /\ st[n][p].session # None /\ st[p][n].session # None
                     /\ st[n][p].session.key = st[p][n].session.key
Recovers == <>[](\A n \in Talkers : \A p \in Peers(n) : Established(n, p))

=============================================================================
