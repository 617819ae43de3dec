---------------------------- MODULE TunnelProofs -----------------------------
(***************************************************************************)
(* The safety of Tunnel that does not depend on the network: for any set   *)
(* of nodes and any loss, repetition, delay and restart.  What makes it    *)
(* inductive: whatever says where a node is came from that node; an        *)
(* ephemeral is drawn once, and the one of a handshake in flight is in no  *)
(* key its node has used; so keys are installed once, and counters start   *)
(* from zero once.                                                         *)
(*                                                                         *)
(* Then the safety of the recovery logic on a network of the relay alone,  *)
(* in time, whatever is lost and whoever restarts: at most one frame of an *)
(* exchange is under way, and it fits the sessions at both of its ends.    *)
(*                                                                         *)
(* Last, what one key carries is the abstract channel AtMostOnce.          *)
(***************************************************************************)
EXTENDS Tunnel, FiniteSetTheorems, TLAPS

\* Where node p is or was.
Home(p) == {<<p, k>> : k \in 0 .. port[p]}

\* An ephemeral that its node has drawn.
Drawn(e) == e \in Ephs /\ e[2] <= eph[e[1]]

\* What a frame says is true.
FrameTrue(f) ==
  /\ f.kind = "PeerAddr" => f.addr \in Home(f.src)
  /\ f.kind = "HandshakeInit" => Drawn(f.eph) /\ f.eph[1] = f.src
  /\ f.kind = "HandshakeResp" => Drawn(f.eph) /\ Drawn(f.reph) /\ f.reph[1] = f.src
  /\ f.kind = "Data" => f.packet \in DOMAIN sealed /\ f.packet.src = f.src

Good(d) ==
  /\ d.from \in Addresses /\ d.to \in Addresses /\ IsFrame(d.frame)
  /\ d.from = Relay \/ d.from \in Home(d.frame.src)
  /\ d.to = Relay => d.from \in Home(d.frame.src) /\ d.frame.kind # "PeerAddr"
  /\ FrameTrue(d.frame)

\* The tables of the nodes, and the relay's, name a place where the peer was.
TablesTrue ==
  /\ st \in [Nodes -> [Nodes -> PeerStates]]
  /\ \A n \in Nodes : \A p \in Peers(n) : /\ st[n][p].direct \in Home(p) \cup {None}
                                          /\ st[n][p].candidate \in Home(p) \cup {None}
RelayTrue ==
  /\ learned \in [Nodes -> Addresses \cup {None}]
  /\ \A p \in Nodes : learned[p] \in Home(p) \cup {None}

ReactingTyped ==
  /\ reacting \in [Nodes -> [peer : Nodes, from : Addresses] \cup {None}]
  /\ \A n \in Nodes : reacting[n] # None => reacting[n].peer # n

CountsTyped ==
  /\ port \in [Nodes -> Ports] /\ eph \in [Nodes -> 0 .. MaxEph] /\ faults \in 0 .. MaxFaults

PacketsTyped == DOMAIN sealed \subseteq Packets /\ DOMAIN handed \subseteq Packets

\* What is under way is true.
HeardTyped == heard = [n \in Nodes |-> heard[n]]
WireTrue   == HeardTyped /\ \A d \in UnderWay : Good(d)

\* The types, and where everybody is.
Placed == TablesTrue /\ RelayTrue /\ ReactingTyped /\ CountsTyped /\ PacketsTyped /\ WireTrue

-----------------------------------------------------------------------------
\* A key mixes two drawn ephemerals, one of them of n.
KeyOf(n, key) == /\ Drawn(key[1]) /\ Drawn(key[2])
                 /\ (key[1][1] = n) # (key[2][1] = n)

Session(n, p) == st[n][p].session
Pending(n, p) == st[n][p].pending

SessionKeys ==
  \A n \in Nodes : \A p \in Peers(n) : Session(n, p) # None =>
    /\ KeyOf(n, Session(n, p).key)
    /\ \A q \in Peers(n) : Session(n, q) # None /\ Session(n, q).key = Session(n, p).key => q = p

\* An ephemeral in flight is of one handshake, and in no key used so far.
PendingUnused ==
  \A n \in Nodes : \A p \in Peers(n) : Pending(n, p) # None =>
    LET e == Pending(n, p).eph IN
    /\ Drawn(e) /\ e[1] = n
    /\ \A q \in Peers(n) : Pending(n, q) # None /\ Pending(n, q).eph = e => q = p
    /\ \A q \in Peers(n) : Session(n, q) # None => Session(n, q).key[1] # e
    /\ \A pkt \in DOMAIN sealed : pkt.src = n => pkt.key[1] # e
    /\ \A pkt \in DOMAIN handed : pkt.src # n => pkt.key[1] # e

\* A session is ahead of what was sealed under its key, and has seen what was
\* handed over.
Counted ==
  /\ \A pkt \in DOMAIN sealed :
       /\ KeyOf(pkt.src, pkt.key)
       /\ \A p \in Peers(pkt.src) :
            Session(pkt.src, p) # None /\ Session(pkt.src, p).key = pkt.key
              => pkt.ctr < Session(pkt.src, p).sent
  /\ \A pkt \in DOMAIN handed :
       /\ pkt \in DOMAIN sealed
       /\ \A n \in Nodes \ {pkt.src} : \A p \in Peers(n) :
            Session(n, p) # None /\ Session(n, p).key = pkt.key
              => pkt.ctr \in Session(n, p).seen

Once == sealed = [pkt \in DOMAIN sealed |-> 1] /\ handed = [pkt \in DOMAIN handed |-> 1]

Inv == Placed /\ SessionKeys /\ PendingUnused /\ Counted /\ Once

-----------------------------------------------------------------------------
(***************************************************************************)
(* Places                                                                  *)
(***************************************************************************)
\* Ports and ephemerals are only added, and packets only sealed.
Grows ==
  /\ CountsTyped'
  /\ \A n \in Nodes : port[n] <= port'[n] /\ eph[n] <= eph'[n]
  /\ DOMAIN sealed \subseteq DOMAIN sealed'

LEMMA HomeIsAddress ==
  ASSUME CountsTyped, NEW p \in Nodes
  PROVE  /\ Home(p) \subseteq Addresses
         /\ Relay \notin Home(p) /\ None \notin Home(p)
         /\ Addr(p) \in Home(p)
<1>1. MaxRestart \in Nat /\ port[p] \in 0 .. MaxRestart
  BY TunnelAssumption DEF CountsTyped, Ports
<1>2. \A k \in 0 .. port[p] : k \in 0 .. MaxRestart
  BY <1>1
<1>3. Home(p) \subseteq Nodes \X (0 .. MaxRestart)
  BY <1>2 DEF Home
<1>4. Addr(p) \in Home(p)
  BY <1>1 DEF Home, Addr
<1>5. {None, Relay} \cap (Nodes \X (0 .. MaxRestart)) = {}
  BY TunnelAssumption
<1> QED BY <1>3, <1>4, <1>5 DEF Addresses, Ports

LEMMA HomeGrows ==
  ASSUME CountsTyped, Grows, NEW p \in Nodes
  PROVE  Home(p) \subseteq Home(p)'
<1>1. MaxRestart \in Nat /\ port[p] \in 0 .. MaxRestart /\ port'[p] \in 0 .. MaxRestart
      /\ port[p] <= port'[p]
  BY TunnelAssumption DEF CountsTyped, Ports, Grows
<1>2. \A k \in 0 .. port[p] : k \in 0 .. port'[p]
  BY <1>1
<1> QED BY <1>2 DEF Home

LEMMA DrawnStays ==
  ASSUME CountsTyped, Grows, NEW e, Drawn(e)
  PROVE  Drawn(e)'
<1>1. e[1] \in Nodes /\ e[2] \in Nat /\ MaxEph \in Nat
  BY TunnelAssumption DEF Drawn, Ephs
<1>2. eph[e[1]] \in Nat /\ eph'[e[1]] \in Nat /\ eph[e[1]] <= eph'[e[1]]
  BY <1>1 DEF CountsTyped, Grows
<1> QED BY <1>1, <1>2 DEF Drawn

LEMMA GoodStays ==
  ASSUME CountsTyped, Grows, NEW d, Good(d)
  PROVE  Good(d)'
<1>1. d.frame.src \in Nodes
  BY DEF Good, IsFrame
<1>2. Home(d.frame.src) \subseteq Home(d.frame.src)'
  BY <1>1, HomeGrows
<1>3. ASSUME NEW e, Drawn(e) PROVE Drawn(e)'
  BY <1>3, DrawnStays
<1>4. DOMAIN sealed \subseteq DOMAIN sealed'
  BY DEF Grows
<1>5. FrameTrue(d.frame) => FrameTrue(d.frame)'
  BY <1>2, <1>3, <1>4 DEF FrameTrue
<1> QED BY <1>2, <1>5 DEF Good

\* What a node sends on its own socket is true if the frame is.
LEMMA SentIsGood ==
  ASSUME CountsTyped, Grows, NEW n \in Nodes, NEW to \in Addresses, NEW f, IsFrame(f),
         f.src = n, f.kind # "PeerAddr", FrameTrue(f)', NEW d, d = Datagram(Addr(n), to, f)
  PROVE  Good(d)'
<1>1. Addr(n) \in Home(n) /\ Home(n) \subseteq Addresses /\ Home(n) \subseteq Home(n)'
  BY HomeIsAddress, HomeGrows
<1>2. d.from = Addr(n) /\ d.to = to /\ d.frame = f
  BY DEF Datagram
<1> QED BY <1>1, <1>2 DEF Good

LEMMA WireStays ==
  ASSUME CountsTyped, WireTrue, Grows, HeardTyped', NEW ds,
         UnderWay' \subseteq UnderWay \cup ds, \A d \in ds : Good(d)'
  PROVE  WireTrue'
<1>1. ASSUME NEW d \in UnderWay' PROVE Good(d)'
  <2>1. CASE d \in UnderWay
    BY <2>1, GoodStays DEF WireTrue
  <2> QED BY <1>1, <2>1
<1> QED BY <1>1 DEF WireTrue

LEMMA WireShrinks ==
  ASSUME CountsTyped, WireTrue, Grows, HeardTyped', UnderWay' \subseteq UnderWay
  PROVE  WireTrue'
  BY GoodStays DEF WireTrue

\* A frame received: it is true, and comes off the wire.
LEMMA Received ==
  ASSUME WireTrue, NEW n \in Nodes, NEW d \in UnderWay, NEW kind, Handles(n, d, kind),
         NEW ds, Answer(n, d, ds)
  PROVE  /\ Good(d) /\ d.frame.src \in Peers(n) /\ d.frame.kind = kind
         /\ HeardTyped' /\ UnderWay' \subseteq UnderWay \cup ds
<1>1. heard' = [heard EXCEPT ![n] = None]
  BY DEF Handles
<1>2. HeardTyped'
  BY <1>1 DEF WireTrue, HeardTyped
<1>3. \A m \in Nodes : heard'[m] = heard[m] \/ heard'[m] = None
  BY <1>1 DEF WireTrue, HeardTyped
<1>4. net' \subseteq net \cup ds
  BY DEF Answer, Send, Exchange, Wire
<1>5. UnderWay' \subseteq UnderWay \cup ds
  BY <1>3, <1>4 DEF UnderWay
<1> QED BY <1>2, <1>5 DEF WireTrue, Handles

-----------------------------------------------------------------------------
(***************************************************************************)
(* Tables                                                                  *)
(***************************************************************************)
LEMMA PeerSet ==
  ASSUME st \in [Nodes -> [Nodes -> PeerStates]], NEW n \in Nodes, NEW p \in Nodes,
         NEW ps \in PeerStates, SetPeer(n, p, ps)
  PROVE  /\ st' \in [Nodes -> [Nodes -> PeerStates]]
         /\ st'[n][p] = ps
         /\ \A m, q \in Nodes : m # n \/ q # p => st'[m][q] = st[m][q]
  BY DEF SetPeer

\* The entry of one peer changes, to one with paths to it.
LEMMA TablesStay ==
  ASSUME TablesTrue, CountsTyped, Grows, NEW n \in Nodes, NEW p \in Nodes,
         NEW ps \in PeerStates, SetPeer(n, p, ps),
         ps.direct \in Home(p)' \cup {None}, ps.candidate \in Home(p)' \cup {None}
  PROVE  TablesTrue'
<1>1. /\ st' \in [Nodes -> [Nodes -> PeerStates]] /\ st'[n][p] = ps
      /\ \A m, q \in Nodes : m # n \/ q # p => st'[m][q] = st[m][q]
  BY PeerSet DEF TablesTrue
<1>2. ASSUME NEW m \in Nodes, NEW q \in Peers(m)
      PROVE  /\ st'[m][q].direct \in Home(q)' \cup {None}
             /\ st'[m][q].candidate \in Home(q)' \cup {None}
  <2>1. CASE m = n /\ q = p
    BY <1>1, <2>1
  <2>2. CASE m # n \/ q # p
    <3>1. st'[m][q] = st[m][q] /\ q \in Nodes
      BY <1>1, <2>2 DEF Peers
    <3> QED BY <3>1, HomeGrows DEF TablesTrue
  <2> QED BY <2>1, <2>2
<1> QED BY <1>1, <1>2 DEF TablesTrue

LEMMA RelayStays ==
  ASSUME RelayTrue, CountsTyped, Grows, UNCHANGED learned
  PROVE  RelayTrue'
  BY HomeGrows DEF RelayTrue

\* An ephemeral is drawn once.
LEMMA NextEphIsNew ==
  ASSUME CountsTyped, NEW n \in Nodes, CanDraw(n), NEW e, e = NextEph(n), Draw(n, e)
  PROVE  /\ e \in Ephs /\ e[1] = n /\ ~Drawn(e) /\ Drawn(e)'
         /\ eph' \in [Nodes -> 0 .. MaxEph]
         /\ \A m \in Nodes : eph[m] <= eph'[m]
<1>1. eph[n] \in Nat /\ eph[n] < MaxEph /\ MaxEph \in Nat
  BY TunnelAssumption DEF CountsTyped, CanDraw
<1>2. e = <<n, eph[n] + 1>> /\ e[1] = n /\ e[2] = eph[n] + 1
  BY DEF NextEph
<1>3. e \in Ephs
  BY <1>1, <1>2 DEF Ephs
<1>4. eph' = [eph EXCEPT ![n] = @ + 1]
  BY DEF Draw
<1>5. eph' \in [Nodes -> 0 .. MaxEph] /\ eph'[n] = eph[n] + 1
      /\ \A m \in Nodes : eph[m] <= eph'[m]
  BY <1>1, <1>4 DEF CountsTyped
<1>6. ~Drawn(e) /\ Drawn(e)'
  BY <1>1, <1>2, <1>3, <1>5 DEF Drawn
<1> QED BY <1>2, <1>3, <1>5, <1>6

\* An old one is not drawn again.
LEMMA OldEphIsNotDrawn ==
  ASSUME CountsTyped, NEW n \in Nodes, NEW e, Drawn(e), Draw(n, e)
  PROVE  eph' = eph
<1>1. e # NextEph(n)
  <2>1. eph[n] \in Nat
    BY DEF CountsTyped
  <2> QED BY <2>1 DEF Drawn, NextEph
<1> QED BY <1>1 DEF Draw, CountsTyped

\* The ephemeral of a handshake that begins: the old one of this peer, or new.
LEMMA InitEphIsOwn ==
  ASSUME CountsTyped, PendingUnused, NEW n \in Nodes, NEW p \in Peers(n),
         NEW e \in InitEphs(n, p), Draw(n, e)
  PROVE  /\ e \in Ephs /\ e[1] = n /\ Drawn(e)'
         /\ eph' \in [Nodes -> 0 .. MaxEph]
         /\ \A m \in Nodes : eph[m] <= eph'[m]
         /\ \/ Pending(n, p) # None /\ e = Pending(n, p).eph
            \/ ~Drawn(e)
<1>1. CASE st[n][p].pending # None /\ e = st[n][p].pending.eph
  <2>1. Drawn(e) /\ e[1] = n
    BY <1>1 DEF PendingUnused, Pending
  <2>2. eph' = eph
    BY <2>1, OldEphIsNotDrawn
  <2>3. \A m \in Nodes : eph[m] \in Nat
    BY DEF CountsTyped
  <2> QED BY <1>1, <2>1, <2>2, <2>3 DEF CountsTyped, Drawn, Pending
<1>2. CASE CanDraw(n) /\ e = NextEph(n)
  BY <1>2, NextEphIsNew
<1> QED BY <1>1, <1>2 DEF InitEphs
-----------------------------------------------------------------------------
(***************************************************************************)
(* Every step leaves what is said of places true                           *)
(***************************************************************************)
\* What a node keeps of a peer it knows.
LEMMA PeerKnown ==
  ASSUME TablesTrue, NEW n \in Nodes, NEW p \in Peers(n)
  PROVE  /\ p \in Nodes /\ p # n
         /\ st[n][p] \in PeerStates
         /\ st[n][p].session \in Sessions \cup {None}
         /\ st[n][p].pending \in Pendings \cup {None}
         /\ st[n][p].direct \in Home(p) \cup {None}
         /\ st[n][p].candidate \in Home(p) \cup {None}
<1>1. p \in Nodes /\ p # n
  BY DEF Peers
<1>2. st[n][p] \in PeerStates
  BY <1>1 DEF TablesTrue
<1> QED BY <1>1, <1>2 DEF TablesTrue, PeerStates

\* When nobody restarts or draws, and packets are only added.
LEMMA StillGrows ==
  ASSUME CountsTyped, UNCHANGED <<port, eph, faults>>, DOMAIN sealed \subseteq DOMAIN sealed'
  PROVE  Grows
<1>1. \A n \in Nodes : port[n] \in Nat /\ eph[n] \in Nat
  BY TunnelAssumption DEF CountsTyped, Ports
<1> QED BY <1>1 DEF Grows, CountsTyped

LEMMA DrawGrows ==
  ASSUME CountsTyped, UNCHANGED <<port, faults>>, eph' \in [Nodes -> 0 .. MaxEph],
         \A m \in Nodes : eph[m] <= eph'[m], sealed' = sealed
  PROVE  Grows
<1>1. \A n \in Nodes : port[n] \in Nat
  BY TunnelAssumption DEF CountsTyped, Ports
<1> QED BY <1>1 DEF Grows, CountsTyped

LEMMA PathIsHome ==
  ASSUME CountsTyped, Grows, NEW p \in Nodes, NEW a \in Home(p) \cup {None}
  PROVE  a \in Home(p)' \cup {None} /\ a \in Addresses \cup {None}
  BY HomeGrows, HomeIsAddress

\* The endpoints a peer map lists.
LEMMA EndpointIsHome ==
  ASSUME NEW p \in Nodes
  PROVE  Endpoints(p) \subseteq Home(p) \cup {None}
  BY DEF Endpoints, Home

\* What nodes send on their own sockets is true.
LEMMA DataIsTrue ==
  ASSUME CountsTyped, Grows, NEW n \in Nodes, NEW p \in Nodes, NEW to \in Addresses,
         NEW pkt \in Packets, pkt.src = n, pkt \in DOMAIN sealed',
         NEW d, d = Datagram(Addr(n), to, DataFrame(n, p, pkt))
  PROVE  Good(d)'
<1>1. PICK f : f = DataFrame(n, p, pkt)
  OBVIOUS
<1>2. IsFrame(f) /\ f.src = n /\ f.kind # "PeerAddr" /\ FrameTrue(f)'
  BY <1>1 DEF DataFrame, IsFrame, FrameTrue
<1> QED BY <1>1, <1>2, SentIsGood

LEMMA InitIsTrue ==
  ASSUME CountsTyped, Grows, NEW n \in Nodes, NEW p \in Nodes, NEW to \in Addresses,
         NEW e \in Ephs, e[1] = n, Drawn(e)',
         NEW d, d = Datagram(Addr(n), to, InitFrame(n, p, e))
  PROVE  Good(d)'
<1>1. PICK f : f = InitFrame(n, p, e)
  OBVIOUS
<1>2. IsFrame(f) /\ f.src = n /\ f.kind # "PeerAddr" /\ FrameTrue(f)'
  BY <1>1 DEF InitFrame, IsFrame, FrameTrue
<1> QED BY <1>1, <1>2, SentIsGood

LEMMA RespIsTrue ==
  ASSUME CountsTyped, Grows, NEW n \in Nodes, NEW p \in Nodes, NEW to \in Addresses,
         NEW e \in Ephs, Drawn(e)', NEW r \in Ephs, r[1] = n, Drawn(r)',
         NEW d, d = Datagram(Addr(n), to, RespFrame(n, p, e, r))
  PROVE  Good(d)'
<1>1. PICK f : f = RespFrame(n, p, e, r)
  OBVIOUS
<1>2. IsFrame(f) /\ f.src = n /\ f.kind # "PeerAddr" /\ FrameTrue(f)'
  BY <1>1 DEF RespFrame, IsFrame, FrameTrue
<1> QED BY <1>1, <1>2, SentIsGood

LEMMA KeepaliveIsTrue ==
  ASSUME CountsTyped, Grows, NEW n \in Nodes, NEW to \in Addresses,
         NEW d, d = Datagram(Addr(n), to, KeepaliveFrame(n))
  PROVE  Good(d)'
<1>1. PICK f : f = KeepaliveFrame(n)
  OBVIOUS
<1>2. IsFrame(f) /\ f.src = n /\ f.kind # "PeerAddr" /\ FrameTrue(f)'
  BY <1>1 DEF KeepaliveFrame, IsFrame, FrameTrue
<1> QED BY <1>1, <1>2, SentIsGood

LEMMA SealPlaced ==
  ASSUME Placed, NEW n \in Nodes, NEW p \in Peers(n), SealAndSend(n, p),
         UNCHANGED <<heard, reacting, port, learned, faults>>
  PROVE  Placed'
<1> DEFINE pkt == [key |-> st[n][p].session.key, src |-> n, ctr |-> st[n][p].session.sent]
           ps  == [st[n][p] EXCEPT !.session.sent = @ + 1]
           f   == DataFrame(n, p, pkt)
           ds  == {Datagram(Addr(n), Relay, f)}
<1>1. /\ p \in Nodes /\ p # n /\ st[n][p] \in PeerStates
      /\ st[n][p].session \in Sessions /\ st[n][p].session.sent < MaxData
      /\ st[n][p].direct \in Home(p) \cup {None}
      /\ st[n][p].candidate \in Home(p) \cup {None}
  BY PeerKnown DEF SealAndSend, Placed
<1>2. /\ SetPeer(n, p, ps) /\ sealed' = sealed (+) SetToBag({pkt})
      /\ Send(ds) /\ eph' = eph /\ handed' = handed
  BY DEF SealAndSend
<1>3. MaxData \in Nat
  BY TunnelAssumption
<1>4. pkt \in Packets
  BY <1>1, <1>3 DEF Packets, Sessions
<1>5. DOMAIN sealed' = DOMAIN sealed \cup {pkt}
  BY <1>2 DEF (+), SetToBag
<1>6. Grows /\ CountsTyped'
  BY <1>2, <1>5, StillGrows DEF Placed, Grows
<1>7. ps \in PeerStates
  BY <1>1, <1>3 DEF PeerStates, Sessions
<1>8. ps.direct = st[n][p].direct /\ ps.candidate = st[n][p].candidate
  BY <1>1 DEF PeerStates
<1>9. TablesTrue'
  <2>1. ps.direct \in Home(p)' \cup {None} /\ ps.candidate \in Home(p)' \cup {None}
    BY <1>1, <1>6, <1>8, PathIsHome DEF Placed
  <2> HIDE DEF ps
  <2> QED BY <1>1, <1>2, <1>6, <1>7, <2>1, TablesStay DEF Placed
<1>10. WireTrue'
  <2>1. Relay \in Addresses
    BY DEF Addresses
  <2>2. pkt.src = n /\ pkt \in DOMAIN sealed'
    BY <1>5
  <2>3. \A d \in ds : Good(d)'
    <3> HIDE DEF pkt
    <3> QED BY <1>1, <1>4, <1>6, <2>1, <2>2, DataIsTrue DEF Placed
  <2>4. HeardTyped' /\ UnderWay' \subseteq UnderWay \cup ds
    BY <1>2 DEF Placed, WireTrue, HeardTyped, UnderWay, Send, Wire
  <2> HIDE DEF ds
  <2> QED BY <1>6, <2>3, <2>4, WireStays DEF Placed
<1>11. PacketsTyped'
  BY <1>2, <1>4, <1>5 DEF Placed, PacketsTyped
<1> QED BY <1>6, <1>9, <1>10, <1>11, RelayStays DEF Placed, ReactingTyped

LEMMA InitiatePlaced ==
  ASSUME Placed, PendingUnused, NEW n \in Nodes, NEW p \in Peers(n), Initiate(n, p),
         UNCHANGED <<heard, reacting, port, learned, faults>>
  PROVE  Placed'
<1> DEFINE old == st[n][p]
<1>1. /\ p \in Nodes /\ p # n /\ old \in PeerStates
      /\ old.direct \in Home(p) \cup {None} /\ old.candidate \in Home(p) \cup {None}
  BY PeerKnown DEF Placed
<1>2. PICK e \in InitEphs(n, p), advertised \in Endpoints(p) :
        /\ Draw(n, e)
        /\ SetPeer(n, p, [old EXCEPT !.pending = InFlight(e),
                                     !.candidate = SeededCandidate(old, advertised)])
        /\ Send(Copies(Addr(n), HandshakePaths(old, advertised), InitFrame(n, p, e)))
  BY DEF Initiate
<1> DEFINE seed == SeededCandidate(old, advertised)
           ps   == [old EXCEPT !.pending = InFlight(e), !.candidate = seed]
           tos  == HandshakePaths(old, advertised)
           ds   == Copies(Addr(n), tos, InitFrame(n, p, e))
<1>3. sealed' = sealed /\ handed' = handed
  BY DEF Initiate, history
<1>4. /\ e \in Ephs /\ e[1] = n /\ Drawn(e)'
      /\ eph' \in [Nodes -> 0 .. MaxEph] /\ \A m \in Nodes : eph[m] <= eph'[m]
  BY <1>2, InitEphIsOwn DEF Placed
<1>5. Grows /\ CountsTyped'
  BY <1>3, <1>4, DrawGrows DEF Placed, Grows
<1>6. seed \in Home(p) \cup {None}
  BY <1>1, <1>2, EndpointIsHome DEF SeededCandidate
<1>7. seed \in Home(p)' \cup {None} /\ seed \in Addresses \cup {None}
      /\ old.direct \in Home(p)' \cup {None} /\ old.direct \in Addresses \cup {None}
  <2> HIDE DEF seed
  <2> QED BY <1>1, <1>5, <1>6, PathIsHome DEF Placed
<1>8. ps \in PeerStates /\ ps.direct = old.direct /\ ps.candidate = seed
  BY <1>1, <1>4, <1>7 DEF PeerStates, Pendings, InFlight
<1>9. TablesTrue'
  <2>1. SetPeer(n, p, ps)
    BY <1>2
  <2> HIDE DEF ps, seed, old
  <2> QED BY <1>1, <1>5, <1>7, <1>8, <2>1, TablesStay DEF Placed
<1>10. tos \subseteq Addresses
  <2>1. Relay \in Addresses
    BY DEF Addresses
  <2> QED BY <1>7, <2>1 DEF HandshakePaths
<1>11. WireTrue'
  <2>1. \A d \in ds : Good(d)'
    <3>1. \A d \in ds : \E to \in tos : d = Datagram(Addr(n), to, InitFrame(n, p, e))
      BY DEF Copies
    <3> HIDE DEF ds, tos
    <3> QED BY <1>1, <1>4, <1>5, <1>10, <3>1, InitIsTrue DEF Placed
  <2>2. HeardTyped' /\ UnderWay' \subseteq UnderWay \cup ds
    BY <1>2 DEF Placed, WireTrue, HeardTyped, UnderWay, Send, Wire
  <2> HIDE DEF ds
  <2> QED BY <1>5, <2>1, <2>2, WireStays DEF Placed
<1> QED BY <1>3, <1>5, <1>9, <1>11, RelayStays DEF Placed, ReactingTyped, PacketsTyped

LEMMA HearPlaced ==
  ASSUME Placed, NEW n \in Nodes, NEW d \in net, Hear(n, d)
  PROVE  Placed'
<1> DEFINE p  == d.frame.src
           ps == [st[n][p] EXCEPT !.direct = d.from]
<1>1. Good(d) /\ d \in UnderWay
  BY DEF Placed, WireTrue, UnderWay
<1>2. /\ p \in Peers(n) /\ SetPeer(n, p, ps) /\ heard' = [heard EXCEPT ![n] = d]
      /\ net' \subseteq net /\ d.from # Relay
      /\ UNCHANGED <<reacting, port, eph, learned, faults, sealed, handed>>
  BY DEF Hear, Straight, Exchange, Wire, history
<1>3. /\ p \in Nodes /\ st[n][p] \in PeerStates /\ st[n][p].candidate \in Home(p) \cup {None}
  BY <1>2, PeerKnown DEF Placed
<1>4. Grows /\ CountsTyped'
  BY <1>2, StillGrows DEF Placed, Grows
<1>5. d.from \in Home(p) /\ d.from \in Addresses
  BY <1>1, <1>2 DEF Good
<1>6. /\ ps \in PeerStates /\ ps.direct = d.from /\ ps.candidate = st[n][p].candidate
  BY <1>3, <1>5 DEF PeerStates
<1>7. TablesTrue'
  <2>1. ps.direct \in Home(p)' \cup {None} /\ ps.candidate \in Home(p)' \cup {None}
    BY <1>3, <1>4, <1>5, <1>6, PathIsHome DEF Placed
  <2> HIDE DEF ps, p
  <2> QED BY <1>2, <1>3, <1>4, <1>6, <2>1, TablesStay DEF Placed
<1>8. WireTrue'
  <2>1. HeardTyped' /\ UnderWay' \subseteq UnderWay
    BY <1>1, <1>2 DEF Placed, WireTrue, HeardTyped, UnderWay
  <2> QED BY <1>4, <2>1, WireShrinks DEF Placed
<1> QED BY <1>2, <1>4, <1>7, <1>8, RelayStays DEF Placed, ReactingTyped, PacketsTyped

\* A frame is used up, and nothing else happens.
UsedUp(n, d) == /\ \E kind : Handles(n, d, kind)
                /\ Answer(n, d, {})
                /\ UNCHANGED <<st, reacting, eph, handed>>

LEMMA NothingDone ==
  ASSUME NEW n, NEW d, RecvKeepalive(n, d) \/ DropInit(n, d)
  PROVE  UsedUp(n, d) /\ UNCHANGED <<port, learned, faults, sealed>>
BY DEF RecvKeepalive, DropInit, UsedUp, Handles

LEMMA UsedUpPlaced ==
  ASSUME Placed, NEW n \in Nodes, NEW d \in UnderWay, RecvKeepalive(n, d) \/ DropInit(n, d)
  PROVE  Placed'
<1>1. PICK kind :
        /\ Handles(n, d, kind) /\ Answer(n, d, {})
        /\ UNCHANGED <<st, reacting, port, eph, learned, faults, sealed, handed>>
  BY NothingDone DEF UsedUp
<1>2. Grows /\ CountsTyped'
  BY <1>1, StillGrows DEF Placed, Grows
<1>3. WireTrue'
  <2>1. HeardTyped' /\ UnderWay' \subseteq UnderWay
    BY <1>1, Received DEF Placed
  <2> QED BY <1>2, <2>1, WireShrinks DEF Placed
<1>4. TablesTrue'
  BY <1>1, <1>2, HomeGrows DEF Placed, TablesTrue, Peers
<1> QED BY <1>1, <1>2, <1>3, <1>4, RelayStays DEF Placed, ReactingTyped, PacketsTyped

LEMMA RecvPeerAddrPlaced ==
  ASSUME Placed, NEW n \in Nodes, NEW d \in UnderWay, RecvPeerAddr(n, d)
  PROVE  Placed'
<1> DEFINE p    == d.frame.src
           old  == st[n][p]
           hint == IF old.direct = None THEN d.frame.addr ELSE old.candidate
           ps   == [old EXCEPT !.candidate = hint]
           ds   == {Datagram(Addr(n), d.frame.addr, KeepaliveFrame(n))}
<1>1. /\ Handles(n, d, "PeerAddr") /\ SetPeer(n, p, ps) /\ Answer(n, d, ds)
      /\ UNCHANGED <<reacting, port, eph, learned, faults, sealed, handed>>
  <2>1. /\ Handles(n, d, "PeerAddr") /\ Answer(n, d, ds)
        /\ SetPeer(n, p, [old EXCEPT !.candidate = IF old.direct = None THEN d.frame.addr ELSE @])
        /\ UNCHANGED <<reacting, eph, handed>>
    BY DEF RecvPeerAddr
  <2>2. [old EXCEPT !.candidate = IF old.direct = None THEN d.frame.addr ELSE @] = ps
    OBVIOUS
  <2> QED BY <2>1, <2>2 DEF Handles
<1>2. Grows /\ CountsTyped'
  BY <1>1, StillGrows DEF Placed, Grows
<1>3. /\ Good(d) /\ p \in Peers(n) /\ d.frame.kind = "PeerAddr"
      /\ HeardTyped' /\ UnderWay' \subseteq UnderWay \cup ds
  <2> HIDE DEF ds
  <2> QED BY <1>1, Received DEF Placed
<1>4. d.frame.addr \in Home(p) /\ d.frame.addr \in Addresses
  BY <1>3 DEF Good, FrameTrue, IsFrame
<1>5. /\ p \in Nodes /\ old \in PeerStates
      /\ old.direct \in Home(p) \cup {None} /\ old.candidate \in Home(p) \cup {None}
  BY <1>3, PeerKnown DEF Placed
<1>6. hint \in Home(p) \cup {None}
  BY <1>4, <1>5
<1>7. hint \in Addresses \cup {None} /\ hint \in Home(p)' \cup {None}
      /\ old.direct \in Home(p)' \cup {None}
  <2> HIDE DEF hint, old, p
  <2> QED BY <1>2, <1>5, <1>6, PathIsHome DEF Placed
<1>8. ps \in PeerStates /\ ps.direct = old.direct /\ ps.candidate = hint
  BY <1>5, <1>7 DEF PeerStates
<1>9. TablesTrue'
  <2> HIDE DEF ps, hint, old, p
  <2> QED BY <1>1, <1>2, <1>5, <1>7, <1>8, TablesStay DEF Placed
<1>10. WireTrue'
  <2>1. \A x \in ds : Good(x)'
    BY <1>2, <1>4, KeepaliveIsTrue DEF Placed
  <2> HIDE DEF ds
  <2> QED BY <1>2, <1>3, <2>1, WireStays DEF Placed
<1> QED BY <1>1, <1>2, <1>9, <1>10, RelayStays DEF Placed, ReactingTyped, PacketsTyped

LEMMA AcceptInitPlaced ==
  ASSUME Placed, NEW n \in Nodes, NEW d \in UnderWay, AcceptInit(n, d)
  PROVE  Placed'
<1> DEFINE p == d.frame.src
           r == NextEph(n)
           e == d.frame.eph
<1>1. PICK new : new = NextEph(n)
  OBVIOUS
<1> DEFINE ps == [st[n][p] EXCEPT !.session = NewSession(<<e, new>>), !.pending = None]
           ds == {Datagram(Addr(n), d.from, RespFrame(n, p, e, new))}
<1>2. /\ Handles(n, d, "HandshakeInit") /\ CanDraw(n) /\ Draw(n, new)
      /\ SetPeer(n, p, ps) /\ Answer(n, d, ds)
      /\ UNCHANGED <<reacting, port, learned, faults, sealed, handed>>
  BY <1>1 DEF AcceptInit, Handles, Accept
<1>3. /\ new \in Ephs /\ new[1] = n /\ Drawn(new)'
      /\ eph' \in [Nodes -> 0 .. MaxEph] /\ \A m \in Nodes : eph[m] <= eph'[m]
  BY <1>1, <1>2, NextEphIsNew DEF Placed
<1>4. Grows /\ CountsTyped'
  BY <1>2, <1>3, DrawGrows DEF Placed, Grows
<1>5. /\ Good(d) /\ p \in Peers(n) /\ d.frame.kind = "HandshakeInit"
      /\ HeardTyped' /\ UnderWay' \subseteq UnderWay \cup ds
  <2> HIDE DEF ds
  <2> QED BY <1>2, Received DEF Placed
<1>6. d.from \in Addresses /\ Drawn(e) /\ e \in Ephs
  BY <1>5 DEF Good, FrameTrue, Drawn
<1>7. /\ p \in Nodes /\ st[n][p] \in PeerStates
      /\ st[n][p].direct \in Home(p)' \cup {None} /\ st[n][p].candidate \in Home(p)' \cup {None}
  BY <1>4, <1>5, PeerKnown, PathIsHome DEF Placed
<1>8. NewSession(<<e, new>>) \in Sessions
  <2>1. MaxData \in Nat
    BY TunnelAssumption
  <2> QED BY <1>3, <1>6, <2>1 DEF NewSession, Sessions, Keys
<1>9. /\ ps \in PeerStates /\ ps.direct = st[n][p].direct /\ ps.candidate = st[n][p].candidate
  BY <1>7, <1>8 DEF PeerStates
<1>10. TablesTrue'
  <2> HIDE DEF ps, p
  <2> QED BY <1>2, <1>4, <1>7, <1>9, TablesStay DEF Placed
<1>11. WireTrue'
  <2>1. Drawn(e)'
    BY <1>4, <1>6, DrawnStays DEF Placed
  <2>2. \A x \in ds : Good(x)'
    BY <1>3, <1>4, <1>6, <1>7, <2>1, RespIsTrue DEF Placed
  <2> HIDE DEF ds
  <2> QED BY <1>4, <1>5, <2>2, WireStays DEF Placed
<1> QED BY <1>2, <1>4, <1>10, <1>11, RelayStays DEF Placed, ReactingTyped, PacketsTyped

LEMMA RecvHandshakeRespPlaced ==
  ASSUME Placed, NEW n \in Nodes, NEW d \in UnderWay, RecvHandshakeResp(n, d)
  PROVE  Placed'
<1> DEFINE p  == d.frame.src
           ps == Finish(st[n][p], d.frame)
<1>1. /\ Handles(n, d, "HandshakeResp") /\ SetPeer(n, p, ps) /\ Answer(n, d, {})
      /\ UNCHANGED <<reacting, port, eph, learned, faults, sealed, handed>>
  BY DEF RecvHandshakeResp, Handles
<1>2. Grows /\ CountsTyped'
  BY <1>1, StillGrows DEF Placed, Grows
<1>3. /\ Good(d) /\ p \in Peers(n) /\ d.frame.kind = "HandshakeResp"
      /\ HeardTyped' /\ UnderWay' \subseteq UnderWay
  BY <1>1, Received DEF Placed
<1>4. d.frame.eph \in Ephs /\ d.frame.reph \in Ephs
  BY <1>3 DEF Good, FrameTrue, Drawn
<1>5. /\ p \in Nodes /\ st[n][p] \in PeerStates
      /\ st[n][p].direct \in Home(p)' \cup {None} /\ st[n][p].candidate \in Home(p)' \cup {None}
  BY <1>2, <1>3, PeerKnown, PathIsHome DEF Placed
<1>6. NewSession(<<d.frame.eph, d.frame.reph>>) \in Sessions
  <2>1. MaxData \in Nat
    BY TunnelAssumption
  <2> QED BY <1>4, <2>1 DEF NewSession, Sessions, Keys
<1>7. /\ ps \in PeerStates /\ ps.direct = st[n][p].direct /\ ps.candidate = st[n][p].candidate
  BY <1>5, <1>6 DEF PeerStates, Finish
<1>8. TablesTrue'
  <2> HIDE DEF ps, p
  <2> QED BY <1>1, <1>2, <1>5, <1>7, TablesStay DEF Placed
<1>9. WireTrue'
  BY <1>2, <1>3, WireShrinks DEF Placed
<1> QED BY <1>1, <1>2, <1>8, <1>9, RelayStays DEF Placed, ReactingTyped, PacketsTyped

LEMMA RecvDataPlaced ==
  ASSUME Placed, NEW n \in Nodes, NEW d \in UnderWay, RecvData(n, d)
  PROVE  Placed'
<1> DEFINE p   == d.frame.src
           pkt == d.frame.packet
<1>1. /\ Handles(n, d, "Data") /\ Answer(n, d, {})
      /\ UNCHANGED <<port, eph, learned, faults, sealed>>
  BY DEF RecvData, Handles
<1>2. /\ Good(d) /\ p \in Peers(n) /\ d.frame.kind = "Data"
      /\ HeardTyped' /\ UnderWay' \subseteq UnderWay
  BY <1>1, Received DEF Placed
<1>3. pkt \in DOMAIN sealed /\ pkt \in Packets
  BY <1>2 DEF Good, FrameTrue, Placed, PacketsTyped
<1>4. Grows /\ CountsTyped'
  BY <1>1, StillGrows DEF Placed, Grows
<1>5. RelayTrue' /\ WireTrue'
  BY <1>1, <1>2, <1>4, WireShrinks, RelayStays DEF Placed
<1>6. /\ p \in Nodes /\ p # n /\ st[n][p] \in PeerStates
      /\ st[n][p].session \in Sessions \cup {None}
      /\ st[n][p].direct \in Home(p)' \cup {None} /\ st[n][p].candidate \in Home(p)' \cup {None}
  BY <1>2, <1>4, PeerKnown, PathIsHome DEF Placed
<1>7. CASE /\ Decrypts(st[n][p].session, pkt)
           /\ SetPeer(n, p, [st[n][p] EXCEPT !.session.seen = @ \cup {pkt.ctr}])
           /\ handed' = handed (+) SetToBag({pkt})
           /\ UNCHANGED reacting
  <2> DEFINE ps == [st[n][p] EXCEPT !.session.seen = @ \cup {pkt.ctr}]
  <2>1. st[n][p].session \in Sessions
    BY <1>6, <1>7 DEF Decrypts
  <2>2. pkt.ctr \in 0 .. MaxData - 1
    BY <1>3 DEF Packets
  <2>3. /\ ps \in PeerStates /\ ps.direct = st[n][p].direct
        /\ ps.candidate = st[n][p].candidate
    BY <1>6, <2>1, <2>2 DEF PeerStates, Sessions
  <2>4. TablesTrue'
    <3>1. SetPeer(n, p, ps)
      BY <1>7
    <3> HIDE DEF ps, p
    <3> QED BY <1>4, <1>6, <2>3, <3>1, TablesStay DEF Placed
  <2>5. PacketsTyped'
    <3>1. DOMAIN handed' = DOMAIN handed \cup {pkt}
      BY <1>7 DEF (+), SetToBag
    <3> QED BY <1>1, <1>3, <3>1 DEF Placed, PacketsTyped
  <2> QED BY <1>4, <1>5, <1>7, <2>4, <2>5 DEF Placed, ReactingTyped
<1>8. CASE /\ reacting' = [reacting EXCEPT ![n] = [peer |-> p, from |-> d.from]]
           /\ UNCHANGED <<st, handed>>
  <2>1. TablesTrue'
    BY <1>4, <1>8, HomeGrows DEF Placed, TablesTrue, Peers
  <2>2. ReactingTyped'
    <3>1. d.from \in Addresses
      BY <1>2 DEF Good
    <3> QED BY <1>6, <1>8, <3>1 DEF Placed, ReactingTyped
  <2> QED BY <1>1, <1>4, <1>5, <1>8, <2>1, <2>2 DEF Placed, PacketsTyped
<1> QED BY <1>7, <1>8 DEF RecvData

LEMMA ReactPlaced ==
  ASSUME Placed, PendingUnused, NEW n \in Nodes, React(n)
  PROVE  Placed'
<1>1. /\ reacting[n] # None /\ reacting' = [reacting EXCEPT ![n] = None]
      /\ UNCHANGED <<heard, port, learned, faults, sealed, handed>>
  BY DEF React, history
<1>0. PICK p : p = reacting[n].peer
  OBVIOUS
<1>2. reacting[n].from \in Addresses /\ p \in Peers(n)
  BY <1>0, <1>1 DEF Placed, ReactingTyped, Peers
<1>3. ReactingTyped'
  BY <1>1 DEF Placed, ReactingTyped
<1>4. CASE \E e \in InitEphs(n, p) :
             /\ Draw(n, e)
             /\ SetPeer(n, p, [st[n][p] EXCEPT !.session = None, !.pending = InFlight(e)])
             /\ Send(Copies(Addr(n), {Relay, reacting[n].from}, InitFrame(n, p, e)))
  <2>1. PICK e \in InitEphs(n, p) :
             /\ Draw(n, e)
             /\ SetPeer(n, p, [st[n][p] EXCEPT !.session = None, !.pending = InFlight(e)])
             /\ Send(Copies(Addr(n), {Relay, reacting[n].from}, InitFrame(n, p, e)))
    BY <1>4
  <2> DEFINE ps  == [st[n][p] EXCEPT !.session = None, !.pending = InFlight(e)]
             tos == {Relay, reacting[n].from}
             ds  == Copies(Addr(n), tos, InitFrame(n, p, e))
  <2>2. /\ e \in Ephs /\ e[1] = n /\ Drawn(e)'
        /\ eph' \in [Nodes -> 0 .. MaxEph] /\ \A m \in Nodes : eph[m] <= eph'[m]
    BY <1>2, <2>1, InitEphIsOwn DEF Placed
  <2>3. Grows /\ CountsTyped'
    BY <1>1, <2>2, DrawGrows DEF Placed, Grows
  <2>4. /\ p \in Nodes /\ st[n][p] \in PeerStates
        /\ st[n][p].direct \in Home(p)' \cup {None} /\ st[n][p].candidate \in Home(p)' \cup {None}
    BY <1>2, <2>3, PeerKnown, PathIsHome DEF Placed
  <2>5. ps \in PeerStates /\ ps.direct = st[n][p].direct /\ ps.candidate = st[n][p].candidate
    BY <2>2, <2>4 DEF PeerStates, Pendings, InFlight
  <2>6. TablesTrue'
    <3>1. SetPeer(n, p, ps)
      BY <2>1
    <3> HIDE DEF ps
    <3> QED BY <2>3, <2>4, <2>5, <3>1, TablesStay DEF Placed
  <2>7. WireTrue'
    <3>1. tos \subseteq Addresses
      BY <1>2 DEF Addresses
    <3>2. \A d \in ds : \E to \in tos : d = Datagram(Addr(n), to, InitFrame(n, p, e))
      BY DEF Copies
    <3>3. \A d \in ds : Good(d)'
      <4> HIDE DEF ds, tos
      <4> QED BY <2>2, <2>3, <2>4, <3>1, <3>2, InitIsTrue DEF Placed
    <3>4. HeardTyped' /\ UnderWay' \subseteq UnderWay \cup ds
      BY <1>1, <2>1 DEF Placed, WireTrue, HeardTyped, UnderWay, Send, Wire
    <3> HIDE DEF ds
    <3> QED BY <2>3, <3>3, <3>4, WireStays DEF Placed
  <2> QED BY <1>1, <1>3, <2>3, <2>6, <2>7, RelayStays DEF Placed, PacketsTyped
<1>5. CASE UNCHANGED <<st, eph, net>>
  <2>1. Grows /\ CountsTyped'
    BY <1>1, <1>5, StillGrows DEF Placed, Grows
  <2>2. TablesTrue'
    BY <1>5, <2>1, HomeGrows DEF Placed, TablesTrue, Peers
  <2>3. WireTrue'
    <3>1. HeardTyped' /\ UnderWay' \subseteq UnderWay
      BY <1>1, <1>5 DEF Placed, WireTrue, HeardTyped, UnderWay
    <3> QED BY <2>1, <3>1, WireShrinks DEF Placed
  <2> QED BY <1>1, <1>3, <2>1, <2>2, <2>3, RelayStays DEF Placed, PacketsTyped
<1> QED BY <1>0, <1>4, <1>5 DEF React

LEMMA KeepalivePlaced ==
  ASSUME Placed, NEW n \in Nodes, KeepaliveTick(n)
  PROVE  Placed'
<1>1. PICK endpoint \in [Peers(n) -> Addresses \cup {None}] :
        /\ \A p \in Peers(n) : endpoint[p] \in Endpoints(p)
        /\ st' = [st EXCEPT ![n] = [p \in Nodes |->
                   IF p # n /\ @[p].direct = None /\ endpoint[p] # None
                   THEN [@[p] EXCEPT !.candidate = endpoint[p]] ELSE @[p]]]
        /\ Send(Copies(Addr(n),
                       {Relay} \cup ({IF ps.direct # None THEN ps.direct ELSE ps.candidate :
                                        ps \in {st'[n][p] : p \in Peers(n)}} \ {None}),
                       KeepaliveFrame(n)))
        /\ UNCHANGED <<heard, reacting, port, eph, learned, faults, history>>
  BY DEF KeepaliveTick
<1>2. Grows /\ CountsTyped'
  BY <1>1, StillGrows DEF Placed, Grows, history
<1>3. \A m, p \in Nodes : m # n \/ p = n => st'[m][p] = st[m][p]
  BY <1>1 DEF Placed, TablesTrue
<1>4. \A p \in Peers(n) : \/ st'[n][p] = st[n][p]
                          \/ st'[n][p] = [st[n][p] EXCEPT !.candidate = endpoint[p]]
  BY <1>1 DEF Placed, TablesTrue, Peers
<1>5. ASSUME NEW p \in Peers(n)
      PROVE  /\ st'[n][p] \in PeerStates
             /\ st'[n][p].direct \in Home(p)' \cup {None}
             /\ st'[n][p].candidate \in Home(p)' \cup {None}
  <2>1. /\ p \in Nodes /\ st[n][p] \in PeerStates
        /\ st[n][p].direct \in Home(p)' \cup {None} /\ st[n][p].candidate \in Home(p)' \cup {None}
    BY <1>2, PeerKnown, PathIsHome DEF Placed
  <2>2. endpoint[p] \in Home(p)' \cup {None} /\ endpoint[p] \in Addresses \cup {None}
    BY <1>1, <1>2, <2>1, EndpointIsHome, PathIsHome DEF Placed
  <2> QED BY <1>4, <2>1, <2>2 DEF PeerStates
<1>6. TablesTrue'
  <2>1. st' \in [Nodes -> [Nodes -> PeerStates]]
    <3>1. \A p \in Nodes : st'[n][p] \in PeerStates
      BY <1>3, <1>5 DEF Peers, Placed, TablesTrue
    <3>2. st' = [m \in Nodes |-> st'[m]] /\ st'[n] = [p \in Nodes |-> st'[n][p]]
      BY <1>1 DEF Placed, TablesTrue
    <3>3. \A m \in Nodes : m # n => st'[m] = st[m]
      BY <1>1 DEF Placed, TablesTrue
    <3>4. st'[n] \in [Nodes -> PeerStates]
      BY <3>1, <3>2
    <3> QED BY <3>2, <3>3, <3>4 DEF Placed, TablesTrue
  <2>2. ASSUME NEW m \in Nodes, NEW p \in Peers(m), m # n
        PROVE  /\ st'[m][p].direct \in Home(p)' \cup {None}
               /\ st'[m][p].candidate \in Home(p)' \cup {None}
    <3>1. p \in Nodes /\ st'[m][p] = st[m][p]
      BY <1>3, <2>2 DEF Peers
    <3> QED BY <1>2, <3>1, PeerKnown, PathIsHome DEF Placed
  <2> QED BY <1>5, <2>1, <2>2 DEF TablesTrue
<1> DEFINE tos == {Relay} \cup ({IF ps.direct # None THEN ps.direct ELSE ps.candidate :
                                        ps \in {st'[n][p] : p \in Peers(n)}} \ {None})
           ds  == Copies(Addr(n), tos, KeepaliveFrame(n))
<1>7. tos \subseteq Addresses
  BY <1>5 DEF PeerStates, Addresses
<1>8. WireTrue'
  <2>1. \A d \in ds : \E to \in tos : d = Datagram(Addr(n), to, KeepaliveFrame(n))
    BY DEF Copies
  <2>2. HeardTyped' /\ UnderWay' \subseteq UnderWay \cup ds
    BY <1>1 DEF Placed, WireTrue, HeardTyped, UnderWay, Send, Wire
  <2>3. \A d \in ds : Good(d)'
    <3> HIDE DEF ds, tos
    <3> QED BY <1>2, <1>7, <2>1, KeepaliveIsTrue DEF Placed
  <2> HIDE DEF ds
  <2> QED BY <1>2, <2>2, <2>3, WireStays DEF Placed
<1> QED BY <1>1, <1>2, <1>6, <1>8, RelayStays DEF Placed, ReactingTyped, PacketsTyped, history

LEMMA ExpirePlaced ==
  ASSUME Placed, NEW n \in Nodes, NEW p \in Peers(n), Expire(n, p)
  PROVE  Placed'
<1> DEFINE ps == [st[n][p] EXCEPT !.pending.expired = TRUE]
<1>1. /\ st[n][p].pending # None /\ SetPeer(n, p, ps)
      /\ UNCHANGED <<heard, reacting, port, eph, learned, net, faults, sealed, handed>>
  BY DEF Expire, history
<1>2. Grows /\ CountsTyped'
  BY <1>1, StillGrows DEF Placed, Grows
<1>3. /\ p \in Nodes /\ st[n][p] \in PeerStates /\ st[n][p].pending \in Pendings
      /\ st[n][p].direct \in Home(p)' \cup {None} /\ st[n][p].candidate \in Home(p)' \cup {None}
  BY <1>1, <1>2, PeerKnown, PathIsHome DEF Placed
<1>4. /\ ps \in PeerStates /\ ps.direct = st[n][p].direct /\ ps.candidate = st[n][p].candidate
  BY <1>3 DEF PeerStates, Pendings
<1>5. TablesTrue'
  <2> HIDE DEF ps
  <2> QED BY <1>1, <1>2, <1>3, <1>4, TablesStay DEF Placed
<1>6. HeardTyped' /\ UnderWay' \subseteq UnderWay
  BY <1>1 DEF Placed, WireTrue, HeardTyped, UnderWay
<1> QED BY <1>1, <1>2, <1>5, <1>6, WireShrinks, RelayStays
        DEF Placed, ReactingTyped, PacketsTyped

LEMMA RestartPlaced ==
  ASSUME Placed, NEW n \in Nodes, Restart(n)
  PROVE  Placed'
<1>1. /\ port[n] < MaxRestart /\ port' = [port EXCEPT ![n] = @ + 1]
      /\ st' = [st EXCEPT ![n] = [p \in Nodes |-> Fresh]]
      /\ heard' = [heard EXCEPT ![n] = None] /\ reacting' = [reacting EXCEPT ![n] = None]
      /\ net' \subseteq net
      /\ UNCHANGED <<eph, learned, faults, sealed, handed>>
  BY DEF Restart, history
<1>2. Grows /\ CountsTyped'
  <2>1. MaxRestart \in Nat /\ port \in [Nodes -> 0 .. MaxRestart]
    BY TunnelAssumption DEF Placed, CountsTyped, Ports
  <2>2. port' \in [Nodes -> 0 .. MaxRestart] /\ \A m \in Nodes : port[m] <= port'[m]
    BY <1>1, <2>1
  <2>3. \A m \in Nodes : eph[m] <= eph[m]
    BY DEF Placed, CountsTyped
  <2> QED BY <1>1, <2>2, <2>3 DEF Placed, Grows, CountsTyped, Ports
<1>3. TablesTrue'
  <2>1. Fresh \in PeerStates /\ Fresh.direct = None /\ Fresh.candidate = None
    BY DEF Fresh, PeerStates
  <2>2. /\ st' \in [Nodes -> [Nodes -> PeerStates]]
        /\ \A m, p \in Nodes : st'[m][p] = IF m = n THEN Fresh ELSE st[m][p]
    <3> HIDE DEF Fresh
    <3> QED BY <1>1, <2>1 DEF Placed, TablesTrue
  <2>3. ASSUME NEW m \in Nodes, NEW p \in Peers(m)
        PROVE  /\ st'[m][p].direct \in Home(p)' \cup {None}
               /\ st'[m][p].candidate \in Home(p)' \cup {None}
    <3>1. /\ p \in Nodes /\ st[m][p].direct \in Home(p)' \cup {None}
          /\ st[m][p].candidate \in Home(p)' \cup {None}
      BY <1>2, PeerKnown, PathIsHome DEF Placed
    <3>2. st'[m][p] = IF m = n THEN Fresh ELSE st[m][p]
      BY <2>2, <3>1
    <3> QED BY <2>1, <3>1, <3>2
  <2> QED BY <2>2, <2>3 DEF TablesTrue
<1>4. HeardTyped' /\ UnderWay' \subseteq UnderWay
  <2>1. HeardTyped' /\ \A m \in Nodes : heard'[m] \in {None, heard[m]}
    BY <1>1 DEF Placed, WireTrue, HeardTyped
  <2> QED BY <1>1, <2>1 DEF UnderWay
<1>5. ReactingTyped'
  BY <1>1 DEF Placed, ReactingTyped
<1> QED BY <1>1, <1>2, <1>3, <1>4, <1>5, WireShrinks, RelayStays DEF Placed, PacketsTyped

LEMMA LosePlaced ==
  ASSUME Placed, NEW d \in net, Lose(d)
  PROVE  Placed'
<1>1. /\ faults' = faults + 1 /\ faults < MaxFaults /\ net' \subseteq net
      /\ UNCHANGED <<st, heard, reacting, port, eph, learned, sealed, handed>>
  BY DEF Lose, history
<1>2. Grows /\ CountsTyped'
  <2>1. MaxFaults \in Nat /\ MaxRestart \in Nat /\ MaxEph \in Nat
    BY TunnelAssumption
  <2> QED BY <1>1, <2>1 DEF Placed, CountsTyped, Grows, Ports
<1>3. HeardTyped' /\ UnderWay' \subseteq UnderWay
  BY <1>1 DEF Placed, WireTrue, HeardTyped, UnderWay
<1>4. TablesTrue'
  BY <1>1, <1>2, HomeGrows DEF Placed, TablesTrue, Peers
<1> QED BY <1>1, <1>2, <1>3, <1>4, WireShrinks, RelayStays
        DEF Placed, ReactingTyped, PacketsTyped

LEMMA RelayRestartPlaced ==
  ASSUME Placed, RelayRestart
  PROVE  Placed'
<1>1. /\ faults' = faults + 1 /\ faults < MaxFaults /\ learned' = [n \in Nodes |-> None]
      /\ UNCHANGED <<st, heard, reacting, port, eph, net, sealed, handed>>
  BY DEF RelayRestart, history
<1>2. Grows /\ CountsTyped'
  <2>1. MaxFaults \in Nat /\ MaxRestart \in Nat /\ MaxEph \in Nat
    BY TunnelAssumption
  <2> QED BY <1>1, <2>1 DEF Placed, CountsTyped, Grows, Ports
<1>3. HeardTyped' /\ UnderWay' \subseteq UnderWay
  BY <1>1 DEF Placed, WireTrue, HeardTyped, UnderWay
<1>4. TablesTrue'
  BY <1>1, <1>2, HomeGrows DEF Placed, TablesTrue, Peers
<1>5. RelayTrue'
  BY <1>1 DEF RelayTrue
<1> QED BY <1>1, <1>2, <1>3, <1>4, <1>5, WireShrinks DEF Placed, ReactingTyped, PacketsTyped

\* What the relay forwards stays true, and so are its hints.
LEMMA ForwardPlaced ==
  ASSUME Placed, NEW d \in net, Forward(d)
  PROVE  Placed'
<1> DEFINE f  == d.frame
<1>1. /\ d.to = Relay /\ Learn(d)
      /\ UNCHANGED <<st, heard, reacting, port, eph, faults, sealed, handed>>
  BY DEF Forward, history
<1>2. Grows /\ CountsTyped'
  BY <1>1, StillGrows DEF Placed, Grows
<1>3. /\ Good(d) /\ f.src \in Nodes /\ d.from \in Home(f.src) /\ d.from \in Addresses
      /\ f.kind # "PeerAddr" /\ IsFrame(f)
  BY <1>1 DEF Placed, WireTrue, UnderWay, Good, IsFrame
<1>4. RelayTrue'
  <2>1. learned' \in [Nodes -> Addresses \cup {None}]
    BY <1>1, <1>3 DEF Learn, Placed, RelayTrue
  <2>2. \A p \in Nodes : learned'[p] \in {learned[p]} \/ (p = f.src /\ learned'[p] = d.from)
    BY <1>1, <1>3 DEF Learn, Placed, RelayTrue
  <2>3. \A p \in Nodes : learned'[p] \in Home(p) \cup {None}
    BY <1>3, <2>2 DEF Placed, RelayTrue
  <2> QED BY <1>2, <2>1, <2>3, HomeGrows DEF Placed, RelayTrue
<1>5. PICK to : to = IF f.kind = "Keepalive" THEN None ELSE learned'[f.dest]
  OBVIOUS
<1> DEFINE ds == IF to = None THEN {} ELSE {Datagram(Relay, to, f)} \cup Hints(d, to)
<1>6. Exchange(d, ds)
  BY <1>5 DEF Forward
<1>7. \A x \in ds : Good(x)'
  <2> SUFFICES ASSUME NEW x, x \in ds PROVE Good(x)'
    OBVIOUS
  <2>1. /\ to # None /\ f.kind # "Keepalive" /\ f.dest \in Nodes
    BY <1>3, <1>5 DEF IsFrame
  <2>2. /\ to \in Home(f.dest)' /\ to \in Addresses
    BY <1>4, <1>5, <2>1 DEF RelayTrue
  <2>3. /\ Relay \notin Home(f.dest)' /\ Relay \in Addresses
    <3>1. Home(f.dest)' = {<<f.dest, k>> : k \in 0 .. port[f.dest]}
      BY <1>1 DEF Home
    <3> QED BY <2>1, <3>1, HomeIsAddress DEF Placed, Home, Addresses
  <2>4. CASE x = Datagram(Relay, to, f)
    <3>1. FrameTrue(f)'
      BY <1>2, <1>3, GoodStays DEF Placed, Good
    <3> QED BY <1>3, <2>2, <2>3, <2>4, <3>1 DEF Datagram, Good
  <2>5. CASE /\ f.kind \in {"HandshakeInit", "HandshakeResp"}
             /\ x = Datagram(Relay, to, HintFrame(f.src, f.dest, d.from))
    <3>1. d.from \in Home(f.src)'
      BY <1>2, <1>3, HomeGrows DEF Placed
    <3> QED BY <1>3, <2>1, <2>2, <2>3, <2>5, <3>1 DEF Datagram, Good, HintFrame, IsFrame, FrameTrue
  <2>6. CASE /\ f.kind \in {"HandshakeInit", "HandshakeResp"}
             /\ x = Datagram(Relay, d.from, HintFrame(f.dest, f.src, to))
    <3>1. d.from # Relay
      BY <1>3, HomeIsAddress DEF Placed
    <3> QED BY <1>3, <2>1, <2>2, <2>3, <2>6, <3>1 DEF Datagram, Good, HintFrame, IsFrame, FrameTrue
  <2> QED BY <2>1, <2>4, <2>5, <2>6 DEF Hints
<1>8. HeardTyped' /\ UnderWay' \subseteq UnderWay \cup ds
  BY <1>1, <1>6 DEF Placed, WireTrue, HeardTyped, UnderWay, Exchange, Wire
<1>9. WireTrue'
  <2> HIDE DEF ds
  <2> QED BY <1>2, <1>7, <1>8, WireStays DEF Placed
<1>10. TablesTrue'
  BY <1>1, <1>2, HomeGrows DEF Placed, TablesTrue, Peers
<1> QED BY <1>1, <1>2, <1>4, <1>9, <1>10 DEF Placed, ReactingTyped, PacketsTyped

LEMMA StutterPlaced ==
  ASSUME Placed, UNCHANGED vars
  PROVE  Placed'
<1> USE DEF vars, history
<1>1. \A d \in UnderWay : Good(d) => Good(d)'
  BY DEF Good, FrameTrue, Home, Drawn
<1>2. WireTrue'
  BY <1>1 DEF Placed, WireTrue, HeardTyped, UnderWay
<1> QED BY <1>2 DEF Placed, TablesTrue, RelayTrue, Home, ReactingTyped, CountsTyped, PacketsTyped

LEMMA PlacedStays == ASSUME Placed, PendingUnused, [Next]_vars PROVE Placed'
<1>1. ASSUME NEW n \in Nodes, Node(n) PROVE Placed'
  <2>1. CASE \E p \in Peers(n) : TunPacket(n, p)
    BY <2>1, SealPlaced, InitiatePlaced DEF TunPacket
  <2>2. CASE \E p \in Peers(n) : Expire(n, p)
    BY <2>2, ExpirePlaced
  <2>3. CASE \E d \in net : Hear(n, d)
    BY <2>3, HearPlaced
  <2>4. CASE \E d \in UnderWay : RecvKeepalive(n, d) \/ RecvPeerAddr(n, d)
    BY <2>4, UsedUpPlaced, RecvPeerAddrPlaced
  <2>5. CASE \E d \in UnderWay : RecvHandshakeInit(n, d) \/ RecvHandshakeResp(n, d)
    BY <2>5, UsedUpPlaced, AcceptInitPlaced, RecvHandshakeRespPlaced DEF RecvHandshakeInit
  <2>6. CASE \E d \in UnderWay : RecvData(n, d)
    BY <2>6, RecvDataPlaced
  <2>7. CASE React(n) \/ KeepaliveTick(n) \/ Restart(n)
    BY <2>7, ReactPlaced, KeepalivePlaced, RestartPlaced
  <2> QED BY <1>1, <2>1, <2>2, <2>3, <2>4, <2>5, <2>6, <2>7 DEF Node
<1>2. ASSUME NEW d \in net, Forward(d) \/ Lose(d) PROVE Placed'
  BY <1>2, ForwardPlaced, LosePlaced
<1> QED BY <1>1, <1>2, RelayRestartPlaced, StutterPlaced DEF Next

LEMMA PlacedFirst == ASSUME Init PROVE Placed
<1> USE DEF Init
<1>1. CountsTyped
  BY TunnelAssumption DEF CountsTyped, Ports
<1>2. TablesTrue
  <2>1. Fresh \in PeerStates /\ Fresh.direct = None /\ Fresh.candidate = None
    BY DEF Fresh, PeerStates
  <2> HIDE DEF Fresh
  <2> QED BY <2>1 DEF TablesTrue, Peers
<1>3. RelayTrue
  <2>1. \A p \in Nodes : <<p, 0>> \in Home(p) /\ <<p, 0>> \in Addresses
    <3>1. \A p \in Nodes : 0 \in 0 .. port[p] /\ 0 \in Ports
      BY TunnelAssumption DEF Ports
    <3> QED BY <3>1 DEF Home, Addresses
  <2> QED BY <2>1 DEF RelayTrue
<1>4. HeardTyped /\ UnderWay = {}
  BY DEF HeardTyped, UnderWay
<1>5. PacketsTyped
  BY DEF PacketsTyped, EmptyBag, SetToBag
<1> QED BY <1>1, <1>2, <1>3, <1>4, <1>5 DEF Placed, ReactingTyped, WireTrue

-----------------------------------------------------------------------------
(***************************************************************************)
(* What a step may do to sessions and handshakes                           *)
(***************************************************************************)
KeysKept == SessionKeys /\ PendingUnused /\ Counted /\ Once

\* Sessions and handshakes of others than p in the table of n stay as they are.
OthersStay(n, p) ==
  \A m, q \in Nodes : m # n \/ q # p => /\ Session(m, q)' = Session(m, q)
                                        /\ Pending(m, q)' = Pending(m, q)

\* Nothing new: sessions and handshakes stay, age, or go.
Weakens ==
  /\ \A m, q \in Nodes :
       /\ Session(m, q)' \in {None, Session(m, q)}
       /\ Pending(m, q)' # None => /\ Pending(m, q) # None
                                   /\ Pending(m, q)'.eph = Pending(m, q).eph
  /\ UNCHANGED history

\* A session is given up in a restart only.
SessionsKept ==
  \A n \in Nodes : \A p \in Peers(n) :
    Session(n, p) # None /\ Session(n, p)' = None => port'[n] # port[n]

\* n begins a handshake with p.
Begins(n, p, e) ==
  /\ MayInitiate(st[n][p])
  /\ OthersStay(n, p)
  /\ Session(n, p)' \in {None, Session(n, p)}
  /\ Pending(n, p)'.eph = e /\ e[1] = n /\ Drawn(e)'
  /\ (Pending(n, p) # None /\ e = Pending(n, p).eph) \/ ~Drawn(e)
  /\ UNCHANGED history

\* n installs a session with p under a key it has not used.
Installs(n, p, key) ==
  /\ OthersStay(n, p)
  /\ Session(n, p)' = NewSession(key)
  /\ Pending(n, p)' = None
  /\ KeyOf(n, key)'
  /\ \A q \in Peers(n) : /\ Session(n, q) # None => Session(n, q).key # key
                         /\ q # p /\ Pending(n, q) # None => Pending(n, q).eph # key[1]
  /\ \A pkt \in DOMAIN sealed : pkt.src = n => pkt.key # key
  /\ \A pkt \in DOMAIN handed : pkt.src # n => pkt.key # key
  /\ UNCHANGED history

\* n seals a packet for p.
Seals(n, p, pkt) ==
  /\ OthersStay(n, p)
  /\ Pending(n, p)' = Pending(n, p)
  /\ Session(n, p) # None
  /\ pkt.src = n /\ pkt.key = Session(n, p).key /\ pkt.ctr = Session(n, p).sent
  /\ pkt.ctr \in Nat
  /\ Session(n, p)'.key = Session(n, p).key
  /\ Session(n, p)'.sent = Session(n, p).sent + 1
  /\ Session(n, p)'.seen = Session(n, p).seen
  /\ sealed' = sealed (+) SetToBag({pkt})
  /\ handed' = handed

\* n hands a packet of p to its TUN.
Hands(n, p, pkt) ==
  /\ OthersStay(n, p)
  /\ Pending(n, p)' = Pending(n, p)
  /\ Session(n, p) # None
  /\ pkt \in DOMAIN sealed /\ pkt.src = p /\ pkt.key = Session(n, p).key
  /\ pkt.ctr \notin Session(n, p).seen
  /\ Session(n, p)'.key = Session(n, p).key
  /\ Session(n, p)'.sent = Session(n, p).sent
  /\ Session(n, p)'.seen = Session(n, p).seen \cup {pkt.ctr}
  /\ handed' = handed (+) SetToBag({pkt})
  /\ sealed' = sealed

LEMMA KeyOfStays ==
  ASSUME CountsTyped, Grows, NEW n, NEW key, KeyOf(n, key)
  PROVE  KeyOf(n, key)'
<1>1. \A e : Drawn(e) => Drawn(e)'
  BY DrawnStays
<1> QED BY <1>1 DEF KeyOf

LEMMA WeakensKeeps ==
  ASSUME Placed, Grows, KeysKept, Weakens
  PROVE  KeysKept'
<1>1. sealed' = sealed /\ handed' = handed
  BY DEF Weakens, history
<1>2. \A e : Drawn(e) => Drawn(e)'
  BY DrawnStays DEF Placed
<1>3. \A n, key : KeyOf(n, key) => KeyOf(n, key)'
  BY KeyOfStays DEF Placed
<1>4. \A n \in Nodes : Peers(n) \subseteq Nodes
  BY DEF Peers
<1>5. \A m, q \in Nodes : Session(m, q)' \in {None, Session(m, q)}
  BY DEF Weakens
<1>6. SessionKeys'
  BY <1>3, <1>4, <1>5 DEF KeysKept, SessionKeys
<1>7. PendingUnused'
  BY <1>1, <1>2, <1>4 DEF Weakens, KeysKept, PendingUnused
<1>8. Counted'
  <2>1. \A pkt \in DOMAIN sealed : pkt.src \in Nodes
    BY DEF Placed, PacketsTyped, Packets
  <2> QED BY <1>1, <1>3, <1>4, <1>5, <2>1 DEF KeysKept, Counted
<1>9. Once'
  BY <1>1 DEF KeysKept, Once
<1> QED BY <1>6, <1>7, <1>8, <1>9 DEF KeysKept

LEMMA BeginsKeeps ==
  ASSUME Placed, Grows, KeysKept, NEW n \in Nodes, NEW p \in Peers(n), NEW e, Begins(n, p, e)
  PROVE  KeysKept'
<1>1. sealed' = sealed /\ handed' = handed
  BY DEF Begins, history
<1>2. \A x : Drawn(x) => Drawn(x)'
  BY DrawnStays DEF Placed
<1>3. \A m, key : KeyOf(m, key) => KeyOf(m, key)'
  BY KeyOfStays DEF Placed
<1>4. \A m \in Nodes : Peers(m) \subseteq Nodes
  BY DEF Peers
<1>5. \A m, q \in Nodes : Session(m, q)' \in {None, Session(m, q)}
  BY <1>4 DEF Begins, OthersStay
<1>6. SessionKeys'
  BY <1>3, <1>4, <1>5 DEF KeysKept, SessionKeys
<1>7. Counted'
  <2>1. \A pkt \in DOMAIN sealed : pkt.src \in Nodes
    BY DEF Placed, PacketsTyped, Packets
  <2> QED BY <1>1, <1>3, <1>4, <1>5, <2>1 DEF KeysKept, Counted
<1>8. PendingUnused'
  <2> SUFFICES ASSUME NEW m \in Nodes, NEW q \in Peers(m), Pending(m, q)' # None,
                      NEW x, x = Pending(m, q)'.eph
               PROVE  /\ Drawn(x)' /\ x[1] = m
                      /\ \A r \in Peers(m) :
                           Pending(m, r)' # None /\ Pending(m, r)'.eph = x => r = q
                      /\ \A r \in Peers(m) :
                           Session(m, r)' # None => Session(m, r)'.key[1] # x
                      /\ \A pkt \in DOMAIN sealed' : pkt.src = m => pkt.key[1] # x
                      /\ \A pkt \in DOMAIN handed' : pkt.src # m => pkt.key[1] # x
    BY DEF PendingUnused
  <2>1. CASE Pending(m, q) # None /\ x = Pending(m, q).eph
    <3>1. /\ Drawn(x) /\ x[1] = m
          /\ \A r \in Peers(m) : Pending(m, r) # None /\ Pending(m, r).eph = x => r = q
          /\ \A r \in Peers(m) : Session(m, r) # None => Session(m, r).key[1] # x
          /\ \A pkt \in DOMAIN sealed : pkt.src = m => pkt.key[1] # x
          /\ \A pkt \in DOMAIN handed : pkt.src # m => pkt.key[1] # x
      BY <2>1 DEF KeysKept, PendingUnused
    <3>2. \A r \in Peers(m) : Pending(m, r)' # None /\ Pending(m, r)'.eph = x => r = q
      <4> SUFFICES ASSUME NEW r \in Peers(m), Pending(m, r)' # None, Pending(m, r)'.eph = x
                   PROVE  r = q
        OBVIOUS
      <4>1. CASE m = n /\ r = p
        <5>1. x = e /\ Pending(n, p) # None /\ e = Pending(n, p).eph
          BY <3>1, <4>1 DEF Begins
        <5> QED BY <3>1, <4>1, <5>1
      <4>2. CASE m # n \/ r # p
        BY <1>4, <3>1, <4>2 DEF Begins, OthersStay
      <4> QED BY <4>1, <4>2
    <3> QED BY <1>1, <1>2, <1>4, <1>5, <3>1, <3>2
  <2>2. CASE m = n /\ q = p /\ x = e /\ ~Drawn(e)
    <3>1. \A r \in Peers(n) : Session(n, r) # None => Drawn(Session(n, r).key[1])
      BY DEF KeysKept, SessionKeys, KeyOf
    <3>2. \A pkt \in DOMAIN sealed : Drawn(pkt.key[1])
      BY DEF KeysKept, Counted, KeyOf
    <3>3. DOMAIN handed \subseteq DOMAIN sealed
      BY DEF KeysKept, Counted
    <3>4. \A r \in Peers(n) : Pending(n, r) # None => Drawn(Pending(n, r).eph)
      BY DEF KeysKept, PendingUnused
    <3>5. \A r \in Peers(n) : Pending(n, r)' # None /\ Pending(n, r)'.eph = x => r = p
      BY <1>4, <2>2, <3>4 DEF Begins, OthersStay
    <3> QED BY <1>1, <1>4, <1>5, <2>2, <3>1, <3>2, <3>3, <3>5 DEF Begins
  <2> QED BY <1>4, <2>1, <2>2 DEF Begins, OthersStay
<1>9. Once'
  BY <1>1 DEF KeysKept, Once
<1> QED BY <1>6, <1>7, <1>8, <1>9 DEF KeysKept

LEMMA InstallsKeeps ==
  ASSUME Placed, Grows, KeysKept, NEW n \in Nodes, NEW p \in Peers(n), NEW key,
         Installs(n, p, key)
  PROVE  KeysKept'
<1>1. sealed' = sealed /\ handed' = handed
  BY DEF Installs, history
<1>2. \A x : Drawn(x) => Drawn(x)'
  BY DrawnStays DEF Placed
<1>3. \A m, k : KeyOf(m, k) => KeyOf(m, k)'
  BY KeyOfStays DEF Placed
<1>4. \A m \in Nodes : Peers(m) \subseteq Nodes
  BY DEF Peers
<1>5. Session(n, p)'.key = key
  BY DEF Installs, NewSession
<1>6. \A m, q \in Nodes : m # n \/ q # p => /\ Session(m, q)' = Session(m, q)
                                            /\ Pending(m, q)' = Pending(m, q)
  BY DEF Installs, OthersStay
<1>7. SessionKeys'
  <2> SUFFICES ASSUME NEW m \in Nodes, NEW q \in Peers(m), Session(m, q)' # None
               PROVE  /\ KeyOf(m, Session(m, q).key)'
                      /\ \A r \in Peers(m) : Session(m, r)' # None
                           /\ Session(m, r)'.key = Session(m, q)'.key => r = q
    BY DEF SessionKeys
  <2>1. CASE m = n /\ q = p
    BY <1>4, <1>5, <1>6, <2>1 DEF Installs
  <2>2. CASE m # n \/ q # p
    <3>1. Session(m, q)' = Session(m, q)
      BY <1>4, <1>6, <2>2
    <3>2. KeyOf(m, Session(m, q).key)'
      <4>1. PICK k : k = Session(m, q).key
        OBVIOUS
      <4>2. KeyOf(m, k)'
        BY <1>3, <2>2, <3>1, <4>1 DEF KeysKept, SessionKeys
      <4> QED BY <3>1, <4>1, <4>2
    <3>3. \A r \in Peers(m) : Session(m, r)' # None /\ Session(m, r)'.key = Session(m, q)'.key
                                => r = q
      BY <1>4, <1>5, <1>6, <3>1 DEF Installs, KeysKept, SessionKeys
    <3> QED BY <3>1, <3>2, <3>3
  <2> QED BY <2>1, <2>2
<1>8. PendingUnused'
  BY <1>1, <1>2, <1>4, <1>5, <1>6 DEF Installs, KeysKept, PendingUnused
<1>9. Counted'
  <2>1. \A pkt \in DOMAIN sealed : pkt.src \in Nodes
    BY DEF Placed, PacketsTyped, Packets
  <2>2. ASSUME NEW pkt \in DOMAIN sealed, NEW q \in Peers(pkt.src),
               Session(pkt.src, q)' # None, Session(pkt.src, q)'.key = pkt.key
        PROVE  pkt.ctr < Session(pkt.src, q)'.sent
    BY <1>4, <1>5, <1>6, <2>1, <2>2 DEF Installs, KeysKept, Counted
  <2>3. ASSUME NEW pkt \in DOMAIN handed, NEW m \in Nodes \ {pkt.src}, NEW q \in Peers(m),
               Session(m, q)' # None, Session(m, q)'.key = pkt.key
        PROVE  pkt.ctr \in Session(m, q)'.seen
    BY <1>4, <1>5, <1>6, <2>3 DEF Installs, KeysKept, Counted
  <2> QED BY <1>1, <1>3, <2>2, <2>3 DEF KeysKept, Counted
<1>10. Once'
  BY <1>1 DEF KeysKept, Once
<1> QED BY <1>7, <1>8, <1>9, <1>10 DEF KeysKept

LEMMA SealsKeeps ==
  ASSUME Placed, Grows, KeysKept, NEW n \in Nodes, NEW p \in Peers(n), NEW pkt,
         Seals(n, p, pkt)
  PROVE  KeysKept'
<1>1. \A m \in Nodes : Peers(m) \subseteq Nodes
  BY DEF Peers
<1>2. \A m, k : KeyOf(m, k) => KeyOf(m, k)'
  BY KeyOfStays DEF Placed
<1>3. pkt \notin DOMAIN sealed
  <2>1. pkt.src = n /\ Session(n, p) # None /\ Session(n, p).key = pkt.key
        /\ pkt.ctr = Session(n, p).sent /\ pkt.ctr \in Nat
    BY DEF Seals
  <2>2. pkt \in DOMAIN sealed => pkt.ctr < Session(pkt.src, p).sent
    BY <2>1 DEF KeysKept, Counted
  <2>3. ~(pkt.ctr < pkt.ctr)
    BY <2>1
  <2> QED BY <2>1, <2>2, <2>3
<1>4. DOMAIN sealed' = DOMAIN sealed \cup {pkt} /\ handed' = handed
  BY DEF Seals, (+), SetToBag
<1>5. Once'
  <2>1. \A x \in DOMAIN sealed : sealed'[x] = sealed[x] /\ sealed[x] = 1
    BY <1>3 DEF Seals, (+), SetToBag, KeysKept, Once
  <2>2. sealed'[pkt] = 1 /\ sealed' = [x \in DOMAIN sealed' |-> sealed'[x]]
    BY <1>3 DEF Seals, (+), SetToBag
  <2> QED BY <1>4, <2>1, <2>2 DEF KeysKept, Once
<1>6. \A m, q \in Nodes : /\ Session(m, q)' # None => Session(m, q) # None
                          /\ Session(m, q)'.key = Session(m, q).key
                          /\ Session(m, q)'.seen = Session(m, q).seen
                          /\ Pending(m, q)' = Pending(m, q)
  <2> SUFFICES ASSUME NEW m \in Nodes, NEW q \in Nodes
               PROVE  /\ Session(m, q)' # None => Session(m, q) # None
                      /\ Session(m, q)'.key = Session(m, q).key
                      /\ Session(m, q)'.seen = Session(m, q).seen
                      /\ Pending(m, q)' = Pending(m, q)
    OBVIOUS
  <2>1. CASE m = n /\ q = p
    BY <2>1 DEF Seals
  <2>2. CASE m # n \/ q # p
    BY <2>2 DEF Seals, OthersStay
  <2> QED BY <2>1, <2>2
<1>7. SessionKeys'
  <2> SUFFICES ASSUME NEW m \in Nodes, NEW q \in Peers(m), Session(m, q)' # None
               PROVE  /\ KeyOf(m, Session(m, q).key)'
                      /\ \A r \in Peers(m) : Session(m, r)' # None
                           /\ Session(m, r)'.key = Session(m, q)'.key => r = q
    BY DEF SessionKeys
  <2>1. PICK k : k = Session(m, q).key
    OBVIOUS
  <2>2. KeyOf(m, k)'
    BY <1>1, <1>2, <1>6, <2>1 DEF KeysKept, SessionKeys
  <2>3. Session(m, q)'.key = k
    BY <1>1, <1>6, <2>1
  <2>4. \A r \in Peers(m) : Session(m, r)' # None /\ Session(m, r)'.key = k => r = q
    BY <1>1, <1>6, <2>1 DEF KeysKept, SessionKeys
  <2> QED BY <2>2, <2>3, <2>4
<1>8. PendingUnused'
  <2>1. \A x : Drawn(x) => Drawn(x)'
    BY DrawnStays DEF Placed
  <2>2. ASSUME NEW q \in Peers(n), Pending(n, q) # None
        PROVE  pkt.key[1] # Pending(n, q).eph
    BY <2>2 DEF Seals, KeysKept, PendingUnused
  <2>3. pkt.src = n
    BY DEF Seals
  <2> QED BY <1>1, <1>4, <1>6, <2>1, <2>2, <2>3 DEF KeysKept, PendingUnused
<1>9. Counted'
  <2>1. pkt.src = n /\ KeyOf(n, pkt.key)
    BY DEF Seals, KeysKept, SessionKeys
  <2>2. \A x \in DOMAIN sealed : x.src \in Nodes
    BY DEF Placed, PacketsTyped, Packets
  <2>3. ASSUME NEW x \in DOMAIN sealed', NEW q \in Peers(x.src),
               Session(x.src, q)' # None, Session(x.src, q)'.key = x.key
        PROVE  x.ctr < Session(x.src, q)'.sent
    <3>1. x.src \in Nodes /\ q \in Nodes
      BY <1>1, <1>4, <2>1, <2>2
    <3>2. Session(x.src, q) # None /\ Session(x.src, q).key = x.key
      BY <1>6, <2>3, <3>1
    <3>3. CASE x.src = n /\ q = p
      <4>1. Session(n, p)'.sent = Session(n, p).sent + 1 /\ Session(n, p).sent \in Nat
            /\ pkt.ctr = Session(n, p).sent
        BY DEF Seals
      <4>2. CASE x = pkt
        BY <3>3, <4>1, <4>2
      <4>3. CASE x \in DOMAIN sealed
        <5>1. x.ctr < Session(n, p).sent /\ x.ctr \in Nat
          <6>1. MaxData \in Nat
            BY TunnelAssumption
          <6> QED BY <3>2, <3>3, <4>3, <6>1 DEF KeysKept, Counted, Placed, PacketsTyped, Packets
        <5> QED BY <3>3, <4>1, <5>1
      <4> QED BY <1>4, <4>2, <4>3
    <3>4. CASE x.src # n \/ q # p
      <4>1. Session(x.src, q)' = Session(x.src, q)
        BY <3>1, <3>4 DEF Seals, OthersStay
      <4>2. x # pkt
        <5>1. pkt.key = Session(n, p).key /\ Session(n, p) # None
          BY DEF Seals
        <5> QED BY <2>1, <3>2, <3>4, <5>1 DEF KeysKept, SessionKeys
      <4> QED BY <1>4, <3>2, <4>1, <4>2 DEF KeysKept, Counted
    <3> QED BY <3>3, <3>4
  <2>4. \A x \in DOMAIN sealed' : KeyOf(x.src, x.key)'
    BY <1>2, <1>4, <2>1 DEF KeysKept, Counted
  <2>5. \A x \in DOMAIN handed' : x \in DOMAIN sealed'
    BY <1>4 DEF KeysKept, Counted
  <2>6. \A x \in DOMAIN handed' : \A m \in Nodes \ {x.src} : \A q \in Peers(m) :
          Session(m, q)' # None /\ Session(m, q)'.key = x.key => x.ctr \in Session(m, q)'.seen
    BY <1>1, <1>4, <1>6 DEF KeysKept, Counted
  <2> QED BY <2>3, <2>4, <2>5, <2>6 DEF Counted
<1> QED BY <1>5, <1>7, <1>8, <1>9 DEF KeysKept

LEMMA HandsKeeps ==
  ASSUME Placed, Grows, KeysKept, NEW n \in Nodes, NEW p \in Peers(n), NEW pkt,
         Hands(n, p, pkt)
  PROVE  KeysKept'
<1>1. \A m \in Nodes : Peers(m) \subseteq Nodes /\ m \notin Peers(m)
  BY DEF Peers
<1>2. \A m, k : KeyOf(m, k) => KeyOf(m, k)'
  BY KeyOfStays DEF Placed
<1>3. /\ pkt \in DOMAIN sealed /\ pkt.src = p /\ p \in Nodes /\ p # n
      /\ Session(n, p) # None /\ Session(n, p).key = pkt.key
  BY <1>1 DEF Hands
<1>4. pkt \notin DOMAIN handed
  <2>1. pkt \in DOMAIN handed => pkt.ctr \in Session(n, p).seen
    BY <1>3 DEF KeysKept, Counted
  <2> QED BY <2>1 DEF Hands
<1>5. DOMAIN handed' = DOMAIN handed \cup {pkt} /\ sealed' = sealed
  BY DEF Hands, (+), SetToBag
<1>6. Once'
  <2>1. \A x \in DOMAIN handed : handed'[x] = handed[x] /\ handed[x] = 1
    BY <1>4 DEF Hands, (+), SetToBag, KeysKept, Once
  <2>2. handed'[pkt] = 1 /\ handed' = [x \in DOMAIN handed' |-> handed'[x]]
    BY <1>4 DEF Hands, (+), SetToBag
  <2> QED BY <1>5, <2>1, <2>2 DEF KeysKept, Once
<1>7. \A m, q \in Nodes : /\ Session(m, q)' # None => Session(m, q) # None
                          /\ Session(m, q)'.key = Session(m, q).key
                          /\ Session(m, q)'.sent = Session(m, q).sent
                          /\ Session(m, q).seen \subseteq Session(m, q)'.seen
                          /\ Pending(m, q)' = Pending(m, q)
  <2> SUFFICES ASSUME NEW m \in Nodes, NEW q \in Nodes
               PROVE  /\ Session(m, q)' # None => Session(m, q) # None
                      /\ Session(m, q)'.key = Session(m, q).key
                      /\ Session(m, q)'.sent = Session(m, q).sent
                      /\ Session(m, q).seen \subseteq Session(m, q)'.seen
                      /\ Pending(m, q)' = Pending(m, q)
    OBVIOUS
  <2>1. CASE m = n /\ q = p
    BY <2>1 DEF Hands
  <2>2. CASE m # n \/ q # p
    BY <2>2 DEF Hands, OthersStay
  <2> QED BY <2>1, <2>2
\* The two ephemerals of the key are one of n and one of p.
<1>8. \A m \in Nodes : KeyOf(m, pkt.key) => m = n \/ m = p
  <2>1. KeyOf(n, pkt.key) /\ KeyOf(p, pkt.key)
    BY <1>3 DEF KeysKept, SessionKeys, Counted
  <2> QED BY <1>3, <2>1 DEF KeyOf
<1>9. SessionKeys'
  <2> SUFFICES ASSUME NEW m \in Nodes, NEW q \in Peers(m), Session(m, q)' # None
               PROVE  /\ KeyOf(m, Session(m, q).key)'
                      /\ \A r \in Peers(m) : Session(m, r)' # None
                           /\ Session(m, r)'.key = Session(m, q)'.key => r = q
    BY DEF SessionKeys
  <2>1. PICK k : k = Session(m, q).key
    OBVIOUS
  <2>2. KeyOf(m, k)'
    BY <1>1, <1>2, <1>7, <2>1 DEF KeysKept, SessionKeys
  <2>3. Session(m, q)'.key = k
    BY <1>1, <1>7, <2>1
  <2>4. \A r \in Peers(m) : Session(m, r)' # None /\ Session(m, r)'.key = k => r = q
    BY <1>1, <1>7, <2>1 DEF KeysKept, SessionKeys
  <2> QED BY <2>2, <2>3, <2>4
<1>10. PendingUnused'
  <2>1. \A x : Drawn(x) => Drawn(x)'
    BY DrawnStays DEF Placed
  <2>2. ASSUME NEW m \in Nodes, NEW q \in Peers(m), Pending(m, q) # None, m # p
        PROVE  pkt.key[1] # Pending(m, q).eph
    <3>1. Pending(m, q).eph[1] = m
      BY <2>2 DEF KeysKept, PendingUnused
    <3>2. CASE m = n
      BY <1>3, <2>2, <3>2 DEF KeysKept, PendingUnused
    <3>3. CASE m # n
      <4>1. KeyOf(n, pkt.key) /\ KeyOf(p, pkt.key)
        BY <1>3 DEF KeysKept, SessionKeys, Counted
      <4> QED BY <1>3, <2>2, <3>1, <3>3, <4>1 DEF KeyOf
    <3> QED BY <3>2, <3>3
  <2> QED BY <1>1, <1>3, <1>5, <1>7, <2>1, <2>2 DEF KeysKept, PendingUnused
<1>11. Counted'
  <2>1. \A x \in DOMAIN sealed : x.src \in Nodes
    BY DEF Placed, PacketsTyped, Packets
  <2>2. \A x \in DOMAIN sealed' : \A q \in Peers(x.src) :
          Session(x.src, q)' # None /\ Session(x.src, q)'.key = x.key
            => x.ctr < Session(x.src, q)'.sent
    <3> SUFFICES ASSUME NEW x \in DOMAIN sealed, NEW q \in Peers(x.src),
                        Session(x.src, q)' # None, Session(x.src, q)'.key = x.key
                 PROVE  x.ctr < Session(x.src, q)'.sent
      BY <1>5
    <3>1. /\ Session(x.src, q) # None /\ Session(x.src, q).key = x.key
          /\ Session(x.src, q)'.sent = Session(x.src, q).sent
      BY <1>1, <1>7, <2>1
    <3>2. x.ctr < Session(x.src, q).sent
      BY <3>1 DEF KeysKept, Counted
    <3> QED BY <3>1, <3>2
  <2>3. \A x \in DOMAIN sealed' : KeyOf(x.src, x.key)'
    BY <1>2, <1>5 DEF KeysKept, Counted
  <2>4. \A x \in DOMAIN handed' : x \in DOMAIN sealed'
    BY <1>3, <1>5 DEF KeysKept, Counted
  <2>5. ASSUME NEW x \in DOMAIN handed', NEW m \in Nodes \ {x.src}, NEW q \in Peers(m),
               Session(m, q)' # None, Session(m, q)'.key = x.key
        PROVE  x.ctr \in Session(m, q)'.seen
    <3>1. Session(m, q) # None /\ Session(m, q).key = x.key
          /\ Session(m, q).seen \subseteq Session(m, q)'.seen
      BY <1>1, <1>7, <2>5
    <3>2. CASE x \in DOMAIN handed
      BY <3>1, <3>2 DEF KeysKept, Counted
    <3>3. CASE x = pkt
      <4>1. m = n
        BY <1>3, <1>8, <3>1, <3>3 DEF KeysKept, SessionKeys
      <4>2. q = p
        BY <1>3, <3>1, <3>3, <4>1 DEF KeysKept, SessionKeys
      <4> QED BY <3>3, <4>1, <4>2 DEF Hands
    <3> QED BY <1>5, <3>2, <3>3
  <2> QED BY <2>2, <2>3, <2>4, <2>5 DEF Counted
<1> QED BY <1>6, <1>9, <1>10, <1>11 DEF KeysKept

-----------------------------------------------------------------------------
(***************************************************************************)
(* Every step is one of these                                              *)
(***************************************************************************)
LEMMA DrawsOnce ==
  ASSUME CountsTyped, NEW n \in Nodes, NEW e, Draw(n, e)
  PROVE  \A m \in Nodes : eph[m] <= eph'[m]
<1>1. \A m \in Nodes : eph[m] \in Nat
  BY DEF CountsTyped
<1> QED BY <1>1 DEF Draw, CountsTyped

LEMMA NextGrows ==
  ASSUME Placed, Placed', [Next]_vars
  PROVE  Grows
<1> DEFINE PortGrows == \A m \in Nodes : port[m] <= port'[m]
           EphGrows  == \A m \in Nodes : eph[m] <= eph'[m]
           MoreSealed == DOMAIN sealed \subseteq DOMAIN sealed'
<1>1. CountsTyped /\ CountsTyped'
  BY DEF Placed
<1>2. UNCHANGED port => PortGrows
  <2>1. \A m \in Nodes : port[m] \in Nat
    BY <1>1, TunnelAssumption DEF CountsTyped, Ports
  <2> QED BY <2>1
<1>3. UNCHANGED eph => EphGrows
  <2>1. \A m \in Nodes : eph[m] \in Nat
    BY <1>1, TunnelAssumption DEF CountsTyped
  <2> QED BY <2>1
<1>4. \A n \in Nodes : \A e : Draw(n, e) => EphGrows
  BY <1>1, DrawsOnce
<1>5. UNCHANGED sealed => MoreSealed
  OBVIOUS
<1>6. ASSUME NEW n \in Nodes, Node(n) PROVE PortGrows /\ EphGrows /\ MoreSealed
  <2> HIDE DEF PortGrows, EphGrows
  <2>1. CASE \E p \in Peers(n) : TunPacket(n, p)
    <3>1. PICK p \in Peers(n) : SealAndSend(n, p) \/ Initiate(n, p)
      BY <2>1 DEF TunPacket
    <3>2. CASE SealAndSend(n, p)
      BY <1>2, <1>3, <2>1, <3>2 DEF SealAndSend, TunPacket, (+)
    <3>3. CASE Initiate(n, p)
      BY <1>2, <1>4, <2>1, <3>3 DEF Initiate, TunPacket, history
    <3> QED BY <3>1, <3>2, <3>3
  <2>2. CASE \E p \in Peers(n) : Expire(n, p)
    BY <1>2, <1>3, <2>2 DEF Expire, history
  <2>3. CASE \E d \in net : Hear(n, d)
    BY <1>2, <1>3, <2>3 DEF Hear, history
  <2>4. CASE \E d \in UnderWay : RecvKeepalive(n, d) \/ RecvPeerAddr(n, d)
    BY <1>2, <1>3, <2>4 DEF RecvKeepalive, RecvPeerAddr, Handles
  <2>5. CASE \E d \in UnderWay : RecvHandshakeInit(n, d)
    BY <1>2, <1>3, <1>4, <2>5 DEF RecvHandshakeInit, AcceptInit, DropInit, Handles
  <2>6. CASE \E d \in UnderWay : RecvHandshakeResp(n, d) \/ RecvData(n, d)
    BY <1>2, <1>3, <2>6 DEF RecvHandshakeResp, RecvData, Handles
  <2>7. CASE React(n)
    BY <1>2, <1>3, <1>4, <2>7 DEF React, history
  <2>8. CASE KeepaliveTick(n)
    BY <1>2, <1>3, <2>8 DEF KeepaliveTick, history
  <2>9. CASE Restart(n)
    <3>1. PortGrows
      <4>1. MaxRestart \in Nat /\ port \in [Nodes -> 0 .. MaxRestart]
            /\ port' = [port EXCEPT ![n] = @ + 1]
        BY <1>1, <2>9, TunnelAssumption DEF CountsTyped, Ports, Restart
      <4> QED BY <4>1 DEF PortGrows
    <3> QED BY <1>3, <2>9, <3>1 DEF Restart, history
  <2> QED BY <1>6, <2>1, <2>2, <2>3, <2>4, <2>5, <2>6, <2>7, <2>8, <2>9 DEF Node
<1>7. ASSUME NEW d \in net, Forward(d) \/ Lose(d) PROVE PortGrows /\ EphGrows /\ MoreSealed
  <2> HIDE DEF PortGrows, EphGrows
  <2> QED BY <1>2, <1>3, <1>7 DEF Forward, Lose, history
<1>8. CASE RelayRestart \/ UNCHANGED vars
  <2> HIDE DEF PortGrows, EphGrows
  <2> QED BY <1>1, <1>2, <1>3, <1>8 DEF RelayRestart, vars, history, Grows, PortGrows, EphGrows
<1> QED BY <1>1, <1>6, <1>7, <1>8 DEF Next, Grows

\* One entry of the table of n changes.
LEMMA EntryChanges ==
  ASSUME TablesTrue, NEW n \in Nodes, NEW p \in Nodes, NEW ps \in PeerStates, SetPeer(n, p, ps)
  PROVE  /\ OthersStay(n, p)
         /\ Session(n, p)' = ps.session /\ Pending(n, p)' = ps.pending
  BY PeerSet DEF TablesTrue, OthersStay, Session, Pending

LEMMA UnchangedSessions ==
  ASSUME \A m, q \in Nodes : Session(m, q)' = Session(m, q)
  PROVE  SessionsKept
<1>1. \A m \in Nodes : Peers(m) \subseteq Nodes
  BY DEF Peers
<1> QED BY <1>1 DEF SessionsKept

LEMMA EntryWeakens ==
  ASSUME TablesTrue, NEW n \in Nodes, NEW p \in Nodes, NEW ps \in PeerStates, SetPeer(n, p, ps),
         ps.session \in {None, Session(n, p)},
         ps.pending # None => Pending(n, p) # None /\ ps.pending.eph = Pending(n, p).eph,
         UNCHANGED history
  PROVE  Weakens /\ (ps.session = Session(n, p) => SessionsKept)
<1>1. /\ OthersStay(n, p) /\ Session(n, p)' = ps.session /\ Pending(n, p)' = ps.pending
  BY EntryChanges
<1>2. ASSUME NEW m \in Nodes, NEW q \in Nodes
      PROVE  /\ Session(m, q)' \in {None, Session(m, q)}
             /\ Pending(m, q)' # None => /\ Pending(m, q) # None
                                         /\ Pending(m, q)'.eph = Pending(m, q).eph
  <2>1. CASE m = n /\ q = p
    BY <1>1, <2>1
  <2>2. CASE m # n \/ q # p
    BY <1>1, <2>2 DEF OthersStay
  <2> QED BY <2>1, <2>2
<1>3. ASSUME ps.session = Session(n, p) PROVE SessionsKept
  <2>1. \A m, q \in Nodes : Session(m, q)' = Session(m, q)
    BY <1>1, <1>3 DEF OthersStay
  <2> QED BY <2>1, UnchangedSessions
<1> QED BY <1>2, <1>3 DEF Weakens

LEMMA SameTablesWeaken ==
  ASSUME UNCHANGED st, UNCHANGED history
  PROVE  Weakens /\ SessionsKept
  BY UnchangedSessions DEF Weakens, Session, Pending

LEMMA SealStep ==
  ASSUME Placed, NEW n \in Nodes, NEW p \in Peers(n), SealAndSend(n, p)
  PROVE  \E pkt : Seals(n, p, pkt)
<1>1. PICK pkt : pkt = [key |-> st[n][p].session.key, src |-> n, ctr |-> st[n][p].session.sent]
  OBVIOUS
<1> DEFINE ps  == [st[n][p] EXCEPT !.session.sent = @ + 1]
<1>2. /\ p \in Nodes /\ st[n][p] \in PeerStates /\ st[n][p].session \in Sessions
      /\ st[n][p].session # None /\ st[n][p].session.sent < MaxData /\ MaxData \in Nat
  BY PeerKnown, TunnelAssumption DEF SealAndSend, Placed
<1>3. /\ SetPeer(n, p, ps) /\ sealed' = sealed (+) SetToBag({pkt}) /\ handed' = handed
  BY <1>1 DEF SealAndSend
<1>4. /\ ps \in PeerStates /\ ps.pending = st[n][p].pending
      /\ ps.session.key = st[n][p].session.key /\ ps.session.seen = st[n][p].session.seen
      /\ ps.session.sent = st[n][p].session.sent + 1
  BY <1>2 DEF PeerStates, Sessions
<1>5. /\ OthersStay(n, p) /\ Session(n, p)' = ps.session /\ Pending(n, p)' = ps.pending
  <2> HIDE DEF ps
  <2> QED BY <1>2, <1>3, <1>4, EntryChanges DEF Placed
<1>6. /\ pkt.src = n /\ pkt.key = st[n][p].session.key /\ pkt.ctr = st[n][p].session.sent
      /\ pkt.ctr \in Nat
  BY <1>1, <1>2 DEF Sessions
<1>7. Session(n, p) = st[n][p].session /\ Pending(n, p) = st[n][p].pending
  BY DEF Session, Pending
<1>8. Seals(n, p, pkt)
  <2> HIDE DEF ps
  <2> QED BY <1>2, <1>3, <1>4, <1>5, <1>6, <1>7 DEF Seals
<1> QED BY <1>8

LEMMA InitiateStep ==
  ASSUME Placed, PendingUnused, NEW n \in Nodes, NEW p \in Peers(n), Initiate(n, p)
  PROVE  \E e : Begins(n, p, e)
<1>1. p \in Nodes /\ st[n][p] \in PeerStates /\ st[n][p].candidate \in Addresses \cup {None}
  BY PeerKnown DEF Placed, PeerStates
<1>2. PICK e \in InitEphs(n, p), advertised \in Endpoints(p) :
        /\ MayInitiate(st[n][p])
        /\ Draw(n, e)
        /\ SetPeer(n, p, [st[n][p] EXCEPT !.pending = InFlight(e),
                                     !.candidate = SeededCandidate(st[n][p], advertised)])
  BY DEF Initiate
<1> DEFINE ps == [st[n][p] EXCEPT !.pending = InFlight(e),
                                  !.candidate = SeededCandidate(st[n][p], advertised)]
<1>3. UNCHANGED history
  BY DEF Initiate
<1>4. /\ e \in Ephs /\ e[1] = n /\ Drawn(e)'
      /\ (Pending(n, p) # None /\ e = Pending(n, p).eph) \/ ~Drawn(e)
  BY <1>2, InitEphIsOwn DEF Placed
<1>5. SeededCandidate(st[n][p], advertised) \in Addresses \cup {None}
  BY <1>1, <1>2, EndpointIsHome, HomeIsAddress DEF SeededCandidate, Placed
<1>6. ps \in PeerStates /\ ps.session = st[n][p].session /\ ps.pending = InFlight(e)
  BY <1>1, <1>4, <1>5 DEF PeerStates, Pendings, InFlight
<1>7. /\ OthersStay(n, p) /\ Session(n, p)' = ps.session /\ Pending(n, p)' = ps.pending
  <2>1. SetPeer(n, p, ps)
    BY <1>2
  <2> HIDE DEF ps
  <2> QED BY <1>1, <1>6, <2>1, EntryChanges DEF Placed
<1>8. Begins(n, p, e)
  BY <1>2, <1>3, <1>4, <1>6, <1>7 DEF Begins, Session, InFlight
<1> QED BY <1>8

LEMMA AcceptStep ==
  ASSUME Placed, KeysKept, NEW n \in Nodes, NEW d \in UnderWay, AcceptInit(n, d), Grows
  PROVE  d.frame.src \in Peers(n) /\ \E key : Installs(n, d.frame.src, key)
<1> DEFINE p == d.frame.src
           e == d.frame.eph
<1>1. PICK new : new = NextEph(n)
  OBVIOUS
<1>2. PICK key : key = <<e, new>>
  OBVIOUS
<1> DEFINE ps == [st[n][p] EXCEPT !.session = NewSession(key), !.pending = None]
<1>3. /\ Handles(n, d, "HandshakeInit") /\ CanDraw(n) /\ Draw(n, new) /\ SetPeer(n, p, ps)
      /\ UNCHANGED <<sealed, handed>>
  BY <1>1, <1>2 DEF AcceptInit, Handles, Accept
<1>4. Good(d) /\ p \in Peers(n) /\ d.frame.kind = "HandshakeInit"
  BY <1>3 DEF Placed, WireTrue, Handles
<1>5. /\ p \in Nodes /\ p # n /\ st[n][p] \in PeerStates
  BY <1>4, PeerKnown DEF Placed
<1>6. /\ new \in Ephs /\ new[1] = n /\ ~Drawn(new) /\ Drawn(new)'
  BY <1>1, <1>3, NextEphIsNew DEF Placed
<1>7. Drawn(e) /\ Drawn(e)' /\ e[1] = p /\ e \in Ephs
  BY <1>4, DrawnStays DEF Good, FrameTrue, Placed, Drawn
<1>8. NewSession(key) \in Sessions
  <2>1. MaxData \in Nat
    BY TunnelAssumption
  <2> QED BY <1>2, <1>6, <1>7, <2>1 DEF NewSession, Sessions, Keys
<1>9. ps \in PeerStates /\ ps.session = NewSession(key) /\ ps.pending = None
  BY <1>5, <1>8 DEF PeerStates
<1>10. /\ OthersStay(n, p) /\ Session(n, p)' = ps.session /\ Pending(n, p)' = ps.pending
  <2> HIDE DEF ps, p
  <2> QED BY <1>3, <1>5, <1>9, EntryChanges DEF Placed
<1>11. key[1] = e /\ key[2] = new
  BY <1>2
<1>12. KeyOf(n, key)'
  BY <1>5, <1>6, <1>7, <1>11 DEF KeyOf
<1>13. ASSUME NEW q \in Peers(n)
       PROVE  /\ Session(n, q) # None => Session(n, q).key # key
              /\ q # p /\ Pending(n, q) # None => Pending(n, q).eph # key[1]
  BY <1>5, <1>6, <1>7, <1>11 DEF KeysKept, SessionKeys, PendingUnused, KeyOf
<1>14. \A pkt \in DOMAIN sealed : pkt.key # key
  BY <1>6, <1>11 DEF KeysKept, Counted, KeyOf
<1>15. \A pkt \in DOMAIN handed : pkt.key # key
  BY <1>14 DEF KeysKept, Counted
<1>16. Installs(n, p, key)
  <2> HIDE DEF ps, p
  <2> QED BY <1>3, <1>9, <1>10, <1>12, <1>13, <1>14, <1>15 DEF Installs, history
<1> QED BY <1>4, <1>16

LEMMA FinishStep ==
  ASSUME Placed, KeysKept, NEW n \in Nodes, NEW d \in UnderWay, RecvHandshakeResp(n, d), Grows
  PROVE  d.frame.src \in Peers(n) /\ (Weakens \/ \E key : Installs(n, d.frame.src, key))
<1> DEFINE p  == d.frame.src
           f  == d.frame
           ps == Finish(st[n][p], f)
<1>1. PICK key : key = <<f.eph, f.reph>>
  OBVIOUS
<1>2. /\ Handles(n, d, "HandshakeResp") /\ SetPeer(n, p, ps) /\ UNCHANGED <<sealed, handed>>
  BY DEF RecvHandshakeResp, Handles
<1>3. Good(d) /\ p \in Peers(n) /\ f.kind = "HandshakeResp"
  BY <1>2 DEF Placed, WireTrue, Handles
<1>4. /\ p \in Nodes /\ p # n /\ st[n][p] \in PeerStates
  BY <1>3, PeerKnown DEF Placed
<1>5. /\ Drawn(f.eph) /\ Drawn(f.eph)' /\ f.eph \in Ephs
      /\ Drawn(f.reph) /\ Drawn(f.reph)' /\ f.reph \in Ephs /\ f.reph[1] = p
  BY <1>3, DrawnStays DEF Good, FrameTrue, Placed, Drawn
<1>6. NewSession(key) \in Sessions
  <2>1. MaxData \in Nat
    BY TunnelAssumption
  <2> QED BY <1>1, <1>5, <2>1 DEF NewSession, Sessions, Keys
<1>7. /\ ps \in PeerStates /\ ps.pending = None
      /\ ps.session = IF Answers(st[n][p], f) THEN NewSession(key) ELSE st[n][p].session
  BY <1>1, <1>4, <1>6 DEF PeerStates, Finish
<1>8. CASE ~Answers(st[n][p], f)
  <2>1. ps.session = Session(n, p)
    BY <1>7, <1>8 DEF Session
  <2>2. Weakens
    <3> HIDE DEF ps, p
    <3> QED BY <1>2, <1>4, <1>7, <2>1, EntryWeakens DEF Placed, history
  <2> QED BY <1>3, <2>2
<1>9. CASE Answers(st[n][p], f)
  <2>1. /\ OthersStay(n, p) /\ Session(n, p)' = NewSession(key) /\ Pending(n, p)' = None
    <3> HIDE DEF ps, p
    <3> QED BY <1>2, <1>4, <1>7, <1>9, EntryChanges DEF Placed
  <2>2. Pending(n, p) # None /\ Pending(n, p).eph = f.eph
    BY <1>9 DEF Answers, Pending
  <2>3. key[1] = f.eph /\ key[2] = f.reph
    BY <1>1
  <2>4. f.eph[1] = n
    BY <1>3, <2>2 DEF KeysKept, PendingUnused
  <2>5. KeyOf(n, key)'
    BY <1>4, <1>5, <2>3, <2>4 DEF KeyOf
  <2>6. ASSUME NEW q \in Peers(n)
        PROVE  /\ Session(n, q) # None => Session(n, q).key # key
               /\ q # p /\ Pending(n, q) # None => Pending(n, q).eph # key[1]
    BY <1>3, <2>2, <2>3 DEF KeysKept, PendingUnused
  <2>7. \A pkt \in DOMAIN sealed : pkt.src = n => pkt.key # key
    BY <1>3, <2>2, <2>3 DEF KeysKept, PendingUnused
  <2>8. \A pkt \in DOMAIN handed : pkt.src # n => pkt.key # key
    BY <1>3, <2>2, <2>3 DEF KeysKept, PendingUnused
  <2>9. Installs(n, p, key)
    BY <1>2, <2>1, <2>5, <2>6, <2>7, <2>8 DEF Installs, history
  <2> QED BY <1>3, <2>9
<1> QED BY <1>8, <1>9

LEMMA DataStep ==
  ASSUME Placed, KeysKept, NEW n \in Nodes, NEW d \in UnderWay, RecvData(n, d)
  PROVE  d.frame.src \in Peers(n) /\ (Weakens \/ \E pkt : Hands(n, d.frame.src, pkt))
<1> DEFINE p   == d.frame.src
           pkt == d.frame.packet
<1>1. Handles(n, d, "Data") /\ sealed' = sealed
  BY DEF RecvData, Handles
<1>2. Good(d) /\ p \in Peers(n) /\ d.frame.kind = "Data"
  BY <1>1 DEF Placed, WireTrue, Handles
<1>3. pkt \in DOMAIN sealed /\ pkt \in Packets /\ pkt.src = p
  BY <1>2 DEF Good, FrameTrue, Placed, PacketsTyped
<1>4. p \in Nodes /\ st[n][p] \in PeerStates /\ st[n][p].session \in Sessions \cup {None}
  BY <1>2, PeerKnown DEF Placed
<1>5. CASE /\ Decrypts(st[n][p].session, pkt)
           /\ SetPeer(n, p, [st[n][p] EXCEPT !.session.seen = @ \cup {pkt.ctr}])
           /\ handed' = handed (+) SetToBag({pkt})
  <2> DEFINE ps == [st[n][p] EXCEPT !.session.seen = @ \cup {pkt.ctr}]
  <2>1. st[n][p].session # None /\ st[n][p].session.key = pkt.key
        /\ pkt.ctr \notin st[n][p].session.seen /\ st[n][p].session \in Sessions
    BY <1>4, <1>5 DEF Decrypts
  <2>2. pkt.ctr \in 0 .. MaxData - 1
    BY <1>3 DEF Packets
  <2>3. /\ ps \in PeerStates /\ ps.pending = st[n][p].pending
        /\ ps.session.key = st[n][p].session.key /\ ps.session.sent = st[n][p].session.sent
        /\ ps.session.seen = st[n][p].session.seen \cup {pkt.ctr}
    BY <1>4, <2>1, <2>2 DEF PeerStates, Sessions
  <2>4. /\ OthersStay(n, p) /\ Session(n, p)' = ps.session /\ Pending(n, p)' = ps.pending
    <3>1. SetPeer(n, p, ps)
      BY <1>5
    <3> HIDE DEF ps, p
    <3> QED BY <1>4, <2>3, <3>1, EntryChanges DEF Placed
  <2>5. Session(n, p) = st[n][p].session /\ Pending(n, p) = st[n][p].pending
    BY DEF Session, Pending
  <2>6. Hands(n, p, pkt)
    <3> HIDE DEF ps, p, pkt
    <3> QED BY <1>1, <1>3, <1>5, <2>1, <2>3, <2>4, <2>5 DEF Hands
  <2> QED BY <1>2, <2>6
<1>6. CASE UNCHANGED <<st, handed>>
  BY <1>1, <1>2, <1>6, SameTablesWeaken DEF history
<1> QED BY <1>5, <1>6 DEF RecvData

LEMMA ReactStep ==
  ASSUME Placed, PendingUnused, NEW n \in Nodes, React(n)
  PROVE  Weakens \/ \E p \in Peers(n) : \E e : Begins(n, p, e)
<1>1. PICK p : p = reacting[n].peer
  OBVIOUS
<1>2. p \in Peers(n) /\ p \in Nodes
  BY <1>1 DEF React, Placed, ReactingTyped, Peers
<1>3. st[n][p] \in PeerStates /\ UNCHANGED history
  BY <1>2, PeerKnown DEF Placed, React
<1>4. CASE MayInitiate(st[n][p]) /\ \E e \in InitEphs(n, p) :
             /\ Draw(n, e)
             /\ SetPeer(n, p, [st[n][p] EXCEPT !.session = None, !.pending = InFlight(e)])
  <2>1. PICK e \in InitEphs(n, p) :
             /\ Draw(n, e)
             /\ SetPeer(n, p, [st[n][p] EXCEPT !.session = None, !.pending = InFlight(e)])
    BY <1>4
  <2> DEFINE ps == [st[n][p] EXCEPT !.session = None, !.pending = InFlight(e)]
  <2>2. /\ e \in Ephs /\ e[1] = n /\ Drawn(e)'
        /\ (Pending(n, p) # None /\ e = Pending(n, p).eph) \/ ~Drawn(e)
    BY <1>2, <2>1, InitEphIsOwn DEF Placed
  <2>3. ps \in PeerStates /\ ps.session = None /\ ps.pending = InFlight(e)
    BY <1>3, <2>2 DEF PeerStates, Pendings, InFlight
  <2>4. /\ OthersStay(n, p) /\ Session(n, p)' = None /\ Pending(n, p)' = InFlight(e)
    <3>1. SetPeer(n, p, ps)
      BY <2>1
    <3> HIDE DEF ps
    <3> QED BY <1>2, <2>3, <3>1, EntryChanges DEF Placed
  <2>5. Begins(n, p, e)
    BY <1>3, <1>4, <2>2, <2>4 DEF Begins, InFlight
  <2> QED BY <1>2, <2>5
<1>5. CASE UNCHANGED st
  BY <1>3, <1>5, SameTablesWeaken
<1> QED BY <1>1, <1>4, <1>5 DEF React

LEMMA QuietStep ==
  ASSUME Placed, NEW n \in Nodes,
         \/ \E p \in Peers(n) : Expire(n, p)
         \/ \E d \in net : Hear(n, d)
         \/ \E d \in UnderWay : RecvKeepalive(n, d) \/ DropInit(n, d) \/ RecvPeerAddr(n, d)
         \/ KeepaliveTick(n) \/ Restart(n)
  PROVE  Weakens /\ SessionsKept
<1>1. ASSUME NEW p \in Peers(n), Expire(n, p) PROVE Weakens /\ SessionsKept
  <2> DEFINE ps == [st[n][p] EXCEPT !.pending.expired = TRUE]
  <2>1. /\ p \in Nodes /\ st[n][p] \in PeerStates /\ st[n][p].pending \in Pendings
        /\ st[n][p].pending # None /\ SetPeer(n, p, ps) /\ UNCHANGED history
    BY <1>1, PeerKnown DEF Expire, Placed
  <2>2. /\ ps \in PeerStates /\ ps.session = st[n][p].session
        /\ ps.pending.eph = st[n][p].pending.eph
    BY <2>1 DEF PeerStates, Pendings
  <2> HIDE DEF ps
  <2> QED BY <2>1, <2>2, EntryWeakens DEF Placed, Session, Pending
<1>2. ASSUME NEW d \in net, Hear(n, d) PROVE Weakens /\ SessionsKept
  <2> DEFINE p  == d.frame.src
             ps == [st[n][p] EXCEPT !.direct = d.from]
  <2>1. /\ p \in Peers(n) /\ SetPeer(n, p, ps) /\ UNCHANGED history /\ d.from \in Addresses
    BY <1>2 DEF Hear, Placed, WireTrue, UnderWay, Good
  <2>2. p \in Nodes /\ st[n][p] \in PeerStates
    BY <2>1, PeerKnown DEF Placed
  <2>3. ps \in PeerStates /\ ps.session = st[n][p].session /\ ps.pending = st[n][p].pending
    BY <2>1, <2>2 DEF PeerStates
  <2> HIDE DEF ps, p
  <2> QED BY <2>1, <2>2, <2>3, EntryWeakens DEF Placed, Session, Pending
<1>3. ASSUME NEW d \in UnderWay, RecvKeepalive(n, d) \/ DropInit(n, d)
      PROVE  Weakens /\ SessionsKept
  BY <1>3, NothingDone, SameTablesWeaken DEF UsedUp, history
<1>4. ASSUME NEW d \in UnderWay, RecvPeerAddr(n, d) PROVE Weakens /\ SessionsKept
  <2> DEFINE p    == d.frame.src
             old  == st[n][p]
             ps   == [old EXCEPT !.candidate = IF old.direct = None THEN d.frame.addr ELSE @]
  <2>1. /\ p \in Peers(n) /\ SetPeer(n, p, ps) /\ UNCHANGED history /\ d.frame.addr \in Addresses
    BY <1>4 DEF RecvPeerAddr, Handles, Placed, WireTrue, Good, IsFrame, history
  <2>2. p \in Nodes /\ st[n][p] \in PeerStates
    BY <2>1, PeerKnown DEF Placed
  <2>3. ps \in PeerStates /\ ps.session = st[n][p].session /\ ps.pending = st[n][p].pending
    BY <2>1, <2>2 DEF PeerStates
  <2> HIDE DEF ps, p
  <2> QED BY <2>1, <2>2, <2>3, EntryWeakens DEF Placed, Session, Pending
<1>5. ASSUME KeepaliveTick(n) PROVE Weakens /\ SessionsKept
  <2>1. PICK endpoint :
          st' = [st EXCEPT ![n] = [p \in Nodes |->
                   IF p # n /\ @[p].direct = None /\ endpoint[p] # None
                   THEN [@[p] EXCEPT !.candidate = endpoint[p]] ELSE @[p]]]
    BY <1>5 DEF KeepaliveTick
  <2>2. \A m, p \in Nodes : \/ st'[m][p] = st[m][p]
                            \/ st'[m][p] = [st[m][p] EXCEPT !.candidate = endpoint[p]]
    BY <2>1 DEF Placed, TablesTrue
  <2>3. \A m, p \in Nodes : st[m][p] \in PeerStates
    BY DEF Placed, TablesTrue
  <2>4. \A m, p \in Nodes : /\ st'[m][p].session = st[m][p].session
                            /\ st'[m][p].pending = st[m][p].pending
    <3> SUFFICES ASSUME NEW m \in Nodes, NEW p \in Nodes
                 PROVE  /\ st'[m][p].session = st[m][p].session
                        /\ st'[m][p].pending = st[m][p].pending
      OBVIOUS
    <3>1. PICK old \in PeerStates : old = st[m][p]
      BY <2>3
    <3>2. st'[m][p] = old \/ st'[m][p] = [old EXCEPT !.candidate = endpoint[p]]
      BY <2>2, <3>1
    <3> QED BY <3>1, <3>2 DEF PeerStates
  <2>5. SessionsKept
    BY <2>4, UnchangedSessions DEF Session
  <2> QED BY <1>5, <2>4, <2>5 DEF Weakens, Session, Pending, KeepaliveTick
<1>6. ASSUME Restart(n) PROVE Weakens /\ SessionsKept
  <2>1. Fresh.session = None /\ Fresh.pending = None
    BY DEF Fresh
  <2>2. \A m, p \in Nodes : st'[m][p] = st[m][p] \/ st'[m][p] = Fresh
    BY <1>6 DEF Placed, TablesTrue, Restart
  <2>3. SessionsKept
    <3>1. \A m, p \in Nodes : m # n => st'[m][p] = st[m][p]
      BY <1>6 DEF Placed, TablesTrue, Restart
    <3>2. port'[n] = port[n] + 1 /\ port[n] \in Nat
      BY <1>6, TunnelAssumption DEF Restart, Placed, CountsTyped, Ports
    <3> QED BY <3>1, <3>2 DEF SessionsKept, Session, Peers
  <2> QED BY <1>6, <2>1, <2>2, <2>3 DEF Weakens, Session, Pending, Restart
<1> QED BY <1>1, <1>2, <1>3, <1>4, <1>5, <1>6

\* A step of a node, of the relay and of the network.
StepKinds ==
  \/ Weakens
  \/ \E n \in Nodes : \E p \in Peers(n) :
       \/ \E e : Begins(n, p, e)
       \/ \E key : Installs(n, p, key)
       \/ \E pkt : Seals(n, p, pkt) \/ Hands(n, p, pkt)

LEMMA NextStep ==
  ASSUME Placed, KeysKept, Grows, [Next]_vars
  PROVE  StepKinds
<1>1. PendingUnused
  BY DEF KeysKept
<1>2. ASSUME NEW n \in Nodes, Node(n) PROVE StepKinds
  <2>1. CASE \E p \in Peers(n) : TunPacket(n, p)
    BY <1>1, <2>1, SealStep, InitiateStep DEF TunPacket, StepKinds
  <2>2. CASE \/ \E p \in Peers(n) : Expire(n, p)
             \/ \E d \in net : Hear(n, d)
             \/ \E d \in UnderWay : RecvKeepalive(n, d) \/ DropInit(n, d) \/ RecvPeerAddr(n, d)
             \/ KeepaliveTick(n) \/ Restart(n)
    BY <2>2, QuietStep DEF StepKinds
  <2>3. CASE \E d \in UnderWay : AcceptInit(n, d)
    BY <2>3, AcceptStep DEF StepKinds
  <2>4. CASE \E d \in UnderWay : RecvHandshakeResp(n, d)
    BY <2>4, FinishStep DEF StepKinds
  <2>5. CASE \E d \in UnderWay : RecvData(n, d)
    BY <2>5, DataStep DEF StepKinds
  <2>6. CASE React(n)
    BY <1>1, <2>6, ReactStep DEF StepKinds
  <2> QED BY <1>2, <2>1, <2>2, <2>3, <2>4, <2>5, <2>6 DEF Node, RecvHandshakeInit
<1>3. ASSUME NEW d \in net, Forward(d) \/ Lose(d) PROVE StepKinds
  BY <1>3, SameTablesWeaken DEF Forward, Lose, StepKinds, history
<1>4. CASE RelayRestart \/ UNCHANGED vars
  BY <1>4, SameTablesWeaken DEF RelayRestart, StepKinds, vars, history
<1> QED BY <1>2, <1>3, <1>4 DEF Next

-----------------------------------------------------------------------------
(***************************************************************************)
(* The invariant                                                           *)
(***************************************************************************)
LEMMA InvFirst == Init => Inv
<1> SUFFICES ASSUME Init PROVE Inv
  OBVIOUS
<1>1. \A n, p \in Nodes : Session(n, p) = None /\ Pending(n, p) = None
  BY DEF Init, Fresh, Session, Pending
<1>2. DOMAIN sealed = {} /\ DOMAIN handed = {} /\ Once
  BY DEF Init, EmptyBag, SetToBag, Once
<1>3. \A n \in Nodes : Peers(n) \subseteq Nodes
  BY DEF Peers
<1>4. SessionKeys /\ PendingUnused
  BY <1>1, <1>3 DEF SessionKeys, PendingUnused
<1>5. Counted
  BY <1>2 DEF Counted
<1> QED BY <1>2, <1>4, <1>5, PlacedFirst DEF Inv

LEMMA InvStays == Inv /\ [Next]_vars => Inv'
<1> SUFFICES ASSUME Inv, [Next]_vars PROVE Inv'
  OBVIOUS
<1>1. Placed /\ KeysKept /\ PendingUnused
  BY DEF Inv, KeysKept
<1>2. Placed'
  BY <1>1, PlacedStays
<1>3. Grows
  BY <1>1, <1>2, NextGrows
<1>4. KeysKept'
  BY <1>1, <1>3, NextStep, WeakensKeeps, BeginsKeeps, InstallsKeeps, SealsKeeps, HandsKeeps
     DEF StepKinds
<1> QED BY <1>2, <1>4 DEF Inv, KeysKept

\* What is true of places, keys and counters stays true, for any nodes and any
\* behaviour of the network: the inductive invariant of the data plane.
THEOREM Invariant == Spec => []Inv
<1> QED BY InvFirst, InvStays, PTL DEF Spec

\* Every entry of every table, every frame under way and every packet has its type.
LEMMA InvTypes == Inv => TypeOK
<1> SUFFICES ASSUME Inv PROVE TypeOK
  OBVIOUS
<1>1. \A d \in UnderWay : d.from \in Addresses /\ d.to \in Addresses /\ IsFrame(d.frame)
  BY DEF Inv, Placed, WireTrue, Good
<1> QED BY <1>1 DEF Inv, Placed, TablesTrue, RelayTrue, ReactingTyped, CountsTyped,
                    PacketsTyped, TypeOK

\* The tables and the frames under way have their types (PeerState of tunnel.rs,
\* the frames of frame.rs), for any nodes and bounds.
THEOREM TypeCorrect == Spec => []TypeOK
<1> QED BY Invariant, InvTypes, PTL

\* What tables and relay say of where a peer is came from that peer, whatever is
\* lost, repeated, delayed or restarted.
THEOREM PathsComeFromPeer == Spec => []PathsLeadToPeer
<1>1. Inv => PathsLeadToPeer
  <2> SUFFICES ASSUME Inv PROVE PathsLeadToPeer
    OBVIOUS
  <2>1. TablesTrue /\ RelayTrue
    BY DEF Inv, Placed
  <2>2. \A n, p \in Nodes : p \in Peers(n) <=> n \in Peers(p)
    BY DEF Peers
  <2>3. \A p \in Nodes : \A n \in Peers(p) : n \in Nodes
    BY DEF Peers
  <2> QED BY <2>1, <2>2, <2>3 DEF TablesTrue, RelayTrue, Home, PathsLeadToPeer
<1> QED BY <1>1, Invariant, PTL

\* Session::encrypt never uses a counter twice under one key, however often
\* sessions are installed.
THEOREM NoNonceTwice == Spec => []NonceUnique
<1>1. Inv => NonceUnique
  BY DEF Inv, Once, NonceUnique
<1> QED BY <1>1, Invariant, PTL

\* No packet reaches a TUN twice, and none that was not sealed.
THEOREM NothingHandedTwice == Spec => []HandedAtMostOnce
<1>1. Inv => HandedAtMostOnce
  BY DEF Inv, Once, Counted, HandedAtMostOnce
<1> QED BY <1>1, Invariant, PTL

\* A handshake is replaced when it is old, and only then.
LEMMA OnlyOldReplaced ==
  ASSUME StepKinds, NEW n \in Nodes, NEW p \in Peers(n), Pending(n, p) # None,
         Pending(n, p)' # None, ~Pending(n, p).expired
  PROVE  Pending(n, p)'.eph = Pending(n, p).eph
<1>1. p \in Nodes
  BY DEF Peers
<1>2. CASE Weakens
  BY <1>1, <1>2 DEF Weakens
<1>3. ASSUME NEW m \in Nodes, NEW q \in Peers(m), NEW e, Begins(m, q, e)
      PROVE  Pending(n, p)'.eph = Pending(n, p).eph
  BY <1>1, <1>3 DEF Begins, OthersStay, MayInitiate, Pending
<1>4. ASSUME NEW m \in Nodes, NEW q \in Peers(m), NEW key, Installs(m, q, key)
      PROVE  Pending(n, p)'.eph = Pending(n, p).eph
  BY <1>1, <1>4 DEF Installs, OthersStay
<1>5. ASSUME NEW m \in Nodes, NEW q \in Peers(m), NEW pkt, Seals(m, q, pkt) \/ Hands(m, q, pkt)
      PROVE  Pending(n, p)'.eph = Pending(n, p).eph
  BY <1>1, <1>5 DEF Seals, Hands, OthersStay
<1> QED BY <1>2, <1>3, <1>4, <1>5 DEF StepKinds

\* Neither tun_pump nor the reaction of udp_pump replaces a handshake younger
\* than HANDSHAKE_RETRY_AFTER, although both may have begun it.
THEOREM YoungHandshakesStay == Spec => YoungHandshakeKept
<1> DEFINE Kept == \A n \in Nodes : \A p \in Peers(n) :
      LET now == st[n][p].pending  next == st'[n][p].pending IN
      now # None /\ next # None /\ ~now.expired => next.eph = now.eph
<1>1. Inv /\ [Next]_vars => Kept
  <2> SUFFICES ASSUME Inv, [Next]_vars, NEW n \in Nodes, NEW p \in Peers(n),
                      st[n][p].pending # None, st'[n][p].pending # None,
                      ~st[n][p].pending.expired
               PROVE  st'[n][p].pending.eph = st[n][p].pending.eph
    OBVIOUS
  <2>1. Placed /\ KeysKept /\ Placed'
    BY PlacedStays DEF Inv, KeysKept
  <2>2. StepKinds
    BY <2>1, NextGrows, NextStep
  <2> QED BY <2>2, OnlyOldReplaced DEF Pending
<1>2. Spec => [][Kept]_vars
  BY <1>1, Invariant, PTL DEF Spec
<1> QED BY <1>2 DEF YoungHandshakeKept

-----------------------------------------------------------------------------
(***************************************************************************)
(* A network of the relay alone that repeats nothing and keeps up with the *)
(* traffic.  No handshake and no packet starts before the one before has   *)
(* ended, one way or the other: at most one frame of an exchange is under  *)
(* way, or one reaction to one, in the whole network.                      *)
(***************************************************************************)
RelayedInTime == Timely /\ ~Duplicates /\ Reachable = {}

IsExchange(d) == d.frame.kind \in Exchanges

\* Sockets hear the relay, and it hears them.
Relayed == /\ \A n \in Nodes : heard[n] = None
           /\ \A d \in net : d.to = Relay \/ d.from = Relay

NoReaction == \A n \in Nodes : reacting[n] = None

OneExchange ==
  /\ \A d, x \in net : IsExchange(d) /\ IsExchange(x) => x = d
  /\ \A d \in net : IsExchange(d) => NoReaction
  /\ \A n, m \in Nodes : reacting[n] # None /\ reacting[m] # None => n = m

\* The sessions at both ends of the frame under way.  An end that began a
\* handshake has no session; one that answered has a fresh one, unless it
\* restarted; a packet can be decrypted, unless its receiver restarted.
InitFits(f) == f.kind = "HandshakeInit" => Session(f.src, f.dest) = None
RespFits(f) == f.kind = "HandshakeResp" =>
  /\ Session(f.dest, f.src) = None
  /\ Session(f.src, f.dest) \in {None, NewSession(<<f.eph, f.reph>>)}
DataFits(f) == f.kind = "Data" =>
  Session(f.dest, f.src) = None \/ Decrypts(Session(f.dest, f.src), f.packet)

FrameFits(f) == InitFits(f) /\ RespFits(f) /\ DataFits(f)
Fits(d)      == FrameFits(d.frame) /\ (d.to = Relay \/ d.to[1] = d.frame.dest)
WireFits     == \A d \in net : IsExchange(d) => Fits(d)

ReactingFits ==
  \A n \in Nodes : reacting[n] # None => Session(n, reacting[n].peer) = None

\* Two ends with sessions share the keys, and neither has seen a packet that
\* the other has yet to seal.
Agreed ==
  \A n \in Nodes : \A p \in Peers(n) :
    Session(n, p) # None /\ Session(p, n) # None =>
      /\ Session(n, p).key = Session(p, n).key
      /\ \A ctr \in Session(n, p).seen : ctr < Session(p, n).sent

Orderly == Relayed /\ OneExchange /\ WireFits /\ ReactingFits /\ Agreed

LEMMA SentToRelay ==
  ASSUME CountsTyped, Reachable = {}, NEW n \in Nodes, NEW tos, NEW f,
         NEW d \in Wire(Copies(Addr(n), tos, f))
  PROVE  d = Datagram(Addr(n), Relay, f)
<1>1. PICK a \in tos : d = Datagram(Addr(n), a, f)
  BY DEF Wire, Copies
<1>2. d.from = Addr(n) /\ d.to = a
  BY <1>1 DEF Datagram
<1>3. Addr(n) # Relay
  BY HomeIsAddress
<1>4. d.to = Relay
  BY <1>2, <1>3 DEF Wire, Reaches
<1> QED BY <1>1, <1>2, <1>4

LEMMA PeersMutual ==
  ASSUME NEW n \in Nodes, NEW p \in Peers(n)
  PROVE  p \in Nodes /\ p # n /\ n \in Peers(p)
  BY DEF Peers

\* The ends of a frame of an exchange.
LEMMA FrameEnds ==
  ASSUME Placed, NEW d \in net, IsExchange(d)
  PROVE  d.frame.src \in Nodes /\ d.frame.dest \in Nodes
  BY DEF Placed, WireTrue, UnderWay, Good, IsFrame, IsExchange, Exchanges

\* Sessions stay or go: what fitted still fits.
LEMMA FitsStays ==
  ASSUME NEW f, FrameFits(f), f.src \in Nodes, f.dest \in Nodes,
         \A m, q \in Nodes : Session(m, q)' \in {None, Session(m, q)}
  PROVE  FrameFits(f)'
<1>1. InitFits(f)'
  BY DEF FrameFits, InitFits
<1>2. RespFits(f)'
  BY DEF FrameFits, RespFits
<1>3. DataFits(f)'
  BY DEF FrameFits, DataFits, Decrypts
<1> QED BY <1>1, <1>2, <1>3 DEF FrameFits

LEMMA AgreedStays ==
  ASSUME Agreed, \A m, q \in Nodes : Session(m, q)' \in {None, Session(m, q)}
  PROVE  Agreed'
<1> SUFFICES ASSUME NEW n \in Nodes, NEW p \in Peers(n), Session(n, p)' # None, Session(p, n)' # None
             PROVE  /\ Session(n, p)'.key = Session(p, n)'.key
                    /\ \A ctr \in Session(n, p)'.seen : ctr < Session(p, n)'.sent
  BY DEF Agreed, Peers
<1>1. p \in Nodes
  BY DEF Peers
<1>2. Session(n, p)' = Session(n, p) /\ Session(p, n)' = Session(p, n)
  BY <1>1
<1> QED BY <1>2 DEF Agreed

\* A step that starts nothing.
Calm ==
  /\ \A n \in Nodes : heard'[n] = None
  /\ \A d \in net' : d \in net \/ (~IsExchange(d) /\ (d.to = Relay \/ d.from = Relay))
  /\ \A n \in Nodes : reacting'[n] \in {None, reacting[n]}
  /\ \A m, q \in Nodes : Session(m, q)' \in {None, Session(m, q)}

LEMMA CalmKeeps ==
  ASSUME Placed, Orderly, Calm
  PROVE  Orderly'
<1>1. Relayed'
  BY DEF Orderly, Relayed, Calm
<1>2. NoReaction => NoReaction'
  BY DEF NoReaction, Calm
<1>3. \A d \in net' : IsExchange(d) => d \in net
  BY DEF Calm
<1>4. OneExchange'
  <2>1. \A d, x \in net' : IsExchange(d) /\ IsExchange(x) => x = d
    BY <1>3 DEF Orderly, OneExchange
  <2>2. \A d \in net' : IsExchange(d) => NoReaction'
    BY <1>2, <1>3 DEF Orderly, OneExchange
  <2>3. \A n, m \in Nodes : reacting'[n] # None /\ reacting'[m] # None => n = m
    BY DEF Orderly, OneExchange, Calm
  <2> QED BY <2>1, <2>2, <2>3 DEF OneExchange, IsExchange
<1>5. WireFits'
  <2> SUFFICES ASSUME NEW d \in net', IsExchange(d) PROVE Fits(d)'
    BY DEF WireFits, IsExchange
  <2>1. d \in net /\ Fits(d)
    BY <1>3 DEF Orderly, WireFits
  <2>2. d.frame.src \in Nodes /\ d.frame.dest \in Nodes
    BY <2>1, FrameEnds
  <2>3. FrameFits(d.frame)'
    BY <2>1, <2>2, FitsStays DEF Calm, Fits
  <2> QED BY <2>1, <2>3 DEF Fits
<1>6. ReactingFits'
  <2>1. ASSUME NEW n \in Nodes, reacting'[n] # None PROVE st'[n][reacting'[n].peer].session = None
    <3>1. reacting'[n] = reacting[n] /\ reacting[n] # None
      BY <2>1 DEF Calm
    <3>2. PICK q \in Nodes : q = reacting[n].peer
      BY <3>1 DEF Placed, ReactingTyped
    <3>3. Session(n, q) = None
      BY <3>1, <3>2 DEF Orderly, ReactingFits
    <3>4. Session(n, q)' = None
      BY <3>3 DEF Calm
    <3> QED BY <3>1, <3>2, <3>4 DEF Session
  <2> QED BY <2>1 DEF ReactingFits, Session
<1>7. Agreed'
  BY AgreedStays DEF Orderly, Calm
<1> QED BY <1>1, <1>4, <1>5, <1>6, <1>7 DEF Orderly

\* A step that leaves one frame of an exchange under way, which fits.
Leaves(x) ==
  /\ \A n \in Nodes : heard'[n] = None
  /\ \A d \in net' : /\ IsExchange(d) => d = x
                     /\ d.to = Relay \/ d.from = Relay
  /\ NoReaction'
  /\ Fits(x)' /\ Agreed'

LEMMA LeavesKeeps ==
  ASSUME NEW x, Leaves(x)
  PROVE  Orderly'
<1>1. Relayed'
  BY DEF Relayed, Leaves
<1>2. OneExchange'
  BY DEF OneExchange, IsExchange, NoReaction, Leaves
<1>3. WireFits'
  BY DEF WireFits, IsExchange, Leaves
<1>4. ReactingFits'
  BY DEF ReactingFits, NoReaction, Leaves
<1> QED BY <1>1, <1>2, <1>3, <1>4 DEF Orderly, Leaves

\* A frame received comes from the relay, and off the wire.
LEMMA TakenOff ==
  ASSUME Placed, Orderly, RelayedInTime, NEW n \in Nodes, NEW d \in UnderWay, NEW kind,
         Handles(n, d, kind)
  PROVE  /\ d \in net /\ d.from = Relay /\ d.to = Addr(n) /\ d.frame.kind = kind
         /\ d.frame.src \in Peers(n) /\ Good(d)
         /\ \A m \in Nodes : heard'[m] = None
         /\ \A ds : Answer(n, d, ds) => net' = (net \ {d}) \cup Wire(ds)
         /\ UNCHANGED port
<1>1. heard[n] = None
  BY DEF Orderly, Relayed
<1>2. d \in net /\ Reaches(d, n) /\ d.frame.kind = kind /\ d.frame.src \in Peers(n)
      /\ heard' = [heard EXCEPT ![n] = None] /\ UNCHANGED port
  BY <1>1 DEF Handles
<1>3. d.to = Addr(n) /\ Addr(n) # Relay
  BY <1>2, HomeIsAddress DEF Reaches, Placed
<1>4. \A m \in Nodes : heard'[m] = None
  BY <1>2 DEF Orderly, Relayed, Placed, WireTrue, HeardTyped
<1>5. \A ds : Answer(n, d, ds) => net' = (net \ {d}) \cup Wire(ds)
  BY <1>1 DEF Answer, Exchange, RelayedInTime
<1> QED BY <1>2, <1>3, <1>4, <1>5 DEF Orderly, Relayed, Placed, WireTrue

\* If it is of an exchange, it is for n, and nothing else is under way.
LEMMA Alone ==
  ASSUME Placed, Orderly, NEW n \in Nodes, NEW d \in net, IsExchange(d), d.to = Addr(n)
  PROVE  /\ d.frame.dest = n /\ FrameFits(d.frame)
         /\ \A x \in net : IsExchange(x) => x = d
         /\ NoReaction
<1>1. Addr(n) # Relay /\ Addr(n)[1] = n
  BY HomeIsAddress DEF Placed, Addr
<1> QED BY <1>1 DEF Orderly, OneExchange, WireFits, Fits

\* One session changes: the pair still agrees if that session does.
LEMMA AgreedChanges ==
  ASSUME Agreed, NEW n \in Nodes, NEW p \in Peers(n), OthersStay(n, p),
         Session(n, p)' # None /\ Session(p, n) # None =>
           /\ Session(n, p)'.key = Session(p, n).key
           /\ \A ctr \in Session(n, p)'.seen : ctr < Session(p, n).sent
           /\ \A ctr \in Session(p, n).seen : ctr < Session(n, p)'.sent
  PROVE  Agreed'
<1>1. p \in Nodes /\ p # n /\ n \in Peers(p)
  BY PeersMutual
<1>2. Session(p, n)' = Session(p, n)
  BY <1>1 DEF OthersStay
<1> SUFFICES ASSUME NEW m \in Nodes, NEW q \in Peers(m), Session(m, q)' # None, Session(q, m)' # None
             PROVE  /\ Session(m, q)'.key = Session(q, m)'.key
                    /\ \A ctr \in Session(m, q)'.seen : ctr < Session(q, m)'.sent
  BY DEF Agreed, Peers
<1>3. q \in Nodes /\ q # m /\ m \in Peers(q)
  BY PeersMutual
<1>4. CASE m = n /\ q = p
  BY <1>2, <1>4
<1>5. CASE m = p /\ q = n
  BY <1>2, <1>5
<1>6. CASE ~(m = n /\ q = p) /\ ~(m = p /\ q = n)
  <2>1. Session(m, q)' = Session(m, q) /\ Session(q, m)' = Session(q, m)
    BY <1>3, <1>6 DEF OthersStay
  <2> QED BY <2>1 DEF Agreed
<1> QED BY <1>4, <1>5, <1>6

\* Sessions only stay: none is given up.
LEMMA SessionsStay ==
  ASSUME NEW n \in Nodes, NEW p \in Nodes, OthersStay(n, p), Session(n, p) # None => Session(n, p)' # None
  PROVE  SessionsKept
  BY DEF SessionsKept, OthersStay, Peers

LEMMA SameSessionsStay ==
  ASSUME UNCHANGED st
  PROVE  /\ SessionsKept
         /\ \A m, q \in Nodes : Session(m, q)' \in {None, Session(m, q)}
  BY DEF SessionsKept, Session

LEMMA NewSessionIsSome ==
  ASSUME NEW key \in Keys
  PROVE  NewSession(key) # None
<1>1. MaxData \in Nat
  BY TunnelAssumption
<1>2. NewSession(key) \in Sessions
  BY <1>1 DEF NewSession, Sessions
<1> QED BY <1>2, NoneAssumption

\* Nothing of an exchange is under way when timely traffic starts.
LEMMA QuietAlone ==
  ASSUME RelayedInTime, NEW n \in Nodes, NEW p \in Nodes, Paced(n, p)
  PROVE  NoReaction /\ \A d \in net : ~IsExchange(d)
  BY DEF RelayedInTime, Paced, Quiet, NoReaction, IsExchange, UnderWay

\* A node sends one frame of an exchange when there is none.
LEMMA Starts ==
  ASSUME Placed, Placed', Orderly, RelayedInTime, NEW n \in Nodes, NEW f, NEW tos,
         \A d \in net : ~IsExchange(d),
         net' = net \cup Wire(Copies(Addr(n), tos, f)), UNCHANGED heard, NoReaction',
         FrameFits(f)', Agreed'
  PROVE  Orderly'
<1>1. PICK x : x = Datagram(Addr(n), Relay, f)
  OBVIOUS
<1>2. x.to = Relay /\ x.frame = f
  BY <1>1 DEF Datagram
<1>3. \A d \in net' : d \in net \/ d = x
  BY <1>1, SentToRelay DEF Placed, RelayedInTime
<1>4. Fits(x)'
  BY <1>2 DEF Fits
<1>5. \A m \in Nodes : heard'[m] = None
  BY DEF Orderly, Relayed
<1>6. \A d \in net' : /\ IsExchange(d) => d = x
                      /\ d.to = Relay \/ d.from = Relay
  BY <1>2, <1>3 DEF Orderly, Relayed
<1>7. Leaves(x)
  BY <1>4, <1>5, <1>6 DEF Leaves
<1> QED BY <1>7, LeavesKeeps

LEMMA SealOrderly ==
  ASSUME Placed, Placed', KeysKept, Orderly, RelayedInTime, NEW n \in Nodes, NEW p \in Peers(n),
         Paced(n, p), SealAndSend(n, p), UNCHANGED <<heard, reacting, port, learned, faults>>
  PROVE  Orderly' /\ SessionsKept
<1>1. p \in Nodes /\ p # n /\ n \in Peers(p)
  BY PeersMutual
<1>2. NoReaction /\ \A d \in net : ~IsExchange(d)
  BY <1>1, QuietAlone
<1>3. PICK pkt : pkt = [key |-> st[n][p].session.key, src |-> n, ctr |-> st[n][p].session.sent]
  OBVIOUS
<1> DEFINE ps == [st[n][p] EXCEPT !.session.sent = @ + 1]
           f  == DataFrame(n, p, pkt)
<1>4. /\ st[n][p] \in PeerStates /\ st[n][p].session \in Sessions
      /\ st[n][p].session # None /\ st[n][p].session.sent \in Nat
      /\ st[n][p].session.sent < MaxData /\ MaxData \in Nat
  BY PeerKnown, TunnelAssumption DEF SealAndSend, Placed, Sessions
<1>5. /\ SetPeer(n, p, ps) /\ net' = net \cup Wire(Copies(Addr(n), {Relay}, f))
  BY <1>3 DEF SealAndSend, Send, Copies
<1>6. /\ ps \in PeerStates
      /\ ps.session.key = st[n][p].session.key /\ ps.session.seen = st[n][p].session.seen
      /\ ps.session.sent = st[n][p].session.sent + 1 /\ ps.session \in Sessions
  BY <1>4 DEF PeerStates, Sessions
<1>7. /\ OthersStay(n, p) /\ Session(n, p)' = ps.session
  <2> HIDE DEF ps
  <2> QED BY <1>1, <1>5, <1>6, EntryChanges DEF Placed
<1>8. Session(p, n)' = Session(p, n) /\ Session(n, p) = st[n][p].session
  BY <1>1, <1>7 DEF OthersStay, Session
<1>9. Session(p, n) # None =>
        /\ Session(n, p).key = Session(p, n).key
        /\ \A ctr \in Session(n, p).seen : ctr < Session(p, n).sent
        /\ \A ctr \in Session(p, n).seen : ctr < Session(n, p).sent
  BY <1>1, <1>4, <1>8 DEF Orderly, Agreed
<1>10. ps.session # None
  BY <1>6, NoneAssumption
<1>11. Session(p, n) # None => \A ctr \in Session(p, n).seen : ctr \in Nat
  <2>1. Session(p, n) \in Sessions \cup {None}
    BY <1>1, PeerKnown DEF Placed, Session
  <2> QED BY <2>1 DEF Sessions
<1>12. Agreed'
  <2>1. Session(p, n) # None => \A ctr \in Session(p, n).seen : ctr < st[n][p].session.sent + 1
    BY <1>4, <1>8, <1>9, <1>11
  <2> HIDE DEF ps
  <2> QED BY <1>6, <1>7, <1>8, <1>9, <2>1, AgreedChanges DEF Orderly
<1>13. SessionsKept
  <2> HIDE DEF ps
  <2> QED BY <1>1, <1>7, <1>10, SessionsStay
<1>14. f.kind = "Data" /\ f.src = n /\ f.dest = p /\ f.packet = pkt
  BY DEF DataFrame
<1>15. pkt.key = Session(n, p).key /\ pkt.ctr = Session(n, p).sent
  BY <1>3, <1>8
<1>16. FrameFits(f)'
  <2>1. Session(p, n) # None => pkt.ctr \notin Session(p, n).seen /\ Session(p, n).key = pkt.key
    BY <1>4, <1>8, <1>9, <1>11, <1>15
  <2>2. Session(p, n)' = None \/ Decrypts(Session(p, n)', pkt)
    BY <1>8, <2>1 DEF Decrypts
  <2> HIDE DEF f
  <2> QED BY <1>14, <2>2 DEF FrameFits, InitFits, RespFits, DataFits
<1>17. NoReaction'
  BY <1>2 DEF NoReaction
<1> HIDE DEF f
<1> QED BY <1>2, <1>5, <1>12, <1>13, <1>16, <1>17, Starts

LEMMA InitiateOrderly ==
  ASSUME Placed, Placed', KeysKept, Orderly, RelayedInTime, NEW n \in Nodes, NEW p \in Peers(n),
         Paced(n, p), Initiate(n, p), UNCHANGED <<heard, reacting, port, learned, faults>>
  PROVE  Orderly' /\ SessionsKept
<1>1. p \in Nodes /\ p # n /\ n \in Peers(p)
  BY PeersMutual
<1>2. NoReaction /\ \A d \in net : ~IsExchange(d)
  BY <1>1, QuietAlone
<1>3. PICK e \in InitEphs(n, p), advertised \in Endpoints(p) :
        /\ Draw(n, e)
        /\ SetPeer(n, p, [st[n][p] EXCEPT !.pending = InFlight(e),
                                     !.candidate = SeededCandidate(st[n][p], advertised)])
        /\ Send(Copies(Addr(n), HandshakePaths(st[n][p], advertised), InitFrame(n, p, e)))
  BY DEF Initiate
<1> DEFINE f == InitFrame(n, p, e)
<1>4. net' = net \cup Wire(Copies(Addr(n), HandshakePaths(st[n][p], advertised), f))
  BY <1>3 DEF Send
<1>5. \A m, q \in Nodes : Session(m, q)' = Session(m, q)
  <2>1. PICK e0 : Begins(n, p, e0)
    BY InitiateStep DEF KeysKept
  <2>2. Session(n, p) = None
    BY DEF Initiate, Session
  <2> QED BY <2>1, <2>2 DEF Begins, OthersStay
<1>6. SessionsKept
  <2>1. \A m \in Nodes : \A q \in Peers(m) : Session(m, q)' = Session(m, q)
    BY <1>5 DEF Peers
  <2> QED BY <2>1 DEF SessionsKept
<1>7. Agreed'
  BY <1>5, AgreedStays DEF Orderly
<1>8. f.kind = "HandshakeInit" /\ f.src = n /\ f.dest = p
  BY DEF InitFrame
<1>9. Session(n, p)' = None
  <2>1. Session(n, p) = None
    BY DEF Initiate, Session
  <2> QED BY <1>1, <1>5, <2>1
<1>10. FrameFits(f)'
  <2> HIDE DEF f
  <2> QED BY <1>8, <1>9 DEF FrameFits, InitFits, RespFits, DataFits
<1>11. NoReaction'
  BY <1>2 DEF NoReaction
<1> HIDE DEF f
<1> QED BY <1>2, <1>4, <1>6, <1>7, <1>10, <1>11, Starts

\* A frame received: nothing is under way but what it brings.
LEMMA ReceivedOrderly ==
  ASSUME Placed, Orderly, RelayedInTime, NEW n \in Nodes, NEW d \in UnderWay, NEW kind, kind \in Exchanges,
         Handles(n, d, kind), Answer(n, d, {}), UNCHANGED eph
  PROVE  \A x \in net' : x \in net /\ ~IsExchange(x)
<1>1. /\ d \in net /\ d.to = Addr(n) /\ d.frame.kind = kind /\ net' = (net \ {d}) \cup Wire({})
  BY TakenOff
<1>2. Wire({}) = {}
  BY DEF Wire
<1>3. \A x \in net : IsExchange(x) => x = d
  BY <1>1, Alone DEF IsExchange
<1> QED BY <1>1, <1>2, <1>3

LEMMA AcceptOrderly ==
  ASSUME Placed, Placed', KeysKept, Orderly, RelayedInTime, Grows,
         NEW n \in Nodes, NEW d \in UnderWay, AcceptInit(n, d)
  PROVE  Orderly' /\ SessionsKept
<1>0. PICK e : e = d.frame.eph
  OBVIOUS
<1>1. PICK p \in Peers(n) : p = d.frame.src /\ e = d.frame.eph
  BY <1>0 DEF AcceptInit, Handles
<1>2. PICK new : new = NextEph(n)
  OBVIOUS
<1>3. PICK key : key = <<e, new>>
  OBVIOUS
<1>4. PICK f : f = RespFrame(n, p, e, new)
  OBVIOUS
<1>5. p \in Nodes /\ p # n /\ n \in Peers(p)
  BY PeersMutual
<1>6. /\ Handles(n, d, "HandshakeInit") /\ CanDraw(n) /\ Draw(n, new)
      /\ SetPeer(n, p, Accept(st[n][p], key))
      /\ Answer(n, d, {Datagram(Addr(n), d.from, f)}) /\ UNCHANGED reacting
  BY <1>1, <1>2, <1>3, <1>4 DEF AcceptInit
<1>7. /\ d \in net /\ d.from = Relay /\ d.to = Addr(n) /\ d.frame.kind = "HandshakeInit"
      /\ Good(d) /\ \A m \in Nodes : heard'[m] = None
      /\ net' = (net \ {d}) \cup Wire({Datagram(Addr(n), Relay, f)})
  BY <1>6, TakenOff
<1>8. /\ d.frame.dest = n /\ FrameFits(d.frame) /\ NoReaction
      /\ \A x \in net : IsExchange(x) => x = d
  BY <1>7, Alone DEF IsExchange, Exchanges
<1>9. Session(p, n) = None
  BY <1>1, <1>7, <1>8 DEF FrameFits, InitFits
<1>10. key \in Keys
  <2>1. new \in Ephs
    BY <1>2, <1>6, NextEphIsNew DEF Placed
  <2>2. e \in Ephs
    BY <1>1, <1>7 DEF Good, FrameTrue, Drawn
  <2> QED BY <1>3, <2>1, <2>2 DEF Keys
<1>11. OthersStay(n, p) /\ Session(n, p)' = NewSession(key)
  <2> DEFINE ps == Accept(st[n][p], key)
  <2>1. st[n][p] \in PeerStates /\ MaxData \in Nat
    BY PeerKnown, TunnelAssumption DEF Placed
  <2>2. NewSession(key) \in Sessions
    BY <1>10, <2>1 DEF NewSession, Sessions
  <2>3. ps \in PeerStates /\ ps.session = NewSession(key)
    BY <2>1, <2>2 DEF PeerStates, Accept
  <2>4. SetPeer(n, p, ps)
    BY <1>6
  <2> HIDE DEF ps
  <2> QED BY <1>5, <2>3, <2>4, EntryChanges DEF Placed
<1>12. SessionsKept
  BY <1>5, <1>10, <1>11, NewSessionIsSome, SessionsStay
<1>13. Agreed'
  BY <1>9, <1>11, AgreedChanges DEF Orderly
<1>14. PICK x : x = Datagram(Addr(n), Relay, f)
  OBVIOUS
<1>15. x.to = Relay /\ x.frame = f
  BY <1>14 DEF Datagram
<1>16. f.kind = "HandshakeResp" /\ f.src = n /\ f.dest = p /\ f.eph = e /\ f.reph = new
  BY <1>4 DEF RespFrame
<1>17. FrameFits(f)'
  <2>1. Session(p, n)' = None
    BY <1>5, <1>9, <1>11 DEF OthersStay
  <2> QED BY <1>3, <1>11, <1>16, <2>1 DEF FrameFits, InitFits, RespFits, DataFits
<1>18. \A y \in net' : y = x \/ (y \in net /\ ~IsExchange(y))
  BY <1>7, <1>8, <1>14 DEF Wire
<1>19. Leaves(x)
  <2>1. Fits(x)'
    BY <1>15, <1>17 DEF Fits
  <2>2. NoReaction'
    BY <1>6, <1>8 DEF NoReaction
  <2>3. \A y \in net' : /\ IsExchange(y) => y = x
                        /\ y.to = Relay \/ y.from = Relay
    BY <1>15, <1>18 DEF Orderly, Relayed
  <2> QED BY <1>7, <1>13, <2>1, <2>2, <2>3 DEF Leaves
<1> QED BY <1>12, <1>19, LeavesKeeps

\* A step after which no exchange is under way, and no reaction.
LEMMA StillKeeps ==
  ASSUME Orderly, NoReaction', \A m \in Nodes : heard'[m] = None,
         \A x \in net' : x \in net /\ ~IsExchange(x), Agreed'
  PROVE  Orderly'
<1>1. Relayed'
  BY DEF Orderly, Relayed
<1>2. OneExchange'
  BY DEF OneExchange, IsExchange, NoReaction
<1>3. WireFits' /\ ReactingFits'
  BY DEF WireFits, ReactingFits, IsExchange, NoReaction
<1> QED BY <1>1, <1>2, <1>3 DEF Orderly

LEMMA FinishOrderly ==
  ASSUME Placed, Placed', KeysKept, Orderly, RelayedInTime, Grows,
         NEW n \in Nodes, NEW d \in UnderWay, RecvHandshakeResp(n, d)
  PROVE  Orderly' /\ SessionsKept
<1>0. PICK f : f = d.frame
  OBVIOUS
<1>1. PICK p \in Peers(n) : p = d.frame.src /\ f = d.frame
  BY <1>0 DEF RecvHandshakeResp, Handles
<1>2. p \in Nodes /\ p # n /\ n \in Peers(p)
  BY PeersMutual
<1>3. PICK key : key = <<f.eph, f.reph>>
  OBVIOUS
<1>4. /\ Handles(n, d, "HandshakeResp") /\ SetPeer(n, p, Finish(st[n][p], f))
      /\ Answer(n, d, {}) /\ UNCHANGED <<reacting, eph>>
  BY <1>1 DEF RecvHandshakeResp
<1>5. /\ d \in net /\ d.to = Addr(n) /\ f.kind = "HandshakeResp"
      /\ Good(d) /\ \A m \in Nodes : heard'[m] = None
  BY <1>1, <1>4, TakenOff
<1>6. f.dest = n /\ f.src = p /\ FrameFits(f) /\ NoReaction
  BY <1>1, <1>5, Alone DEF IsExchange, Exchanges
<1>7. \A x \in net' : x \in net /\ ~IsExchange(x)
  BY <1>4, ReceivedOrderly DEF Exchanges
<1>8. /\ Session(n, p) = None
      /\ Session(p, n) \in {None, NewSession(key)}
  BY <1>3, <1>5, <1>6 DEF FrameFits, RespFits
<1>9. key \in Keys
  BY <1>1, <1>3, <1>5 DEF Good, FrameTrue, Drawn, Keys
<1>10. OthersStay(n, p) /\ Session(n, p)' \in {None, NewSession(key)}
  <2> DEFINE ps == Finish(st[n][p], f)
  <2>1. st[n][p] \in PeerStates /\ MaxData \in Nat /\ st[n][p].session = None
    BY <1>8, PeerKnown, TunnelAssumption DEF Placed, Session
  <2>2. NewSession(key) \in Sessions
    BY <1>9, <2>1 DEF NewSession, Sessions
  <2>3. ps \in PeerStates /\ ps.session \in {None, NewSession(key)}
    BY <1>3, <2>1, <2>2 DEF PeerStates, Finish
  <2>4. SetPeer(n, p, ps)
    BY <1>4
  <2> HIDE DEF ps
  <2> QED BY <1>2, <2>3, <2>4, EntryChanges DEF Placed
<1>11. Agreed'
  <2>1. NewSession(key).seen = {} /\ NewSession(key).key = key
    BY DEF NewSession
  <2> QED BY <1>8, <1>10, <2>1, AgreedChanges DEF Orderly
<1>12. SessionsKept
  BY <1>2, <1>8, <1>10, SessionsStay
<1>13. NoReaction'
  BY <1>4, <1>6 DEF NoReaction
<1> QED BY <1>5, <1>7, <1>11, <1>12, <1>13, StillKeeps

LEMMA DataOrderly ==
  ASSUME Placed, Placed', KeysKept, Orderly, RelayedInTime, Grows,
         NEW n \in Nodes, NEW d \in UnderWay, RecvData(n, d)
  PROVE  Orderly' /\ SessionsKept
<1>0. PICK pkt : pkt = d.frame.packet
  OBVIOUS
<1>1. PICK p \in Peers(n) : p = d.frame.src /\ pkt = d.frame.packet
  BY <1>0 DEF RecvData, Handles
<1>2. p \in Nodes /\ p # n /\ n \in Peers(p)
  BY PeersMutual
<1>3. Handles(n, d, "Data") /\ Answer(n, d, {}) /\ UNCHANGED eph
  BY DEF RecvData
<1>4. /\ d \in net /\ d.to = Addr(n) /\ d.frame.kind = "Data"
      /\ Good(d) /\ \A m \in Nodes : heard'[m] = None
  BY <1>3, TakenOff
<1>5. d.frame.dest = n /\ FrameFits(d.frame) /\ NoReaction
  BY <1>4, Alone DEF IsExchange, Exchanges
<1>6. \A x \in net' : x \in net /\ ~IsExchange(x)
  BY <1>3, ReceivedOrderly DEF Exchanges
<1>7. CASE /\ Decrypts(st[n][p].session, pkt)
           /\ SetPeer(n, p, [st[n][p] EXCEPT !.session.seen = @ \cup {pkt.ctr}])
           /\ UNCHANGED reacting
  <2> DEFINE ps == [st[n][p] EXCEPT !.session.seen = @ \cup {pkt.ctr}]
  <2>1. /\ st[n][p] \in PeerStates /\ st[n][p].session \in Sessions
        /\ st[n][p].session # None /\ st[n][p].session.key = pkt.key
    BY <1>7, PeerKnown DEF Placed, Decrypts
  <2>2. pkt \in DOMAIN sealed /\ pkt \in Packets /\ pkt.src = p
    BY <1>1, <1>4 DEF Good, FrameTrue, Placed, PacketsTyped
  <2>3. pkt.ctr \in 0 .. MaxData - 1
    BY <2>2 DEF Packets
  <2>4. /\ ps \in PeerStates /\ ps.session \in Sessions
        /\ ps.session.key = st[n][p].session.key /\ ps.session.sent = st[n][p].session.sent
        /\ ps.session.seen = st[n][p].session.seen \cup {pkt.ctr}
    BY <2>1, <2>3 DEF PeerStates, Sessions
  <2>5. OthersStay(n, p) /\ Session(n, p)' = ps.session
    <3>1. SetPeer(n, p, ps)
      BY <1>7
    <3> HIDE DEF ps
    <3> QED BY <1>2, <2>4, <3>1, EntryChanges DEF Placed
  <2>6. Session(n, p) = st[n][p].session
    BY DEF Session
  <2>7. Session(p, n) # None =>
          /\ Session(n, p).key = Session(p, n).key
          /\ \A ctr \in Session(n, p).seen : ctr < Session(p, n).sent
          /\ \A ctr \in Session(p, n).seen : ctr < Session(n, p).sent
    BY <1>2, <2>1, <2>6 DEF Orderly, Agreed
  <2>8. Session(p, n) # None => pkt.ctr < Session(p, n).sent
    BY <1>2, <2>1, <2>2, <2>6, <2>7 DEF KeysKept, Counted
  <2>9. Agreed'
    <3> HIDE DEF ps
    <3> QED BY <2>4, <2>5, <2>6, <2>7, <2>8, AgreedChanges DEF Orderly
  <2>10. SessionsKept
    <3>1. ps.session # None
      BY <2>4, NoneAssumption
    <3> HIDE DEF ps
    <3> QED BY <1>2, <2>5, <3>1, SessionsStay
  <2>11. NoReaction'
    BY <1>5, <1>7 DEF NoReaction
  <2> QED BY <1>4, <1>6, <2>9, <2>10, <2>11, StillKeeps
<1>8. CASE /\ ~Decrypts(st[n][p].session, pkt)
           /\ reacting' = [reacting EXCEPT ![n] = [peer |-> p, from |-> d.from]]
           /\ UNCHANGED st
  <2>1. Session(n, p) = None
    BY <1>1, <1>4, <1>5, <1>8 DEF FrameFits, DataFits, Session
  <2>2. SessionsKept /\ \A m, q \in Nodes : Session(m, q)' \in {None, Session(m, q)}
    BY <1>8, SameSessionsStay
  <2>3. Agreed'
    BY <2>2, AgreedStays DEF Orderly
  <2>4. \A m \in Nodes : reacting'[m] = IF m = n THEN [peer |-> p, from |-> d.from] ELSE None
    BY <1>5, <1>8 DEF NoReaction, Placed, ReactingTyped
  <2>5. Relayed'
    BY <1>4, <1>6 DEF Orderly, Relayed
  <2>6. OneExchange'
    BY <1>6, <2>4 DEF OneExchange, IsExchange
  <2>7. WireFits'
    BY <1>6 DEF WireFits, IsExchange
  <2>8. ReactingFits'
    <3>1. ASSUME NEW m \in Nodes, reacting'[m] # None PROVE st'[m][reacting'[m].peer].session = None
      BY <1>8, <2>1, <2>4, <3>1 DEF Session
    <3> QED BY <3>1 DEF ReactingFits, Session
  <2> QED BY <2>2, <2>3, <2>5, <2>6, <2>7, <2>8 DEF Orderly
<1> QED BY <1>1, <1>7, <1>8 DEF RecvData

LEMMA ReactOrderly ==
  ASSUME Placed, Placed', KeysKept, Orderly, RelayedInTime, NEW n \in Nodes, React(n)
  PROVE  Orderly' /\ SessionsKept
<1>1. PICK p : p = reacting[n].peer
  OBVIOUS
<1>2. p \in Peers(n) /\ p \in Nodes /\ reacting[n] # None
  BY <1>1 DEF React, Placed, ReactingTyped, Peers
<1>3. Session(n, p) = None
  BY <1>1, <1>2 DEF Orderly, ReactingFits
<1>4. \A d \in net : ~IsExchange(d)
  BY <1>2 DEF Orderly, OneExchange, NoReaction
<1>5. \A m \in Nodes : reacting'[m] = None
  BY <1>2 DEF React, Placed, ReactingTyped, Orderly, OneExchange
<1>6. \A m, q \in Nodes : Session(m, q)' = Session(m, q)
  <2>1. CASE UNCHANGED st
    BY <2>1 DEF Session
  <2>2. CASE \E e \in InitEphs(n, p) :
             /\ Draw(n, e)
             /\ SetPeer(n, p, [st[n][p] EXCEPT !.session = None, !.pending = InFlight(e)])
    <3>1. PICK e \in InitEphs(n, p) :
             /\ Draw(n, e)
             /\ SetPeer(n, p, [st[n][p] EXCEPT !.session = None, !.pending = InFlight(e)])
      BY <2>2
    <3> DEFINE ps == [st[n][p] EXCEPT !.session = None, !.pending = InFlight(e)]
    <3>2. e \in Ephs /\ st[n][p] \in PeerStates
      BY <1>2, <3>1, InitEphIsOwn, PeerKnown DEF Placed, KeysKept
    <3>3. ps \in PeerStates /\ ps.session = None
      BY <3>2 DEF PeerStates, Pendings, InFlight
    <3>4. SetPeer(n, p, ps)
      BY <3>1
    <3> HIDE DEF ps
    <3>5. OthersStay(n, p) /\ Session(n, p)' = None
      BY <1>2, <3>3, <3>4, EntryChanges DEF Placed
    <3> QED BY <1>3, <3>5 DEF OthersStay
  <2> QED BY <1>1, <2>1, <2>2 DEF React
<1>7. SessionsKept
  BY <1>6, UnchangedSessions
<1>8. Agreed'
  BY <1>6, AgreedStays DEF Orderly
<1>9. NoReaction'
  BY <1>5 DEF NoReaction
<1>10. CASE UNCHANGED net
  <2>1. \A m \in Nodes : heard'[m] = None
    BY DEF React, Orderly, Relayed
  <2> QED BY <1>4, <1>7, <1>8, <1>9, <1>10, <2>1, StillKeeps
<1>11. CASE \E e : net' = net \cup Wire(Copies(Addr(n), {Relay, reacting[n].from}, InitFrame(n, p, e)))
  <2>1. PICK e : net' = net \cup Wire(Copies(Addr(n), {Relay, reacting[n].from}, InitFrame(n, p, e)))
    BY <1>11
  <2>2. PICK f, tos : f = InitFrame(n, p, e) /\ tos = {Relay, reacting[n].from}
    OBVIOUS
  <2>3. net' = net \cup Wire(Copies(Addr(n), tos, f)) /\ UNCHANGED heard
    BY <2>1, <2>2 DEF React
  <2>4. f.kind = "HandshakeInit" /\ f.src = n /\ f.dest = p
    BY <2>2 DEF InitFrame
  <2>5. FrameFits(f)'
    BY <1>2, <1>3, <1>6, <2>4 DEF FrameFits, InitFits, RespFits, DataFits
  <2> QED BY <1>4, <1>7, <1>8, <1>9, <2>3, <2>5, Starts
<1> QED BY <1>1, <1>10, <1>11 DEF React, Send

LEMMA ForwardOrderly ==
  ASSUME Placed, Placed', Orderly, RelayedInTime, NEW d \in net, Forward(d)
  PROVE  Orderly' /\ SessionsKept
<1>1. SessionsKept /\ \A m, q \in Nodes : Session(m, q)' = Session(m, q)
  BY UnchangedSessions DEF Forward, Session
<1>2. PICK to : to = IF d.frame.kind = "Keepalive" THEN None ELSE learned'[d.frame.dest]
  OBVIOUS
<1>3. PICK x : x = Datagram(Relay, to, d.frame)
  OBVIOUS
<1>4. x.from = Relay /\ x.to = to /\ x.frame = d.frame
  BY <1>3 DEF Datagram
<1>5. /\ net' = (net \ {d}) \cup Wire(IF to = None THEN {} ELSE {x} \cup Hints(d, to))
      /\ d.to = Relay /\ UNCHANGED <<heard, reacting, port>>
  BY <1>2, <1>3 DEF Forward, Exchange, RelayedInTime
<1>6. \A y \in Hints(d, to) : y.from = Relay /\ ~IsExchange(y)
  BY DEF Hints, HintFrame, Datagram, IsExchange, Exchanges
<1>7. /\ \A y \in net' : y \in net \ {d} \/ y = x \/ (y.from = Relay /\ ~IsExchange(y))
      /\ to = None => net' \subseteq net
  BY <1>5, <1>6 DEF Wire
<1>8. \A m \in Nodes : heard'[m] = None
  BY <1>5 DEF Orderly, Relayed
<1>9. CASE ~IsExchange(d) \/ to = None
  <2>1. Calm
    BY <1>1, <1>4, <1>5, <1>7, <1>8, <1>9 DEF Calm, Orderly, Relayed, IsExchange
  <2> QED BY <1>1, <2>1, CalmKeeps
<1>10. CASE IsExchange(d) /\ to # None
  <2>1. d.frame.kind # "Keepalive" /\ to = learned'[d.frame.dest]
    BY <1>2, <1>10 DEF IsExchange, Exchanges
  <2>2. d.frame.dest \in Nodes /\ d.frame.src \in Nodes
    BY <1>10, FrameEnds
  <2>3. to \in Home(d.frame.dest)'
    BY <1>10, <2>1, <2>2 DEF Placed, RelayTrue
  <2>4. to[1] = d.frame.dest
    BY <2>3 DEF Home
  <2>5. NoReaction /\ FrameFits(d.frame) /\ \A y \in net : IsExchange(y) => y = d
    BY <1>10 DEF Orderly, OneExchange, WireFits, Fits
  <2>6. FrameFits(d.frame)'
    BY <1>1, <2>2, <2>5, FitsStays
  <2>7. Fits(x)'
    BY <1>4, <2>4, <2>6 DEF Fits
  <2>8. Agreed'
    BY <1>1, AgreedStays DEF Orderly
  <2>9. NoReaction'
    BY <1>5, <2>5 DEF NoReaction
  <2>10. \A y \in net' : /\ IsExchange(y) => y = x
                         /\ y.to = Relay \/ y.from = Relay
    BY <1>4, <1>7, <2>5 DEF Orderly, Relayed
  <2>11. Leaves(x)
    BY <1>8, <2>7, <2>8, <2>9, <2>10 DEF Leaves
  <2> QED BY <1>1, <2>11, LeavesKeeps
<1> QED BY <1>9, <1>10

LEMMA HearNever ==
  ASSUME Placed, Orderly, NEW n \in Nodes, NEW d \in net
  PROVE  ~Hear(n, d)
<1>1. Addr(n) # Relay
  BY HomeIsAddress DEF Placed
<1> QED BY <1>1 DEF Hear, Reaches, Straight, Orderly, Relayed

\* Steps of a node that bring nothing of an exchange.
LEMMA CalmSteps ==
  ASSUME Placed, Orderly, RelayedInTime, NEW n \in Nodes,
         \/ \E p \in Peers(n) : Expire(n, p)
         \/ \E d \in UnderWay : RecvKeepalive(n, d) \/ DropInit(n, d) \/ RecvPeerAddr(n, d)
         \/ KeepaliveTick(n) \/ Restart(n)
  PROVE  Calm
<1>1. \A m, q \in Nodes : Session(m, q)' \in {None, Session(m, q)}
  BY QuietStep DEF Weakens
<1>2. ASSUME NEW tos, NEW d \in Wire(Copies(Addr(n), tos, KeepaliveFrame(n)))
      PROVE  d.to = Relay /\ ~IsExchange(d)
  <2>1. d = Datagram(Addr(n), Relay, KeepaliveFrame(n))
    BY <1>2, SentToRelay DEF Placed, RelayedInTime
  <2> QED BY <2>1 DEF Datagram, KeepaliveFrame, IsExchange, Exchanges
<1>3. CASE \E p \in Peers(n) : Expire(n, p)
  BY <1>1, <1>3 DEF Expire, Calm, Orderly, Relayed
<1>4. ASSUME NEW d \in UnderWay, RecvKeepalive(n, d) \/ DropInit(n, d) PROVE Calm
  <2>1. PICK kind : Handles(n, d, kind) /\ Answer(n, d, {}) /\ UNCHANGED reacting
    BY <1>4, NothingDone DEF UsedUp
  <2>2. (\A m \in Nodes : heard'[m] = None) /\ net' = (net \ {d}) \cup Wire({})
    BY <2>1, TakenOff
  <2> QED BY <1>1, <2>1, <2>2 DEF Calm, Wire
<1>5. ASSUME NEW d \in UnderWay, RecvPeerAddr(n, d) PROVE Calm
  <2>1. PICK tos : tos = {d.frame.addr}
    OBVIOUS
  <2>2. /\ Handles(n, d, "PeerAddr") /\ UNCHANGED reacting
        /\ Answer(n, d, Copies(Addr(n), tos, KeepaliveFrame(n)))
    BY <1>5, <2>1 DEF RecvPeerAddr, Copies
  <2>3. /\ \A m \in Nodes : heard'[m] = None
        /\ net' = (net \ {d}) \cup Wire(Copies(Addr(n), tos, KeepaliveFrame(n)))
    BY <2>2, TakenOff
  <2> QED BY <1>1, <1>2, <2>2, <2>3 DEF Calm
<1>6. CASE KeepaliveTick(n)
  <2>1. \E tos : net' = net \cup Wire(Copies(Addr(n), tos, KeepaliveFrame(n)))
    BY <1>6 DEF KeepaliveTick, Send
  <2> QED BY <1>1, <1>2, <1>6, <2>1 DEF KeepaliveTick, Calm, Orderly, Relayed
<1>7. CASE Restart(n)
  <2>1. /\ \A m \in Nodes : heard'[m] = None
        /\ \A m \in Nodes : reacting'[m] \in {None, reacting[m]}
    BY <1>7 DEF Restart, Orderly, Relayed, Placed, WireTrue, HeardTyped, ReactingTyped
  <2> QED BY <1>1, <1>7, <2>1 DEF Restart, Calm
<1> QED BY <1>3, <1>4, <1>5, <1>6, <1>7

LEMMA OrderlyStays ==
  ASSUME Inv, Inv', Orderly, RelayedInTime, [Next]_vars
  PROVE  Orderly' /\ SessionsKept
<1>1. Placed /\ Placed' /\ KeysKept
  BY DEF Inv, KeysKept
<1>2. Grows
  BY <1>1, NextGrows
<1>3. ASSUME NEW n \in Nodes, Node(n) PROVE Orderly' /\ SessionsKept
  <2>1. CASE \E p \in Peers(n) : TunPacket(n, p)
    BY <1>1, <2>1, SealOrderly, InitiateOrderly DEF TunPacket
  <2>2. CASE \/ \E p \in Peers(n) : Expire(n, p)
             \/ \E d \in UnderWay : RecvKeepalive(n, d) \/ DropInit(n, d) \/ RecvPeerAddr(n, d)
             \/ KeepaliveTick(n) \/ Restart(n)
    BY <1>1, <2>2, CalmSteps, CalmKeeps, QuietStep
  <2>3. CASE \E d \in UnderWay : AcceptInit(n, d)
    BY <1>1, <1>2, <2>3, AcceptOrderly
  <2>4. CASE \E d \in UnderWay : RecvHandshakeResp(n, d)
    BY <1>1, <1>2, <2>4, FinishOrderly
  <2>5. CASE \E d \in UnderWay : RecvData(n, d)
    BY <1>1, <1>2, <2>5, DataOrderly
  <2>6. CASE React(n)
    BY <1>1, <2>6, ReactOrderly
  <2>7. CASE \E d \in net : Hear(n, d)
    BY <1>1, <2>7, HearNever
  <2> QED BY <1>3, <2>1, <2>2, <2>3, <2>4, <2>5, <2>6, <2>7 DEF Node, RecvHandshakeInit
<1>4. ASSUME NEW d \in net, Forward(d) PROVE Orderly' /\ SessionsKept
  BY <1>1, <1>4, ForwardOrderly
<1>5. CASE (\E d \in net : Lose(d)) \/ RelayRestart \/ UNCHANGED vars
  <2>1. SessionsKept /\ \A m, q \in Nodes : Session(m, q)' \in {None, Session(m, q)}
    BY <1>5, SameSessionsStay DEF Lose, RelayRestart, vars
  <2>2. Calm
    BY <1>5, <2>1 DEF Lose, RelayRestart, vars, Calm, Orderly, Relayed
  <2> QED BY <1>1, <2>1, <2>2, CalmKeeps
<1> QED BY <1>3, <1>4, <1>5 DEF Next

LEMMA OrderlyFirst == Init => Orderly
<1> SUFFICES ASSUME Init PROVE Orderly
  OBVIOUS
<1>1. \A n, p \in Nodes : Session(n, p) = None
  BY DEF Init, Fresh, Session
<1>2. \A n \in Nodes : heard[n] = None /\ reacting[n] = None
  BY DEF Init
<1>3. net = {}
  BY DEF Init
<1>4. Agreed
  BY <1>1 DEF Agreed, Peers
<1> QED BY <1>2, <1>3, <1>4 DEF Orderly, Relayed, OneExchange, WireFits, ReactingFits

\* Relay-only delivery in time: at most one exchange is under way, and it finds
\* at both ends the sessions it was begun with.
THEOREM OneAtATime ==
  ASSUME RelayedInTime
  PROVE  Spec => [](Inv /\ Orderly)
<1>1. Init => Inv /\ Orderly
  BY InvFirst, OrderlyFirst
<1>2. Inv /\ Orderly /\ [Next]_vars => (Inv /\ Orderly)'
  BY InvStays, OrderlyStays
<1> QED BY <1>1, <1>2, PTL DEF Spec

\* tunnel.rs installs the two ends of a Noise exchange in different steps of
\* different nodes: on a network of the relay alone, in time, both hold the same
\* transport keys or one holds none, whatever is lost and whoever restarts.
THEOREM EndsShareKeys ==
  ASSUME RelayedInTime
  PROVE  Spec => []SameKeys
<1>1. Orderly => SameKeys
  <2> SUFFICES ASSUME Orderly, NEW n \in Nodes, NEW p \in Nodes,
                      st[n][p].session # None, st[p][n].session # None
               PROVE  st[n][p].session.key = st[p][n].session.key
    BY DEF SameKeys
  <2>1. CASE p = n
    BY <2>1
  <2>2. CASE p # n
    BY <2>2 DEF Orderly, Agreed, Session, Peers
  <2> QED BY <2>1, <2>2
<1> QED BY <1>1, OneAtATime, PTL

\* The reactive recovery of udp_pump discards a session only where the peer has
\* lost its own: on such a network none is given up but in a restart.
THEOREM NoneGivenUp ==
  ASSUME RelayedInTime
  PROVE  Spec => NoSpuriousTeardown
<1> DEFINE Kept == \A n \in Nodes : \A p \in Peers(n) :
      st[n][p].session # None /\ st'[n][p].session = None => port'[n] # port[n]
<1>1. Inv /\ Orderly /\ [Next]_vars => Kept
  <2> SUFFICES ASSUME Inv, Orderly, [Next]_vars PROVE Kept
    OBVIOUS
  <2>1. SessionsKept
    BY InvStays, OrderlyStays
  <2> QED BY <2>1 DEF SessionsKept, Session
<1>2. Spec => [][Kept]_vars
  BY <1>1, OneAtATime, PTL DEF Spec
<1> QED BY <1>2 DEF NoSpuriousTeardown

-----------------------------------------------------------------------------
(***************************************************************************)
(* What a node seals under one key, and what the other hands over of it,   *)
(* is the abstract channel that a single session implements (ReplayWindow).*)
(***************************************************************************)
Packet(key, n, c)   == [key |-> key, src |-> n, ctr |-> c]
SealedUnder(key, n) == {c \in 0 .. MaxData - 1 : Packet(key, n, c) \in DOMAIN sealed}
Delivered(x)        == IF x \in DOMAIN handed THEN handed[x] ELSE 0
HandedUnder(key, n) == [c \in 0 .. MaxData - 1 |-> Delivered(Packet(key, n, c))]
Channel(key, n) == INSTANCE AtMostOnce
  WITH Counters <- 0 .. MaxData - 1, sent <- SealedUnder(key, n), handed <- HandedUnder(key, n)

LEMMA PacketIs ==
  ASSUME NEW pkt \in Packets
  PROVE  pkt.ctr \in 0 .. MaxData - 1 /\ pkt = Packet(pkt.key, pkt.src, pkt.ctr)
BY DEF Packets, Packet

\* A packet sealed, or handed over, is one packet of one channel.
LEMMA SealsSends ==
  ASSUME Inv, Inv', NEW n \in Nodes, NEW p \in Peers(n), NEW pkt, Seals(n, p, pkt), NEW key \in Keys, NEW m \in Nodes
  PROVE  [Channel(key, m)!Next]_(Channel(key, m)!vars)
<1>1. DOMAIN sealed' = DOMAIN sealed \cup {pkt} /\ handed' = handed
  BY DEF Seals, (+), SetToBag
<1>2. pkt \in Packets
  BY <1>1 DEF Inv, Placed, PacketsTyped
<1>3. pkt \notin DOMAIN sealed
  <2>1. pkt.src = n /\ Session(n, p) # None /\ Session(n, p).key = pkt.key
        /\ pkt.ctr = Session(n, p).sent /\ pkt.ctr \in Nat
    BY DEF Seals
  <2>2. pkt \in DOMAIN sealed => pkt.ctr < Session(pkt.src, p).sent
    BY <2>1 DEF Inv, Counted
  <2>3. ~(pkt.ctr < pkt.ctr)
    BY <2>1
  <2> QED BY <2>1, <2>2, <2>3
<1>4. HandedUnder(key, m)' = HandedUnder(key, m)
  BY <1>1 DEF HandedUnder, Delivered
<1>5. CASE pkt.key = key /\ pkt.src = m
  <2>1. pkt.ctr \in 0 .. MaxData - 1 /\ pkt = Packet(key, m, pkt.ctr)
    BY <1>2, <1>5, PacketIs
  <2>2. \A c : Packet(key, m, c) = pkt => c = pkt.ctr
    BY DEF Packet
  <2>3. pkt.ctr \notin SealedUnder(key, m)
    BY <1>3, <2>1 DEF SealedUnder
  <2>4. SealedUnder(key, m)' = SealedUnder(key, m) \cup {pkt.ctr}
    BY <1>1, <2>1, <2>2 DEF SealedUnder
  <2> QED BY <1>4, <2>1, <2>3, <2>4 DEF Channel!Next, Channel!Send
<1>6. CASE ~(pkt.key = key /\ pkt.src = m)
  <2>1. \A c : Packet(key, m, c) # pkt
    BY <1>6 DEF Packet
  <2>2. SealedUnder(key, m)' = SealedUnder(key, m)
    BY <1>1, <2>1 DEF SealedUnder
  <2> QED BY <1>4, <2>2 DEF Channel!vars
<1> QED BY <1>5, <1>6

LEMMA HandsHands ==
  ASSUME Inv, Inv', NEW n \in Nodes, NEW p \in Peers(n), NEW pkt, Hands(n, p, pkt), NEW key \in Keys, NEW m \in Nodes
  PROVE  [Channel(key, m)!Next]_(Channel(key, m)!vars)
<1>1. DOMAIN handed' = DOMAIN handed \cup {pkt} /\ sealed' = sealed /\ pkt \in DOMAIN sealed
  BY DEF Hands, (+), SetToBag
<1>2. pkt \in Packets
  BY <1>1 DEF Inv, Placed, PacketsTyped
<1>3. pkt \notin DOMAIN handed
  <2>1. pkt \in DOMAIN handed => handed[pkt] = 1 /\ handed'[pkt] = 2
    BY DEF Hands, (+), SetToBag, Inv, Once
  <2>2. handed'[pkt] = 1
    BY <1>1 DEF Inv, Once
  <2> QED BY <2>1, <2>2
<1>4. SealedUnder(key, m)' = SealedUnder(key, m)
  BY <1>1 DEF SealedUnder
<1>5. /\ \A x : Delivered(x) = IF x \in DOMAIN handed THEN 1 ELSE 0
      /\ \A x : Delivered(x)' = IF x \in DOMAIN handed' THEN 1 ELSE 0
  BY DEF Inv, Once, Delivered
<1>6. CASE pkt.key = key /\ pkt.src = m
  <2>1. pkt.ctr \in 0 .. MaxData - 1 /\ pkt = Packet(key, m, pkt.ctr)
    BY <1>2, <1>6, PacketIs
  <2>2. \A c : Packet(key, m, c) = pkt => c = pkt.ctr
    BY DEF Packet
  <2>3. pkt.ctr \in SealedUnder(key, m) /\ HandedUnder(key, m)[pkt.ctr] = 0
    BY <1>1, <1>3, <1>5, <2>1 DEF SealedUnder, HandedUnder
  <2>4. HandedUnder(key, m)' = [HandedUnder(key, m) EXCEPT ![pkt.ctr] = 1]
    BY <1>1, <1>5, <2>1, <2>2 DEF HandedUnder
  <2> QED BY <1>4, <2>3, <2>4 DEF Channel!Next, Channel!Hand
<1>7. CASE ~(pkt.key = key /\ pkt.src = m)
  <2>1. \A c : Packet(key, m, c) # pkt
    BY <1>7 DEF Packet
  <2>2. HandedUnder(key, m)' = HandedUnder(key, m)
    BY <1>1, <1>5, <2>1 DEF HandedUnder
  <2> QED BY <1>4, <2>2 DEF Channel!vars
<1> QED BY <1>6, <1>7

\* What AtMostOnce promises of one session holds of a key in the whole system:
\* whatever handshakes, restarts, losses and repetitions do to the sessions that
\* have the key, what one end seals under it is sealed under a counter not used
\* before, and handed over at the other end once at most, after it was sealed.
THEOREM KeysAreChannels ==
  ASSUME NEW key \in Keys, NEW m \in Nodes PROVE Spec => Channel(key, m)!Spec
<1>1. Init => Channel(key, m)!Init
  <2> SUFFICES ASSUME Init PROVE Channel(key, m)!Init
    OBVIOUS
  <2>1. DOMAIN sealed = {} /\ DOMAIN handed = {}
    BY DEF Init, EmptyBag, SetToBag
  <2>2. SealedUnder(key, m) = {}
    BY <2>1 DEF SealedUnder
  <2>3. HandedUnder(key, m) = [c \in 0 .. MaxData - 1 |-> 0]
    BY <2>1 DEF HandedUnder, Delivered
  <2> QED BY <2>2, <2>3 DEF Channel!Init
<1>2. Inv /\ Inv' /\ [Next]_vars => [Channel(key, m)!Next]_(Channel(key, m)!vars)
  <2> SUFFICES ASSUME Inv, Inv', [Next]_vars PROVE [Channel(key, m)!Next]_(Channel(key, m)!vars)
    OBVIOUS
  <2>1. Placed /\ KeysKept /\ Placed'
    BY DEF Inv, KeysKept
  <2>2. StepKinds
    BY <2>1, NextGrows, NextStep DEF Inv
  <2>3. ASSUME UNCHANGED history PROVE [Channel(key, m)!Next]_(Channel(key, m)!vars)
    <3>1. SealedUnder(key, m)' = SealedUnder(key, m) /\ HandedUnder(key, m)' = HandedUnder(key, m)
      BY <2>3 DEF history, SealedUnder, HandedUnder, Delivered
    <3> QED BY <3>1 DEF Channel!vars
  <2>4. CASE Weakens
    BY <2>3, <2>4 DEF Weakens
  <2>5. ASSUME NEW n \in Nodes, NEW p \in Peers(n), (\E e : Begins(n, p, e)) \/ (\E k : Installs(n, p, k))
        PROVE  [Channel(key, m)!Next]_(Channel(key, m)!vars)
    BY <2>3, <2>5 DEF Begins, Installs
  <2> QED BY <2>2, <2>4, <2>5, SealsSends, HandsHands DEF StepKinds
<1> QED BY <1>1, <1>2, Invariant, PTL DEF Spec, Channel!Spec
=============================================================================
