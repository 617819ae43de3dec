--------------------------- MODULE RoutingProofs ---------------------------
(***************************************************************************)
(* Routing for every width, overlay, peers file, set of peer maps, access  *)
(* list and exit node.  What makes the properties inductive is that every  *)
(* table, the one tun_pump holds included, has each entry under the        *)
(* entry's own address, and that a packet about to be sent was routed by   *)
(* the table it holds and let through by the access list.                  *)
(***************************************************************************)
EXTENDS Routing, WellFoundedInduction, TLAPS

Sound(t) == /\ DOMAIN t \subseteq Numbers(4)
            /\ \A ip \in DOMAIN t : t[ip] \in Peers /\ t[ip].ip = ip

Routed == Sending => /\ pump.via \in RouteToIp(pump.peers, pump.dest)
                     /\ Permits(config.acl, pump.via)

Inv == /\ TypeOK
       /\ Sound(table)
       /\ pump.at # "recv" => Sound(pump.peers)
       /\ Routed

-----------------------------------------------------------------------------
(***************************************************************************)
(* Tables.                                                                 *)
(***************************************************************************)
\* from_peers finds a last entry for every address of the list.
LEMMA LastEntry ==
  ASSUME NEW list \in Seq(Peers), NEW k \in DOMAIN list
  PROVE  \E i \in DOMAIN list : /\ list[i].ip = list[k].ip
                                /\ \A j \in DOMAIN list : list[j].ip = list[k].ip => j <= i
<1> DEFINE back == {Len(list) - i : i \in {j \in DOMAIN list : list[j].ip = list[k].ip}}
<1>1. Len(list) \in Nat /\ DOMAIN list = 1 .. Len(list)
  OBVIOUS
<1>2. back \subseteq Nat
  BY <1>1
<1>3. Len(list) - k \in back
  OBVIOUS
<1>4. PICK b \in back : \A c \in back : ~ (<<c, b>> \in OpToRel(<, Nat))
  <2> HIDE DEF back
  <2> QED
    BY <1>2, <1>3, NatLessThanWellFounded, WFMin, Zenon
<1>5. PICK i \in DOMAIN list : list[i].ip = list[k].ip /\ b = Len(list) - i
  BY <1>4
<1>6. ASSUME NEW j \in DOMAIN list, list[j].ip = list[k].ip
      PROVE  j <= i
  <2>1. Len(list) - j \in back
    BY <1>6
  <2>2. ~ (Len(list) - j < b)
    <3>1. ~ (<<Len(list) - j, b>> \in OpToRel(<, Nat))
      BY <1>4, <2>1
    <3> HIDE DEF back
    <3> QED
      BY <1>2, <2>1, <3>1 DEF OpToRel
  <2> QED
    BY <1>1, <1>5, <2>2
<1> QED
  BY <1>5, <1>6

\* So every entry of the table it makes stands under its own address.
LEMMA FromPeersSound ==
  ASSUME NEW list \in Seq(Peers)
  PROVE  Sound(FromPeers(list))
<1> DEFINE Last(ip, i) == /\ list[i].ip = ip
                          /\ \A j \in DOMAIN list : list[j].ip = ip => j <= i
<1>1. ASSUME NEW ip \in DOMAIN FromPeers(list)
      PROVE  ip \in Numbers(4) /\ FromPeers(list)[ip] \in Peers /\ FromPeers(list)[ip].ip = ip
  <2>1. PICK k \in DOMAIN list : ip = list[k].ip
    BY <1>1 DEF FromPeers
  <2>2. \E i \in DOMAIN list : Last(ip, i)
    BY <2>1, LastEntry
  <2>3. PICK i \in DOMAIN list : Last(ip, i) /\ FromPeers(list)[ip] = list[i]
    BY <1>1, <2>2 DEF FromPeers
  <2>4. list[i] \in Peers
    BY <2>3
  <2> QED
    BY <2>3, <2>4 DEF Peers
<1> QED
  BY <1>1 DEF Sound

LEMMA FirstTableSound ==
  ASSUME NEW list \in Maps \cup {<<>>}
  PROVE  Sound(FirstTable(list))
<1>1. Lines \in Seq(Peers) /\ (list # <<>> => list \in Seq(Peers))
  BY RoutingAssumption DEF RoutingAssumption
<1> QED
  BY <1>1, FromPeersSound DEF FirstTable

\* What the assumption says of the two families.
LEMMA Widths ==
  /\ 2 ^ Width[4] \in Nat /\ 2 ^ (Width[4] - 1) \in Numbers(4) /\ Width[4] \in Nat \ {0}
  /\ \A f \in Families : /\ Net[f] \in Numbers(f) /\ NetPrefix[f] \in 0 .. Width[f]
                         /\ Net[f] \in Nat
  /\ Net[4] \in Nat /\ Net[6] \in Nat
<1>1. 4 \in Families /\ 6 \in Families
  BY DEF Families
<1>2. \A f \in Families : /\ Width[f] \in Nat \ {0} /\ 2 ^ Width[f] \in Nat
                         /\ 2 ^ (Width[f] - 1) \in Numbers(f)
                         /\ Net[f] \in Numbers(f) /\ NetPrefix[f] \in 1 .. Width[f]
  BY RoutingAssumption DEF RoutingAssumption
<1>3. \A f \in Families : Net[f] \in Nat /\ NetPrefix[f] \in 0 .. Width[f]
  BY <1>2 DEF Numbers
<1> QED
  BY <1>1, <1>2, <1>3

\* Two peers have no overlay address in common, wrapped around or not.
LEMMA HomesDiffer ==
  ASSUME NEW p \in Peers, NEW q \in Peers, NEW a, a \in Home(p), a \in Home(q)
  PROVE  p.ip = q.ip
<1>1. /\ p.ip \in Int /\ q.ip \in Int /\ 0 <= p.ip /\ 0 <= q.ip
      /\ p.ip < 2 ^ Width[4] /\ q.ip < 2 ^ Width[4]
      /\ Net[4] \in Int /\ Net[6] \in Int /\ 2 ^ Width[4] \in Int
  <2>1. p.ip \in Numbers(4) /\ q.ip \in Numbers(4)
    BY DEF Peers
  <2> QED
    BY <2>1, Widths DEF Numbers
<1>2. CASE a = <<4, p.ip>>
  BY <1>2 DEF Home, OverlayV6
<1>3. CASE a = OverlayV6(p.ip)
  BY <1>1, <1>3 DEF Home, OverlayV6
<1> QED
  BY <1>2, <1>3 DEF Home

\* An address of a peer in a sound table leads to this peer alone.
LEMMA PeersFirst ==
  ASSUME NEW t, Sound(t), NEW p \in Entries(t), NEW a \in Home(p), NEW via \in RouteToIp(t, a)
  PROVE  via = p
<1>1. p.ip \in DOMAIN t /\ p = t[p.ip] /\ p \in Peers
  BY DEF Entries, Sound
<1>2. CASE a = <<4, p.ip>>
  BY <1>1, <1>2 DEF RouteToIp, RouteTo
<1>3. CASE a = OverlayV6(p.ip)
  <2>1. via \in Entries(t) /\ a = OverlayV6(via.ip)
    BY <1>3 DEF RouteToIp, OverlayV6
  <2>2. via \in Peers /\ via = t[via.ip]
    BY <2>1 DEF Entries, Sound
  <2>3. via.ip = p.ip
    BY <1>1, <2>1, <2>2, HomesDiffer DEF Home
  <2> QED
    BY <1>1, <2>2, <2>3
<1> QED
  BY <1>2, <1>3 DEF Home

-----------------------------------------------------------------------------
(***************************************************************************)
(* The invariant.                                                          *)
(***************************************************************************)
LEMMA InitInv == Init => Inv
<1> SUFFICES ASSUME Init PROVE Inv
  OBVIOUS
<1>1. pump.at = "recv"
  BY DEF Init, Reading
<1>2. Sound(table)
  BY FirstTableSound DEF Init
<1>3. routes \subseteq Cidrs
  <2>1. OverlayRoutes \subseteq Cidrs
    <3>1. \A f \in Families : <<f, Net[f]>> \in {f} \X Numbers(f)
      BY Widths
    <3> QED
      BY <3>1, Widths DEF OverlayRoutes, Cidrs
  <2>2. HalfRoutes \subseteq Cidrs
    <3>1. 0 \in Numbers(4) /\ 1 \in 0 .. Width[4] /\ 4 \in Families
      BY Widths DEF Numbers, Families
    <3>2. \A n \in {0, 2 ^ (Width[4] - 1)} : <<4, n>> \in {4} \X Numbers(4)
      BY <3>1, Widths
    <3> QED
      BY <3>1, <3>2 DEF HalfRoutes, Cidrs
  <2>3. Advertised(table) \subseteq Cidrs
    BY <1>2 DEF Advertised, Entries, Sound, Peers
  <2> QED
    BY <2>1, <2>2, <2>3 DEF Init, SetupInterface
<1>4. TypeOK
  BY <1>1, <1>2, <1>3 DEF TypeOK, Init, Sound
<1> QED
  BY <1>1, <1>2, <1>4 DEF Inv, Routed, Sending

\* What a name resolves to is the address of an entry.
LEMMA ResolveType ==
  ASSUME NEW t, Sound(t), NEW name, NEW ip \in ResolveName(t, name)
  PROVE  ip \in Numbers(4)
BY DEF ResolveName, Entries, Sound, Peers

LEMMA StepInv == Inv /\ [Next]_vars => Inv'
<1> SUFFICES ASSUME Inv, [Next]_vars PROVE Inv'
  OBVIOUS
<1> USE DEF Inv
<1>1. ASSUME NEW a \in Addresses, Receive(a) PROVE Inv'
  <2>1. /\ pump'.at = "route" /\ pump'.dest \in Addresses /\ pump'.peers = table
        /\ UNCHANGED <<config, table, routes, known>>
    BY <1>1 DEF Receive
  <2> QED
    BY <2>1 DEF TypeOK, Sound, Routed, Sending
<1>2. CASE Route
  <2>1. PICK p \in RouteToIp(pump.peers, pump.dest) :
          /\ Permits(config.acl, p)
          /\ pump' = [at |-> "send", dest |-> pump.dest, peers |-> pump.peers, via |-> p]
    BY <1>2 DEF Route
  <2>2. pump.at = "route" /\ UNCHANGED <<config, table, routes, known>>
    BY <1>2 DEF Route
  <2>3. /\ pump'.at = "send" /\ pump'.dest = pump.dest /\ pump'.peers = pump.peers
        /\ pump'.via = p
    BY <2>1
  <2>4. Routed'
    BY <2>1, <2>2, <2>3 DEF Routed, Sending, Permits, RouteToIp, RouteTo, Gateways, Entries
  <2> QED
    BY <2>2, <2>3, <2>4 DEF TypeOK, Sound
<1>3. CASE Drop \/ Send
  BY <1>3 DEF Drop, Send, Reading, TypeOK, Sound, Routed, Sending
<1>4. ASSUME NEW list \in Maps, Refresh(list) PROVE Inv'
  <2>1. UNCHANGED <<config, routes, known, pump>> /\ table' = FromPeers(list)
    BY <1>4 DEF Refresh
  <2>2. list \in Seq(Peers)
    BY RoutingAssumption DEF RoutingAssumption
  <2>3. Sound(table')
    BY <2>1, <2>2, FromPeersSound
  <2> QED
    BY <2>1, <2>3 DEF TypeOK, Sound, Routed, Sending
<1>5. ASSUME NEW name \in Names, Lookup(name) PROVE Inv'
  <2>1. UNCHANGED <<config, table, routes, pump>>
    BY <1>5 DEF Lookup
  <2>2. known' \in [Names -> Numbers(4) \cup {None}]
    BY <1>5, ResolveType DEF Lookup, TypeOK
  <2> QED
    BY <2>1, <2>2 DEF TypeOK, Sound, Routed, Sending
<1>6. CASE UNCHANGED vars
  BY <1>6 DEF vars, TypeOK, Sound, Routed, Sending
<1> QED
  BY <1>1, <1>2, <1>3, <1>4, <1>5, <1>6 DEF Next

\* Tables stay sound, and a packet on its way out was routed and permitted.
THEOREM Invariance == Spec => []Inv
BY InitInv, StepInv, PTL DEF Spec

\* Every variable has its type.
THEOREM TypeCorrect == Spec => []TypeOK
<1>1. Inv => TypeOK
  BY DEF Inv
<1> QED
  BY <1>1, Invariance, PTL

\* A packet for an address of a peer in the table goes to this peer and no
\* other: in every overlay, however far outside it peers are, whatever networks
\* are advertised, and whenever the refresh thread swaps the table.
THEOREM PeerBeforeGateway == Spec => []OverlayFirst
<1>1. Inv => OverlayFirst
  BY PeersFirst DEF Inv, OverlayFirst, Sending, Routed
<1> QED
  BY <1>1, Invariance, PTL

\* Whatever the access list, a packet leaves only for a peer with a tag that one
\* rule, with the sender in the same rule, allows.
THEOREM DefaultDeny == Spec => []OneRuleAllows
<1> SUFFICES ASSUME Inv, Sending, config.acl # None
             PROVE  \E r \in config.acl.rules, tag \in pump.via.tags :
                      /\ \E m \in config.acl.mine :
                           r.from = m \/ (m.kind = "tag" /\ r.from = [m EXCEPT !.name = Star])
                      /\ r.to.kind = "tag" /\ r.to.name \in {tag, Star}
  <2>1. Inv => OneRuleAllows
    BY DEF OneRuleAllows
  <2> QED
    BY <2>1, Invariance, PTL
<1>1. PICK r \in config.acl.rules :
        /\ SomeMatch(r.from, config.acl.mine)
        /\ SomeMatch(r.to, PeerPrincipals(pump.via))
  BY DEF Inv, Routed, Permits, EvaluateSets
<1>2. PICK m \in config.acl.mine : PrincipalMatches(r.from, m)
  BY <1>1 DEF SomeMatch
<1>3. m \in Principals
  BY RoutingAssumption DEF RoutingAssumption, Inv, TypeOK
<1>4. r.from = m \/ (m.kind = "tag" /\ r.from = [m EXCEPT !.name = Star])
  BY <1>2, <1>3 DEF PrincipalMatches, Principals
<1>5. PICK c \in PeerPrincipals(pump.via) : PrincipalMatches(r.to, c)
  BY <1>1 DEF SomeMatch
<1>6. c.kind = "tag" /\ c.name \in pump.via.tags /\ c = [kind |-> "tag", name |-> c.name]
  BY <1>5 DEF PeerPrincipals
<1>7. r.to.kind = "tag" /\ r.to.name \in {c.name, Star}
  BY <1>5, <1>6 DEF PrincipalMatches
<1> QED
  BY <1>4, <1>6, <1>7

-----------------------------------------------------------------------------
(***************************************************************************)
(* Where tables, routes and names come from.                               *)
(***************************************************************************)
Bears(t, ip, name) == ip \in DOMAIN t /\ Lower[t[ip].name] = Lower[name]

\* Tables are those of some map or of the file, a route other than the overlay's
\* and the exit node's was advertised in one, and the answer to a name was an
\* address of its bearer.
Origin ==
  /\ table \in Tables /\ (pump.at # "recv" => pump.peers \in Tables)
  /\ \A r \in routes : \/ r \in OverlayRoutes
                       \/ r.prefix # 0 /\ \E t \in Tables : r \in Advertised(t)
                       \/ config.exit # None
  /\ \A name \in Names : known[name] # None => \E t \in Tables : Bears(t, known[name], name)

\* Every table has its entries from a list, and is sound.
LEMMA TablesListed ==
  ASSUME NEW t \in Tables
  PROVE  /\ Sound(t)
         /\ \A p \in Entries(t) : \E list \in Maps \cup {Lines} : \E i \in DOMAIN list : p = list[i]
<1>1. PICK list \in Maps \cup {Lines} : t = FromPeers(list)
  BY DEF Tables
<1>2. list \in Seq(Peers)
  BY RoutingAssumption DEF RoutingAssumption
<1>3. ASSUME NEW ip \in DOMAIN t
      PROVE  \E i \in DOMAIN list : t[ip] = list[i]
  <2>1. PICK k \in DOMAIN list : ip = list[k].ip
    BY <1>1, <1>3 DEF FromPeers
  <2>2. \E i \in DOMAIN list : /\ list[i].ip = ip
                               /\ \A j \in DOMAIN list : list[j].ip = ip => j <= i
    BY <1>2, <2>1, LastEntry
  <2> QED
    BY <1>1, <1>3, <2>2 DEF FromPeers
<1> QED
  BY <1>1, <1>2, <1>3, FromPeersSound DEF Entries

\* What a name resolves to is an address under which its bearer stands.
LEMMA ResolvesToBearer ==
  ASSUME NEW t, Sound(t), NEW name, NEW ip \in ResolveName(t, name)
  PROVE  Bears(t, ip, name)
BY DEF ResolveName, Entries, Sound, Bears

LEMMA OriginInv == Spec => []Origin
<1>1. Init => Origin
  <2> SUFFICES ASSUME Init PROVE Origin
    OBVIOUS
  <2>1. table \in Tables
    BY DEF Init, FirstTable, Tables
  <2>2. pump.at = "recv" /\ \A name \in Names : known[name] = None
    BY DEF Init, Reading
  <2>3. \A r \in routes : \/ r \in OverlayRoutes
                          \/ r.prefix # 0 /\ r \in Advertised(table)
                          \/ config.exit # None
    BY DEF Init, SetupInterface
  <2> QED
    BY <2>1, <2>2, <2>3 DEF Origin
<1>2. Inv /\ Origin /\ [Next]_vars => Origin'
  <2> SUFFICES ASSUME Inv, Origin, [Next]_vars PROVE Origin'
    OBVIOUS
  <2>1. ASSUME NEW a \in Addresses, Receive(a) PROVE Origin'
    <3>1. pump'.peers = table /\ UNCHANGED <<config, table, routes, known>>
      BY <2>1 DEF Receive
    <3> QED
      BY <3>1 DEF Origin
  <2>2. CASE Route
    <3>1. pump'.peers = pump.peers /\ pump.at # "recv" /\ UNCHANGED <<config, table, routes, known>>
      BY <2>2 DEF Route
    <3> QED
      BY <3>1 DEF Origin
  <2>3. CASE Drop \/ Send
    <3>1. pump'.at = "recv" /\ UNCHANGED <<config, table, routes, known>>
      BY <2>3 DEF Drop, Send, Reading
    <3> QED
      BY <3>1 DEF Origin
  <2>4. ASSUME NEW list \in Maps, Refresh(list) PROVE Origin'
    <3>1. table' \in Tables /\ UNCHANGED <<config, routes, known, pump>>
      BY <2>4 DEF Refresh, Tables
    <3> QED
      BY <3>1 DEF Origin
  <2>5. ASSUME NEW name \in Names, Lookup(name) PROVE Origin'
    <3>1. UNCHANGED <<config, table, routes, pump>>
      BY <2>5 DEF Lookup
    <3>2. PICK ip \in ResolveName(table, name) \cup {None} : known' = [known EXCEPT ![name] = ip]
      BY <2>5 DEF Lookup
    <3>3. known \in [Names -> Numbers(4) \cup {None}] /\ Sound(table) /\ table \in Tables
      BY DEF Inv, TypeOK, Origin
    <3>4. ip # None => Bears(table, ip, name)
      BY <3>2, <3>3, ResolvesToBearer
    <3>5. \A other \in Names : known'[other] # None => \E t \in Tables : Bears(t, known'[other], other)
      <4> SUFFICES ASSUME NEW other \in Names, known'[other] # None
                   PROVE  \E t \in Tables : Bears(t, known'[other], other)
        OBVIOUS
      <4>1. CASE other = name
        BY <3>2, <3>3, <3>4, <4>1
      <4>2. CASE other # name
        BY <3>2, <3>3, <4>2 DEF Origin
      <4> QED
        BY <4>1, <4>2
    <3> QED
      BY <3>1, <3>5 DEF Origin
  <2>6. CASE UNCHANGED vars
    BY <2>6 DEF vars, Origin
  <2> QED
    BY <2>1, <2>2, <2>3, <2>4, <2>5, <2>6 DEF Next
<1> QED
  BY <1>1, <1>2, Invariance, PTL DEF Spec

\* The address a name once had leads to a bearer of the name, if to an overlay
\* address at all, however often the table was swapped since the lookup.
THEOREM NamesLeadHome == Spec => []NameReachesBearer
<1>1. Inv /\ Origin => NameReachesBearer
  <2> SUFFICES ASSUME Inv, Origin, Sending, NEW name \in Names,
                      pump.dest = <<4, known[name]>>, pump.via.ip = known[name]
               PROVE  Lower[pump.via.name] = Lower[name]
    BY DEF NameReachesBearer
  <2> DEFINE ip == known[name]
  <2>1. /\ pump.via \in RouteToIp(pump.peers, pump.dest) /\ pump.dest \in Addresses
        /\ pump.peers \in Tables /\ Sound(pump.peers)
    BY DEF Inv, TypeOK, Routed, Sending, Origin
  <2>2. ip \in Numbers(4)
    BY <2>1 DEF Addresses, Families
  <2>3. PICK t \in Tables : Bears(t, ip, name)
    BY <2>2, RoutingAssumption DEF Origin, RoutingAssumption
  <2>4. pump.via \in Entries(pump.peers)
    BY <2>1 DEF RouteToIp, RouteTo, Gateways, Entries
  <2>5. ip \in DOMAIN pump.peers /\ pump.via = pump.peers[ip]
    BY <2>1, <2>4 DEF Entries, Sound
  <2>6. Lower[t[ip].name] = Lower[pump.peers[ip].name]
    BY <2>1, <2>3, <2>5, BearerAssumption DEF Bears
  <2> QED
    BY <2>3, <2>5, <2>6 DEF Bears
<1> QED
  BY <1>1, Invariance, OriginInv, PTL

\* Without an exit node nothing enters the tunnel but what is for the overlay or
\* for a network, not the default route, that some table advertised.
THEOREM NothingCaptured == Spec => []NotCaptured
<1>1. Inv /\ Origin => NotCaptured
  <2> SUFFICES ASSUME Inv, Origin, config.exit = None, NEW a \in Addresses, EntersTunnel(a)
               PROVE  \/ \E r \in OverlayRoutes : Covers(r, a)
                      \/ \E list \in Maps \cup {Lines} : \E i \in DOMAIN list :
                           \E cidr \in list[i].advertised : cidr.prefix > 0 /\ Covers(cidr, a)
    BY DEF NotCaptured
  <2>1. PICK r \in routes : Covers(r, a)
    BY DEF EntersTunnel
  <2>2. r.prefix \in Nat
    BY Widths, RoutingAssumption DEF Inv, TypeOK, Cidrs, RoutingAssumption
  <2>3. CASE r \in OverlayRoutes
    BY <2>1, <2>3
  <2>4. ASSUME r.prefix # 0, NEW t \in Tables, r \in Advertised(t)
        PROVE  \E list \in Maps \cup {Lines} : \E i \in DOMAIN list : r \in list[i].advertised
    BY <2>4, TablesListed DEF Advertised
  <2>5. r.prefix # 0 => r.prefix > 0
    BY <2>2
  <2> QED
    BY <2>1, <2>3, <2>4, <2>5 DEF Origin
<1> QED
  BY <1>1, Invariance, OriginInv, PTL

-----------------------------------------------------------------------------
(***************************************************************************)
(* Bits: what a mask keeps of an address is what the kernel reads.  That   *)
(* holds for one bit and passes to the next one up.                        *)
(***************************************************************************)
\* What holds at m and passes from every number to the next holds up to n.
LEMMA Upwards ==
  ASSUME NEW m \in Nat, NEW n \in Nat, NEW Q, m \in Q,
         \A k \in m .. n - 1 : k \in Q => k + 1 \in Q
  PROVE  m .. n \subseteq Q
<1> DEFINE bad == {k \in m .. n : k \notin Q}
<1>1. ASSUME NEW j \in bad PROVE FALSE
  <2>1. bad \subseteq Nat
    OBVIOUS
  <2>2. PICK b \in bad : \A c \in bad : ~ (<<c, b>> \in OpToRel(<, Nat))
    <3> HIDE DEF bad
    <3> QED BY <1>1, <2>1, NatLessThanWellFounded, WFMin, Zenon
  <2>3. b \in m .. n /\ b \notin Q /\ b # m
    OBVIOUS
  <2>4. b - 1 \in m .. n - 1 /\ b - 1 \in Nat /\ b - 1 < b /\ (b - 1) + 1 = b
    BY <2>3
  <2>5. b - 1 \in bad
    BY <2>3, <2>4
  <2>6. <<b - 1, b>> \in OpToRel(<, Nat)
    BY <2>1, <2>4 DEF OpToRel
  <2> QED BY <2>2, <2>5, <2>6
<1> QED BY <1>1

\* A bit further up is a bit of the quotient.
LEMMA Halved == ASSUME NEW n \in Nat, NEW s \in Nat \ {0}
                PROVE  n \div (2 * s) = (n \div s) \div 2
<1>1. PICK q \in Nat, r \in 0 .. s - 1 : n = q * s + r /\ n \div s = q
  OBVIOUS
<1>2. PICK u \in Nat, v \in 0 .. 1 : q = 2 * u + v /\ q \div 2 = u
  OBVIOUS
<1>3. n = u * (2 * s) + (v * s + r) /\ v * s + r \in 0 .. 2 * s - 1
  <2>1. CASE v = 0
    BY <1>1, <1>2, <2>1
  <2>2. CASE v = 1
    BY <1>1, <1>2, <2>2
  <2> QED BY <1>2, <2>1, <2>2
<1> QED BY <1>1, <1>2, <1>3

\* A mask of a longer prefix than none leaves out what is below the prefix.
LEMMA Masked ==
  ASSUME NEW f \in Families, NEW p \in 1 .. Width[f], NEW n \in Numbers(f)
  PROVE  /\ 2 ^ (Width[f] - p) \in Nat \ {0}
         /\ And(n, Mask(Width[f], p), Width[f]) = n - (n % 2 ^ (Width[f] - p))
<1>1. PICK w \in Nat \ {0} : w = Width[f]
  BY RoutingAssumption DEF RoutingAssumption
<1>2. PICK m \in Nat : m = w - p /\ m \in 0 .. w - 1
  BY <1>1
<1>3. \A k \in 0 .. w - 1 : 2 ^ k \in Nat \ {0} /\ 2 ^ (k + 1) = 2 * 2 ^ k
  BY <1>1, PowersAssumption DEF PowersAssumption
<1>4. PICK s \in Nat \ {0} : s = 2 ^ m
  BY <1>2, <1>3
<1>5. PICK top \in Nat : top = 2 ^ w
  BY <1>1, RoutingAssumption DEF RoutingAssumption
<1>6. s <= top
  <2> DEFINE Q == {k \in 0 .. w : s <= 2 ^ k}
  <2>1. m \in Q
    BY <1>2, <1>4
  <2>2. ASSUME NEW k \in m .. w - 1, k \in Q PROVE k + 1 \in Q
    <3>1. k \in 0 .. w - 1 /\ k + 1 \in 0 .. w
      BY <1>2
    <3>2. PICK e \in Nat \ {0} : e = 2 ^ k /\ 2 ^ (k + 1) = 2 * e
      BY <1>3, <3>1
    <3>3. s <= e
      BY <2>2, <3>2
    <3>4. s <= 2 * e
      BY <3>2, <3>3
    <3> QED BY <3>1, <3>2, <3>4
  <2> HIDE DEF Q
  <2>3. m .. w \subseteq Q
    BY <2>1, <2>2, Upwards
  <2>4. w \in Q
    BY <1>2, <2>3
  <2> QED BY <1>5, <2>4 DEF Q
<1>7. ((top - 1) * s) % top = top - s
  <2>1. (top - 1) * s = (s - 1) * top + (top - s) /\ top - s \in 0 .. top - 1
    BY <1>4, <1>5, <1>6
  <2> QED BY <1>4, <1>5, <1>6, <2>1
<1>8. Mask(w, p) = top - s
  BY <1>1, <1>2, <1>4, <1>5, <1>7 DEF Mask
<1>9. top - (top - s) = s
  BY <1>4, <1>5
<1> QED BY <1>1, <1>2, <1>4, <1>5, <1>8, <1>9 DEF And

\* Contains and the kernel agree: numbers that are equal under a mask have the
\* same first bits.
LEMMA ContainsCovers ==
  ASSUME NEW cidr \in Cidrs, NEW a \in Addresses, Contains(cidr, a)
  PROVE  Covers(cidr, a)
<1>1. PICK f \in Families : /\ cidr.net[1] = f /\ a[1] = f /\ cidr.prefix \in 0 .. Width[f]
                            /\ cidr.net[2] \in Numbers(f) /\ a[2] \in Numbers(f)
  BY DEF Contains, Cidrs, Addresses
<1>2. PICK w, p, x, y :
        w = Width[f] /\ w \in Nat \ {0} /\ p = cidr.prefix /\ p \in 0 .. w /\ x = cidr.net[2] /\ y = a[2]
  BY <1>1, RoutingAssumption DEF RoutingAssumption
<1>3. CASE p = 0
  <2>1. w - p .. w - 1 = {}
    BY <1>2, <1>3
  <2> QED BY <1>1, <1>2, <2>1 DEF Covers
<1>4. CASE p # 0
  <2>1. PICK m \in Nat : m = w - p /\ m \in 0 .. w - 1
    BY <1>2, <1>4
  <2>2. x \in Nat /\ y \in Nat
    BY <1>1, <1>2 DEF Numbers
  <2>3. PICK s \in Nat \ {0} : s = 2 ^ m /\ x - (x % s) = y - (y % s)
    <3>1. p \in 1 .. Width[f]
      BY <1>2, <1>4
    <3>2. And(x, Mask(w, p), w) = And(y, Mask(w, p), w)
      BY <1>1, <1>2 DEF Contains, SameUnder
    <3> QED BY <1>1, <1>2, <2>1, <3>1, <3>2, Masked
  <2>4. x \div s = y \div s
    <3>1. PICK q \in Nat, r \in 0 .. s - 1 : x = q * s + r /\ x \div s = q /\ x % s = r
      BY <2>2, <2>3
    <3>2. PICK u \in Nat, v \in 0 .. s - 1 : y = u * s + v /\ y \div s = u /\ y % s = v
      BY <2>2, <2>3
    <3>3. q * s = u * s
      BY <2>3, <3>1, <3>2
    <3> QED BY <2>3, <3>1, <3>2, <3>3
  <2>5. \A k \in 0 .. w - 1 : 2 ^ k \in Nat \ {0} /\ 2 ^ (k + 1) = 2 * 2 ^ k
    BY <1>2, PowersAssumption DEF PowersAssumption
  <2> DEFINE Q == {k \in 0 .. w - 1 : x \div 2 ^ k = y \div 2 ^ k}
  <2>6. m \in Q
    BY <2>1, <2>3, <2>4
  <2>7. ASSUME NEW k \in m .. (w - 1) - 1, k \in Q PROVE k + 1 \in Q
    <3>1. k \in 0 .. w - 1 /\ k + 1 \in 0 .. w - 1
      BY <1>2, <2>1
    <3>2. PICK e \in Nat \ {0} : e = 2 ^ k /\ 2 ^ (k + 1) = 2 * e
      BY <2>5, <3>1
    <3>3. x \div (2 * e) = (x \div e) \div 2 /\ y \div (2 * e) = (y \div e) \div 2
      BY <2>2, <3>2, Halved
    <3>4. x \div e = y \div e
      BY <2>7, <3>2
    <3> QED BY <3>1, <3>2, <3>3, <3>4
  <2>8. \A k \in w - p .. w - 1 : Bit(x, k) = Bit(y, k)
    <3> HIDE DEF Q
    <3>1. w - 1 \in Nat
      BY <1>2
    <3>2. m .. w - 1 \subseteq Q
      BY <2>6, <2>7, <3>1, Upwards
    <3> QED BY <2>1, <3>2 DEF Bit, Q
  <2> QED BY <1>1, <1>2, <2>8 DEF Covers
<1> QED BY <1>2, <1>3, <1>4

\* A packet for no peer's address leaves for one that advertised a network with
\* the address, as the kernel reads it, in every width and for every prefix.
THEOREM GatewaysCover == Spec => []ViaGateway
<1>1. Inv => ViaGateway
  <2> SUFFICES ASSUME Inv, Sending, pump.dest \notin Home(pump.via)
               PROVE  \E cidr \in pump.via.advertised : Covers(cidr, pump.dest)
    BY DEF ViaGateway
  <2>1. PICK a, via, t : a = pump.dest /\ via = pump.via /\ t = pump.peers
    OBVIOUS
  <2>2. a \in Addresses /\ via \in RouteToIp(t, a) /\ Sound(t) /\ a \notin Home(via)
    BY <2>1 DEF Inv, TypeOK, Routed, Sending
  <2>3. a = <<a[1], a[2]>> /\ a[1] \in Families
    BY <2>2 DEF Addresses
  <2>4. a[1] = 4 /\ a[2] \notin DOMAIN t
    BY <2>2, <2>3 DEF RouteToIp, RouteTo, Home, Sound
  <2>5. PICK cidr \in via.advertised : Contains(cidr, a)
    BY <2>2, <2>3, <2>4 DEF RouteToIp, RouteTo, Gateways
  <2>6. via \in Peers
    BY <2>2, <2>4 DEF RouteToIp, RouteTo, Gateways, Entries, Sound
  <2>7. cidr \in Cidrs
    BY <2>5, <2>6 DEF Peers
  <2> QED BY <2>1, <2>2, <2>5, <2>7, ContainsCovers
<1> QED BY <1>1, Invariance, PTL

=============================================================================
