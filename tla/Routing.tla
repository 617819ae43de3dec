------------------------------ MODULE Routing ------------------------------
(***************************************************************************)
(* Where a packet of a node's host goes: the routes that lead into the     *)
(* tunnel, the table that names the peer, the access list that lets it     *)
(* pass, the names by which the host asks for addresses, and the refresh   *)
(* thread that swaps the table meanwhile (tunnel.rs, peers.rs, acl.rs and  *)
(* main.rs of crates/akurai-node/src; cidr.rs, overlay.rs and policy.rs of *)
(* crates/akurai-common/src; crates/akurai-dns/src).                       *)
(*                                                                         *)
(* What becomes of a packet once its peer is known is in Tunnel; its frame *)
(* is taken to leave the host, which it does if the relay is on the host's *)
(* own network or there is no exit node.  A name is a value, in one of its *)
(* spellings, without the zone.  The daemon runs on Linux.                 *)
(***************************************************************************)
EXTENDS Integers, Sequences

CONSTANTS
  None,
  Width,      \* bits of an address, by family: 32 and 128
  Net,        \* OVERLAY_IPV4_NET and OVERLAY_IPV6_NET, by family
  NetPrefix,  \* OVERLAY_IPV4_PREFIX_LEN and OVERLAY_IPV6_PREFIX_LEN
  Names,      \* names of peers, as written
  Lower,      \* to_ascii_lowercase on names
  Blank,      \* the empty name
  Tags,       \* ACL tags
  Star,       \* the tag "*"
  Users,      \* users, as principals
  Lan,        \* the network the host is on, whose route is not the tunnel's
  Exits,      \* what exit_node may be: an address, or None
  Acls,       \* the access lists there may be, or None
  Lines,      \* the peers file
  Maps        \* the peer maps the control plane may send

Families   == {4, 6}
Numbers(f) == 0 .. 2 ^ Width[f] - 1
Addresses  == UNION {{f} \X Numbers(f) : f \in Families}
Cidrs      == UNION {[net : {f} \X Numbers(f), prefix : 0 .. Width[f]] : f \in Families}
Principals == [kind : {"tag"}, name : Tags] \cup [kind : {"user"}, name : Users]
Peers      == [ip : Numbers(4), key : Nat, name : Names,
               advertised : SUBSET Cidrs, tags : SUBSET Tags]

ASSUME RoutingAssumption ==
  /\ Width \in [Families -> Nat \ {0}]
  /\ \A f \in Families : Net[f] \in Numbers(f) /\ NetPrefix[f] \in 1 .. Width[f]
  /\ \A f \in Families : 2 ^ Width[f] \in Nat /\ 2 ^ (Width[f] - 1) \in Numbers(f)
  /\ Net[6] + 2 ^ Width[4] <= 2 ^ Width[6]
  /\ Star \in Tags /\ Blank \in Names /\ Lower \in [Names -> Names]
  /\ Lan \in Cidrs /\ None \notin Numbers(4) /\ Exits \subseteq Numbers(4) \cup {None}
  /\ \A acl \in Acls \ {None} :
       /\ acl.rules \subseteq [from : Principals, to : Principals]
       /\ acl.mine \subseteq Principals
  /\ Lines \in Seq(Peers) /\ Maps \subseteq Seq(Peers)

\* What a power of two is, as far as an address has bits.
ASSUME PowersAssumption ==
  \A f \in Families : \A k \in 0 .. Width[f] - 1 :
    2 ^ k \in Nat \ {0} /\ 2 ^ (k + 1) = 2 * 2 ^ k

VARIABLES
  config,   \* TunnelConfig: exit_node and acl
  table,    \* the shared peer table
  routes,   \* the routes setup_interface added to the tunnel
  known,    \* the address the host last got for each name
  pump      \* the packet tun_pump is at

vars == <<config, table, routes, known, pump>>

-----------------------------------------------------------------------------
(***************************************************************************)
(* Networks.                                                               *)
(***************************************************************************)
\* v4_mask and v6_mask; a shift by the whole width would overflow.
Mask(width, prefix) ==
  IF prefix = 0 THEN 0 ELSE ((2 ^ width - 1) * 2 ^ (width - prefix)) % 2 ^ width

\* n & mask, for a mask of leading ones.
And(n, mask, width) == n - (n % (2 ^ width - mask))

SameUnder(mask, net, a) == And(net[2], mask, Width[a[1]]) = And(a[2], mask, Width[a[1]])

\* Variant with a slip, used by no specification: the last bit does not count.
ContainsWider(cidr, a) ==
  /\ cidr.net[1] = a[1]
  /\ SameUnder(Mask(Width[a[1]], cidr.prefix - 1), cidr.net, a)

Contains(cidr, a) ==
  cidr.net[1] = a[1] /\ SameUnder(Mask(Width[a[1]], cidr.prefix), cidr.net, a)

\* wrapping_sub, and the index in the low bits of the IPv6 network.
OverlayV6(ip) ==
  <<6, Net[6] + (IF ip >= Net[4] THEN ip - Net[4] ELSE ip - Net[4] + 2 ^ Width[4])>>

\* The kernel's view: the first bits agree; a route has no bits beyond them.
Bit(n, k)       == (n \div 2 ^ k) % 2
Covers(cidr, a) == LET width == Width[a[1]] IN
  /\ cidr.net[1] = a[1]
  /\ \A k \in width - cidr.prefix .. width - 1 : Bit(cidr.net[2], k) = Bit(a[2], k)
IsRoute(cidr)   == \A k \in 0 .. Width[cidr.net[1]] - cidr.prefix - 1 : Bit(cidr.net[2], k) = 0

-----------------------------------------------------------------------------
(***************************************************************************)
(* The peer table.                                                         *)
(***************************************************************************)
\* Of several entries with one address the last stays.
FromPeers(list) ==
  [ip \in {list[i].ip : i \in DOMAIN list} |->
     list[CHOOSE i \in DOMAIN list : /\ list[i].ip = ip
                                     /\ \A j \in DOMAIN list : list[j].ip = ip => j <= i]]

Entries(t) == {t[ip] : ip \in DOMAIN t}

\* The tables a node may come to hold.
Tables == {FromPeers(list) : list \in Maps \cup {Lines}}

\* The control plane gives an address to one name for good, as Registry shows,
\* and the file agrees with it.
ASSUME BearerAssumption ==
  \A t, u \in Tables : \A ip \in DOMAIN t \cap DOMAIN u : Lower[t[ip].name] = Lower[u[ip].name]

Gateways(t, a) == {p \in Entries(t) : \E cidr \in p.advertised : Contains(cidr, a)}

\* Variant with a slip, used by no specification: the address of a peer is like
\* any other.
RouteToAny(t, ip) == {p \in Entries(t) : p.ip = ip} \cup Gateways(t, <<4, ip>>)

\* What the lookup may return: the map is walked in no particular order.
RouteTo(t, ip) == IF ip \in DOMAIN t THEN {t[ip]} ELSE Gateways(t, <<4, ip>>)

RouteToIp(t, a) == IF a[1] = 4 THEN RouteTo(t, a[2])
                   ELSE {p \in Entries(t) : OverlayV6(p.ip) = a}

\* Variant with a slip, used by no specification: any part of a name will do.
ResolveUnnamed(t, name) == {p.ip : p \in {q \in Entries(t) :
                              Lower[q.name] \in {Lower[name], Blank}}}

ResolveName(t, name) ==
  IF Lower[name] = Blank THEN {} ELSE {p.ip : p \in {q \in Entries(t) : Lower[q.name] = Lower[name]}}

-----------------------------------------------------------------------------
(***************************************************************************)
(* The access list.                                                        *)
(***************************************************************************)
PeerPrincipals(p) == [kind : {"tag"}, name : p.tags]

PrincipalMatches(pattern, candidate) ==
  \/ pattern = candidate
  \/ candidate.kind = "tag" /\ pattern = [kind |-> "tag", name |-> Star]

SomeMatch(pattern, candidates) == \E c \in candidates : PrincipalMatches(pattern, c)

\* Variant with a slip, used by no specification: one rule allows the sender
\* and another the receiver.
EvaluateApart(rules, froms, tos) ==
  (\E r \in rules : SomeMatch(r.from, froms)) /\ (\E r \in rules : SomeMatch(r.to, tos))

EvaluateSets(rules, froms, tos) ==
  \E r \in rules : SomeMatch(r.from, froms) /\ SomeMatch(r.to, tos)

Permits(acl, p) == acl # None => EvaluateSets(acl.rules, acl.mine, PeerPrincipals(p))

-----------------------------------------------------------------------------
(***************************************************************************)
(* The daemon.                                                             *)
(***************************************************************************)
OverlayRoutes == {[net |-> <<f, Net[f]>>, prefix |-> NetPrefix[f]] : f \in Families}
HalfRoutes    == {[net |-> <<4, n>>, prefix |-> 1] : n \in {0, 2 ^ (Width[4] - 1)}}
Advertised(t) == UNION {p.advertised : p \in Entries(t)}

\* Variant with a slip, used by no specification: default routes too.
SetupDefault(exit, t) ==
  OverlayRoutes \cup {cidr \in Advertised(t) : IsRoute(cidr)}
                \cup (IF exit = None THEN {} ELSE HalfRoutes)

SetupInterface(exit, t) ==
  OverlayRoutes \cup {cidr \in Advertised(t) : cidr.prefix # 0 /\ IsRoute(cidr)}
                \cup (IF exit = None THEN {} ELSE HalfRoutes)

\* tunnel_cmd: the peer map, or, if it is empty or cannot be had, the file.
FirstTable(list) == IF list = <<>> THEN FromPeers(Lines) ELSE FromPeers(list)

Reading == [at |-> "recv"]

Init ==
  /\ config \in [exit : Exits, acl : Acls]
  /\ \E list \in Maps \cup {<<>>} : table = FirstTable(list)
  /\ routes = SetupInterface(config.exit, table)
  /\ known = [name \in Names |-> None]
  /\ pump = Reading

\* The kernel takes the longest route; a tie stays with the host's network.
EntersTunnel(a) ==
  \E r \in routes : Covers(r, a) /\ (Covers(Lan, a) => r.prefix > Lan.prefix)

\* A packet of the host; tun_pump takes its snapshot of the table.
Receive(a) ==
  /\ pump = Reading /\ EntersTunnel(a)
  /\ pump' = [at |-> "route", dest |-> a, peers |-> table]
  /\ UNCHANGED <<config, table, routes, known>>

Route ==
  /\ pump.at = "route"
  /\ \E p \in RouteToIp(pump.peers, pump.dest) :
       /\ Permits(config.acl, p)
       /\ pump' = [at |-> "send", dest |-> pump.dest, peers |-> pump.peers, via |-> p]
  /\ UNCHANGED <<config, table, routes, known>>

\* No peer for it, or one that the access list denies.
Drop ==
  /\ pump.at = "route"
  /\ LET found == RouteToIp(pump.peers, pump.dest)
     IN found = {} \/ \E p \in found : ~ Permits(config.acl, p)
  /\ pump' = Reading
  /\ UNCHANGED <<config, table, routes, known>>

Send ==
  /\ pump.at = "send"
  /\ pump' = Reading
  /\ UNCHANGED <<config, table, routes, known>>

\* A fetch of the refresh thread; the routes stay what they are.
Refresh(list) ==
  /\ list # <<>>
  /\ table' = FromPeers(list)
  /\ UNCHANGED <<config, routes, known, pump>>

\* The host asks for a name, and remembers the answer for as long as it likes.
Lookup(name) ==
  /\ LET found == ResolveName(table, name)
     IN \/ found = {} /\ known' = [known EXCEPT ![name] = None]
        \/ \E ip \in found : known' = [known EXCEPT ![name] = ip]
  /\ UNCHANGED <<config, table, routes, pump>>

Next ==
  \/ \E a \in Addresses : Receive(a)
  \/ Route \/ Drop \/ Send
  \/ \E list \in Maps : Refresh(list)
  \/ \E name \in Names : Lookup(name)

Spec == Init /\ [][Next]_vars

-----------------------------------------------------------------------------
(***************************************************************************)
(* Properties                                                              *)
(***************************************************************************)
\* Every variable has its type.
TypeOK ==
  /\ config.exit \in Exits /\ config.acl \in Acls
  /\ DOMAIN table \subseteq Numbers(4) /\ \A ip \in DOMAIN table : table[ip] \in Peers
  /\ routes \subseteq Cidrs
  /\ known \in [Names -> Numbers(4) \cup {None}]
  /\ pump.at \in {"recv", "route", "send"}
  /\ pump.at # "recv" => pump.dest \in Addresses

Sending == pump.at = "send"

\* The overlay addresses of a peer, by family.
Home(p) == {<<4, p.ip>>, OverlayV6(p.ip)}

\* "An exact overlay-IP match first" (peers.rs:67): a packet for the IPv4 or
\* IPv6 address of a peer in the table goes to this peer and no other, whatever
\* networks, the overlay's own or all addresses, the others advertise.
OverlayFirst ==
  Sending => \A p \in Entries(pump.peers) : pump.dest \in Home(p) => pump.via = p

\* Any other packet goes to a peer that advertises a network with its address,
\* as the first bits say, host bits in the advertised network or not.
ViaGateway ==
  Sending /\ pump.dest \notin Home(pump.via) =>
    \E cidr \in pump.via.advertised : Covers(cidr, pump.dest)

\* With an access list a packet leaves only for a peer with a tag, and there is
\* one rule that names both the sender and a tag of the receiver, or stars.
OneRuleAllows ==
  Sending /\ config.acl # None =>
    \E r \in config.acl.rules, tag \in pump.via.tags :
      /\ \E m \in config.acl.mine : r.from = m \/ (m.kind = "tag" /\ r.from = [m EXCEPT !.name = Star])
      /\ r.to.kind = "tag" /\ r.to.name \in {tag, Star}

\* "A peer can never silently capture all traffic" (tunnel.rs:252): without an
\* exit node an address outside the overlay enters the tunnel only if the file
\* or a peer map advertised a network for it that is not the default route.
NotCaptured ==
  config.exit = None => \A a \in Addresses : EntersTunnel(a) =>
    \/ \E r \in OverlayRoutes : Covers(r, a)
    \/ \E list \in Maps \cup {Lines} : \E i \in DOMAIN list : \E cidr \in list[i].advertised :
         cidr.prefix > 0 /\ Covers(cidr, a)

\* A packet for the address a name once had goes to a peer of this name, if to
\* any of the overlay: the table may have been swapped since the lookup.  It
\* rests on BearerAssumption.
NameReachesBearer ==
  Sending => \A name \in Names :
    pump.dest = <<4, known[name]>> /\ pump.via.ip = known[name] =>
      Lower[pump.via.name] = Lower[name]

\* "Use this peer as a full-tunnel EXIT node (route 0.0.0.0/0 over the overlay
\* to it)" (tunnel.rs:69): what only default routes cover goes to the exit node.
ThroughExit ==
  Sending /\ config.exit # None =>
    \/ \E p \in Entries(pump.peers) : pump.dest \in Home(p)
    \/ \E cidr \in Advertised(pump.peers) : cidr.prefix > 0 /\ Covers(cidr, pump.dest)
    \/ pump.via.ip = config.exit
=============================================================================
