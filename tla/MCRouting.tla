----------------------------- MODULE MCRouting -----------------------------
(***************************************************************************)
(* Routing on addresses of 4 and 5 bits: the host is on 0/2, the overlay   *)
(* is 8/2 and 16/1.  Three gateways and another peer, in a file with       *)
(* networks and tags, and peer maps with neither.                          *)
(***************************************************************************)
EXTENDS Routing, TLC

Bits     == 4 :> 4 @@ 6 :> 5
Overlay  == 4 :> 8 @@ 6 :> 16
Prefixes == 4 :> 2 @@ 6 :> 1

Cidr(f, n, prefix) == [net |-> <<f, n>>, prefix |-> prefix]
Here == Cidr(4, 0, 2)

Folded == "" :> "" @@ "gw" :> "gw" @@ "GW" :> "gw" @@ "box" :> "box"

Peer(ip, name, advertised, tags) ==
  [ip |-> ip, key |-> ip, name |-> name, advertised |-> advertised, tags |-> tags]

\* The default route twice, the overlay's own network, one with host bits, one
\* in IPv6, one that leaves addresses to the default routes; an address given
\* twice, two spellings of a name, a peer outside the overlay without a name.
File ==
  << Peer(9, "box", {}, {"old"}),
     Peer(9, "gw", {Cidr(4, 0, 0), Cidr(4, 4, 2), Cidr(4, 8, 2)}, {"net"}),
     Peer(10, "box", {Cidr(4, 0, 0), Cidr(4, 7, 3), Cidr(6, 8, 2)}, {"net", "lab"}),
     Peer(11, "GW", {Cidr(4, 12, 3)}, {"lab"}),
     Peer(5, "", {}, {}) >>

Sent == { <<>>,
          << Peer(9, "gw", {}, {}), Peer(10, "box", {}, {}) >>,
          << Peer(10, "box", {}, {}), Peer(11, "GW", {}, {}) >> }

Tag(name)  == [kind |-> "tag", name |-> name]
User(name) == [kind |-> "user", name |-> name]
Rules(from, to) == [from |-> from, to |-> to]

\* The first rule names the sender, the second a receiver, the third both.
List == [rules |-> {Rules(User("ann"), Tag("old")), Rules(User("bob"), Tag("net")),
                    Rules(Tag("*"), Tag("lab"))},
         mine  |-> {User("ann"), Tag("pc")}]

Lists  == {None, List}
Either == {None, 10}
=============================================================================
