# AkurAI-VPN in TLA+

A verification project for the AkurAI-VPN workspace (`crates/`, Rust, no
dependencies): TLA+ modules translated from the source, TLC runs that check them
on small instances, and TLAPS proofs for every value of the constants.

* [The system](#the-system): its components, their state, what is hard
* [Modules](#modules): which module models what, and how
* [Runs](#runs): what each checks, its bounds and what it shows
* [Where code and documentation part](#where-code-and-documentation-part)
* [Fairness](#fairness)
* [Proofs](#proofs)
* [Not modelled](#not-modelled)
* [Plan](#plan)

Paths below are relative to `crates/` unless they say otherwise.

## The system

Nodes join a private overlay network. The **control plane** (`akurai-control`)
enrols nodes for logged-in owners, gives each an overlay address and a token, and
answers nodes with a peer map. Each **node** (`akurai-node`) runs a TUN device and
one UDP socket; it keeps a table of peers, runs a Noise_IK handshake with each
(`akurai-transport`) and moves packets in sealed `Data` frames. The **relay**
(`akurai-relay`) learns every node's UDP endpoint from its frames, forwards frames
between nodes, and hints to each where the other is, so that handshakes may take a
direct path.

| component | state | operations | talks to |
|---|---|---|---|
| `akurai-transport` session | keys, send counter, 64-bit window, highest counter | `encrypt`, `decrypt` | called by the pumps under the table lock |
| `akurai-transport` handshake | chaining key, transcript hash, ephemeral | `initiate`, `respond`, `finalize` | messages 1 and 2 inside frames |
| `akurai-node` data plane | per peer: session, pending handshake, direct path, candidate | `tun_pump`, `udp_pump`, keepalive thread, peer-map refresh | UDP, TUN, control plane |
| `akurai-relay` | endpoint learned for each overlay address | `forward_one` | UDP |
| `akurai-control` registry | list of endpoint records, `vpn-endpoints.json`, heartbeats | enrol, delete, rotate token, heartbeat, peer map, start-up backfills | owners and nodes over HTTP, one thread per connection, one mutex |
| `akurai-control` IPAM | none of its own | allocate an index, backfill | called under the mutex |
| `akurai-control` login | pending nonces, sessions, `sessions.json` | login, callback, logout, lookup | identity provider through `curl` |
| `akurai-node` commands | identity, token, state and configuration files | `install`, `up`, `down`, `tunnel`, `selftest`, `echo-peer`, `service-install`; a daemon's heartbeat loop | disk, control plane |
| `akurai-common`, `akurai-dns`, ACL | none of their own | codecs, address arithmetic, policy evaluation, name lookup | pure |
| `akurai-sys` | handles of a TUN device; on Windows a view of two rings and an event | `create`, `recv`, `send`, drop, on three systems | kernel; called by `run` and `selftest` |
| `akurai-crypto` | none; locals of a loop | X25519, ChaCha20-Poly1305, BLAKE2s, HKDF | called by `akurai-transport` |
| `akurai-ingress` | one listener a map; per connection a handler, two copying threads, two sockets and their half-closes | `serve`, `handle_connection`, `splice` | TCP |
| `akurai-admin` | none | prints | |

What is hard to get right and hard to test here (each with its line in the hazards
list of `PROJECT.json`):

* two pump threads of a node share the peer table; `udp_pump` gives the lock back
  between "this does not decrypt" and "so I start over";
* UDP loses, repeats and reorders; message 1 carries no timestamp, so a late one
  replaces a session; a message 1 sent on two paths is answered twice;
* nodes and relay restart with empty tables, nodes on new ports;
* a control-plane request is authenticated under one lock and handled under
  another; saves fail after memory has changed; the process may stop between the
  two start-up backfills;
* the readers of the two JSON files are not the inverses of their writers;
* the callback of a login calls the identity provider between two locked sections;
* routes are set up once while the table behind them is swapped; look-ups walk a hash map;
* counter, window and mask arithmetic at its boundaries; limbs that are not reduced, a
  carry that stays, a buffer that is full and may be the last;
* a command dies between the truncation of a file and its write;
* two copying threads, each blocked in a read or a write, end a connection by half-closes;
* every step of creating a device may fail with some handles open; a wake-up may come between
  the look at a ring and the wait.

What makes each component correct is stated as a property of its module, next to
the comment or documentation that promises it.

## Modules

| module | models | kind |
|---|---|---|
| `AtMostOnce` | the delivery promise of a session | abstract specification |
| `ReplayWindow` | `akurai-transport/src/session.rs` | implements `AtMostOnce` |
| `Noise` | `akurai-transport/src/noise.rs` | state machine over symbolic terms |
| `Tunnel` | `akurai-node/src/tunnel.rs`, `akurai-relay/src/forward.rs`, the use of `noise.rs` and `session.rs` | composition of nodes, relay and network |
| `TunnelProofs` | | proofs; `Tunnel` as a refinement of `AtMostOnce` |
| `Ipam` | `akurai-control/src/ipam.rs` | operators |
| `Registry` | enrolment, revocation, rotation, node requests, start-up, files (`listener.rs`, `state.rs`, `vpn_endpoint.rs`, `peermap.rs`) | state machine over `Ipam` |
| `RegistryProofs` | | proofs |
| `Membership` | peer maps, heartbeats, token files and the threads of a node (`peers.rs`, `heartbeat.rs`, `main.rs`, `tunnel.rs`; `peermap.rs`, `heartbeat.rs`, `listener.rs`) | composition of nodes and control plane over `Ipam` |
| `MembershipProofs` | | proofs |
| `Sessions` | `akurai-control/src/auth.rs` and its handlers in `listener.rs` | state machine |
| `SessionsProofs` | | proofs |
| `Routing` | interface set-up, peer look-up, ACL and MagicDNS of a node (`tunnel.rs`, `peers.rs`, `acl.rs`, `main.rs`; `cidr.rs`, `overlay.rs`, `policy.rs`; `akurai-dns/src/lib.rs`) | state machine over operators for networks and rules |
| `RoutingProofs` | | proofs |
| `NodeFiles` | the commands of a node and the files under its home (`main.rs`, `identity.rs`) | state machine: commands as sequences of steps |
| `NodeFilesProofs` | | proofs |
| `Ingress` | `akurai-ingress/src/proxy.rs` | state machine of a proxied connection and its two ends |
| `Device` | `akurai-sys/src/tun.rs`, `raw.rs`; interface set-up, `run` and `selftest` of `tunnel.rs` | state machine over an external kernel |
| `X25519` | `akurai-crypto/src/x25519.rs` | scaled-down arithmetic, compared with the group law |
| `Aead` | `akurai-crypto/src/chacha20poly1305.rs` | scaled-down Poly1305; framing of seal and open |
| `Blake2s` | `akurai-crypto/src/blake2s.rs`, `hkdf.rs` | streaming hash, compared with its definition |
| `MCUnits` | | one model of the parts that share no state: `ReplayWindow`, `Ingress`, `Device`, `NodeFiles` |
| `UnitsProofs` | | proofs about `ReplayWindow`, `Ingress`, `Device` |
| `MCCrypto` | | the same for `Noise`, `X25519`, `Aead`, `Blake2s` |
| `CryptoProofs` | | proofs about `Noise`, `Aead`, `Blake2s` and `X25519` |
| `MCTunnel`, `MCRegistry`, `MCMembership`, `MCSessions`, `MCRouting` | | values of constants for TLC |

Definitions whose comment says "Variant with a slip, used by no specification" are
plausible mistakes; `PROJECT.json` pairs each with the property that catches it.

### ReplayWindow

One direction of a session: a sender that seals counters 0, 1, 2, ... and a receiver
to which any sealed packet may come at any time and any number of times, and
packets whose tag does not verify, with any counter. `max`, `mask` and `Decrypt`
follow `Session::decrypt` branch by branch: the reject before the tag check, the
tag check, the shift (a distance of the word or more clears it), the second check.
The mask is the set of its one-bits below `Window` (64 in the code). `AtMostOnce`
says what the caller relies on, sent and delivered sets only; `ImplementsAtMostOnce`
is the refinement.

### Noise

The three functions of `noise.rs`, step for step, over ideal primitives. DH of two
key pairs is the set of both; a chaining key is the sequence of what was mixed in;
a transcript hash likewise; a sealed text is a record of key, associated data and
text that opens under just these. `initiate` and `respond` are translated apart, as
they are written apart in the code, so "both peers absorb the same values in the
same order" is a property and not an assumption. Lengths are not modelled: a field
is a field. The wire delivers any combination of fields that were ever sent, and
damaged ones, to anyone. `KeysNameTheExchange` is what lets `Tunnel` write the
transport keys of an exchange as the pair of its ephemerals.

### Tunnel

`st[n][p]` is the `PeerState` of `p` in the table of `n`. Every locked section of the
table is one action:

| action | code (`akurai-node/src/tunnel.rs` unless noted) |
|---|---|
| `TunPacket` = `SealAndSend` or `Initiate` | `tun_pump`: seal under the session, or begin a handshake |
| `Hear` | first section of `udp_pump`: a frame straight from a peer sets `direct` |
| `RecvKeepalive`, `RecvPeerAddr`, `RecvHandshakeInit` = `AcceptInit` or `DropInit`, `RecvHandshakeResp`, `RecvData` | the arms of `udp_pump` |
| `React` | the last section of the `Data` arm: drop the session and initiate |
| `KeepaliveTick` | the 15 s thread |
| `Expire` | `HANDSHAKE_RETRY_AFTER` passes for a pending handshake |
| `Restart` | the daemon starts again: new port, empty table |
| `Forward`, `RelayRestart` | `akurai-relay/src/forward.rs`, and the loss of its table |
| `Lose` | the network |

A send is one step with the section that computes it; the code sends after the
unlock, and since the network may hold a datagram for any time this adds nothing.
Datagrams that can reach nobody (no such socket, no route between the two nodes)
vanish when sent. Peers are fixed; routing, ACL and the refresh of the table come
before the sections modelled here, and are in `Routing` and `Membership`.
Keepalives are not sealed, and any frame that says it is a peer's and does not come from
the relay confirms the path: the model sets `direct` where the code does. The network of
`Tunnel` loses, delays, repeats and reorders, and forges nothing: every datagram was sent by
the node it names. `PathsLeadToPeer` is about such a network only.

A handshake message is dropped where `rand32` fails (`DropInit`), which here is at the bound
on ephemerals. Any answer takes the handshake in flight away (`Finish`), one to an earlier
message too: that handshake is then begun anew with the next packet, without the wait of 3 s.

Constants switch the network: `Duplicates` lets everything be delivered again;
`Timely` is a network faster than the 3 s retry and a TUN that paces itself, under
which alone agreement and recovery can hold; `Warm` starts with the first
keepalives delivered. `MaxEph`, `MaxData`, `MaxRestart` and `MaxFaults` (lost
datagrams and relay restarts together) are bounds. An expired ephemeral of which
nothing is left anywhere is drawn again, so retries never run into `MaxEph`.
`MayRestart` keeps `MaxData` from ending a behaviour after a restart.

### Ipam and Registry

`Ipam` has the allocator over a pool of any size; results are sets so that no choice
hides in a `CHOOSE`. `Registry` has the list in memory and the list on disk. An
owner's request holds the mutex throughout and is one step; a node's request is
authenticated in one step (`AuthNode`) and handled in another, and waits in `calls`
between. `AppState::new` is a loop over records, twice, each ending in a save that
may fail (`BackfillAddress`, `BackfillToken`, `EndBackfill`); `Restart` may come at
any time. `save` is a temporary file and a rename, so a crash leaves the old or the
new list. `load` is modelled by what it does: `split_objects` counts braces inside
strings, so a name with an unmatched `{` hides its record and all later ones (an
unmatched `}` likewise; one kind is enough). It also ignores errors of `open` and of
`read_to_string`: what was read before the error passes for the registry (`Cut`), and
the next save overwrites the rest; `misreads` counts the starts it happened to, for the
two properties that excuse it. A record leaves the list only at a start that does not find it, so its
position stands for its random id. Tokens are numbered in the order they are drawn.
Loss of power and a poisoned mutex are not modelled.

### Membership

`Registry` asks what the control plane keeps, `Membership` what the nodes come to believe.
The registry is a list of records as in `Registry`, for one tenant and with saves that
succeed; authentication and handling of a node's request are one step, since the gap between
the two is `Registry`'s subject. What is kept apart is the answer on its way to the node
(`fetch`) while the registry changes, and the heartbeat that arrives after its daemon
was killed (`late`).

| action | code |
|---|---|
| `Enroll`, `DeleteEndpoint`, `RotateToken` | `do_add_endpoint`, `delete_endpoint`, `rotate_token` in `listener.rs` |
| `BootstrapDeviceToken` | the handler of that name, and its owner writing `node.token` |
| `Answer`, `Refused` | `handle_peermap` with `build_peermap_json`; a token that is no active record's |
| `Refresh`, `FetchFails` | the fetch of `tunnel_cmd` at start-up, which takes what it gets, and every turn of the refresh thread, which keeps its table rather than take an empty one |
| `Beat`, `BeatRefused`, `BeatLost` | a turn of `heartbeat::spawn`'s loop and `handle_heartbeat_token` |
| `LateBeat` | the handler after the daemon's end |
| `Start`, `Stop`, `ControlRestart` | `tunnel_cmd` with the token of the file, read once; a kill; `AppState::new`, which knows no heartbeats |
| `Tick` | the clock and the sleeps |

A table entry is address, key and endpoint. `PeerOf` is the parser's view: the node splits
the answer at every `}`, so a name with one costs the endpoint that follows it (`Hidden`).
An age is kept of each heartbeat rather than the two times; the clock does not jump, so
`saturating_sub` plays no part. `Slack` is the time a heartbeat may take: the code gives
`curl` no limit, so this is an assumption on the network, and `TTL` has room for `Misses`
of them in a row exactly when `(Misses + 1) * (Interval + Slack) <= TTL` (120 s allow for
three misses at 30 s and no slack). A node reports a fresh port in every run, so the address
in its `n`-th run is `<<k, n>>`. There is no static peers file, and a node without a token
gets neither map nor heartbeat (its cookie is refused by `/api/peermap`, and
`/api/endpoints`, where it looks for its token and id, lists neither tokens nor keys).

### Sessions

`pending`, `calls` (callbacks between their two locks), the session store and what can
be read of the file. A write has three outcomes: whole, not at all, or cut short and
renamed into place (the error of `write_all` is ignored). The file is in the order of
a hash map, so what a name with a brace hides is any set of other records. Time
moves in units; a session lives `TTL` of them.

### Routing

Where a packet goes before `Tunnel` has it. `table` is the shared `PeerTable`, `routes` what
`setup_interface` added to the kernel's table at the start, `known` what the host was told
by MagicDNS and may use at any later time, `pump` the packet `tun_pump` is at with its
snapshot of the table.

| action | code |
|---|---|
| `Init` | `tunnel_cmd`: the peer map or, if there is none, the peers file; `setup_interface` |
| `Receive` | the kernel gives a packet to the TUN; `tun_pump` reads it and takes the snapshot |
| `Route`, `Drop` | `route_to_ip` and `Acl::permits`: a peer, or back to reading |
| `Send` | the rest of the loop, which is `Tunnel!TunPacket` |
| `Refresh` | the refresh thread swaps the table; the routes stay |
| `Lookup` | `akurai_dns::serve` with the node's resolver |

An address is its family and a number of `Width` bits. `Contains` is the arithmetic of
`cidr.rs` (masks by shifts within the word, `&`), `Covers` the kernel's view, bit by bit: the
properties compare the two. What returns the first match of a walk over a hash map is a
set of results. The kernel (external) takes the longest prefix, refuses a route with bits
beyond its prefix, and keeps the host's own network unless a longer one leads into
the tunnel. A name is a value in one of its spellings, without the zone; frames are taken to
leave the host (below). A peer map has neither networks nor tags, a line of the file may
have both.

### NodeFiles

A command is a sequence of steps (`Install`, `UpPlans`, `Down`, `TunnelCmd`, `SelftestCmd`,
`EchoPeerCmd`, `ServiceInstall`), each of which is several actions; `Die` kills the process
between any two of them, and the next command knows what is on disk and nothing else.

| action | code |
|---|---|
| `KeepConf` | `install` writes `node.conf` once |
| `Create`, `WriteAll`, `Rename` | `write_file`: temporary file, content (whole or in part), rename |
| `LoadKey`, `CreateKey`, `WriteKey`, `OpenPub`, `WritePub` | `Identity::load_or_create`: a key that is whole is used, a torn one refused, one that cannot be read counts as none; the two files are truncated and written in place |
| `LoadToken`, `BootstrapToken`, `WriteToken` | `load_or_bootstrap_token`; without a control URL no token is looked for |
| `Check`, `Show` | what may end the command with an error; what shows the identity to somebody |

`install`'s copy of the executable and the directories are left out. A content is absent, empty, a part, or a whole value: which bytes a part has plays no role,
since a key is told by its length and a token is taken as it is. One command runs at a
time. There is no `fsync`, so the model is of a process that dies and not of a machine that
loses power.

### Ingress

One connection between its two ends. Copier `e` is the `splice` that reads from `e` and
writes to the other end, with its own program counter and the bytes it holds; each socket has
two kernel buffers of `Room` bytes, two half-closes and a reset.

| action | code |
|---|---|
| `Bind`, `BindFails` | `serve`, a listener at a time: threads of the earlier maps already accept |
| `Accept`, `Connect`, `ConnectFails`, `Join` | `accept_loop` and `handle_connection` |
| `ReadBytes`, `ReadEnds`, `WriteBytes`, `WriteFails` | `io::copy` of `splice` |
| `ShutdownWrite`, `ShutdownRead` | the two `shutdown` calls behind it |
| `PeerSends`, `PeerCloses`, `PeerReads`, `PeerSeesEof`, `PeerResets` | the client and the upstream service (external) |

Bytes are numbered, so that one lost, repeated or out of order shows. Handlers share nothing,
so one connection after the other is enough.

### Device

`create`, the set-up and the two programs that own a device, over a kernel (external) that queues
frames for the program and takes frames from it.

| action | code |
|---|---|
| `Start`, `Open`, `OpenFails` | `create` of the three systems, a step that yields a handle at a time, with what each early return closes |
| `Configure`, `ConfigureFails` | `setup_interface` and the bind of `run`; the device is dropped on failure |
| `Read` | `recv` of Linux and macOS, with its 4-byte header |
| `ReceivePacket`, `ReleasePacket`, `Wait` | `recv` of Windows: ring, copy, event |
| `Send` | `send` by the UDP thread of `run`, whose error is ignored |
| `Expire`, `SelftestReturns` | the deadline of `selftest`, looked at between two calls of `recv` |
| `Queue`, `TakeSent`, `Remove` | the kernel, and an administrator who removes the interface |

### X25519, Aead, Blake2s

The primitives `Noise` takes as ideal, with the structure of the code and smaller numbers. `X25519`
has two limbs in place of five and a 14-bit prime of the same shape (`2^b - c`, so that what leaves
the top limb comes back `c` times); `FAdd`, `FSub`, `FMul`, `CarryReduce`, `ReduceCanonical` are the
functions of the code, limb by limb and unreduced where it leaves them so. `LadderStep` is a turn of
the loop; beside it `acc` computes the same multiple by the affine group law. `FieldLaw` and `MontgomeryLaw` are
the mathematics the two are compared by, and have no code in them. The chain of `finvert` is
not scaled: its lines act on exponents, kept modulo primes whose product exceeds every exponent.
`Aead` has three limbs for five and two bytes a block for sixteen; the framing (`pad16`, lengths, the
order of tag check and decryption) is over an injective tag. `Blake2s` keeps the buffer, the counter and
its carry into a second word, the last-block flag, and the pieces in which HMAC and HKDF feed it;
the compression is an injective function.

## Runs

All finish with no error unless they are listed under the next heading. Times are for two
workers.

| run | bounds | states | shows |
|---|---|---|---|
| `Units` | session: window 3, counters 0..7; proxy: 2 maps, 2 bytes each way, buffers of 1; device: 3 systems, 2 programs, packets of 2 and 3 bytes, buffer 2, queues of 2, 3 packets each way; files: 2 secrets, 1 address | 835 000 | session: each sealed packet is accepted at most once, none that is new and less than a window behind is refused, `AtMostOnce` is implemented. Proxy: no byte lost, repeated or reordered up to an end of stream that is the sender's; handlers end (liveness). Device: handles given back once and in order on every path; packets whole; no wake-up lost (liveness). Files: a shown identity stays, replaced files are whole |
| `Crypto` | handshake: 3 parties, 4 ephemerals; X25519: `p = 2^14 - 3`, 8 scalars, 11 points; Poly1305: 3 limbs of 3 bits, 3 blocks of two 3-bit bytes, every clamped `r`; framing: texts of up to 3 bits; BLAKE2s: blocks of 2, counter words modulo 4, messages of up to 9 bytes, keys of up to 3 | 314 000 | handshake: who is authenticated by what, matching keys, no refusal of intact messages, under any mixing of fields. Primitives: every turn of the ladder agrees with the group law and stays within half a word, the chain is the inversion, the tag is the polynomial, `open` returns what was sealed and nothing else, the streams are the functions RFC 7693, RFC 2104 and the Noise specification define |
| `TunnelSafety` | 2 talkers, 2 ephemerals each, 1 packet a session, duplicates, no pacing | 74 000 | no counter is used twice under a key, no packet reaches a TUN twice, the pumps never replace each other's young handshake |
| `TunnelPaths` | direct paths, advertised endpoints, a node and the relay restart, duplicates | 613 000 | learned, hinted and confirmed addresses of a node were its own |
| `TunnelRecovery` | relay only, both nodes may restart, one datagram lost or one relay restart, `Timely`, 6 ephemerals | 255 000 | both ends agree on their keys, only a restart costs a session, the tunnel is up for good in the end (liveness) |
| `Registry` | 2 keys, 3 records, addresses 2..3 of 0..3, 3 initial files, 4 tokens, 2 restarts, 1 start that reads part of the file | 829 000 | unique addresses and keys, final confirmations, no ghosts among heartbeats, nothing enrolled is lost, told addresses name one node |
| `Membership` | 3 keys, one under a name with a brace, 2 records at first, addresses 2..4, interval 1, slack 1, TTL 4, 3 events (owners' requests, kills, restarts, losses) | 402 000 | no table, however stale, gives an address to a key that does not own it; with `Misses` lost heartbeats in a row a node stays online; every table becomes the tenant's other active nodes where they are now (liveness) |
| `Routing` | addresses of 4 and 5 bits, a file of 5 lines, 3 peer maps, one access list or none, an exit node or none | 30 000 | a peer's address reaches that peer, any other a gateway that advertised it, one rule allows each flow, no default route without an exit node, names lead to their bearers |
| `Sessions` | 2 threads, 2 pending of 3 logins, 2 sessions, clock 0..3 with TTL 2, 2 restarts | 1 600 000 | one session a login, final logouts, saved sessions survive unless the file was harmed |

`Units` and `Crypto` each hold four parts that share no state; the first state decides which
of them runs, so a run explores each part alone and one after the other.

Why these bounds: a window of 3 with counters to 7 has every relation of a counter to
the window (in it, at its edge, beyond, a jump of a word or more, back again). A
second key of a node or a second packet under a key is where reuse would show;
`TunnelSafety` has two ephemerals a node, so a session is replaced while messages of
the first are under way. Four ephemerals in `Noise` are two exchanges (or one
message 1 answered thrice), with a third party for misdelivery. Three records with
two free addresses and legacy files with several addresses exhaust the pool in
enrolment and in the backfill. Each fault occurs once or twice: a second one of
the same kind meets the state the first one left. In `Membership` three events are an
enrolment, a revocation and an enrolment of the same key again, which finds the pool
exhausted; or two lost heartbeats and a restart; a TTL of 4 is met exactly by one missed
heartbeat at the slowest pace. In `Routing` four bits have a network for the host, one for the
overlay and room beyond both; the file has every kind of line that matters: the default
route twice, the overlay's own network, one with bits beyond its prefix, one in IPv6, an
address twice, two spellings of a name, a peer without a name and outside the
overlay. In `Ingress` two bytes against a buffer of one block a writer in the middle of a stream, the
state in which the other direction's end must still get through. In `Device` three packets
against queues of two fill a ring; one packet is longer than the buffer. In `X25519` the
points include values from `p` on and one with the bit above the field, points of small
order, and points on the curve and on its twist (the group law is that of whichever curve
`B y^2 = x^3 + A x^2 + x` the point is on; `u = 0` has none); in `Aead` `p` and `2^9` differ by 3,
and an accumulator between the two occurs; in `Blake2s` nine bytes take the counter past
its low word twice. The proofs remove the bounds where there are proofs.

`CHECK_DEADLOCK FALSE` stands in `Units`, `Crypto` and `Membership`: a session without packets, a
connection that is over, a device that is closed and a computation that has returned rest;
all daemons may have been stopped when the events are used up.

No run checks the type invariants: the proofs have them for every value of the constants
(`Device`, `Ingress`, `Noise`'s primitives only state what their variables hold).

## Where code and documentation part

Three runs check a sentence of the repository that the code does not keep; TLC shows
a behaviour for each.

| run | what happens | the sentence |
|---|---|---|
| `TunnelDirect` | with a confirmed direct path, `handshake_paths` (`tunnel.rs:181`) returns it alone and nothing ever clears it; after the peer restarted on a new port and this node lost its session too, every retry goes to the dead address. The peer's keepalive (15 s) would confirm its new address if it knew one of this node's to send it to; in the run no endpoint is advertised | `tunnel.rs:137-138`, "Retry a handshake when its response is lost instead of remaining stuck until the daemon is restarted" |
| `RegistryName` | a node enrolled under a name with `{` is gone after a restart, with all later ones | `listener.rs:894-896`, not "silently vanish on the next restart" |
| `RoutingExit` | `exit_node` is tested and printed only (`tunnel.rs:265`); of two peers that advertise the default route the one that the hash map yields first carries the traffic (`peers.rs:75-77`) | `tunnel.rs:69-70`, "Use this peer as a full-tunnel EXIT node (route 0.0.0.0/0 over the overlay to it)" |

Seen while modelling and not kept as a run: when the two copies of one message 1 arrive by
the relay and straight (`tunnel.rs:188`), the responder answers both, and the ends keep the
keys of different answers until traffic repairs it, while `noise.rs:7-8` says "both peers
hold a matched pair"; `peers.rs:28-30` says an endpoint is confirmed "by receiving an
authenticated frame from this peer", while `tunnel.rs:844-850` sets `direct` on any frame that names
a known peer as its source, before anything in it is opened; `tunnel.rs:8-10` and `:704-705` say `Data` takes
the direct path when there is one, while `:781` always takes the relay (the comment at
`:776-780` explains why); `ipam.rs:74` says indices freed by deletion are reused, while
`:65` counts revoked records; `main.rs:629-693` reads `node_token` out of an answer that
does not carry it; `tunnel.rs:485` never applies an empty map, so the last peer of a node
stays in its table after it was revoked; `peers.rs:292-293` says names are escape-free,
while a name with `}` costs the node its advertised endpoint.

A registry file that cannot be read, or only in part, loads as a shorter one without a word, and the
next save makes the loss permanent (`vpn_endpoint.rs:105`): nodes that were told "ok" vanish and their
addresses are given to others, while `listener.rs:894-896` wants no silent loss on a restart. `NoRecordVanishes` and
`AddressNamesOneNode` excuse it (`misreads`); the other properties of `Registry` hold in spite of it.

A rotation or revocation whose save fails is answered with 500, holds in memory and is undone
by a restart, unless a later save succeeds (`listener.rs:940`, `:976`), while `state.rs:20` says
endpoints are "mirrored to disk on every write" and `do_add_endpoint` takes its record back
for this reason: `ConfirmedIsFinal` is about confirmed changes only. A write of the
session file that is cut short (a full disk) is renamed over the good file, since the error of
`write_all` is ignored (`auth.rs:144`), and saved sessions are gone after a restart, while
`auth.rs:44` says "written atomically": `SurvivesUnharmed` excuses it, and without the
excuse TLC refutes it. Nonces and session tokens are always fresh in `Sessions`; `random_token`
ignores the errors of opening and reading `/dev/urandom` (`auth.rs:430-436`) and then returns what its
buffer started with, the same 64 zeros every time. That is not modelled: `OneSessionPerLogin` holds where the
system has random bytes to give.

About the node's files: `write_file` renames without `fsync`. The identity and the token are not written
with it: a crash between truncation and write leaves a key file that is refused as corrupt at every
later start (`identity.rs:31-33`), and a token cut short is taken as it is for ever; a token file that
cannot be read counts as none and is written over (`main.rs:643`); any error of
reading an existing key counts as "no key", so that a fresh one is written over it
(`DiskSound` excuses this as `misread`); `identity.pub` is never written again once the key exists.
`install` records the state "installed" before there is an identity, and `down` has no
option for a home other than the default. Two commands at once share `node.tmp` and may each draw an identity.

About the proxy: `proxy.rs:18-19` says every listener is bound up front, while `serve` binds them in turn
and clients of the first are served before the last bind fails. A read that fails with a reset ends
like an end of file, so the other end reads a clean end of a stream that was cut
(`StreamsIntact` excuses it). The handler ends because the ends close once they have read the end of the
stream, while `proxy.rs:63` says no thread or descriptor is leaked; a client that does not keeps two threads and two sockets for ever.

About the device: `selftest` looks at its deadline between packets only, so without traffic it does not return.
On macOS a device that was removed ends `tun_pump` with `Ok`, and `run` then waits for the UDP thread,
which does not end: the daemon is half alive. A full ring on Windows drops the packet, and the caller
ignores the error.

About routing: `acl.rs:54` and `peers.rs:38-39` say a peer without tags is reachable by a
`tag:*` rule, while `evaluate_sets` (`policy.rs:150`) denies whatever has no principal; since
peer maps carry no tags, a node with an ACL that is fed by the control plane reaches nobody.
A network in IPv6 that a peer advertises gets a route, but `route_to_ip` looks for peers'
own addresses only (`peers.rs:86-90`), so its packets are dropped. After the first refresh from the
control plane the gateways of the peers file are gone while their routes stay: packets
enter the tunnel and are dropped. The guard against captured traffic (`tunnel.rs:252-254`) skips
a prefix of 0 and no two halves of it. With an exit node the two halves also catch what
the daemon itself sends to a relay that is not on the host's own network (`tunnel.rs:261-273` adds
no route for it); the model takes frames to leave the host.

## Fairness

Four properties need it: `Recovers`, `Converges`, `HandlerEnds` and `PacketsTaken`. `Tunnel!Fairness` assumes weak fairness of each of these,
and no more:

* the threads of a node run on: `React`, `KeepaliveTick` (the code loops over a sleep
  and a send), receipt of each kind of frame (`udp_pump` loops over `recv_from`;
  frames of one kind cannot starve another because the socket is a queue);
* the relay's loop runs on, for each sender and kind;
* the 3 s of a pending handshake pass;
* the TUN of a talker keeps yielding packets: a tunnel nobody uses need not be up.

Losses and restarts carry no fairness; they are bounded by `MaxFaults` and
`MaxRestart`. `Recovers` is checked with `Timely` and without direct paths: with them it
fails (`TunnelDirect`), and on a network slower than the retry an unlucky schedule can
cross two handshakes for ever.

`Membership!Fairness` is weak for `Answer`, `Refused`, `Refresh`, `Beat` and `BeatRefused` of
each node and for `Tick`: refresh thread and heartbeat thread are loops over a request and
a sleep, the control plane answers each connection in a thread of its own, and time
passes. Owners, kills, restarts and losses carry none. `Converges` is about nodes that run
on from some point; those that stop for good are what its other nodes see at the
address they were enrolled with.

`Ingress!Fairness` is weak for `Join`, and for each end for the copier that reads from it, for the end's
reading of what has arrived and of the end of the stream, and for its closing once it has read that. The
first two are threads of the proxy. The others are what the proxy relies on: services and clients
read what they are sent, and answer an end of the stream with their own; sending, closing without cause and
resets carry none.

`Device!Fairness` is weak for the reading thread, in whatever step it is, and for nothing else: not for the kernel,
nor for the deadline.

## Proofs

`tlapm` proves every obligation of these, from the named assumptions of the modules and
nothing else.

**UnitsProofs**, about three of the parts `MCUnits` puts side by side.

*Sessions*, for every window width and number of counters. The invariant is
`TypeOK /\ MaskMeansAccepted /\ MaxIsHighest /\ AcceptedAtMostOnce`: that the mask is the
history inside the window is what makes "at most once" inductive, and `MaxIsHighest`
is what makes a shift by `counter - max` right. Theorems: `TypeCorrect`, `NoReplay`,
`WindowMeansHistory`, `ReorderingAccepted`, `Refinement` (initial states and steps of the
session are initial states and steps, or stutters, of `AtMostOnce`).

*Proxied connections*, for any number of maps, length of streams and size of the kernel's
buffers. `Streaming` says for each direction that what the receiver has, then the bytes on
their way to it, the copier's, and those the copier has not read are together what was sent
(`Passed`), and what a half-close that one socket has seen implies of every place before it
(`Closed`): without that, a receiver might read the end of the stream with bytes still in
the copier's hands. Theorem: `SplicesIntact`.

*Devices*, for all packets that satisfy `PacketsAssumption`, any buffer, rings and number of
packets. `Holding`: the program counter says which handles are held, and until the code
stops none was closed; so each way out of `create`, the set-up and the two programs
closes all it has, once, the session before the adapter. `Carrying` says which queue holds what
of the packets, `Framed` as the system frames them, in which order. Theorems:
`DeviceReturned`, `PacketsCarried`.

**CryptoProofs**, about the four parts of `MCCrypto`.

*Handshakes*, for any parties and any number of exchanges. The invariant says that
everything recorded was made by the three functions. The argument: what seals a
payload has absorbed all that was said before it; the transcripts of the three
sealings have two, three and five entries; so a ciphertext that opens as the payload
of a message 1 was sealed as one, with the same responder, ephemeral and sealed
static key (`AcceptedWasSent`), and likewise for message 2 (`FinalizedWasAnswered`).
That both ends compute the same needs DH to commute (`SameState`,
`SameFinalState`). For the keys: every call of `respond` draws an ephemeral of its own
(`OwnEphemeral`), and the chaining key that transport keys are split from has absorbed
both ephemerals (`ChainTells`, `KeysTell`). Theorems: `TypeCorrect`, `Authentic`, `Matched`,
`Intact`, `KeysAreEphemerals`.

*Boxes*, for texts of any length. What is authenticated is the two texts, each padded to a
block, and their lengths; the lengths are the last of it, so they tell where each
text ends, and two pairs of texts with the same tag data are the same pair (`Covered`, `MacDataTells`).
Hence `open` accepts the sealed box under its nonce and associated data and no other, and what
it returns is what was sealed, since a key stream added twice is gone (`XorBack`). Theorem: `SealedOnly`.

*Tags*, for any limbs, prime and keys that satisfy `MacAssumption`. `Accumulates`: after each block
the limbs are below the base, but for the second, which may be twice that, and the number they stand for is the
polynomial modulo the prime. The second limb's slack is what a carry that comes back round to the first limb and
on to the second leaves: the code stops carrying there (`chacha20poly1305.rs:89` bounds
limbs by `2^26`), so it must not grow from block to block. `Reduced` is the last comparison with the prime, which must leave the one
representative below it. `MacAssumption` says of the sizes what the code's satisfy: a block with its bit is
shorter than the limbs, the fold (5 in the code) is no more than the base (`2^26`), and the carry out of the
top of the fullest limbs, folded, is less than two limbs. Theorem: `TagsComputed`.

*Digests*, for any length of block, message and key and any counter word no shorter than a block
(`HashAssumption`). `Streams` says what a `State` has been given: `n` whole blocks in the calls of `compress`, none of them
flagged, the rest in the buffer, the count of those blocks in the two words, and an empty buffer only if there were none.
That last part is why the code compresses a full buffer only when more follows: otherwise the flagged block of a
message that fills its blocks exactly would be an empty one more. `Finalized`: from there the
digest is the one of RFC 7693, cut into blocks at once. `Hashing` adds what is still to come: between two hashes of a
job the calls left are `Rest`, within one the bytes in the stream and those owed to it make up the whole
(`Owing`), and the results so far are `Expected`. `NextHash` shows job by job that if the results before are what they should be,
the next hash is asked for what it should be: an HMAC's outer hash for the inner one's result, a long key's HMAC for the key's
hash, an output of the HKDF for the output before. Theorem: `StreamsDigest`.

*X25519*, for any two limbs that leave the fold room (`LimbAssumption`: 32 times the fold, 19 in the code, is no more
than a limb of `2^51`, 121665 is less than a limb, two limbs' worth less than half a word), any scalars, and any prime, curve and
points of which `CurveAssumption` holds. Three arguments meet. The *limbs*: what a product leaves is
`Trim`, a sum or difference of such is `Wide`, a product of wide elements is trim again, and each is the operation
modulo `p` (`CarryReduced`, `ProductField`); `reduce_canonical` then leaves the one representative below `p`, though it carries
through the limbs only once (`Canonical`). The *ladder*: a pair of residues says a point only up to a factor, so what is compared
is not numbers but ratios: the formulas applied to scaled coordinates give the scaled result (`Doubled`, `Summed`), and what has no
factor left stays a ratio of the same point because `p` divides no product of non-zero residues (`NoZeroDivisor`). The invariant
`Laddering` says of each turn that the pair, swapped as `swap` says, stands for `[k >> t]` and `[(k >> t) + 1]` times the point; a turn
doubles one of them and adds them up, whichever the bit (`AddsEitherWay`, `StepIs`), and the last division takes 0 for the inverse of 0 where the
product is the point at infinity (`Divides`). The *chain*: `Inverted` says of each local of `finvert` what its exponent
is, the later ones as a power of two less one, and of the last that 21 more is `2^255` (`Line1` to `Line13`): squaring `n` times
multiplies by `2^n`, and `2^m - 1` times `2^n` plus `2^n - 1` is `2^(m+n) - 1` (`BigLine`). Theorems: `LimbsStayBounded`, `CurveComputes`.

What this rests on is in `MCCrypto`, evaluated by TLC for the field of the run. `FieldLaw`: the powers that `Inverse` takes are
inverses, which is to say that `p` is prime. `MontgomeryLaw`: over residues, the formulas of RFC 7748 double
a multiple of the point and add two neighbours; it speaks of the group law and of the formulas, of no limb, no swap
and no order of steps, and excludes `u = 0`. `RecursionAssumption`: the equations that define powers of two and the
multiples of a point, which are recursive functions that the prover does not unfold. The code has five limbs and the model two: that one pass of carries suffices is
proved for two.

**RegistryProofs**, for every pool, keys, owners, names (those that break the reader
included), initial files that satisfy `RegistryAssumption`, and bounds. `Inv` is
`TypeOK`; `Sound` lists in memory and on disk (no key active twice, no address twice, no
token twice); no token newer than the last drawn; `Assigned` (records that the token
backfill has passed have a token; without it a rotation could confirm token 0);
`LiveHeartbeats`; and that no active record anywhere has a confirmed token. One lemma
per action. Theorems: `TypeCorrect`, `NoAddressTwice`, `NoKeyTwice`, `NoGhosts`,
`ConfirmedForGood`. Two more hold if names are plain (`PlainNames`, which `Registry.cfg` satisfies and
`RegistryName.cfg` does not), so that `load` is the inverse of `save`: disk and memory then have the same
records, but for what a read that was cut short missed (`Mirrored`, `RecordsStay`), and while there was none memory is what the first loop of `AppState::new` makes of the disk (`Plan`). A plan is
determined by the addresses on disk and by the records before each (`Determined`), so that a backfill whose save
failed, run again after a restart, gives out what it gave out before (`AddressesForGood`).

**MembershipProofs**, for every set of keys, initial registry that satisfies
`MembershipAssumption`, intervals, and bound. `Inv` adds to `TypeOK`: addresses and tokens
are of one record each (`DisjointIps`, `DistinctTokens`); no record, daemon or file has a
token not drawn yet (without it a rotation could hand an old daemon a new token's record);
every entry of a table or answer says what some record says (`Known`: records never
lose their key or address, so it stays true); and a daemon that has missed few heartbeats has
one recorded that is no older than `waited + missed * (Interval + Slack)` (`Timely`).
`OwnerStep`, `DaemonStep` and `BeatStep` say what a step of each kind must show; one lemma
per action uses them. Theorems: `TypeCorrect`, `NoWrongPeer`, `MissesTolerated`.

**RoutingProofs**, for every width, network, peers file, set of peer maps and access lists that
satisfy `RoutingAssumption`. `Inv` is `TypeOK`; that every table, the pump's snapshot
included, keeps each entry under its own address (without it "the entry found by its
address" and "the peer with the address" are two things); and that what is to be sent
came out of `RouteToIp` on the snapshot and was permitted. `OverlayFirst` for IPv6 needs that
`OverlayV6` has no two preimages, which is arithmetic on `wrapping_sub`. `Origin` adds where things come from:
tables are those of the file or of a map, routes those of the first table, and a known address was a
bearer's. That a name and an address go together over all tables is `BearerAssumption`, which
`Registry` shows of the control plane. A gateway is found by comparing masked addresses, while the property
speaks of bits: `ContainsCovers` goes from the longest prefix down, halving both addresses at each step
(`Halved`, `Upwards`), from nothing but what `PowersAssumption` says of powers of two. Theorems: `TypeCorrect`,
`PeerBeforeGateway`, `DefaultDeny`, `NamesLeadHome`, `NothingCaptured`, `GatewaysCover`.

**SessionsProofs**, for every number of threads, logins, sessions, lifetime, and restarts. `Inv` adds to
`TypeOK` that a nonce is in one place (pending, held by one callback, or gone into its session:
`NonceInOnePlace`, without which two callbacks could both find it), that what was logged out
and written is in neither memory nor file (`Gone`; a restart makes one the other), and that what was
written and has not ended is in both unless some write was harmed (`Kept`). Theorems: `TypeCorrect`,
`OneLoginOneSession`, `LogoutIsFinal`, `SessionsSurvive`.

**NodeFilesProofs**, for every set of secrets and addresses and any sequence of commands that die anywhere.
`Inv` adds to the types: in what is left of a command the identity is loaded before it is shown
(`Ordered`); from its loading on the identity in memory is the one on disk (`IdentityOnDisk`); a
temporary file about to be renamed is complete (`TmpWhole`). Theorems: `TypeCorrect`, `DiskStaysSound`.

**TunnelProofs**, for every set of nodes and talkers and any losses, repetitions, delays and restarts, with or
without `Duplicates`, `Timely` and `Warm`. `Inv` is `Placed`, `SessionKeys`, `PendingUnused`, `Counted` and `Once`.
`Placed`: whatever says where a node is (tables, relay, hints, the source of a datagram
under way) was at some time its address, and a frame's ephemerals were drawn by those it names. Then the
argument about keys: an ephemeral is drawn once, and one of a handshake in flight is in no key its node has
used (`PendingUnused`), so `finalize` installs a key the node never had; the same holds of
`respond`, which draws its own. Hence counters start from zero once per key, and a session's
counter is beyond all it sealed and its window holds all it handed over (`Counted`): neither can
repeat (`Once`). A step is of one of five kinds (`Weakens`, `Begins`, `Installs`, `Seals`, `Hands`), with a
lemma for each, and a lemma per action says of which kind it is. `TunnelAssumption` keeps `None` and `Relay`
apart from addresses. Theorems: `TypeCorrect`, `PathsComeFromPeer`, `NoNonceTwice`, `NothingHandedTwice`,
`YoungHandshakesStay`.

Three more are about networks that are `RelayedInTime`: no direct paths, nothing repeated, and no handshake or packet starts
before the one before has ended or was lost, which is what `TunnelRecovery` explores. Without this they are false: on a slower network two
handshakes cross and the ends keep different keys (`TunnelDirect` shows one way). Losses and
restarts at any time remain, for any nodes. `Orderly` says of all that is under way that it is at most one
frame of an exchange or one reaction to one (`OneExchange`), and that this one fits the sessions it will find: a message 2
meets the session its sender installed for it and none at the other end, a packet a session that decrypts it
or none (`WireFits`, `ReactingFits`). That is why `udp_pump` reacts, and gives a session up, only to a peer
that has lost its own. Theorems: `OneAtATime`, `EndsShareKeys`, `NoneGivenUp`.

The last is a refinement, on any network. `ReplayWindow` shows that one session implements `AtMostOnce`; `Channel` maps the whole
system to it, for each key and each end: `sent` is what that end sealed under the key, `handed` how often each of these packets
reached a TUN. A step that seals or hands over a packet of the key is `Send` or `Hand`, every other step, of any node, handshake,
restart or loss, a stutter (`SealsSends`, `HandsHands`). So sessions that are installed, replaced and forgotten
promise together what a single one does. Theorem: `KeysAreChannels`.

Only model-checked: of `Tunnel` `Recovers`, of `Membership` `Converges`, of `Ingress` `HandlerEnds` and of `Device`
`PacketsTaken`. All four are liveness under fairness, out of the prover's reach, as are `ENABLED`, induction over data and
`RECURSIVE` operators (no module has one). Every invariant and action property of the passing runs has its theorem.

## Not modelled

* `akurai-crypto`: the ChaCha20 block and the BLAKE2s rounds, fixed functions that their published
  test vectors cover; the packing of words into limbs; the tag comparison's timing.
* `akurai-sys`: the layout of `ifreq` and of control messages, and the kernels behind them.
* a node that is a gateway: its kernel forwards and masquerades; `echo_peer`'s loop, a test peer.
* the parsers of the ingress maps, of the peers file and of command lines; `status`, and the talk of
  `login` with the control plane.
* HTTP parsing, HTML and JSON rendering, logging, statistics.
* `akurai-admin`: prints; `enrollment.rs`, `acl.rs`, `audit.rs` of the control plane: one
  status line each.
* scripts, units, network-namespace tests.
* send counters do not wrap in the model (2^64 packets under one session).

## Plan

Done: sessions, handshake, data plane with relay, registry with IPAM, membership, logins, routing, the node's
files, the proxy, the device, the structure of the primitives; proofs of all their safety properties.

Left, in this order:

1. Peers that leave `Tunnel`'s tables (`tunnel.rs:904`): `Membership`'s refresh composed with `Tunnel`, to say for
   how long the packets of a revoked node are accepted.
2. `Tunnel`'s exchanges as a refinement of an abstract handshake that `Noise` implements.
