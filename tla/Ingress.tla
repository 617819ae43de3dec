------------------------------ MODULE Ingress -------------------------------
(***************************************************************************)
(* akurai-ingress: the TCP proxy in front of an overlay service            *)
(* (crates/akurai-ingress/src/proxy.rs).  `serve` binds one listener per   *)
(* map; an accepted client gets a handler thread, which connects to the    *)
(* upstream and splices: one copier thread per direction.                  *)
(*                                                                         *)
(* A connection is modelled by its two ends, the client and the upstream   *)
(* service, with a TCP socket between each of them and the proxy.          *)
(* Everything indexed by an end e belongs to that socket; copier e is the  *)
(* `splice` that reads from e and writes to the other end.  The bytes an   *)
(* end sends are numbered, so that a lost, repeated or reordered one       *)
(* shows.  A kernel buffer holds Room bytes: a writer beyond that blocks.  *)
(*                                                                         *)
(* One connection is followed at a time: the handlers share nothing, and   *)
(* after one has ended the next client starts from the same state.         *)
(***************************************************************************)
EXTENDS Naturals, Sequences

CONSTANTS NMaps,      \* number of configured maps
          MaxBytes,   \* bound: bytes an end sends on one connection
          Room        \* bound: bytes a kernel buffer holds

Ends     == {"client", "upstream"}
Other(e) == IF e = "client" THEN "upstream" ELSE "client"

VARIABLES
  process,   \* serve: "binding", "serving" or "failed"
  bound,     \* listeners bound so far
  handler,   \* the handler thread: "none", "connect", "splice" or "done"
  copier,    \* copier[e]: where splice(e, Other(e)) is
  chunk,     \* chunk[e]: what it has read and not yet written
  sent,      \* sent[e]: history of the bytes end e has sent
  fin,       \* fin[e]: e has closed its sending side
  inq,       \* inq[e]: bytes from e the proxy has not read
  outq,      \* outq[e]: bytes written for e that e has not read
  got,       \* got[e]: history of the bytes e has read
  eof,       \* eof[e]: e has read the end of the stream
  wr,        \* wr[e]: the proxy may still write to e
  rd,        \* rd[e]: the proxy may still read from e
  rst        \* rst[e]: the connection with e was reset

conn == <<sent, fin, inq, outq, got, eof, wr, rd, rst>>
vars == <<process, bound, handler, copier, chunk, conn>>

Streams == Seq(1 .. MaxBytes)

TypeOK ==
  /\ process \in {"binding", "serving", "failed"}
  /\ bound \in 0 .. NMaps
  /\ handler \in {"none", "connect", "splice", "done"}
  /\ copier \in [Ends -> {"read", "write", "shutdown_write", "shutdown_read", "done"}]
  /\ {chunk, sent, inq, outq, got} \subseteq [Ends -> Streams]
  /\ {fin, eof, wr, rd, rst} \subseteq [Ends -> BOOLEAN]

AtEnds(v) == [e \in Ends |-> v]

Init == /\ process = "binding"
        /\ bound = 0
        /\ handler = "none"
        /\ copier = AtEnds("done")
        /\ chunk = AtEnds(<<>>)
        /\ sent = AtEnds(<<>>)   /\ fin = AtEnds(FALSE)  /\ inq = AtEnds(<<>>)
        /\ outq = AtEnds(<<>>)   /\ got = AtEnds(<<>>)   /\ eof = AtEnds(FALSE)
        /\ wr = AtEnds(TRUE)     /\ rd = AtEnds(TRUE)    /\ rst = AtEnds(FALSE)

-----------------------------------------------------------------------------
(***************************************************************************)
(* serve and accept_loop                                                   *)
(***************************************************************************)

\* Both sockets go away at once: what they held is lost, the ends see a reset.
Dropped == /\ rst' = AtEnds(TRUE)
           /\ inq' = AtEnds(<<>>)
           /\ outq' = AtEnds(<<>>)
           /\ UNCHANGED <<sent, fin, got, eof, wr, rd>>

\* One turn of the loop over the maps: bind, and start the accept thread.
Bind == /\ process = "binding"
        /\ bound < NMaps
        /\ bound' = bound + 1
        /\ process' = IF bound' = NMaps THEN "serving" ELSE "binding"
        /\ UNCHANGED <<handler, copier, chunk, conn>>

\* A port is taken: serve returns the error, main exits, and with it go the
\* threads of the listeners bound before.
BindFails == /\ process = "binding"
             /\ bound < NMaps
             /\ process' = "failed"
             /\ bound' = 0
             /\ handler' = "done"
             /\ copier' = AtEnds("done")
             /\ chunk' = AtEnds(<<>>)
             /\ Dropped

\* A client connects; it may send before the upstream is connected.
Accept == /\ bound > 0
          /\ handler \in {"none", "done"}
          /\ handler' = "connect"
          /\ sent' = AtEnds(<<>>)   /\ fin' = AtEnds(FALSE)  /\ inq' = AtEnds(<<>>)
          /\ outq' = AtEnds(<<>>)   /\ got' = AtEnds(<<>>)   /\ eof' = AtEnds(FALSE)
          /\ wr' = AtEnds(TRUE)     /\ rd' = AtEnds(TRUE)    /\ rst' = AtEnds(FALSE)
          /\ UNCHANGED <<process, bound, copier, chunk>>

\* handle_connection: the upstream is connected, both sockets are cloned and
\* both copiers start.
Connect == /\ handler = "connect"
           /\ handler' = "splice"
           /\ copier' = AtEnds("read")
           /\ UNCHANGED <<process, bound, chunk, conn>>

\* The upstream refuses, or `dual` cannot clone a descriptor.
ConnectFails == /\ handler = "connect"
                /\ handler' = "done"
                /\ Dropped
                /\ UNCHANGED <<process, bound, copier, chunk>>

-----------------------------------------------------------------------------
(***************************************************************************)
(* splice                                                                  *)
(***************************************************************************)
Goto(e, pc) == copier' = [copier EXCEPT ![e] = pc]

\* io::copy reads: some bytes, the end of the stream, or an error.  Both of the
\* latter end the copy.
ReadBytes(e) ==
  /\ ~rst[e] /\ inq[e] # <<>>
  /\ Goto(e, "write")
  /\ chunk' = [chunk EXCEPT ![e] = <<Head(inq[e])>>]
  /\ inq' = [inq EXCEPT ![e] = Tail(@)]
  /\ UNCHANGED <<sent, fin, outq, got, eof, wr, rd, rst>>

ReadEnds(e) ==
  /\ rst[e] \/ (inq[e] = <<>> /\ (fin[e] \/ ~rd[e]))
  /\ Goto(e, "shutdown_write")
  /\ UNCHANGED <<chunk, conn>>

\* io::copy writes all it has read, which blocks while the buffer is full.
WriteBytes(e) ==
  LET o == Other(e) IN
  /\ ~rst[o] /\ wr[o] /\ Len(outq[o]) < Room
  /\ Goto(e, "read")
  /\ outq' = [outq EXCEPT ![o] = @ \o chunk[e]]
  /\ chunk' = [chunk EXCEPT ![e] = <<>>]
  /\ UNCHANGED <<sent, fin, inq, got, eof, wr, rd, rst>>

WriteFails(e) ==
  /\ rst[Other(e)] \/ ~wr[Other(e)]
  /\ Goto(e, "shutdown_write")
  /\ chunk' = [chunk EXCEPT ![e] = <<>>]
  /\ UNCHANGED conn

\* Variants with a slip: no half-close of the other end; of this end, both halves.
ShutdownWriteForgotten(e) == Goto(e, "shutdown_read") /\ UNCHANGED <<chunk, conn>>
ShutdownReadBoth(e) ==
  /\ Goto(e, "done")
  /\ rd' = [rd EXCEPT ![e] = FALSE]
  /\ wr' = [wr EXCEPT ![e] = FALSE]
  /\ UNCHANGED <<chunk, sent, fin, inq, outq, got, eof, rst>>

ShutdownWrite(e) ==
  /\ Goto(e, "shutdown_read")
  /\ wr' = [wr EXCEPT ![Other(e)] = FALSE]
  /\ UNCHANGED <<chunk, sent, fin, inq, outq, got, eof, rd, rst>>

ShutdownRead(e) ==
  /\ Goto(e, "done")
  /\ rd' = [rd EXCEPT ![e] = FALSE]
  /\ UNCHANGED <<chunk, sent, fin, inq, outq, got, eof, wr, rst>>

Splice(e) ==
  /\ \/ copier[e] = "read" /\ ReadBytes(e)
     \/ copier[e] = "read" /\ ReadEnds(e)
     \/ copier[e] = "write" /\ WriteBytes(e)
     \/ copier[e] = "write" /\ WriteFails(e)
     \/ copier[e] = "shutdown_write" /\ ShutdownWrite(e)
     \/ copier[e] = "shutdown_read" /\ ShutdownRead(e)
  /\ UNCHANGED <<process, bound, handler>>

\* worker.join(): the handler returns when both copies have ended.  By then every
\* handle is dropped; a socket with unread bytes is reset, as Linux does.
Join == LET Unread == {e \in Ends : inq[e] # <<>>} IN
        /\ handler = "splice"
        /\ copier = AtEnds("done")
        /\ handler' = "done"
        /\ rst' = [e \in Ends |-> rst[e] \/ e \in Unread]
        /\ outq' = [e \in Ends |-> IF e \in Unread THEN <<>> ELSE outq[e]]
        /\ UNCHANGED <<process, bound, copier, chunk, sent, fin, inq, got, eof, wr, rd>>

-----------------------------------------------------------------------------
(***************************************************************************)
(* The two ends                                                            *)
(***************************************************************************)
\* The client has a connection from the accept on, the upstream from the connect.
Connected(e) == \/ handler \in {"splice", "done"}
                \/ handler = "connect" /\ e = "client"

PeerSends(e) ==
  /\ handler \in {"connect", "splice"} /\ Connected(e)
  /\ ~fin[e] /\ ~rst[e]
  /\ Len(sent[e]) < MaxBytes /\ Len(inq[e]) < Room
  /\ LET byte == Len(sent[e]) + 1 IN
       /\ sent' = [sent EXCEPT ![e] = Append(@, byte)]
       /\ inq' = [inq EXCEPT ![e] = Append(@, byte)]
  /\ UNCHANGED <<process, bound, handler, copier, chunk, fin, outq, got, eof, wr, rd, rst>>

PeerCloses(e) ==
  /\ Connected(e) /\ ~fin[e] /\ ~rst[e]
  /\ fin' = [fin EXCEPT ![e] = TRUE]
  /\ UNCHANGED <<process, bound, handler, copier, chunk, sent, inq, outq, got, eof, wr, rd, rst>>

PeerReads(e) ==
  /\ ~rst[e] /\ outq[e] # <<>>
  /\ got' = [got EXCEPT ![e] = Append(@, Head(outq[e]))]
  /\ outq' = [outq EXCEPT ![e] = Tail(@)]
  /\ UNCHANGED <<process, bound, handler, copier, chunk, sent, fin, inq, eof, wr, rd, rst>>

PeerSeesEof(e) ==
  /\ ~rst[e] /\ outq[e] = <<>> /\ ~wr[e] /\ ~eof[e]
  /\ eof' = [eof EXCEPT ![e] = TRUE]
  /\ UNCHANGED <<process, bound, handler, copier, chunk, sent, fin, inq, outq, got, wr, rd, rst>>

\* The process of e dies or its network goes away and answers with a reset.
PeerResets(e) ==
  /\ Connected(e) /\ ~rst[e]
  /\ rst' = [rst EXCEPT ![e] = TRUE]
  /\ inq' = [inq EXCEPT ![e] = <<>>]
  /\ outq' = [outq EXCEPT ![e] = <<>>]
  /\ UNCHANGED <<process, bound, handler, copier, chunk, sent, fin, got, eof, wr, rd>>

Peer(e) == PeerSends(e) \/ PeerCloses(e) \/ PeerReads(e) \/ PeerSeesEof(e) \/ PeerResets(e)

Next == \/ Bind \/ BindFails \/ Accept \/ Connect \/ ConnectFails \/ Join
        \/ \E e \in Ends : Splice(e) \/ Peer(e)

Spec == Init /\ [][Next]_vars

\* The scheduler runs every thread of the proxy.  Of the ends: they read what
\* arrives, and an end that has read the end of the stream closes its own side.
Fairness ==
  /\ WF_vars(Join)
  /\ \A e \in Ends : /\ WF_vars(Splice(e))
                     /\ WF_vars(PeerReads(e))
                     /\ WF_vars(PeerSeesEof(e))
                     /\ WF_vars(eof[e] /\ PeerCloses(e))

-----------------------------------------------------------------------------
(***************************************************************************)
(* Properties                                                              *)
(***************************************************************************)
\* "splicing both directions until either side closes": whatever the order of
\* half-closes, resets and blocked writes, an end reads a prefix of what the
\* other sent, and one that reads the end of the stream has read all of it,
\* unless the other end was reset.
StreamsIntact ==
  \A e \in Ends :
    LET o == Other(e) IN
    /\ Len(got[o]) <= Len(sent[e])
    /\ \A i \in 1 .. Len(got[o]) : got[o][i] = sent[e][i]
    /\ eof[o] /\ ~rst[e] => got[o] = sent[e]

\* "half-close both ends so the peer's opposite copy also unblocks and the
\* connection tears down cleanly": once one end has closed or was reset, both
\* copies end and the handler thread returns, even with full buffers.
HandlerEnds ==
  (handler = "splice" /\ \E e \in Ends : fin[e] \/ rst[e]) ~> handler = "done"
=============================================================================
