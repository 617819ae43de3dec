------------------------------- MODULE Device -------------------------------
(***************************************************************************)
(* akurai-sys: the TUN device of the three platforms                       *)
(* (crates/akurai-sys/src/tun.rs, raw.rs), and the two programs that own   *)
(* one, `run` and `selftest` of crates/akurai-node/src/tunnel.rs.          *)
(*                                                                         *)
(* A packet is a sequence of bytes whose first byte is its IP version; it  *)
(* is never empty, and shorter than the 4,096 bytes of a macOS frame.      *)
(* The kernel queues frames for the program (rx) and takes frames from it  *)
(* (tx).  On Linux and Windows a frame is a bare packet, on macOS a        *)
(* four-byte address family goes before it.  On Windows both queues are    *)
(* rings and an event says that rx is worth another look.                  *)
(***************************************************************************)
EXTENDS Naturals, Sequences

CONSTANTS Packets,     \* packets that cross the interface
          Buf,         \* length of the buffer recv fills
          Room,        \* bound: frames the kernel holds in a queue
          MaxPackets   \* bound: packets queued, and packets sent

Systems  == {"linux", "macos", "windows"}
Programs == {"run", "selftest"}

VARIABLES
  os, program,   \* what was started, or "none"
  stage,         \* "off", "open", "configure", "up", "half", "failed" or "exited"
  step,          \* steps of the stage done
  held,          \* handles the process holds
  released,      \* history: the handles the code has closed, in order
  rx, tx,        \* frames queued for the program, and by it
  event,         \* the read-wait event is signalled
  gone,          \* the interface was removed underneath the program
  reader,        \* the reading thread: "recv", "copy", "wait", "ended" or "off"
  expired,       \* selftest: the deadline has passed
  queued, taken, \* history: packets the kernel queued, packets recv returned
  sent, arrived  \* history: packets send took, frames the kernel took

owner == <<os, program, stage, step, held, released>>
links == <<rx, event, gone>>
hist  == <<queued, taken>>
vars  == <<owner, links, reader, expired, hist, tx, sent, arrived>>

Frames == {h \o p : h \in {<<>>, <<0, 0, 0, 2>>, <<0, 0, 0, 30>>}, p \in Packets}
Shorts == {SubSeq(p, 1, n) : p \in Packets, n \in 0 .. Buf}

TypeOK ==
  /\ os \in Systems \cup {"none"} /\ program \in Programs \cup {"none"}
  /\ stage \in {"off", "open", "configure", "up", "half", "failed", "exited"}
  /\ step \in 0 .. 5
  /\ held \subseteq {"fd", "module", "adapter", "session"}
  /\ released \in Seq({"fd", "adapter", "session"})
  /\ {rx, tx, arrived} \subseteq Seq(Frames)
  /\ {event, gone, expired} \subseteq BOOLEAN
  /\ reader \in {"recv", "copy", "wait", "ended", "off"}
  /\ queued \in Seq(Packets) /\ taken \in Seq(Shorts) /\ sent \in Seq(Packets \cup Shorts)

Init == /\ os = "none" /\ program = "none" /\ stage = "off" /\ step = 0
        /\ held = {} /\ released = <<>>
        /\ rx = <<>> /\ tx = <<>> /\ event = FALSE /\ gone = FALSE
        /\ reader = "off" /\ expired = FALSE
        /\ queued = <<>> /\ taken = <<>> /\ sent = <<>> /\ arrived = <<>>

-----------------------------------------------------------------------------
(***************************************************************************)
(* create                                                                  *)
(***************************************************************************)
LinuxOpening   == <<"open", "tunsetiff">>
MacOpening     == <<"socket", "ctlinfo", "connect">>
WindowsOpening == <<"load", "exports", "adapter", "session">>
Opening == [linux |-> LinuxOpening, macos |-> MacOpening, windows |-> WindowsOpening]

\* The handle a step of create yields.
Yields == [open |-> "fd", socket |-> "fd", load |-> "module",
           adapter |-> "adapter", session |-> "session"]
HandlesOf(s) == IF s \in DOMAIN Yields THEN {Yields[s]} ELSE {}

\* The code closes the handles of hs, one or two of them, in order, those it holds.
IfHeld(h) == IF h \in held THEN <<h>> ELSE <<>>
Close(hs) == /\ released' = released \o IfHeld(hs[1])
                                     \o (IF Len(hs) = 2 THEN IfHeld(hs[2]) ELSE <<>>)
             /\ held' = held \ {hs[i] : i \in DOMAIN hs}

\* What an early return closes: the Linux File and the macOS guard drop the
\* descriptor; on Windows a failed session closes the adapter.
OnFailure(s) == IF s = "session" THEN <<"adapter">> ELSE <<"fd">>

Start(s, prog) ==
  /\ stage = "off"
  /\ os' = s /\ program' = prog /\ stage' = "open"
  /\ UNCHANGED <<step, held, released, links, reader, expired, hist, tx, sent, arrived>>

Open ==
  /\ stage = "open"
  /\ held' = held \cup HandlesOf(Opening[os][step + 1])
  /\ IF step + 1 = Len(Opening[os])
     THEN stage' = "configure" /\ step' = 0
     ELSE stage' = stage /\ step' = step + 1
  /\ UNCHANGED <<os, program, released, links, reader, expired, hist, tx, sent, arrived>>

OpenFails ==
  /\ stage = "open"
  /\ Close(OnFailure(Opening[os][step + 1]))
  /\ stage' = "failed" /\ step' = 0
  /\ UNCHANGED <<os, program, links, reader, expired, hist, tx, sent, arrived>>

-----------------------------------------------------------------------------
(***************************************************************************)
(* setup_interface, and the drop of the device                             *)
(***************************************************************************)
\* Variant with a slip: the adapter is closed under its session.
WindowsDropSwapped == <<"adapter", "session">>

WindowsDrop == <<"session", "adapter">>
DropOrder   == IF os = "windows" THEN WindowsDrop ELSE <<"fd">>

\* The commands whose failure setup_interface reports, and the bind of `run`.
MacSetup     == <<"ifconfig", "route">>
WindowsSetup == <<"address", "route">>
LinuxSetup   == <<"addr", "mtu", "up", "route">>
Setup == [linux |-> LinuxSetup, macos |-> MacSetup, windows |-> WindowsSetup]
ConfigureSteps == Len(Setup[os]) + (IF program = "run" THEN 1 ELSE 0)

Configure ==
  /\ stage = "configure"
  /\ IF step + 1 = ConfigureSteps
     THEN stage' = "up" /\ step' = 0 /\ reader' = "recv"
     ELSE stage' = stage /\ step' = step + 1 /\ reader' = reader
  /\ UNCHANGED <<os, program, held, released, links, expired, hist, tx, sent, arrived>>

ConfigureFails ==
  /\ stage = "configure"
  /\ Close(DropOrder)
  /\ stage' = "failed" /\ step' = 0
  /\ UNCHANGED <<os, program, links, reader, expired, hist, tx, sent, arrived>>

-----------------------------------------------------------------------------
(***************************************************************************)
(* The kernel                                                              *)
(***************************************************************************)
Family(p) == IF p[1] = 6 THEN 30 ELSE 2
Wire(p) == IF os = "macos" THEN <<0, 0, 0, Family(p)>> \o p ELSE p

\* A packet is routed to the interface.
Queue(p) ==
  /\ stage \in {"up", "half"} /\ ~gone
  /\ Len(rx) < Room /\ Len(queued) < MaxPackets
  /\ rx' = Append(rx, Wire(p))
  /\ queued' = Append(queued, p)
  /\ event' = TRUE
  /\ UNCHANGED <<owner, gone, reader, expired, taken, tx, sent, arrived>>

\* The administrator removes the interface; a slot in use stays readable.
Remove ==
  /\ stage \in {"up", "half"} /\ ~gone
  /\ gone' = TRUE /\ event' = TRUE
  /\ rx' = IF reader = "copy" THEN <<Head(rx)>> ELSE <<>>
  /\ UNCHANGED <<owner, reader, expired, hist, tx, sent, arrived>>

TakeSent ==
  /\ tx # <<>>
  /\ arrived' = Append(arrived, Head(tx)) /\ tx' = Tail(tx)
  /\ UNCHANGED <<owner, links, reader, expired, hist, sent>>

-----------------------------------------------------------------------------
(***************************************************************************)
(* recv                                                                    *)
(***************************************************************************)
\* Variant with a slip: one byte of the header stays.
StripShort(frame) == IF os = "macos" THEN SubSeq(frame, 4, Len(frame)) ELSE frame

\* The macOS recv returns the frame behind its header.
Strip(frame) == IF os = "macos" THEN SubSeq(frame, 5, Len(frame)) ELSE frame
Copy(frame) == LET p == Strip(frame) IN SubSeq(p, 1, IF Len(p) < Buf THEN Len(p) ELSE Buf)

\* tun_pump returns an error: run returns it, the process exits and the system
\* takes back what it held.
Exits == /\ stage' = "exited" /\ held' = {} /\ reader' = "ended"
         /\ UNCHANGED <<os, program, step, released>>

\* End of file: tun_pump returns Ok, and `run` joins the UDP thread, which never ends.
Half == /\ stage' = "half" /\ reader' = "ended"
        /\ UNCHANGED <<os, program, step, held, released>>

\* An error of recv; selftest only tries again.
RecvErr == IF program = "run" THEN Exits ELSE reader' = "recv" /\ UNCHANGED owner
RecvEof == IF program = "run" THEN Half ELSE reader' = "recv" /\ UNCHANGED owner

\* selftest answers an echo request on the spot, whose reply has the same
\* length; run goes on with the packet while the next one arrives.
Sendable == Len(tx) < Room /\ ~gone
AddressFamily(p) == IF p[1] = 6 THEN 30 ELSE 2
FrameOf(p) == IF os = "macos" THEN <<0, 0, 0, AddressFamily(p)>> \o p ELSE p
Sends(p) == IF Sendable THEN sent' = Append(sent, p) /\ tx' = Append(tx, FrameOf(p))
            ELSE UNCHANGED <<sent, tx>>

Handled(p) ==
  \/ program = "selftest" /\ p[1] = 4 /\ Sends(p)
  \/ UNCHANGED <<sent, tx>>

Took(frame) == /\ taken' = Append(taken, Copy(frame))
               /\ rx' = Tail(rx)
               /\ reader' = "recv"
               /\ Handled(Copy(frame))
               /\ UNCHANGED <<owner, event, gone, expired, queued, arrived>>

\* Linux and macOS: one read per packet.  The Linux read of a removed interface
\* fails, the macOS one sees the end of the file.
Read ==
  /\ os # "windows" /\ reader = "recv" /\ stage = "up"
  /\ \/ rx # <<>> /\ Took(Head(rx))
     \/ /\ gone
        /\ IF os = "macos" THEN RecvEof ELSE RecvErr
        /\ UNCHANGED <<links, expired, hist, tx, sent, arrived>>

\* Windows: a slot of the ring, copied and released; or NO_MORE_ITEMS.
ReceivePacket ==
  /\ os = "windows" /\ reader = "recv" /\ stage = "up"
  /\ \/ rx # <<>> /\ reader' = "copy" /\ UNCHANGED owner
     \/ rx = <<>> /\ ~gone /\ reader' = "wait" /\ UNCHANGED owner
     \/ rx = <<>> /\ gone /\ RecvErr
  /\ UNCHANGED <<links, expired, hist, tx, sent, arrived>>

ReleasePacket ==
  /\ reader = "copy"
  /\ Took(Head(rx))

\* Variant with a slip: the event may be reset between the look at the ring and
\* the wait.
WaitResetsFirst ==
  /\ reader = "wait" /\ event
  /\ event' = FALSE /\ reader' \in {"recv", "wait"}
  /\ UNCHANGED <<owner, rx, gone, expired, hist, tx, sent, arrived>>

\* WaitForSingleObject, without a timeout; returning, it resets the event.
Wait ==
  /\ reader = "wait" /\ event
  /\ event' = FALSE /\ reader' = "recv"
  /\ UNCHANGED <<owner, rx, gone, expired, hist, tx, sent, arrived>>

-----------------------------------------------------------------------------
(***************************************************************************)
(* send, by the UDP thread of run; the end of selftest                     *)
(***************************************************************************)
\* An inner packet was decrypted; an error of send, the full ring included, is
\* ignored and the packet is gone.
Send(p) ==
  /\ program = "run" /\ stage \in {"up", "half"}
  /\ Len(sent) < MaxPackets
  /\ Sends(p)
  /\ UNCHANGED <<owner, links, reader, expired, hist, arrived>>

\* The deadline passes; it is looked at between two calls of recv only.
Expire == /\ program = "selftest" /\ stage = "up" /\ ~expired
          /\ expired' = TRUE
          /\ UNCHANGED <<owner, links, reader, hist, tx, sent, arrived>>

SelftestReturns ==
  /\ program = "selftest" /\ stage = "up" /\ reader = "recv" /\ expired
  /\ stage' = "exited" /\ reader' = "ended"
  /\ Close(DropOrder)
  /\ UNCHANGED <<os, program, step, links, expired, hist, tx, sent, arrived>>

Reader == Read \/ ReceivePacket \/ ReleasePacket \/ Wait \/ SelftestReturns

Next == \/ \E s \in Systems, prog \in Programs : Start(s, prog)
        \/ Open \/ OpenFails \/ Configure \/ ConfigureFails
        \/ \E p \in Packets : Queue(p) \/ Send(p)
        \/ Remove \/ TakeSent \/ Reader \/ Expire

Spec == Init /\ [][Next]_vars

\* The system runs the reading thread.
Fairness == WF_vars(Reader)

-----------------------------------------------------------------------------
(***************************************************************************)
(* Properties                                                              *)
(***************************************************************************)
\* "Guarantees the socket is released if any step of create fails", "each is
\* ended/closed exactly once, session before adapter": along every path out of
\* create, setup_interface and the programs, a handle is closed at most once, an
\* adapter never under its session, a running program still holds what it uses,
\* and one that failed or left holds nothing but the loaded library.
HandlesReturned ==
  /\ \A i, j \in DOMAIN released :
       /\ released[i] = released[j] => i = j
       /\ released[i] = "adapter" /\ released[j] = "session" => j < i
  /\ \A i \in DOMAIN released :
       released[i] \notin held /\ (released[i] = "adapter" => "session" \notin held)
  /\ stage \in {"up", "half"} =>
       held \ {"module"} = IF os = "windows" THEN {"adapter", "session"} ELSE {"fd"}
  /\ stage \in {"failed", "exited"} => held \subseteq {"module"}

\* "callers still see bare packets": recv returns what the kernel queued, packet
\* by packet and in order, up to the length of the buffer; and the kernel sees
\* what send took, under the family of its IP version.
PacketsIntact ==
  /\ Len(taken) <= Len(queued)
  /\ \A i \in 1 .. Len(taken) :
       taken[i] = SubSeq(queued[i], 1, IF Len(queued[i]) < Buf THEN Len(queued[i]) ELSE Buf)
  /\ Len(arrived \o tx) = Len(sent)
  /\ \A i \in 1 .. Len(sent) : (arrived \o tx)[i] = Wire(sent[i])

\* "Blocks on the read-ready event when the ring is empty": no wake-up is lost,
\* however the event, the look at the ring and the next packet interleave; a
\* packet queued is returned, unless the program leaves or the interface goes.
PacketsTaken ==
  \A n \in 1 .. MaxPackets :
    Len(queued) >= n ~> (Len(taken) >= n \/ gone \/ stage # "up")
=============================================================================
