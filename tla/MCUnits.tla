------------------------------ MODULE MCUnits -------------------------------
(***************************************************************************)
(* The parts that share no state with any other, in one model: a data      *)
(* session, the TCP proxy, the TUN device, and the files of a node.  The   *)
(* first step of a behaviour decides which of them runs.                   *)
(***************************************************************************)
EXTENDS ReplayWindow, NodeFiles, Sequences, FiniteSets

CONSTANTS NMaps, MaxBytes, Room,              \* of Ingress
          Packets, Buf, Slots, MaxPackets     \* of Device, Slots for its Room

\* A packet is a sequence of bytes, never empty.
ASSUME PacketsAssumption == Packets \subseteq Seq(Nat) \ {<<>>} /\ Buf \in Nat

VARIABLES part,
  process, bound, handler, copier, chunk, sent, fin, inq, outq, got, eof, wr, rd, rst,
  os, program, stage, step, held, released, rx, tx, event, gone, reader, expired,
  queued, taken, given, arrived

Proxy == INSTANCE Ingress
Tun   == INSTANCE Device WITH sent <- given, Room <- Slots

proxy == <<process, bound, handler, copier, chunk, sent, fin, inq, outq, got, eof, wr, rd, rst>>
tun   == <<os, program, stage, step, held, released, rx, tx, event, gone, reader, expired,
           queued, taken, given, arrived>>
files == <<file, tmp, todo, at, id, tok, shown, misread>>
all   == <<part, vars, proxy, tun, files>>

Frames == {<<4, 1>>, <<6, 2, 2>>}

UnitsInit == part \in {"session", "proxy", "tun", "files"}
             /\ Init /\ Proxy!Init /\ Tun!Init /\ FilesInit

UnitsNext ==
  /\ UNCHANGED part
  /\ \/ part = "session" /\ Next /\ UNCHANGED <<proxy, tun, files>>
     \/ part = "proxy" /\ Proxy!Next /\ UNCHANGED <<vars, tun, files>>
     \/ part = "tun" /\ Tun!Next /\ UNCHANGED <<vars, proxy, files>>
     \/ part = "files" /\ FilesNext /\ UNCHANGED <<vars, proxy, tun>>

UnitsSpec == UnitsInit /\ [][UnitsNext]_all /\ Proxy!Fairness /\ Tun!Fairness

StreamsIntact   == Proxy!StreamsIntact
HandlerEnds     == Proxy!HandlerEnds
HandlesReturned == Tun!HandlesReturned
PacketsIntact   == Tun!PacketsIntact
PacketsTaken    == Tun!PacketsTaken
=============================================================================
