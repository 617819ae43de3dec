----------------------------- MODULE NodeFiles -----------------------------
(***************************************************************************)
(* akurai-node: what the commands keep under the node's home               *)
(* (crates/akurai-node/src/main.rs, identity.rs).                          *)
(*                                                                         *)
(* A command is a sequence of steps on files, run by a process of its own  *)
(* that may die between any two of them; a later command starts from what  *)
(* is on disk.  One command runs at a time.  A file is absent, empty,      *)
(* partly written, or holds a whole value.  Two ways of writing:           *)
(* write_file (a temporary file, renamed when complete) and, for the       *)
(* identity and the token, truncation of the file itself.                  *)
(***************************************************************************)
EXTENDS Naturals, Sequences

CONSTANTS Keys,        \* bound: secrets the node may generate
          Addresses    \* overlay addresses `up` may be given

Replaced == {"conf", "state", "overlay", "auth", "unit"}   \* by write_file
InPlace  == {"key", "pub", "token"}                        \* truncated, then written
Torn     == {"empty", "part"}
Values(f) ==
  CASE f = "state"           -> {"installed", "up", "down"}
    [] f = "overlay"         -> Addresses
    [] f \in {"key", "pub"}  -> Keys
    [] OTHER                 -> {"given"}

\* A key that is whole is told from one that is not (from_b64 to 32 bytes).
ASSUME KeysAssumption == Keys \cap ({"absent", "none"} \cup Torn) = {}

VARIABLES
  file,      \* file[f]: its content
  tmp,       \* the temporary file of the write_file in progress
  todo,      \* steps the running command has left; <<>> when none runs
  at,        \* where it is within the first of them
  id,        \* the identity in its memory, or "none"
  tok,       \* the token in its memory, or "none"
  shown,     \* history: identities printed, registered or used by a daemon
  misread    \* history: an existing key file could not be read

disk == <<file, tmp>>
filesVars == <<disk, todo, at, id, tok, shown, misread>>

FileStep(f, v) == [do |-> "file", file |-> f, value |-> v]
Step(what)     == [do |-> what]

-----------------------------------------------------------------------------
(***************************************************************************)
(* The commands                                                            *)
(***************************************************************************)
Install == <<FileStep("conf", "given"), FileStep("state", "installed"),
             Step("identity"), Step("show")>>

\* --auth-key and --overlay-ip are optional.
UpPlans == {a \o o \o <<FileStep("state", "up")>> :
              a \in {<<>>, <<FileStep("auth", "given")>>},
              o \in {<<>>} \cup {<<FileStep("overlay", ip)>> : ip \in Addresses}}

Down == <<FileStep("state", "down")>>

\* The options are checked after the identity is loaded; the daemon that then
\* runs shows the identity to the control plane and to its peers.
TunnelCmd   == <<Step("identity"), Step("check"), Step("token"), Step("show"), Step("serve")>>
SelftestCmd == <<Step("identity"), Step("check")>>
EchoPeerCmd == <<Step("identity"), Step("check"), Step("show")>>

\* The unit is written, then systemctl is called twice.
ServiceInstall == <<FileStep("unit", "given"), Step("check"), Step("check")>>

Commands == {Install, Down, TunnelCmd, SelftestCmd, EchoPeerCmd, ServiceInstall} \cup UpPlans

Steps == UNION {{c[i] : i \in DOMAIN c} : c \in Commands}

FilesTypeOK ==
  /\ file \in [Replaced \cup InPlace -> {"absent"} \cup Torn \cup {"given", "installed", "up", "down"} \cup Addresses \cup Keys]
  /\ \A f \in Replaced \cup InPlace : file[f] \in {"absent"} \cup Torn \cup Values(f)
  /\ tmp \in {"absent"} \cup Torn \cup UNION {Values(f) : f \in Replaced}
  /\ todo \in Seq(Steps)
  /\ at \in {"start", "opened", "written", "pub", "pub_opened"}
  /\ id \in Keys \cup {"none"} /\ tok \in {"none", "part", "given"}
  /\ shown \subseteq Keys /\ misread \in BOOLEAN

FilesInit == /\ file = [f \in Replaced \cup InPlace |-> "absent"]
        /\ tmp = "absent"
        /\ todo = <<>> /\ at = "start"
        /\ id = "none" /\ tok = "none"
        /\ shown = {} /\ misread = FALSE

Run(c) == /\ todo = <<>>
          /\ todo' = c
          /\ UNCHANGED <<disk, at, id, tok, shown, misread>>

\* The process ends, and its memory with it.  A temporary file it leaves is read
\* by nobody, and truncated by the next write_file.
Ends == todo' = <<>> /\ at' = "start" /\ id' = "none" /\ tok' = "none"

\* Killed, or returning an error.
Die == /\ todo # <<>>
       /\ Ends
       /\ tmp' = "absent"
       /\ UNCHANGED <<file, shown, misread>>

AtStep(what) == todo # <<>> /\ Head(todo).do = what
Goto(pc, i, t) == at' = pc /\ id' = i /\ tok' = t /\ UNCHANGED todo
NextStep(i, t) == \/ Len(todo) = 1 /\ Ends
                  \/ Len(todo) > 1 /\ todo' = Tail(todo) /\ at' = "start" /\ id' = i /\ tok' = t

-----------------------------------------------------------------------------
(***************************************************************************)
(* write_file                                                              *)
(***************************************************************************)
Written(f, c) == file' = [file EXCEPT ![f] = c]

\* install writes the configuration once.
KeepConf ==
  /\ AtStep("file") /\ at = "start"
  /\ Head(todo).file = "conf" /\ file["conf"] # "absent"
  /\ NextStep(id, tok)
  /\ UNCHANGED <<disk, shown, misread>>

Create ==
  /\ AtStep("file") /\ at = "start"
  /\ Head(todo).file = "conf" => file["conf"] = "absent"
  /\ tmp' = "empty" /\ Goto("opened", id, tok)
  /\ UNCHANGED <<file, shown, misread>>

\* On a full disk write_all returns its error: Die, before or after a part is written.
WriteAll ==
  /\ AtStep("file") /\ at = "opened"
  /\ \/ tmp' = Head(todo).value /\ Goto("written", id, tok)
     \/ tmp = "empty" /\ tmp' = "part" /\ Goto("opened", id, tok)
  /\ UNCHANGED <<file, shown, misread>>

Rename ==
  /\ AtStep("file") /\ at = "written"
  /\ Written(Head(todo).file, tmp)
  /\ tmp' = "absent"
  /\ NextStep(id, tok)
  /\ UNCHANGED <<shown, misread>>

-----------------------------------------------------------------------------
(***************************************************************************)
(* Identity::load_or_create                                                *)
(***************************************************************************)
FreshKeys == Keys \ (shown \cup {file["key"], file["pub"]})

\* A key that can be read is used or, not being whole, refused.
LoadKey ==
  /\ AtStep("identity") /\ at = "start"
  /\ \/ file["key"] \in Keys /\ NextStep(file["key"], tok)
     \/ file["key"] \in Torn /\ Ends
  /\ UNCHANGED <<disk, shown, misread>>

\* Any error of the read counts as no key: a fresh one is drawn, and the file
\* opened with truncation.
CreateKey ==
  /\ AtStep("identity") /\ at = "start"
  /\ \E k \in FreshKeys : Goto("opened", k, tok)
  /\ misread' = (misread \/ file["key"] # "absent")
  /\ Written("key", "empty")
  /\ UNCHANGED <<tmp, shown>>

\* A write in place: all of it, or a part before the process ends.
WriteOver(f, v, pc) ==
  \/ Written(f, v) /\ IF pc = "next" THEN NextStep(id, tok) ELSE Goto(pc, id, tok)
  \/ Written(f, "part") /\ Ends

\* Variant with a slip: an error of the write is ignored.
WriteKeyIgnored ==
  /\ AtStep("identity") /\ at = "opened"
  /\ \E c \in {"empty", "part", id} : Written("key", c)
  /\ Goto("pub", id, tok)
  /\ UNCHANGED <<tmp, shown, misread>>

WriteKey ==
  /\ AtStep("identity") /\ at = "opened"
  /\ WriteOver("key", id, "pub")
  /\ UNCHANGED <<tmp, shown, misread>>

\* fs::write of the public key.
OpenPub ==
  /\ AtStep("identity") /\ at = "pub"
  /\ Written("pub", "empty") /\ Goto("pub_opened", id, tok)
  /\ UNCHANGED <<tmp, shown, misread>>

WritePub ==
  /\ AtStep("identity") /\ at = "pub_opened"
  /\ WriteOver("pub", id, "next")
  /\ UNCHANGED <<tmp, shown, misread>>

-----------------------------------------------------------------------------
(***************************************************************************)
(* load_or_bootstrap_token, and the other steps                            *)
(***************************************************************************)
\* A token file that is read and not empty is taken as it is.
LoadToken ==
  /\ AtStep("token") /\ at = "start"
  /\ file["token"] \notin {"absent", "empty"}
  /\ NextStep(id, file["token"])
  /\ UNCHANGED <<disk, shown, misread>>

\* Otherwise, any error of the read included, the control plane is asked with the
\* session cookie.  Its answer is used even when the file cannot be opened.  There
\* is no token without an answer, a cookie jar or, whatever the file holds, a
\* control URL.
BootstrapToken ==
  /\ AtStep("token") /\ at = "start"
  /\ \/ Written("token", "empty") /\ Goto("opened", id, "given")
     \/ UNCHANGED file /\ \E t \in {"none", "given"} : NextStep(id, t)
  /\ UNCHANGED <<tmp, shown, misread>>

\* Errors of the write are ignored.
WriteToken ==
  /\ AtStep("token") /\ at = "opened"
  /\ \E c \in {"empty", "part", "given"} : Written("token", c)
  /\ NextStep(id, tok)
  /\ UNCHANGED <<tmp, shown, misread>>

\* Options that do not parse, a relay that does not resolve, a systemctl that
\* fails end the command (Die); otherwise it goes on.
Check == /\ AtStep("check")
         /\ NextStep(id, tok)
         /\ UNCHANGED <<disk, shown, misread>>

Show == /\ AtStep("show")
        /\ shown' = shown \cup {id}
        /\ NextStep(id, tok)
        /\ UNCHANGED <<disk, misread>>

FilesNext == \/ \E c \in Commands : Run(c)
        \/ Die
        \/ KeepConf \/ Create \/ WriteAll \/ Rename
        \/ LoadKey \/ CreateKey \/ WriteKey \/ OpenPub \/ WritePub
        \/ LoadToken \/ BootstrapToken \/ WriteToken
        \/ Check \/ Show

FilesSpec == FilesInit /\ [][FilesNext]_filesVars

-----------------------------------------------------------------------------
(***************************************************************************)
(* Properties                                                              *)
(***************************************************************************)
\* "The public key is therefore stable across restarts": an identity that was
\* shown to anyone is on disk and stays the node's only one, and the public key
\* file names it or is not whole; provided an existing key file can be read.
IdentityStable ==
  ~misread =>
    /\ shown \subseteq {file["key"]}
    /\ file["pub"] \in Keys => file["pub"] = file["key"]

\* write_file replaces: node.state and the other files written so are absent or
\* hold one whole value, never a part of one.
FilesWhole ==
  \A f \in Replaced : file[f] \in {"absent"} \cup Values(f)

\* Both hold over every sequence of commands, each killed or out of disk at any
\* step, and continued by a process that knows nothing but what is on disk.
DiskSound == IdentityStable /\ FilesWhole
=============================================================================
