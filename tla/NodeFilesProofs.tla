-------------------------- MODULE NodeFilesProofs ---------------------------
(***************************************************************************)
(* What the commands keep under the node's home is sound, for any number   *)
(* of secrets and addresses and any sequence of commands that die          *)
(* anywhere.  What makes it inductive: in every command the identity is    *)
(* loaded before it is shown, and from then on the one in memory is the    *)
(* one on disk; and a temporary file is renamed only when it is complete.  *)
(***************************************************************************)
EXTENDS NodeFiles, SequenceTheorems, TLAPS

Has(c, what) == \E i \in DOMAIN c : c[i].do = what
Ordered(c) == \A i, j \in DOMAIN c : c[i].do = "show" /\ c[j].do = "identity" => j < i

\* What is about to be renamed is the whole value; between commands nothing is.
TmpWhole ==
  /\ AtStep("file") /\ at = "written" => tmp = Head(todo).value
  /\ todo = <<>> => at = "start"

\* Within load_or_create, and after it, memory and disk agree.
IdentityOnDisk ==
  /\ Ordered(todo)
  /\ AtStep("identity") /\ at = "opened" => id \in Keys /\ file["key"] = "empty"
  /\ AtStep("identity") /\ at \in {"pub", "pub_opened"} => id \in Keys /\ file["key"] = id
  /\ Has(todo, "show") /\ ~Has(todo, "identity") => id \in Keys /\ file["key"] = id

Inv == FilesTypeOK /\ TmpWhole /\ IdentityOnDisk /\ IdentityStable /\ FilesWhole

-----------------------------------------------------------------------------
(***************************************************************************)
(* Commands and their steps                                                *)
(***************************************************************************)
Kinds == {"file", "identity", "check", "token", "show", "serve"}

\* A step of a command that writes a file writes a value of that file.
GoodStep(s) ==
  /\ s.do \in Kinds
  /\ s.do = "file" => s.file \in Replaced /\ s.value \in Values(s.file)
GoodCommand(c) ==
  /\ \A i \in DOMAIN c : GoodStep(c[i])
  /\ Ordered(c) /\ (Has(c, "show") => Has(c, "identity"))

LEMMA FileStepGood ==
  ASSUME NEW f \in Replaced, NEW v \in Values(f)
  PROVE  GoodStep(FileStep(f, v)) /\ FileStep(f, v).do = "file"
BY DEF GoodStep, FileStep, Kinds

LEMMA StepGood ==
  ASSUME NEW what \in Kinds \ {"file"}
  PROVE  GoodStep(Step(what)) /\ Step(what).do = what
BY DEF GoodStep, Step, Kinds

\* The steps of up.
UpSteps == {FileStep("auth", "given"), FileStep("state", "up")}
           \cup {FileStep("overlay", ip) : ip \in Addresses}

\* A sequence of values of T is one over T.
LEMMA Retyped ==
  ASSUME NEW S, NEW T, NEW c \in Seq(S), \A i \in DOMAIN c : c[i] \in T
  PROVE  c \in Seq(T)
BY LenProperties

\* up writes files only.
LEMMA UpGood ==
  ASSUME NEW c \in UpPlans
  PROVE  c \in Seq(UpSteps) /\ GoodCommand(c)
<1>1. \A s \in UpSteps : GoodStep(s) /\ s.do = "file"
  <2>1. "given" \in Values("auth") /\ "up" \in Values("state")
        /\ \A ip \in Addresses : ip \in Values("overlay")
    BY DEF Values
  <2> QED BY <2>1, FileStepGood DEF Replaced, UpSteps
<1>2. PICK a \in {<<>>, <<FileStep("auth", "given")>>},
           o \in {<<>>} \cup {<<FileStep("overlay", ip)>> : ip \in Addresses} :
        c = a \o o \o <<FileStep("state", "up")>>
  BY DEF UpPlans
<1>3. <<>> \in Seq(UpSteps) /\ \A s \in UpSteps : <<s>> \in Seq(UpSteps)
  OBVIOUS
<1>4. /\ FileStep("auth", "given") \in UpSteps /\ FileStep("state", "up") \in UpSteps
      /\ \A ip \in Addresses : FileStep("overlay", ip) \in UpSteps
  BY DEF UpSteps
<1>5. a \in Seq(UpSteps) /\ o \in Seq(UpSteps) /\ <<FileStep("state", "up")>> \in Seq(UpSteps)
  BY <1>3, <1>4
<1>6. c \in Seq(UpSteps)
  BY <1>2, <1>5, ConcatProperties
<1>7. \A i \in DOMAIN c : c[i] \in UpSteps
  BY <1>6, ElementOfSeq, LenProperties
<1>8. GoodCommand(c)
  BY <1>1, <1>7 DEF GoodCommand, Ordered, Has
<1> QED BY <1>6, <1>8

LEMMA CommandGood ==
  ASSUME NEW c \in Commands
  PROVE  c \in Seq(Steps) /\ GoodCommand(c)
<1>1. \A i \in DOMAIN c : c[i] \in Steps
  BY DEF Steps
<1>2. /\ GoodStep(FileStep("conf", "given")) /\ GoodStep(FileStep("state", "installed"))
      /\ GoodStep(FileStep("state", "down")) /\ GoodStep(FileStep("unit", "given"))
      /\ FileStep("conf", "given").do = "file" /\ FileStep("state", "installed").do = "file"
      /\ FileStep("state", "down").do = "file" /\ FileStep("unit", "given").do = "file"
  <2>1. /\ "given" \in Values("conf") /\ "given" \in Values("unit")
        /\ "installed" \in Values("state") /\ "down" \in Values("state")
    BY DEF Values
  <2> QED BY <2>1, FileStepGood DEF Replaced
<1>3. \A what \in Kinds \ {"file"} : GoodStep(Step(what)) /\ Step(what).do = what
  BY StepGood
<1>4. \A what \in {"identity", "check", "token", "show", "serve"} :
        GoodStep(Step(what)) /\ Step(what).do = what
  BY <1>3 DEF Kinds
<1>5. CASE c \in UpPlans
  BY <1>1, <1>5, UpGood, Retyped
<1>6. CASE c = Install
  BY <1>1, <1>2, <1>4, <1>6 DEF Install, GoodCommand, Ordered, Has
<1>7. CASE c = Down \/ c = ServiceInstall
  BY <1>1, <1>2, <1>4, <1>7 DEF Down, ServiceInstall, GoodCommand, Ordered, Has
<1>8. CASE c = TunnelCmd
  BY <1>1, <1>4, <1>8 DEF TunnelCmd, GoodCommand, Ordered, Has
<1>9. CASE c = SelftestCmd \/ c = EchoPeerCmd
  BY <1>1, <1>4, <1>9 DEF SelftestCmd, EchoPeerCmd, GoodCommand, Ordered, Has
<1> QED BY <1>5, <1>6, <1>7, <1>8, <1>9 DEF Commands

LEMMA StepsGood ==
  ASSUME NEW s \in Steps PROVE GoodStep(s)
BY CommandGood DEF Steps, GoodCommand

\* What is left of a sequence of steps after the first.
LEMMA Rest ==
  ASSUME NEW c \in Seq(Steps), c # <<>>
  PROVE  /\ Head(c) \in Steps /\ Head(c) = c[1] /\ 1 \in DOMAIN c
         /\ Tail(c) \in Seq(Steps)
         /\ \A i \in DOMAIN Tail(c) : i + 1 \in DOMAIN c /\ Tail(c)[i] = c[i + 1]
         /\ \A i \in DOMAIN c : i # 1 => i - 1 \in DOMAIN Tail(c) /\ c[i] = Tail(c)[i - 1]
<1>1. /\ Head(c) \in Steps /\ Tail(c) \in Seq(Steps)
      /\ Head(c) = c[1] /\ Len(c) \in Nat /\ Len(c) > 0 /\ DOMAIN c = 1 .. Len(c)
      /\ Len(Tail(c)) = Len(c) - 1 /\ DOMAIN Tail(c) = 1 .. Len(Tail(c))
  BY HeadTailProperties, LenProperties, EmptySeq
<1>2. \A i \in 1 .. Len(Tail(c)) : Tail(c)[i] = c[i + 1]
  BY <1>1, HeadTailProperties
<1>3. \A i \in DOMAIN c : i # 1 => i - 1 \in DOMAIN Tail(c) /\ c[i] = Tail(c)[i - 1]
  BY <1>1, <1>2
<1> QED BY <1>1, <1>2, <1>3

\* The command goes on to its next step, or ends.
LEMMA NextStepIs ==
  ASSUME todo \in Seq(Steps), todo # <<>>, NEW i, NEW t, NextStep(i, t),
         Ordered(todo)
  PROVE  /\ todo' \in Seq(Steps) /\ at' = "start" /\ Ordered(todo')
         /\ id' \in {i, "none"} /\ tok' \in {t, "none"}
         /\ Has(todo', "show") => Has(todo, "show") /\ id' = i
         /\ Has(todo, "identity") => Head(todo).do = "identity" \/ Has(todo', "identity")
                                                           \/ ~Has(todo', "show")
<1>1. CASE Len(todo) = 1 /\ Ends
  <2>1. todo' = <<>> /\ at' = "start" /\ id' = "none" /\ tok' = "none"
    BY <1>1 DEF Ends
  <2>2. <<>> \in Seq(Steps) /\ DOMAIN <<>> = {}
    BY EmptySeq
  <2> QED BY <2>1, <2>2 DEF Ordered, Has
<1>2. CASE Len(todo) > 1 /\ todo' = Tail(todo) /\ at' = "start" /\ id' = i /\ tok' = t
  <2>1. /\ Head(todo) = todo[1] /\ Tail(todo) \in Seq(Steps)
        /\ \A j \in DOMAIN Tail(todo) : j + 1 \in DOMAIN todo /\ Tail(todo)[j] = todo[j + 1]
        /\ \A j \in DOMAIN todo : j # 1 => j - 1 \in DOMAIN Tail(todo) /\ todo[j] = Tail(todo)[j - 1]
        /\ \A j \in DOMAIN Tail(todo) : j \in Nat
    BY Rest, LenProperties
  <2>2. Ordered(todo')
    <3> SUFFICES ASSUME NEW j \in DOMAIN Tail(todo), NEW k \in DOMAIN Tail(todo),
                        Tail(todo)[j].do = "show", Tail(todo)[k].do = "identity"
                 PROVE  k < j
      BY <1>2 DEF Ordered
    <3>1. k + 1 < j + 1
      BY <2>1 DEF Ordered
    <3> QED BY <2>1, <3>1
  <2>3. /\ Has(todo', "show") => Has(todo, "show")
        /\ Has(todo, "identity") => Head(todo).do = "identity" \/ Has(todo', "identity")
    BY <1>2, <2>1 DEF Has
  <2> QED BY <1>2, <2>1, <2>2, <2>3
<1> QED BY <1>1, <1>2 DEF NextStep

-----------------------------------------------------------------------------
(***************************************************************************)
(* Files                                                                   *)
(***************************************************************************)
Contents(f) == {"absent"} \cup Torn \cup Values(f)
Anything == {"absent"} \cup Torn \cup {"given", "installed", "up", "down"} \cup Addresses \cup Keys

FileOK == /\ file \in [Replaced \cup InPlace -> Anything]
          /\ \A f \in Replaced \cup InPlace : file[f] \in Contents(f)
RestOK == /\ tmp \in {"absent"} \cup Torn \cup UNION {Values(f) : f \in Replaced}
          /\ shown \subseteq Keys /\ misread \in BOOLEAN
CommandOK == /\ todo \in Seq(Steps)
             /\ at \in {"start", "opened", "written", "pub", "pub_opened"}
             /\ id \in Keys \cup {"none"} /\ tok \in {"none", "part", "given"}

LEMMA TypeParts == FilesTypeOK <=> FileOK /\ RestOK /\ CommandOK
BY DEF FilesTypeOK, FileOK, RestOK, CommandOK, Contents, Anything

\* What may be written into a file, and that the other files stay.
LEMMA WrittenIs ==
  ASSUME FileOK, NEW f \in Replaced \cup InPlace, NEW c \in Contents(f), Written(f, c)
  PROVE  FileOK' /\ file'[f] = c /\ \A g \in (Replaced \cup InPlace) \ {f} : file'[g] = file[g]
<1>1. c \in Anything
  BY DEF Contents, Values, Anything
<1> QED BY <1>1 DEF FileOK, Written

\* The contents that matter by name.
LEMMA Named ==
  /\ Contents("key") = {"absent", "empty", "part"} \cup Keys
  /\ Contents("pub") = {"absent", "empty", "part"} \cup Keys
  /\ Contents("token") = {"absent", "empty", "part", "given"}
  /\ "absent" \notin Keys /\ "empty" \notin Keys /\ "part" \notin Keys /\ "none" \notin Keys
  /\ {"key", "pub", "token"} = InPlace /\ Replaced \cap InPlace = {}
BY KeysAssumption DEF Contents, Values, Torn, InPlace, Replaced

-----------------------------------------------------------------------------
(***************************************************************************)
(* The invariant                                                           *)
(***************************************************************************)
\* It holds at the start.
LEMMA InitInv == FilesInit => Inv
<1> SUFFICES ASSUME FilesInit PROVE Inv
  OBVIOUS
<1>1. <<>> \in Seq(Steps) /\ DOMAIN <<>> = {}
  BY EmptySeq
<1>2. FileOK /\ RestOK /\ CommandOK
  BY <1>1 DEF FilesInit, FileOK, RestOK, CommandOK, Contents, Anything
<1>3. TmpWhole /\ IdentityOnDisk
  BY <1>1 DEF FilesInit, TmpWhole, IdentityOnDisk, AtStep, Ordered, Has
<1>4. IdentityStable /\ FilesWhole
  BY Named DEF FilesInit, IdentityStable, FilesWhole, InPlace
<1> QED BY <1>2, <1>3, <1>4, TypeParts DEF Inv

\* A step that goes on to the next one, or ends the command, keeps it if what is
\* shown later on is what the key file holds.
LEMMA MovesOn ==
  ASSUME Inv, todo # <<>>, NEW i \in Keys \cup {"none"}, NEW t \in {"none", "part", "given"},
         NextStep(i, t), FileOK', RestOK', IdentityStable', FilesWhole',
         Has(todo, "show") /\ (Head(todo).do = "identity" \/ ~Has(todo, "identity"))
           => i \in Keys /\ file'["key"] = i
  PROVE  Inv'
<1> USE DEF Inv
<1>1. /\ todo' \in Seq(Steps) /\ at' = "start" /\ Ordered(todo')
      /\ id' \in {i, "none"} /\ tok' \in {t, "none"}
      /\ Has(todo', "show") => Has(todo, "show") /\ id' = i
      /\ Has(todo, "identity") => Head(todo).do = "identity" \/ Has(todo', "identity")
                                                        \/ ~Has(todo', "show")
  BY NextStepIs, TypeParts DEF CommandOK, IdentityOnDisk
<1>2. CommandOK'
  BY <1>1 DEF CommandOK
<1>3. FilesTypeOK'
  BY <1>2, TypeParts, PTL
<1>4. TmpWhole'
  BY <1>1 DEF TmpWhole
<1>5. IdentityOnDisk'
  BY <1>1 DEF IdentityOnDisk
<1> QED BY <1>3, <1>4, <1>5

\* So does the end of the process.
LEMMA EndsInv ==
  ASSUME Inv, Ends, FileOK', RestOK', IdentityStable', FilesWhole'
  PROVE  Inv'
<1>1. /\ todo' = <<>> /\ at' = "start" /\ id' = "none" /\ tok' = "none"
      /\ <<>> \in Seq(Steps) /\ DOMAIN <<>> = {}
  BY EmptySeq DEF Ends
<1>2. CommandOK'
  BY <1>1 DEF CommandOK
<1>3. FilesTypeOK'
  BY <1>2, TypeParts, PTL
<1>4. TmpWhole' /\ IdentityOnDisk'
  BY <1>1 DEF TmpWhole, IdentityOnDisk, AtStep, Ordered, Has
<1> QED BY <1>3, <1>4 DEF Inv

\* So does a step within load_or_create that keeps memory and disk in agreement.
LEMMA WithinIdentity ==
  ASSUME Inv, AtStep("identity"), NEW pc \in {"opened", "pub", "pub_opened"},
         NEW i \in Keys, Goto(pc, i, tok),
         FileOK', RestOK', IdentityStable', FilesWhole',
         file'["key"] = IF pc = "opened" THEN "empty" ELSE i
  PROVE  Inv'
<1> USE DEF Inv
<1>1. todo' = todo /\ at' = pc /\ id' = i /\ tok' = tok
  BY DEF Goto
<1>2. CommandOK'
  BY <1>1, TypeParts DEF CommandOK
<1>3. FilesTypeOK'
  BY <1>2, TypeParts, PTL
<1>4. TmpWhole'
  BY <1>1 DEF TmpWhole, AtStep
<1>5. Has(todo, "identity")
  BY Rest, TypeParts DEF AtStep, Has, CommandOK
<1>6. IdentityOnDisk'
  BY <1>1, <1>5 DEF IdentityOnDisk, AtStep
<1> QED BY <1>3, <1>4, <1>6

\* A step that leaves the files and the history alone.
LEMMA FilesStay ==
  ASSUME Inv, UNCHANGED <<file, tmp, shown, misread>>
  PROVE  FileOK' /\ RestOK' /\ IdentityStable' /\ FilesWhole'
BY TypeParts DEF Inv, FileOK, RestOK, IdentityStable, FilesWhole

\* A command starts.
LEMMA RunInv ==
  ASSUME Inv, NEW c \in Commands, Run(c) PROVE Inv'
<1> USE DEF Inv
<1>1. /\ todo' = c /\ c \in Seq(Steps) /\ GoodCommand(c)
      /\ UNCHANGED <<file, tmp, at, id, tok, shown, misread>> /\ todo = <<>>
  BY CommandGood DEF Run, disk
<1>2. FileOK' /\ RestOK' /\ IdentityStable' /\ FilesWhole'
  BY <1>1, FilesStay
<1>3. CommandOK'
  BY <1>1, TypeParts DEF CommandOK
<1>4. FilesTypeOK'
  BY <1>2, <1>3, TypeParts, PTL
<1>5. at' = "start"
  BY <1>1 DEF TmpWhole
<1>6. TmpWhole' /\ IdentityOnDisk'
  BY <1>1, <1>5 DEF TmpWhole, IdentityOnDisk, GoodCommand
<1> QED BY <1>2, <1>4, <1>6

\* The process dies; its temporary file is nobody's.
LEMMA DieInv ==
  ASSUME Inv, Die PROVE Inv'
<1>1. Ends /\ tmp' = "absent" /\ UNCHANGED <<file, shown, misread>>
  BY DEF Die
<1>2. FileOK' /\ RestOK' /\ IdentityStable' /\ FilesWhole'
  BY <1>1, TypeParts DEF Inv, FileOK, RestOK, IdentityStable, FilesWhole
<1> QED BY <1>1, <1>2, EndsInv

\* A step of another kind than "identity" that goes on with what is in memory.
LEMMA PassesOn ==
  ASSUME Inv, todo # <<>>, Head(todo).do # "identity",
         NEW t \in {"none", "part", "given"}, NextStep(id, t),
         FileOK', RestOK', IdentityStable', FilesWhole', file'["key"] = file["key"]
  PROVE  Inv'
<1>1. Has(todo, "show") /\ ~Has(todo, "identity") => id \in Keys /\ file'["key"] = id
  BY DEF Inv, IdentityOnDisk
<1>2. id \in Keys \cup {"none"}
  BY TypeParts DEF Inv, CommandOK
<1> QED BY <1>1, <1>2, MovesOn

\* A step of another kind than "identity" that stays where it is in the list.
LEMMA StaysAt ==
  ASSUME Inv, todo # <<>>, Head(todo).do # "identity",
         NEW pc \in {"start", "opened", "written"}, NEW t \in {"none", "part", "given"},
         Goto(pc, id, t),
         FileOK', RestOK', IdentityStable', FilesWhole', file'["key"] = file["key"],
         pc = "written" /\ Head(todo).do = "file" => tmp' = Head(todo).value
  PROVE  Inv'
<1> USE DEF Inv
<1>1. todo' = todo /\ at' = pc /\ id' = id /\ tok' = t
  BY DEF Goto
<1>2. CommandOK'
  BY <1>1, TypeParts DEF CommandOK
<1>3. FilesTypeOK'
  BY <1>2, TypeParts, PTL
<1>4. TmpWhole'
  BY <1>1 DEF TmpWhole, AtStep
<1>5. IdentityOnDisk'
  BY <1>1 DEF IdentityOnDisk, AtStep
<1> QED BY <1>3, <1>4, <1>5

\* write_file: the temporary file is written, and renamed when it is whole.
LEMMA WriteFileInv ==
  ASSUME Inv, KeepConf \/ Create \/ WriteAll \/ Rename
  PROVE  Inv'
<1> USE DEF Inv
<1>1. /\ todo # <<>> /\ Head(todo).do = "file" /\ tok \in {"none", "part", "given"}
      /\ Head(todo).file \in Replaced /\ Head(todo).value \in Values(Head(todo).file)
  <2>1. todo # <<>> /\ Head(todo).do = "file"
    BY DEF KeepConf, Create, WriteAll, Rename, AtStep
  <2>2. Head(todo) \in Steps /\ tok \in {"none", "part", "given"}
    BY <2>1, Rest, TypeParts DEF CommandOK
  <2> QED BY <2>1, <2>2, StepsGood DEF GoodStep
<1>2. CASE KeepConf
  <2>1. UNCHANGED <<file, tmp, shown, misread>> /\ NextStep(id, tok)
    BY <1>2 DEF KeepConf, disk
  <2> QED BY <1>1, <2>1, FilesStay, PassesOn
<1>3. CASE Create \/ WriteAll
  <2>1. /\ UNCHANGED <<file, shown, misread>>
        /\ \/ tmp' \in Torn /\ Goto("opened", id, tok)
           \/ tmp' = Head(todo).value /\ Goto("written", id, tok)
    BY <1>3 DEF Create, WriteAll, Torn
  <2>2. FileOK' /\ IdentityStable' /\ FilesWhole' /\ file'["key"] = file["key"]
    BY <2>1, TypeParts DEF FileOK, IdentityStable, FilesWhole
  <2>3. RestOK'
    BY <1>1, <2>1, TypeParts DEF RestOK
  <2>4. CASE tmp' \in Torn /\ Goto("opened", id, tok)
    BY <1>1, <2>2, <2>3, <2>4, StaysAt
  <2>5. CASE tmp' = Head(todo).value /\ Goto("written", id, tok)
    BY <1>1, <2>2, <2>3, <2>5, StaysAt
  <2> QED BY <2>1, <2>4, <2>5
<1>4. CASE Rename
  <2> DEFINE f == Head(todo).file
  <2>1. /\ Written(f, tmp) /\ tmp' = "absent" /\ NextStep(id, tok) /\ UNCHANGED <<shown, misread>>
        /\ tmp = Head(todo).value
    BY <1>4 DEF Rename, TmpWhole
  <2>2. f \in Replaced /\ tmp \in Values(f) /\ tmp \in Contents(f)
    BY <1>1, <2>1 DEF Contents
  <2> HIDE DEF f
  <2>3. /\ FileOK' /\ file'[f] = tmp
        /\ \A g \in (Replaced \cup InPlace) \ {f} : file'[g] = file[g]
    BY <2>1, <2>2, WrittenIs, TypeParts
  <2>4. file'["key"] = file["key"] /\ file'["pub"] = file["pub"]
    BY <2>2, <2>3, Named
  <2>5. FilesWhole'
    BY <2>2, <2>3 DEF FilesWhole
  <2>6. RestOK' /\ IdentityStable'
    BY <2>1, <2>4, TypeParts DEF RestOK, IdentityStable
  <2> QED BY <1>1, <2>1, <2>3, <2>4, <2>5, <2>6, PassesOn
<1> QED BY <1>2, <1>3, <1>4

\* load_or_create uses a whole key and refuses another.
LEMMA LoadKeyInv ==
  ASSUME Inv, LoadKey PROVE Inv'
<1> USE DEF Inv
<1>1. FileOK' /\ RestOK' /\ IdentityStable' /\ FilesWhole'
  BY FilesStay DEF LoadKey, disk
<1>2. CASE Ends
  BY <1>1, <1>2, EndsInv
<1>3. CASE file["key"] \in Keys /\ NextStep(file["key"], tok)
  <2>1. todo # <<>> /\ file' = file /\ tok \in {"none", "part", "given"}
    BY TypeParts DEF LoadKey, disk, AtStep, CommandOK
  <2> QED BY <1>1, <1>3, <2>1, MovesOn
<1> QED BY <1>2, <1>3 DEF LoadKey

\* A key is drawn: nothing was shown before, unless a key was misread.
LEMMA CreateKeyInv ==
  ASSUME Inv, CreateKey PROVE Inv'
<1> USE DEF Inv
<1>1. PICK k \in FreshKeys : Goto("opened", k, tok)
  BY DEF CreateKey
<1>2. /\ AtStep("identity") /\ Written("key", "empty") /\ UNCHANGED <<tmp, shown>>
      /\ misread' = (misread \/ file["key"] # "absent")
  BY DEF CreateKey
<1>3. k \in Keys
  BY DEF FreshKeys
<1>4. /\ FileOK' /\ file'["key"] = "empty"
      /\ \A g \in (Replaced \cup InPlace) \ {"key"} : file'[g] = file[g]
  BY <1>2, WrittenIs, TypeParts, Named
<1>5. FilesWhole'
  BY <1>4, Named DEF FilesWhole
<1>6. IdentityStable'
  <2> SUFFICES ASSUME ~misread'
               PROVE  shown' \subseteq {file'["key"]} /\ (file'["pub"] \in Keys => file'["pub"] = file'["key"])
    BY DEF IdentityStable
  <2>1. ~misread /\ file["key"] = "absent" /\ misread \in BOOLEAN /\ shown \subseteq Keys
    BY <1>2, TypeParts DEF RestOK
  <2>2. shown = {} /\ file["pub"] \notin Keys
    BY <2>1, Named DEF IdentityStable
  <2> QED BY <1>2, <1>4, <2>2, Named
<1>7. RestOK'
  BY <1>2, TypeParts DEF RestOK
<1> QED BY <1>1, <1>2, <1>3, <1>4, <1>5, <1>6, <1>7, WithinIdentity

\* The key is written, whole or not: still nothing was shown.
LEMMA WriteKeyInv ==
  ASSUME Inv, WriteKey PROVE Inv'
<1> USE DEF Inv
<1>1. /\ AtStep("identity") /\ at = "opened" /\ UNCHANGED <<tmp, shown, misread>>
      /\ id \in Keys /\ file["key"] = "empty"
  BY DEF WriteKey, IdentityOnDisk
<1>2. PICK c \in {id, "part"} :
        /\ Written("key", c)
        /\ (c = id /\ Goto("pub", id, tok)) \/ Ends
  BY DEF WriteKey, WriteOver
<1>3. /\ FileOK' /\ file'["key"] = c
      /\ \A g \in (Replaced \cup InPlace) \ {"key"} : file'[g] = file[g]
  BY <1>1, <1>2, WrittenIs, TypeParts, Named
<1>4. FilesWhole' /\ RestOK'
  BY <1>1, <1>3, Named, TypeParts DEF FilesWhole, RestOK
<1>5. IdentityStable'
  <2>1. shown \subseteq Keys
    BY TypeParts DEF RestOK
  <2>2. ~misread => shown = {} /\ file["pub"] \notin Keys
    BY <1>1, <2>1, Named DEF IdentityStable
  <2> QED BY <1>1, <1>3, <2>2, Named DEF IdentityStable
<1>6. CASE Ends
  BY <1>3, <1>4, <1>5, <1>6, EndsInv
<1>7. CASE c = id /\ Goto("pub", id, tok)
  BY <1>1, <1>3, <1>4, <1>5, <1>7, WithinIdentity
<1> QED BY <1>2, <1>6, <1>7

\* The public key file follows the key.
LEMMA PubInv ==
  ASSUME Inv, OpenPub \/ WritePub PROVE Inv'
<1> USE DEF Inv
<1>1. /\ AtStep("identity") /\ todo # <<>> /\ UNCHANGED <<tmp, shown, misread>>
      /\ id \in Keys /\ file["key"] = id /\ tok \in {"none", "part", "given"}
  BY TypeParts DEF OpenPub, WritePub, IdentityOnDisk, AtStep, CommandOK
<1>2. PICK c \in {id, "empty", "part"} :
        /\ Written("pub", c)
        /\ Ends \/ Goto("pub_opened", id, tok) \/ NextStep(id, tok)
  BY DEF OpenPub, WritePub, WriteOver
<1>3. /\ FileOK' /\ file'["pub"] = c
      /\ \A g \in (Replaced \cup InPlace) \ {"pub"} : file'[g] = file[g]
  BY <1>1, <1>2, WrittenIs, TypeParts, Named
<1>4. FilesWhole' /\ RestOK' /\ file'["key"] = id
  BY <1>1, <1>3, Named, TypeParts DEF FilesWhole, RestOK
<1>5. IdentityStable'
  BY <1>1, <1>3, <1>4, Named DEF IdentityStable
<1>6. CASE Ends
  BY <1>3, <1>4, <1>5, <1>6, EndsInv
<1>7. CASE Goto("pub_opened", id, tok)
  BY <1>1, <1>3, <1>4, <1>5, <1>7, WithinIdentity
<1>8. CASE NextStep(id, tok)
  BY <1>1, <1>3, <1>4, <1>5, <1>8, MovesOn
<1> QED BY <1>2, <1>6, <1>7, <1>8

\* The token file has nothing to do with the identity.
LEMMA TokenInv ==
  ASSUME Inv, LoadToken \/ BootstrapToken \/ WriteToken PROVE Inv'
<1> USE DEF Inv
<1>1. /\ todo # <<>> /\ Head(todo).do = "token" /\ UNCHANGED <<tmp, shown, misread>>
      /\ file["token"] \in Contents("token") /\ tok \in {"none", "part", "given"}
  BY TypeParts, Named DEF LoadToken, BootstrapToken, WriteToken, disk, AtStep, CommandOK, FileOK
<1>2. \E t \in {"none", "part", "given"} : NextStep(id, t) \/ Goto("opened", id, t)
  BY <1>1, Named DEF LoadToken, BootstrapToken, WriteToken
<1>3. file' = file \/ \E c \in {"empty", "part", "given"} : Written("token", c)
  BY DEF LoadToken, BootstrapToken, WriteToken, disk
<1>4. /\ FileOK' /\ \A g \in (Replaced \cup InPlace) \ {"token"} : file'[g] = file[g]
  <2>1. CASE file' = file
    BY <2>1, TypeParts DEF FileOK
  <2>2. ASSUME NEW c \in {"empty", "part", "given"}, Written("token", c)
        PROVE  FileOK' /\ \A g \in (Replaced \cup InPlace) \ {"token"} : file'[g] = file[g]
    BY <2>2, WrittenIs, TypeParts, Named
  <2> QED BY <1>3, <2>1, <2>2
<1>5. file'["key"] = file["key"] /\ file'["pub"] = file["pub"]
  BY <1>4, Named
<1>6. FilesWhole' /\ RestOK' /\ IdentityStable'
  BY <1>1, <1>4, <1>5, Named, TypeParts DEF FilesWhole, RestOK, IdentityStable
<1>7. ASSUME NEW t \in {"none", "part", "given"}, NextStep(id, t) PROVE Inv'
  BY <1>1, <1>4, <1>5, <1>6, <1>7, PassesOn
<1>8. ASSUME NEW t \in {"none", "part", "given"}, Goto("opened", id, t) PROVE Inv'
  BY <1>1, <1>4, <1>5, <1>6, <1>8, StaysAt
<1> QED BY <1>2, <1>7, <1>8

\* What is shown is the identity in memory, which is the one on disk.
LEMMA ShowInv ==
  ASSUME Inv, Check \/ Show PROVE Inv'
<1> USE DEF Inv
<1>1. /\ todo # <<>> /\ Head(todo).do # "identity" /\ UNCHANGED <<file, tmp, misread>>
      /\ NextStep(id, tok) /\ tok \in {"none", "part", "given"}
  BY TypeParts DEF Check, Show, disk, AtStep, CommandOK
<1>2. FileOK' /\ FilesWhole' /\ file'["key"] = file["key"]
  BY <1>1, TypeParts DEF FileOK, FilesWhole
<1>3. CASE Check
  BY <1>1, <1>3, FilesStay, PassesOn DEF Check, disk
<1>4. CASE Show
  <2>1. Has(todo, "show") /\ ~Has(todo, "identity")
    <3>1. /\ todo \in Seq(Steps) /\ 1 \in DOMAIN todo /\ todo[1].do = "show"
          /\ \A i \in DOMAIN todo : i \in Nat /\ i >= 1
      BY <1>1, <1>4, Rest, LenProperties, TypeParts DEF Show, AtStep, CommandOK
    <3>2. \A j \in DOMAIN todo : todo[j].do = "identity" => j < 1
      BY <3>1 DEF IdentityOnDisk, Ordered
    <3> QED BY <3>1, <3>2 DEF Has
  <2>2. id \in Keys /\ file["key"] = id
    BY <2>1 DEF IdentityOnDisk
  <2>3. shown' = shown \cup {id}
    BY <1>4 DEF Show
  <2>4. RestOK' /\ IdentityStable'
    BY <1>1, <2>2, <2>3, TypeParts DEF RestOK, IdentityStable
  <2> QED BY <1>1, <1>2, <2>4, PassesOn
<1> QED BY <1>3, <1>4

\* Every step preserves it.
LEMMA NextInv == Inv /\ [FilesNext]_filesVars => Inv'
<1> SUFFICES ASSUME Inv, [FilesNext]_filesVars PROVE Inv'
  OBVIOUS
<1>1. CASE \E c \in Commands : Run(c)
  BY <1>1, RunInv
<1>2. CASE Die
  BY <1>2, DieInv
<1>3. CASE KeepConf \/ Create \/ WriteAll \/ Rename
  BY <1>3, WriteFileInv
<1>4. CASE LoadKey \/ CreateKey \/ WriteKey
  BY <1>4, LoadKeyInv, CreateKeyInv, WriteKeyInv
<1>5. CASE OpenPub \/ WritePub
  BY <1>5, PubInv
<1>6. CASE LoadToken \/ BootstrapToken \/ WriteToken
  BY <1>6, TokenInv
<1>7. CASE Check \/ Show
  BY <1>7, ShowInv
<1>8. CASE UNCHANGED filesVars
  BY <1>8 DEF filesVars, disk, Inv, FilesTypeOK, TmpWhole, IdentityOnDisk, AtStep, IdentityStable, FilesWhole
<1> QED BY <1>1, <1>2, <1>3, <1>4, <1>5, <1>6, <1>7, <1>8 DEF FilesNext

\* So it holds throughout.
LEMMA InvHolds == FilesSpec => []Inv
BY InitInv, NextInv, PTL DEF FilesSpec

-----------------------------------------------------------------------------
(***************************************************************************)
(* Theorems                                                                *)
(***************************************************************************)
\* Every file holds what it may hold, and every command a step it may be at.
THEOREM TypeCorrect == FilesSpec => []FilesTypeOK
<1>1. Inv => FilesTypeOK
  BY DEF Inv
<1> QED BY <1>1, InvHolds, PTL

\* The identity a node has shown is the one it keeps (Identity::load_or_create),
\* and a file of write_file is whole, wherever commands die.
THEOREM DiskStaysSound == FilesSpec => []DiskSound
<1>1. Inv => DiskSound
  BY DEF Inv, DiskSound
<1> QED BY <1>1, InvHolds, PTL
=============================================================================
