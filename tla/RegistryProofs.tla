--------------------------- MODULE RegistryProofs ---------------------------
(***************************************************************************)
(* The safety of Registry, for every set of keys, owners and names, every  *)
(* pool, every initial file that satisfies RegistryAssumption, and every   *)
(* bound.  What makes it inductive: the lists in memory and on disk are    *)
(* both sound (no key active twice, no address twice, no token twice), no  *)
(* token on either is newer than the last one drawn, and a running process *)
(* has given every record a token.                                         *)
(***************************************************************************)
EXTENDS Registry, SequenceTheorems, TLAPS

DistinctTokens(recs) ==
  \A i, j \in DOMAIN recs :
    recs[i].token = recs[j].token /\ recs[i].token # 0 => i = j

TokensDrawn(recs) == \A i \in DOMAIN recs : recs[i].token <= drawn

Sound(recs) == UniqueKeys(recs) /\ DisjointAddresses(recs) /\ DistinctTokens(recs)

NotConfirmed(recs) ==
  \A id \in DOMAIN recs : recs[id].active => recs[id].token \notin confirmed

\* The records the second loop of AppState::new has passed have a token.
Assigned ==
  \A i \in DOMAIN endpoints :
    Running \/ (boot.stage = "tokens" /\ i < boot.next) => endpoints[i].token # 0

Inv == /\ TypeOK
       /\ Sound(endpoints) /\ Sound(disk)
       /\ TokensDrawn(endpoints) /\ TokensDrawn(disk)
       /\ Assigned
       /\ LiveHeartbeats
       /\ confirmed \subseteq 1 .. drawn
       /\ NotConfirmed(endpoints) /\ NotConfirmed(disk)

-----------------------------------------------------------------------------
(***************************************************************************)
(* Lists of records                                                        *)
(***************************************************************************)
\* What load returns is a prefix of what was saved, however much of it was read.
LEMMA LoadIsPrefix ==
  ASSUME NEW recs \in Seq(Records), NEW found \in Load(recs) \cup Cut(recs)
  PROVE  /\ found \in Seq(Records)
         /\ DOMAIN found \subseteq DOMAIN recs
         /\ \A i \in DOMAIN found : found[i] = recs[i]
<1>1. PICK n \in 0 .. Len(recs) : found = SubSeq(recs, 1, n)
  BY DEF Load, Cut
<1>2. Len(recs) \in Nat /\ DOMAIN recs = 1 .. Len(recs)
  BY LenProperties
<1>3. \A i \in 1 .. n : recs[i] \in Records
  BY <1>2, ElementOfSeq
<1>4. /\ found \in Seq(Records)
      /\ Len(found) = IF 1 <= n THEN n - 1 + 1 ELSE 0
      /\ \A i \in 1 .. n - 1 + 1 : found[i] = recs[1 + i - 1]
  BY <1>1, <1>3, SubSeqProperties
<1>5. DOMAIN found = 1 .. Len(found) /\ Len(found) = n
  BY <1>1, <1>4, LenProperties
<1> QED BY <1>2, <1>4, <1>5

\* The lists that a record is appended to and updated in stay lists of records.
LEMMA Appended ==
  ASSUME NEW recs \in Seq(Records), NEW rec \in Records
  PROVE  LET pushed == Append(recs, rec) IN
         /\ pushed \in Seq(Records)
         /\ DOMAIN recs = 1 .. Len(recs) /\ Len(recs) \in Nat
         /\ DOMAIN pushed = 1 .. Len(recs) + 1
         /\ Len(pushed) = Len(recs) + 1
         /\ \A i \in DOMAIN recs : pushed[i] = recs[i]
         /\ pushed[Len(recs) + 1] = rec
BY AppendProperties, LenProperties

\* What an element of a list of records is.
LEMMA Element ==
  ASSUME NEW recs \in Seq(Records), NEW i \in DOMAIN recs
  PROVE  recs[i] \in Records /\ recs[i].token \in Nat /\ recs[i].ips \in Seq(Indices) /\ i \in Nat
<1>1. recs[i] \in Records /\ i \in Nat
  BY ElementOfSeq, LenProperties
<1> QED BY <1>1 DEF Records

\* A record given an address or a token, or revoked, is a record.
LEMMA RecordUpdated ==
  ASSUME NEW r \in Records
  PROVE  /\ \A index \in Indices : [r EXCEPT !.ips = <<index>>] \in Records
         /\ \A token \in Nat : [r EXCEPT !.token = token] \in Records
         /\ [r EXCEPT !.active = FALSE] \in Records
<1>1. \A index \in Indices : <<index>> \in Seq(Indices)
  OBVIOUS
<1> QED BY <1>1 DEF Records

\* A list with one record replaced, spelled out.
LEMMA Updated ==
  ASSUME NEW recs \in Seq(Records), NEW id \in DOMAIN recs, NEW rec \in Records
  PROVE  LET new == [recs EXCEPT ![id] = rec] IN
         /\ new \in Seq(Records)
         /\ DOMAIN new = DOMAIN recs
         /\ \A i \in DOMAIN recs : new[i] = IF i = id THEN rec ELSE recs[i]
BY ExceptSeq, LenProperties

-----------------------------------------------------------------------------
(***************************************************************************)
(* Soundness of a list                                                     *)
(***************************************************************************)
\* An index that the allocator returns is of the pool and of no record.
LEMMA ChosenIsFree ==
  ASSUME NEW recs, NEW supplied,
         NEW index \in ChooseForEnrollment(supplied, UsedIndices(recs))
                         \cup Allocate(UsedIndices(recs)),
         index # None
  PROVE  /\ index \in Indices
         /\ \A i \in DOMAIN recs : index \notin OverlayIndices(recs[i])
BY IpamAssumption
DEF ChooseForEnrollment, Allocate, LowestFree, UsedIndices, Pool, FIRST_NODE_INDEX, Indices

\* What load returns of a sound list is sound.
LEMMA PrefixSound ==
  ASSUME NEW recs \in Seq(Records), NEW found \in Load(recs) \cup Cut(recs), Sound(recs)
  PROVE  Sound(found)
BY LoadIsPrefix DEF Sound, UniqueKeys, DisjointAddresses, DistinctTokens

\* Records is what its fields say, and the overlay entries of a new record are its index.
LEMMA NewIsRecord ==
  ASSUME NEW tenant \in Tenants, NEW key \in Keys, NEW name \in Names,
         NEW index \in Indices \cup {None}, drawn \in Nat
  PROVE  LET rec == NewRecord(tenant, key, name, index) IN
         /\ rec \in Records
         /\ rec.key = key /\ rec.tenant = tenant /\ rec.token = drawn + 1 /\ rec.active
         /\ OverlayIndices(rec) = {index} \ {None}
<1>1. Cidrs(index) \in Seq(Indices)
  <2>1. CASE index = None
    BY <2>1 DEF Cidrs
  <2>2. CASE index # None
    <3>1. index \in Indices /\ Cidrs(index) = <<index>>
      BY <2>2 DEF Cidrs
    <3> QED BY <3>1
  <2> QED BY <2>1, <2>2
<1>2. {Cidrs(index)[k] : k \in DOMAIN Cidrs(index)} = {index} \ {None}
  BY IpamAssumption DEF Cidrs, Indices
<1> QED BY <1>1, <1>2, RegistryAssumption DEF NewRecord, Records, OverlayIndices

\* A record with an unused key, address and token keeps a list sound.
LEMMA PushSound ==
  ASSUME NEW recs \in Seq(Records), Sound(recs), NEW rec \in Records,
         \A i \in DOMAIN recs : recs[i].token < rec.token,
         \A i \in DOMAIN recs :
           ~ (recs[i].active /\ recs[i].tenant = rec.tenant /\ recs[i].key = rec.key),
         \A i \in DOMAIN recs : OverlayIndices(recs[i]) \cap OverlayIndices(rec) = {}
  PROVE  Sound(Append(recs, rec))
<1> DEFINE pushed == Append(recs, rec)
           n == Len(recs) + 1
<1>1. /\ DOMAIN pushed = DOMAIN recs \cup {n} /\ n \notin DOMAIN recs
      /\ \A i \in DOMAIN recs : pushed[i] = recs[i]
      /\ pushed[n] = rec
  BY Appended
<1>2. \A i \in DOMAIN recs : recs[i].token \in Nat
  BY Element
<1>3. rec.token \in Nat
  BY DEF Records
<1> HIDE DEF pushed, n
<1>4. UniqueKeys(pushed)
  BY <1>1 DEF Sound, UniqueKeys
<1>5. DisjointAddresses(pushed)
  BY <1>1 DEF Sound, DisjointAddresses
<1>6. DistinctTokens(pushed)
  BY <1>1, <1>2, <1>3 DEF Sound, DistinctTokens
<1> QED BY <1>4, <1>5, <1>6 DEF Sound, pushed

\* The three fields a record changes in its life, one at a time.
LEMMA AddressSound ==
  ASSUME NEW recs \in Seq(Records), Sound(recs), NEW id \in DOMAIN recs,
         NEW index \in Indices, \A i \in DOMAIN recs : index \notin OverlayIndices(recs[i])
  PROVE  LET new == [recs EXCEPT ![id].ips = <<index>>] IN
         /\ new \in Seq(Records) /\ Sound(new)
         /\ DOMAIN new = DOMAIN recs
         /\ \A i \in DOMAIN recs : new[i].token = recs[i].token /\ new[i].active = recs[i].active
<1> DEFINE rec == [recs[id] EXCEPT !.ips = <<index>>]
           new == [recs EXCEPT ![id] = rec]
<1>2. rec \in Records
  BY Element, RecordUpdated
<1>3. /\ rec.key = recs[id].key /\ rec.tenant = recs[id].tenant
      /\ rec.active = recs[id].active /\ rec.token = recs[id].token
      /\ OverlayIndices(rec) = {index}
  BY Element DEF Records, OverlayIndices
<1> HIDE DEF rec
<1>4. /\ new \in Seq(Records) /\ DOMAIN new = DOMAIN recs
      /\ \A i \in DOMAIN recs : new[i] = IF i = id THEN rec ELSE recs[i]
  BY <1>2, Updated
<1> HIDE DEF new
<1>5. UniqueKeys(new) /\ DistinctTokens(new)
  BY <1>3, <1>4 DEF Sound, UniqueKeys, DistinctTokens
<1>6. DisjointAddresses(new)
  BY <1>3, <1>4 DEF Sound, DisjointAddresses
<1>7. new = [recs EXCEPT ![id].ips = <<index>>]
  BY DEF new, rec
<1>8. Sound(new)
  BY <1>5, <1>6 DEF Sound
<1>9. \A i \in DOMAIN recs : new[i].token = recs[i].token /\ new[i].active = recs[i].active
  BY <1>3, <1>4
<1> QED BY <1>4, <1>7, <1>8, <1>9, Zenon

\* A newer token on one record keeps a list sound.
LEMMA TokenSound ==
  ASSUME NEW recs \in Seq(Records), Sound(recs), NEW id \in DOMAIN recs,
         NEW token \in Nat, \A i \in DOMAIN recs : recs[i].token < token
  PROVE  LET new == [recs EXCEPT ![id].token = token] IN
         /\ new \in Seq(Records) /\ Sound(new)
         /\ DOMAIN new = DOMAIN recs
         /\ \A i \in DOMAIN recs :
              /\ new[i].token = IF i = id THEN token ELSE recs[i].token
              /\ new[i].active = recs[i].active
<1> DEFINE rec == [recs[id] EXCEPT !.token = token]
           new == [recs EXCEPT ![id] = rec]
<1>2. rec \in Records
  BY Element, RecordUpdated
<1>3. /\ rec.key = recs[id].key /\ rec.tenant = recs[id].tenant
      /\ rec.active = recs[id].active /\ rec.token = token
      /\ OverlayIndices(rec) = OverlayIndices(recs[id])
  BY Element DEF Records, OverlayIndices
<1> HIDE DEF rec
<1>4. /\ new \in Seq(Records) /\ DOMAIN new = DOMAIN recs
      /\ \A i \in DOMAIN recs : new[i] = IF i = id THEN rec ELSE recs[i]
  BY <1>2, Updated
<1> HIDE DEF new
<1>5. UniqueKeys(new) /\ DisjointAddresses(new)
  BY <1>3, <1>4 DEF Sound, UniqueKeys, DisjointAddresses
<1>6. DistinctTokens(new)
  BY <1>3, <1>4, Element DEF Sound, DistinctTokens
<1>7. new = [recs EXCEPT ![id].token = token]
  BY DEF new, rec
<1>8. Sound(new)
  BY <1>5, <1>6 DEF Sound
<1>9. \A i \in DOMAIN recs : /\ new[i].token = IF i = id THEN token ELSE recs[i].token
                          /\ new[i].active = recs[i].active
  BY <1>3, <1>4
<1> QED BY <1>4, <1>7, <1>8, <1>9, Zenon

\* Revoking a record keeps a list sound.
LEMMA RevokedSound ==
  ASSUME NEW recs \in Seq(Records), Sound(recs), NEW id \in DOMAIN recs
  PROVE  LET new == [recs EXCEPT ![id].active = FALSE] IN
         /\ new \in Seq(Records) /\ Sound(new)
         /\ DOMAIN new = DOMAIN recs
         /\ \A i \in DOMAIN recs :
              /\ new[i].token = recs[i].token
              /\ new[i].active <=> recs[i].active /\ i # id
<1> DEFINE rec == [recs[id] EXCEPT !.active = FALSE]
           new == [recs EXCEPT ![id] = rec]
<1>2. rec \in Records
  BY Element, RecordUpdated
<1>3. /\ rec.token = recs[id].token /\ ~rec.active
      /\ OverlayIndices(rec) = OverlayIndices(recs[id])
  BY Element DEF Records, OverlayIndices
<1> HIDE DEF rec
<1>4. /\ new \in Seq(Records) /\ DOMAIN new = DOMAIN recs
      /\ \A i \in DOMAIN recs : new[i] = IF i = id THEN rec ELSE recs[i]
  BY <1>2, Updated
<1> HIDE DEF new
<1>5. UniqueKeys(new)
  BY <1>3, <1>4, Zenon DEF Sound, UniqueKeys
<1>6. DisjointAddresses(new) /\ DistinctTokens(new)
  BY <1>3, <1>4 DEF Sound, DisjointAddresses, DistinctTokens
<1>7. new = [recs EXCEPT ![id].active = FALSE]
  BY DEF new, rec
<1>8. Sound(new)
  BY <1>5, <1>6 DEF Sound
<1>9. \A i \in DOMAIN recs : /\ new[i].token = recs[i].token
                            /\ new[i].active <=> recs[i].active /\ i # id
  BY <1>3, <1>4, Zenon
<1> HIDE DEF Sound
<1> QED BY <1>4, <1>7, <1>8, <1>9

-----------------------------------------------------------------------------
(***************************************************************************)
(* The invariant holds initially and is kept by every action               *)
(***************************************************************************)
\* The start of each stage of AppState::new is a stage.
LEMMA StageIsStage ==
  \A s \in {"addresses", "tokens", "running"} : Stage(s) \in Stages
BY DEF Stage, Stages

\* So is the next turn of its loop.
LEMMA NextTurn ==
  ASSUME boot \in Stages
  PROVE  /\ boot.next \in Nat \ {0} /\ boot.stage \in {"addresses", "tokens", "running"}
         /\ [boot EXCEPT !.next = @ + 1] \in Stages
         /\ [boot EXCEPT !.next = @ + 1, !.changed = TRUE] \in Stages
<1>1. boot.next \in Nat \ {0} /\ boot.stage \in {"addresses", "tokens", "running"}
  BY DEF Stages
<1>2. boot.next + 1 \in Nat \ {0}
  BY <1>1
<1>3. [boot EXCEPT !.next = @ + 1] \in Stages
  BY <1>2 DEF Stages
<1>4. [boot EXCEPT !.next = @ + 1, !.changed = TRUE] \in Stages
  BY <1>2 DEF Stages
<1> QED BY <1>1, <1>3, <1>4

\* The first start finds a file as RegistryAssumption says.
LEMMA InitInv == Init => Inv
<1> SUFFICES ASSUME Init PROVE Inv
  OBVIOUS
<1>1. /\ disk \in Seq(Records) /\ UniqueKeys(disk) /\ DisjointAddresses(disk)
      /\ \A i \in DOMAIN disk : disk[i].token = 0
  BY RegistryAssumption DEF Init
<1>2. Sound(disk) /\ TokensDrawn(disk)
  BY <1>1 DEF Sound, DistinctTokens, TokensDrawn, Init
<1>3. /\ endpoints \in Seq(Records) /\ DOMAIN endpoints \subseteq DOMAIN disk
      /\ \A i \in DOMAIN endpoints : endpoints[i] = disk[i]
  BY <1>1, LoadIsPrefix DEF Init
<1>4. Sound(endpoints) /\ TokensDrawn(endpoints)
  BY <1>1, <1>2, <1>3, PrefixSound DEF TokensDrawn, Init
<1>5. boot \in Stages /\ ~Running /\ boot.stage = "addresses"
  BY StageIsStage DEF Init, Running, Stage
<1>6. TypeOK
  BY <1>1, <1>3, <1>5 DEF Init, TypeOK
<1>7. Assigned /\ LiveHeartbeats
  BY <1>5 DEF Init, Assigned, LiveHeartbeats
<1>8. confirmed \subseteq 1 .. drawn /\ NotConfirmed(endpoints) /\ NotConfirmed(disk)
  BY DEF Init, NotConfirmed
<1> QED BY <1>2, <1>4, <1>6, <1>7, <1>8 DEF Inv

\* A turn of the first loop.
LEMMA BackfillAddressInv == Inv /\ BackfillAddress => Inv'
<1> SUFFICES ASSUME Inv, BackfillAddress PROVE Inv'
  OBVIOUS
<1> USE DEF Inv
<1>1. boot \in Stages /\ boot' \in Stages /\ boot'.stage = "addresses" /\ ~Running
  BY NextTurn DEF TypeOK, BackfillAddress, Stages, Running
<1>2. /\ endpoints' \in Seq(Records) /\ Sound(endpoints')
      /\ DOMAIN endpoints' = DOMAIN endpoints
      /\ \A i \in DOMAIN endpoints : /\ endpoints'[i].token = endpoints[i].token
                                    /\ endpoints'[i].active = endpoints[i].active
  <2>1. PICK index \in (IF endpoints[boot.next].ips = <<>>
                        THEN Allocate(UsedIndices(endpoints)) ELSE {None}) :
          IF index = None THEN UNCHANGED endpoints
          ELSE endpoints' = [endpoints EXCEPT ![boot.next].ips = <<index>>]
    BY DEF BackfillAddress
  <2>2. CASE index = None
    BY <2>1, <2>2 DEF TypeOK
  <2>3. CASE index # None
    <3>1. /\ index \in Indices
          /\ \A i \in DOMAIN endpoints : index \notin OverlayIndices(endpoints[i])
      BY <2>1, <2>3, ChosenIsFree
    <3>2. boot.next \in DOMAIN endpoints /\ endpoints \in Seq(Records) /\ Sound(endpoints)
      BY DEF BackfillAddress, TypeOK
    <3>3. endpoints' = [endpoints EXCEPT ![boot.next].ips = <<index>>]
      BY <2>1, <2>3
    <3> HIDE DEF Inv
    <3> DEFINE new == [endpoints EXCEPT ![boot.next].ips = <<index>>]
    <3>4. /\ new \in Seq(Records) /\ Sound(new)
          /\ DOMAIN new = DOMAIN endpoints
          /\ \A i \in DOMAIN endpoints : /\ new[i].token = endpoints[i].token
                                        /\ new[i].active = endpoints[i].active
      BY <3>1, <3>2, AddressSound, SMTT(30)
    <3> HIDE DEF new
    <3>5. endpoints' = new
      BY <3>3 DEF new
    <3> QED BY <3>4, <3>5
  <2> QED BY <2>2, <2>3
<1>3. UNCHANGED <<disk, heartbeats, calls, drawn, restarts, misreads, history>>
  BY DEF BackfillAddress
<1>4. TypeOK'
  BY <1>1, <1>2, <1>3 DEF TypeOK, history
<1>5. Sound(endpoints)' /\ Sound(disk)' /\ TokensDrawn(endpoints)' /\ TokensDrawn(disk)'
  BY <1>2, <1>3 DEF TokensDrawn
<1>6. Assigned'
  BY <1>1 DEF Assigned, Running
<1>7. LiveHeartbeats'
  BY <1>2, <1>3 DEF LiveHeartbeats, Active
<1>8. (confirmed \subseteq 1 .. drawn)' /\ NotConfirmed(endpoints)' /\ NotConfirmed(disk)'
  BY <1>2, <1>3 DEF NotConfirmed, history
<1> QED BY <1>4, <1>5, <1>6, <1>7, <1>8

\* A turn of the second loop.
LEMMA BackfillTokenInv == Inv /\ BackfillToken => Inv'
<1> SUFFICES ASSUME Inv, BackfillToken PROVE Inv'
  OBVIOUS
<1> USE DEF Inv
<1>1. /\ boot \in Stages /\ boot' \in Stages
      /\ boot.stage = "tokens" /\ boot'.stage = "tokens" /\ boot'.next = boot.next + 1
      /\ boot.next \in Nat /\ boot.next \in DOMAIN endpoints
  BY NextTurn DEF TypeOK, BackfillToken, Stages
<1>2. endpoints \in Seq(Records) /\ drawn \in Nat /\ \A i \in DOMAIN endpoints : i \in Nat
  BY Element DEF TypeOK
<1>3. \A i \in DOMAIN endpoints : endpoints[i].token < drawn + 1 /\ endpoints[i].token \in Nat
  BY <1>2, Element DEF TokensDrawn
<1>4. /\ endpoints' \in Seq(Records) /\ Sound(endpoints')
      /\ DOMAIN endpoints' = DOMAIN endpoints
      /\ drawn' \in {drawn, drawn + 1}
      /\ endpoints'[boot.next].token # 0
      /\ \A i \in DOMAIN endpoints :
           /\ \/ endpoints'[i].token = endpoints[i].token
              \/ endpoints'[i].token = drawn + 1 /\ drawn' = drawn + 1
           /\ endpoints'[i].active = endpoints[i].active
           /\ i # boot.next => endpoints'[i].token = endpoints[i].token
  <2>1. CASE endpoints[boot.next].token # 0
    BY <1>1, <1>2, <2>1 DEF BackfillToken
  <2>2. CASE endpoints[boot.next].token = 0
    <3>1. drawn' = drawn + 1 /\ endpoints' = [endpoints EXCEPT ![boot.next].token = drawn + 1]
      BY <2>2 DEF BackfillToken
    <3>2. drawn + 1 \in Nat /\ drawn + 1 # 0 /\ Sound(endpoints)
      BY <1>2
    <3> HIDE DEF Inv
    <3>3. /\ endpoints' \in Seq(Records) /\ Sound(endpoints')
          /\ DOMAIN endpoints' = DOMAIN endpoints
          /\ \A i \in DOMAIN endpoints :
               /\ endpoints'[i].token = IF i = boot.next THEN drawn + 1 ELSE endpoints[i].token
               /\ endpoints'[i].active = endpoints[i].active
      BY <1>1, <1>2, <1>3, <3>1, <3>2, TokenSound, ZenonT(30)
    <3> QED BY <1>1, <3>1, <3>2, <3>3
  <2> QED BY <2>1, <2>2
<1>5. UNCHANGED <<disk, heartbeats, calls, restarts, misreads, history>>
  BY DEF BackfillToken
<1>6. TypeOK'
  BY <1>1, <1>2, <1>4, <1>5 DEF TypeOK, history
<1>7. Sound(endpoints)' /\ Sound(disk)' /\ TokensDrawn(endpoints)'
  BY <1>2, <1>3, <1>4, <1>5 DEF TokensDrawn
<1>8. TokensDrawn(disk)'
  <2>1. \A i \in DOMAIN disk : disk[i].token \in Nat
    BY Element DEF TypeOK
  <2> QED BY <1>2, <1>4, <1>5, <2>1 DEF TokensDrawn
<1>9. Assigned'
  BY <1>1, <1>2, <1>4 DEF Assigned, Running
<1>10. LiveHeartbeats'
  BY <1>4, <1>5 DEF LiveHeartbeats, Active
<1>11. (confirmed \subseteq 1 .. drawn)'
  BY <1>2, <1>4, <1>5 DEF history
<1>12. NotConfirmed(endpoints)' /\ NotConfirmed(disk)'
  BY <1>2, <1>4, <1>5 DEF NotConfirmed, history
<1> QED BY <1>6, <1>7, <1>8, <1>9, <1>10, <1>11, <1>12

\* The end of a loop: the disk is what it was, or what is in memory.
LEMMA EndBackfillInv == Inv /\ EndBackfill => Inv'
<1> SUFFICES ASSUME Inv, EndBackfill PROVE Inv'
  OBVIOUS
<1> USE DEF Inv
<1>1. /\ boot \in Stages /\ boot.next \in Nat \ {0} /\ boot.next \notin DOMAIN endpoints
      /\ boot.stage \in {"addresses", "tokens"}
      /\ boot' = Stage(IF boot.stage = "addresses" THEN "tokens" ELSE "running")
  BY NextTurn DEF TypeOK, EndBackfill, Running
<1>2. UNCHANGED <<endpoints, heartbeats, calls, drawn, restarts, misreads, history>>
  BY DEF EndBackfill
<1>3. disk' \in {disk, endpoints}
  BY DEF EndBackfill, Save
<1>4. boot' \in Stages /\ boot'.next = 1
      /\ (boot'.stage = "running" => boot.stage = "tokens")
  BY <1>1, StageIsStage DEF Stage
<1>5. TypeOK'
  BY <1>2, <1>3, <1>4 DEF TypeOK, history
<1>6. Sound(endpoints)' /\ Sound(disk)' /\ TokensDrawn(endpoints)' /\ TokensDrawn(disk)'
  BY <1>2, <1>3 DEF TokensDrawn
<1>7. Assigned'
  <2>1. endpoints \in Seq(Records)
    BY DEF TypeOK
  <2>2. \A i \in DOMAIN endpoints : i \in Nat \ {0} /\ i < boot.next
    <3>1. DOMAIN endpoints = 1 .. Len(endpoints) /\ Len(endpoints) \in Nat
      BY <2>1, LenProperties
    <3> QED BY <1>1, <3>1
  <2> QED BY <1>1, <1>2, <1>4, <2>2 DEF Assigned, Running
<1>8. LiveHeartbeats'
  BY <1>2 DEF LiveHeartbeats, Active
<1>9. (confirmed \subseteq 1 .. drawn)' /\ NotConfirmed(endpoints)' /\ NotConfirmed(disk)'
  BY <1>2, <1>3 DEF NotConfirmed, history
<1> QED BY <1>5, <1>6, <1>7, <1>8, <1>9

\* A restart: memory is a prefix of the disk again.
LEMMA RestartInv == Inv /\ Restart => Inv'
<1> SUFFICES ASSUME Inv, Restart PROVE Inv'
  OBVIOUS
<1> USE DEF Inv
<1>1. disk \in Seq(Records) /\ endpoints' \in Load(disk) \cup Cut(disk)
  BY DEF TypeOK, Restart
<1>2. /\ endpoints' \in Seq(Records) /\ DOMAIN endpoints' \subseteq DOMAIN disk
      /\ \A i \in DOMAIN endpoints' : endpoints'[i] = disk[i]
  BY <1>1, LoadIsPrefix
<1>3. Sound(endpoints')
  BY <1>1, PrefixSound
<1>4. UNCHANGED <<disk, drawn, history>> /\ heartbeats' = {} /\ calls' = {}
      /\ boot' = Stage("addresses") /\ restarts' = restarts + 1
      /\ misreads' \in {misreads, misreads + 1}
  BY DEF Restart
<1>5. boot' \in Stages /\ boot'.stage = "addresses"
  BY <1>4, StageIsStage DEF Stage
<1>6. TypeOK'
  BY <1>2, <1>4, <1>5 DEF TypeOK, history
<1>7. Sound(endpoints)' /\ Sound(disk)' /\ TokensDrawn(endpoints)' /\ TokensDrawn(disk)'
  BY <1>2, <1>3, <1>4 DEF TokensDrawn
<1>8. Assigned' /\ LiveHeartbeats'
  BY <1>4, <1>5 DEF Assigned, Running, LiveHeartbeats
<1>9. (confirmed \subseteq 1 .. drawn)' /\ NotConfirmed(endpoints)' /\ NotConfirmed(disk)'
  BY <1>2, <1>4 DEF NotConfirmed, history
<1> QED BY <1>6, <1>7, <1>8, <1>9

\* What nodes are told are addresses of records.
LEMMA TellType ==
  ASSUME NEW recs \in Seq(Records), NEW ids \in SUBSET DOMAIN recs
  PROVE  Tell(recs, ids) \subseteq Telling
<1> SUFFICES ASSUME NEW id \in ids, recs[id].ips # <<>>
             PROVE  [index |-> recs[id].ips[1], id |-> id] \in Telling
  BY DEF Tell
<1>1. recs[id].ips \in Seq(Indices) /\ id \in Nat
  BY Element
<1>2. recs[id].ips[1] \in Indices
  BY <1>1
<1> QED BY <1>1, <1>2 DEF Telling

\* The actions that change neither list, nor tokens: enrolment of an enrolled key,
\* and all requests with a node token.
LEMMA ReadersInv ==
  ASSUME Inv,
         UNCHANGED <<endpoints, disk, boot, drawn, restarts, misreads, confirmed>>,
         told' \subseteq Telling, calls' \subseteq Calls,
         heartbeats' \subseteq {id \in Nat : Active(id)}
  PROVE  Inv'
<1> USE DEF Inv
<1>1. TypeOK'
  BY DEF TypeOK
<1>2. LiveHeartbeats'
  BY DEF LiveHeartbeats, Active
<1>3. Sound(endpoints)' /\ Sound(disk)' /\ TokensDrawn(endpoints)' /\ TokensDrawn(disk)'
  BY DEF TokensDrawn
<1>4. Assigned'
  BY DEF Assigned, Running
<1>5. (confirmed \subseteq 1 .. drawn)' /\ NotConfirmed(endpoints)' /\ NotConfirmed(disk)'
  BY DEF NotConfirmed
<1> QED BY <1>1, <1>2, <1>3, <1>4, <1>5

\* What the three actions have in common that change the list and save it.
LEMMA WritersInv ==
  ASSUME Inv, Running, UNCHANGED <<boot, calls, restarts, misreads>>,
         endpoints' \in Seq(Records), Sound(endpoints'), disk' \in {disk, endpoints'},
         drawn' \in {drawn, drawn + 1},
         \A i \in DOMAIN endpoints' : endpoints'[i].token \in 1 .. drawn',
         heartbeats' \subseteq Nat, LiveHeartbeats',
         told' \subseteq Telling,
         confirmed' \subseteq 1 .. drawn,
         NotConfirmed(endpoints)', NotConfirmed(disk)'
  PROVE  Inv'
<1> USE DEF Inv
<1>1. drawn \in Nat
  BY DEF TypeOK
<1>2. TypeOK'
  BY <1>1 DEF TypeOK
<1>3. TokensDrawn(endpoints)' /\ TokensDrawn(disk)'
  <2>1. \A i \in DOMAIN endpoints' : endpoints'[i].token <= drawn'
    BY <1>1
  <2>2. \A i \in DOMAIN disk : disk[i].token \in Nat /\ disk[i].token <= drawn
    BY Element DEF TypeOK, TokensDrawn
  <2>3. \A i \in DOMAIN disk : disk[i].token <= drawn'
    BY <1>1, <2>2
  <2> QED BY <2>1, <2>3 DEF TokensDrawn
<1>4. Assigned'
  BY <1>1 DEF Assigned
<1>5. (confirmed \subseteq 1 .. drawn)' /\ Sound(endpoints)' /\ Sound(disk)'
  BY <1>1
<1> QED BY <1>2, <1>3, <1>4, <1>5

\* The tokens of a running process.
LEMMA RunningTokens ==
  ASSUME Inv, Running
  PROVE  /\ endpoints \in Seq(Records) /\ Sound(endpoints) /\ drawn \in Nat
         /\ \A i \in DOMAIN endpoints : /\ endpoints[i].token \in 1 .. drawn
                                       /\ endpoints[i].token < drawn + 1
                                       /\ i \in Nat
<1>1. endpoints \in Seq(Records) /\ Sound(endpoints) /\ drawn \in Nat
  BY DEF Inv, TypeOK
<1>2. \A i \in DOMAIN endpoints :
        /\ endpoints[i].token \in Nat /\ endpoints[i].token # 0 /\ endpoints[i].token <= drawn
        /\ i \in Nat
  BY <1>1, Element DEF Inv, Assigned, TokensDrawn
<1> QED BY <1>1, <1>2

\* Enrolment: the new record has a key, address and token nobody has, or is taken back.
LEMMA EnrollInv ==
  ASSUME Inv, NEW tenant \in Owners, NEW key \in Keys, NEW name \in Names,
         NEW supplied \in Supplied, Enroll(tenant, key, name, supplied)
  PROVE  Inv'
<1>1. PICK index \in ChooseForEnrollment(supplied, UsedIndices(endpoints)), ok \in BOOLEAN :
        LET pushed == Append(endpoints, NewRecord(tenant, key, name, index)) IN
        /\ Save(ok, pushed)
        /\ endpoints' = PushedIf(ok, pushed)
        /\ drawn' = IF ok THEN drawn + 1 ELSE drawn
        /\ told' = IF ok THEN told \cup Tell(pushed, {Len(pushed)}) ELSE told
  BY DEF Enroll
<1>2. /\ Running /\ Enrolled(tenant, key) = {}
      /\ UNCHANGED <<boot, heartbeats, calls, restarts, misreads, confirmed>>
  BY DEF Enroll
<1>3. CASE ~ok
  <2>1. UNCHANGED <<endpoints, disk, drawn, told>>
    BY <1>1, <1>3 DEF Save, PushedIf
  <2>2. told \subseteq Telling /\ calls \subseteq Calls /\ heartbeats \subseteq {id \in Nat : Active(id)}
    BY DEF Inv, TypeOK, LiveHeartbeats
  <2> QED BY <1>2, <2>1, <2>2, ReadersInv
<1>4. CASE ok
  <2> DEFINE rec == NewRecord(tenant, key, name, index)
             pushed == Append(endpoints, rec)
             n == Len(endpoints) + 1
  <2>1. /\ endpoints' = pushed /\ disk' = pushed /\ drawn' = drawn + 1
        /\ told' = told \cup Tell(pushed, {Len(pushed)})
    BY <1>1, <1>4 DEF Save, PushedIf
  <2>2. index \in Indices \cup {None}
    BY ChosenIsFree
  <2>3. \A i \in DOMAIN endpoints : OverlayIndices(endpoints[i]) \cap ({index} \ {None}) = {}
    BY ChosenIsFree
  <2>4. /\ rec \in Records /\ rec.active
        /\ rec.key = key /\ rec.tenant = tenant /\ rec.token = drawn + 1
        /\ OverlayIndices(rec) = {index} \ {None}
    BY <1>2, <2>2, NewIsRecord, RunningTokens DEF Tenants
  <2>5. /\ pushed \in Seq(Records) /\ Len(pushed) = n
        /\ DOMAIN pushed = DOMAIN endpoints \cup {n} /\ n \notin DOMAIN endpoints
        /\ \A i \in DOMAIN endpoints : pushed[i] = endpoints[i]
        /\ pushed[n] = rec
    BY <1>2, <2>4, Appended, RunningTokens
  <2>6. \A i \in DOMAIN endpoints :
          ~ (endpoints[i].active /\ endpoints[i].tenant = tenant /\ endpoints[i].key = key)
    BY <1>2 DEF Enrolled, Mine, Active
  <2>7. Sound(pushed)
    BY <1>2, <2>3, <2>4, <2>6, PushSound, RunningTokens
  <2> HIDE DEF rec, pushed, n
  <2>8. \A i \in DOMAIN pushed : pushed[i].token \in 1 .. drawn'
    BY <1>2, <2>1, <2>4, <2>5, RunningTokens
  <2>9. LiveHeartbeats' /\ heartbeats' \subseteq Nat
    BY <1>2, <2>1, <2>5 DEF Inv, TypeOK, LiveHeartbeats, Active
  <2>10. told' \subseteq Telling
    BY <2>1, <2>5, TellType DEF Inv, TypeOK
  <2>11. NotConfirmed(endpoints)' /\ NotConfirmed(disk)'
    <3>1. confirmed' = confirmed /\ confirmed \subseteq 1 .. drawn /\ drawn \in Nat
      BY <1>2 DEF Inv, TypeOK
    <3>2. drawn + 1 \notin confirmed
      BY <3>1
    <3> QED BY <2>1, <2>4, <2>5, <3>1, <3>2 DEF Inv, NotConfirmed
  <2>12. confirmed' \subseteq 1 .. drawn
    BY <1>2 DEF Inv, TypeOK
  <2> QED BY <1>2, <2>1, <2>5, <2>7, <2>8, <2>9, <2>10, <2>11, <2>12, WritersInv
<1> QED BY <1>3, <1>4

\* The token that a confirmed rotation or revocation takes away is on no active
\* record of the new list, which is then on disk too.
LEMMA RetiredNowhere ==
  ASSUME Inv, Running, NEW id \in DOMAIN endpoints, NEW ok \in BOOLEAN,
         DOMAIN endpoints' = DOMAIN endpoints,
         endpoints'[id].active => endpoints'[id].token = drawn + 1,
         \A i \in DOMAIN endpoints \ {id} :
           endpoints'[i].token = endpoints[i].token /\ (endpoints'[i].active => endpoints[i].active),
         Save(ok, endpoints'), Retire(id, ok)
  PROVE  /\ disk' \in {disk, endpoints'}
         /\ confirmed' \subseteq 1 .. drawn
         /\ NotConfirmed(endpoints)' /\ NotConfirmed(disk)'
<1> DEFINE token == endpoints[id].token
<1>1. /\ token \in 1 .. drawn /\ drawn \in Nat
      /\ \A i \in DOMAIN endpoints \ {id} : endpoints[i].token # token
      /\ confirmed \subseteq 1 .. drawn
  BY RunningTokens DEF Inv, Sound, DistinctTokens
<1>2. /\ confirmed' \in {confirmed, confirmed \cup {token}}
      /\ (~ok => confirmed' = confirmed /\ disk' = disk)
      /\ (ok => disk' = endpoints')
  BY DEF Retire, Save
<1> HIDE DEF token
<1>3. confirmed' \subseteq 1 .. drawn
  BY <1>1, <1>2 DEF Inv, TypeOK
<1>4. drawn + 1 \notin confirmed'
  BY <1>1, <1>3
<1>5. NotConfirmed(endpoints)'
  <2> SUFFICES ASSUME NEW i \in DOMAIN endpoints, endpoints'[i].active
               PROVE  endpoints'[i].token \notin confirmed'
    BY DEF NotConfirmed
  <2>1. CASE i = id
    BY <1>4, <2>1
  <2>2. CASE i # id
    BY <1>1, <1>2, <2>2 DEF Inv, NotConfirmed
  <2> QED BY <2>1, <2>2
<1>6. NotConfirmed(disk)'
  BY <1>2, <1>5 DEF Inv, NotConfirmed
<1> QED BY <1>2, <1>3, <1>5, <1>6

\* Revocation, saved or not.
LEMMA DeleteInv ==
  ASSUME Inv, NEW tenant \in Owners, NEW id, DeleteEndpoint(tenant, id)
  PROVE  Inv'
<1>1. /\ Running /\ id \in DOMAIN endpoints
      /\ UNCHANGED <<boot, calls, drawn, restarts, misreads, told>>
      /\ endpoints' = [endpoints EXCEPT ![id].active = FALSE]
      /\ heartbeats' = heartbeats \ {id}
  BY DEF DeleteEndpoint, Mine, Active
<1>2. PICK ok \in BOOLEAN : Save(ok, endpoints') /\ Retire(id, ok)
  BY DEF DeleteEndpoint
<1>3. /\ endpoints' \in Seq(Records) /\ Sound(endpoints')
      /\ DOMAIN endpoints' = DOMAIN endpoints
      /\ \A i \in DOMAIN endpoints :
           /\ endpoints'[i].token = endpoints[i].token
           /\ endpoints'[i].active <=> endpoints[i].active /\ i # id
  <2> DEFINE new == [endpoints EXCEPT ![id].active = FALSE]
  <2>1. id \in DOMAIN endpoints /\ endpoints \in Seq(Records) /\ Sound(endpoints)
    BY <1>1, RunningTokens
  <2>2. /\ new \in Seq(Records) /\ Sound(new)
        /\ DOMAIN new = DOMAIN endpoints
        /\ \A i \in DOMAIN endpoints :
             /\ new[i].token = endpoints[i].token
             /\ new[i].active <=> endpoints[i].active /\ i # id
    BY <2>1, RevokedSound
  <2>3. endpoints' = new
    BY <1>1
  <2> HIDE DEF new
  <2> QED BY <2>2, <2>3, Zenon
<1>4. /\ disk' \in {disk, endpoints'}
      /\ confirmed' \subseteq 1 .. drawn
      /\ NotConfirmed(endpoints)' /\ NotConfirmed(disk)'
  <2>1. ~endpoints'[id].active
    BY <1>1, <1>3, Zenon
  <2>2. \A i \in DOMAIN endpoints \ {id} :
          endpoints'[i].token = endpoints[i].token /\ (endpoints'[i].active => endpoints[i].active)
    BY <1>3, Zenon
  <2> QED BY <1>1, <1>2, <1>3, <2>1, <2>2, RetiredNowhere, Zenon
<1>5. \A i \in DOMAIN endpoints' : endpoints'[i].token \in 1 .. drawn'
  BY <1>1, <1>3, RunningTokens
<1>6. LiveHeartbeats' /\ heartbeats' \subseteq Nat
  <2>1. \A i \in heartbeats \ {id} : i \in DOMAIN endpoints /\ endpoints'[i].active
    BY <1>3, Zenon DEF Inv, LiveHeartbeats, Active
  <2> QED BY <1>1, <1>3, <2>1 DEF Inv, TypeOK, LiveHeartbeats, Active
<1>7. told' \subseteq Telling /\ drawn' \in {drawn, drawn + 1}
  BY <1>1 DEF Inv, TypeOK
<1> QED BY <1>1, <1>3, <1>4, <1>5, <1>6, <1>7, WritersInv

\* Rotation, saved or not.
LEMMA RotateInv ==
  ASSUME Inv, NEW tenant \in Owners, NEW id, RotateToken(tenant, id)
  PROVE  Inv'
<1>1. /\ Running /\ id \in DOMAIN endpoints /\ drawn' = drawn + 1
      /\ UNCHANGED <<boot, heartbeats, calls, restarts, misreads, told>>
      /\ endpoints' = [endpoints EXCEPT ![id].token = drawn + 1]
  BY DEF RotateToken, Mine, Active
<1>2. PICK ok \in BOOLEAN : Save(ok, endpoints') /\ Retire(id, ok)
  BY DEF RotateToken
<1>3. drawn + 1 \in Nat
  BY <1>1, RunningTokens
<1>4. /\ endpoints' \in Seq(Records) /\ Sound(endpoints')
      /\ DOMAIN endpoints' = DOMAIN endpoints
      /\ \A i \in DOMAIN endpoints :
           /\ endpoints'[i].token = IF i = id THEN drawn + 1 ELSE endpoints[i].token
           /\ endpoints'[i].active = endpoints[i].active
  <2> DEFINE new == [endpoints EXCEPT ![id].token = drawn + 1]
  <2>1. /\ endpoints \in Seq(Records) /\ Sound(endpoints)
        /\ \A i \in DOMAIN endpoints : endpoints[i].token < drawn + 1
    BY <1>1, RunningTokens
  <2>2. /\ new \in Seq(Records) /\ Sound(new)
        /\ DOMAIN new = DOMAIN endpoints
        /\ \A i \in DOMAIN endpoints :
             /\ new[i].token = IF i = id THEN drawn + 1 ELSE endpoints[i].token
             /\ new[i].active = endpoints[i].active
    BY <1>1, <1>3, <2>1, TokenSound, Zenon
  <2>3. endpoints' = new
    BY <1>1
  <2> HIDE DEF new
  <2> QED BY <2>2, <2>3, Zenon
<1>5. /\ disk' \in {disk, endpoints'}
      /\ confirmed' \subseteq 1 .. drawn
      /\ NotConfirmed(endpoints)' /\ NotConfirmed(disk)'
  <2>1. endpoints'[id].token = drawn + 1
    BY <1>1, <1>4
  <2>2. \A i \in DOMAIN endpoints \ {id} :
          endpoints'[i].token = endpoints[i].token /\ (endpoints'[i].active => endpoints[i].active)
    BY <1>4
  <2> QED BY <1>1, <1>2, <1>4, <2>1, <2>2, RetiredNowhere, Zenon
<1>6. \A i \in DOMAIN endpoints' : endpoints'[i].token \in 1 .. drawn'
  BY <1>1, <1>4, RunningTokens
<1>7. LiveHeartbeats' /\ heartbeats' \subseteq Nat
  BY <1>1, <1>4 DEF Inv, TypeOK, LiveHeartbeats, Active
<1>8. told' \subseteq Telling /\ drawn' \in {drawn, drawn + 1}
  BY <1>1 DEF Inv, TypeOK
<1> QED BY <1>1, <1>4, <1>5, <1>6, <1>7, <1>8, WritersInv

\* The readers.
LEMMA AlreadyEnrolledInv ==
  ASSUME Inv, NEW tenant, NEW key, AlreadyEnrolled(tenant, key)
  PROVE  Inv'
<1>1. PICK id \in Enrolled(tenant, key) : told' = told \cup Tell(endpoints, {id})
  BY DEF AlreadyEnrolled
<1>2. endpoints \in Seq(Records) /\ {id} \in SUBSET DOMAIN endpoints
  BY <1>1 DEF Enrolled, Inv, TypeOK
<1>3. told' \subseteq Telling
  BY <1>1, <1>2, TellType DEF Inv, TypeOK
<1>4. UNCHANGED <<endpoints, disk, boot, drawn, restarts, misreads, confirmed, calls, heartbeats>>
  BY DEF AlreadyEnrolled, registry
<1>5. calls' \subseteq Calls /\ heartbeats' \subseteq {i \in Nat : Active(i)}
  BY <1>4 DEF Inv, TypeOK, LiveHeartbeats
<1> QED BY <1>3, <1>4, <1>5, ReadersInv

\* A heartbeat from the owner is for an active record.
LEMMA HeartbeatOwnerInv ==
  ASSUME Inv, NEW tenant, NEW id, HeartbeatOwner(tenant, id)
  PROVE  Inv'
<1>1. /\ UNCHANGED <<endpoints, disk, boot, calls, drawn, restarts, misreads, told, confirmed>>
      /\ heartbeats' = heartbeats \cup {id} /\ Active(id)
  BY DEF HeartbeatOwner, history, Mine
<1>2. id \in Nat
  BY <1>1, Element DEF Active, Inv, TypeOK
<1>3. told' \subseteq Telling /\ calls' \subseteq Calls /\ heartbeats' \subseteq {i \in Nat : Active(i)}
  BY <1>1, <1>2 DEF Inv, TypeOK, LiveHeartbeats
<1> QED BY <1>1, <1>3, ReadersInv

\* The two steps of node-token requests.
LEMMA NodeInv ==
  ASSUME Inv,
         \/ \E token \in 1 .. drawn, op \in {"peermap", "heartbeat"} : AuthNode(token, op)
         \/ \E call \in calls : HeartbeatToken(call) \/ Peermap(call)
  PROVE  Inv'
<1>1. /\ endpoints \in Seq(Records) /\ told \subseteq Telling /\ calls \subseteq Calls
      /\ heartbeats \subseteq {i \in Nat : Active(i)}
  BY DEF Inv, TypeOK, LiveHeartbeats
<1>2. ASSUME NEW token, NEW op \in {"peermap", "heartbeat"}, AuthNode(token, op)
      PROVE  Inv'
  <2>1. UNCHANGED <<endpoints, disk, boot, heartbeats, drawn, restarts, misreads, told, confirmed>>
    BY <1>2 DEF AuthNode, history
  <2>2. calls' \subseteq Calls
    <3>1. ASSUME NEW i \in DOMAIN endpoints
          PROVE  [op |-> op, tenant |-> endpoints[i].tenant, id |-> i] \in Calls
      <4>1. endpoints[i] \in Records /\ i \in Nat
        BY <1>1, Element
      <4>2. endpoints[i].tenant \in Tenants
        BY <4>1 DEF Records
      <4> QED BY <4>1, <4>2 DEF Calls
    <3> QED BY <1>1, <1>2, <3>1 DEF AuthNode
  <2> QED BY <1>1, <2>1, <2>2, ReadersInv
<1>3. ASSUME NEW call \in calls, HeartbeatToken(call)
      PROVE  Inv'
  <2>1. /\ UNCHANGED <<endpoints, disk, boot, drawn, restarts, misreads, told, confirmed>>
        /\ calls' = calls \ {call}
        /\ heartbeats' = IF StillOwned(call) THEN heartbeats \cup {call.id} ELSE heartbeats
    BY <1>3 DEF HeartbeatToken, history
  <2>2. StillOwned(call) => Active(call.id) /\ call.id \in Nat
    BY <1>1, Element DEF StillOwned, Mine, Active
  <2> QED BY <1>1, <2>1, <2>2, ReadersInv
<1>4. ASSUME NEW call \in calls, Peermap(call)
      PROVE  Inv'
  <2>1. /\ UNCHANGED <<endpoints, disk, boot, heartbeats, drawn, restarts, misreads, confirmed>>
        /\ calls' = calls \ {call}
    BY <1>4 DEF Peermap
  <2>2. PICK self \in {0} \cup DOMAIN endpoints :
          told' = told \cup Tell(endpoints, {id \in DOMAIN endpoints :
                                               Mine(call.tenant, id) /\ id # self})
    BY <1>4 DEF Peermap
  <2>3. told' \subseteq Telling
    BY <1>1, <2>2, TellType
  <2> QED BY <1>1, <2>1, <2>3, ReadersInv
<1> QED BY <1>2, <1>3, <1>4

\* Every step keeps the invariant.
LEMMA NextInv == Inv /\ [Next]_vars => Inv'
<1> SUFFICES ASSUME Inv, [Next]_vars PROVE Inv'
  OBVIOUS
<1>1. CASE BackfillAddress
  BY <1>1, BackfillAddressInv
<1>2. CASE BackfillToken
  BY <1>2, BackfillTokenInv
<1>3. CASE EndBackfill
  BY <1>3, EndBackfillInv
<1>4. CASE Restart
  BY <1>4, RestartInv
<1>5. ASSUME NEW tenant \in Owners, Owner(tenant)
      PROVE  Inv'
  BY <1>5, AlreadyEnrolledInv, EnrollInv, DeleteInv, RotateInv, HeartbeatOwnerInv DEF Owner
<1>6. CASE \/ \E token \in 1 .. drawn, op \in {"peermap", "heartbeat"} : AuthNode(token, op)
           \/ \E call \in calls : HeartbeatToken(call) \/ Peermap(call)
  BY <1>6, NodeInv
<1>7. CASE UNCHANGED vars
  <2>1. /\ told \subseteq Telling /\ calls \subseteq Calls
        /\ heartbeats \subseteq {i \in Nat : Active(i)}
    BY DEF Inv, TypeOK, LiveHeartbeats
  <2> QED BY <1>7, <2>1, ReadersInv DEF vars
<1> QED BY <1>1, <1>2, <1>3, <1>4, <1>5, <1>6, <1>7 DEF Next

-----------------------------------------------------------------------------
\* Everything below follows from Inv.
THEOREM Invariance == Spec => []Inv
BY InitInv, NextInv, PTL DEF Spec

\* Types, for every value of the constants.
THEOREM TypeCorrect == Spec => []TypeOK
<1>1. Inv => TypeOK
  BY DEF Inv
<1> QED BY <1>1, Invariance, PTL

\* The allocator under the state lock gives no overlay address to two records, in
\* memory or on disk, whatever fails to be saved and whenever the process restarts.
THEOREM NoAddressTwice == Spec => []AddressesDisjoint
<1>1. Inv => AddressesDisjoint
  BY DEF Inv, Sound, AddressesDisjoint
<1> QED BY <1>1, Invariance, PTL

\* do_add_endpoint is idempotent: no key is active twice in a tenant.
THEOREM NoKeyTwice == Spec => []OneActivePerKey
<1>1. Inv => OneActivePerKey
  BY DEF Inv, Sound, OneActivePerKey
<1> QED BY <1>1, Invariance, PTL

\* No heartbeat outlives the revocation of its node, although a heartbeat request
\* holds the lock twice and a revocation may come in between.
THEOREM NoGhosts == Spec => []LiveHeartbeats
<1>1. Inv => LiveHeartbeats
  BY DEF Inv
<1> QED BY <1>1, Invariance, PTL

\* What delete_endpoint and rotate_token answered with 200 outlasts every restart
\* and every failed save.
THEOREM ConfirmedForGood == Spec => []ConfirmedIsFinal
<1>1. Inv => ConfirmedIsFinal
  BY DEF Inv, NotConfirmed, ConfirmedIsFinal
<1> QED BY <1>1, Invariance, PTL

-----------------------------------------------------------------------------
(***************************************************************************)
(* Nothing is lost, and addresses stay with their nodes, as long as load   *)
(* is the inverse of save: with names that split_objects reads.            *)
(*                                                                         *)
(* A list that was backfilled but not saved is backfilled again after a    *)
(* restart, and gives every record the address it gave before: an address  *)
(* is determined by those on disk and by the records before it.            *)
(***************************************************************************)
PlainNames ==
  /\ Names \subseteq {Plain}
  /\ \A d \in InitialDisks : \A i \in DOMAIN d : d[i].name = Plain

AllPlain(recs) == \A i \in DOMAIN recs : recs[i].name = Plain

SameRecords(recs, others) ==
  /\ DOMAIN recs = DOMAIN others
  /\ \A i \in DOMAIN recs : recs[i].key = others[i].key /\ recs[i].tenant = others[i].tenant

Unmoved(recs, new) ==
  /\ DOMAIN new = DOMAIN recs
  /\ \A i \in DOMAIN recs :
       /\ new[i].key = recs[i].key /\ new[i].tenant = recs[i].tenant
       /\ new[i].name = recs[i].name /\ new[i].ips = recs[i].ips

Readdressed(recs, new, id, ips) ==
  /\ DOMAIN new = DOMAIN recs
  /\ \A i \in DOMAIN recs :
       /\ new[i].key = recs[i].key /\ new[i].tenant = recs[i].tenant
       /\ new[i].name = recs[i].name
       /\ new[i].ips = IF i = id THEN ips ELSE recs[i].ips

\* p is what the first loop of AppState::new makes of the list d.
UsedBefore(d, p, i) ==
  UsedIndices(d) \cup UNION {OverlayIndices(p[j]) : j \in {k \in DOMAIN p : k < i}}
Turn(d, p, i) ==
  IF d[i].ips = <<>> THEN \E index \in Allocate(UsedBefore(d, p, i)) : p[i].ips = Cidrs(index)
  ELSE p[i].ips = d[i].ips
Plan(d, p) == DOMAIN p = DOMAIN d /\ \A i \in DOMAIN d : Turn(d, p, i)

ToldFrom(p) == told \subseteq Tell(p, DOMAIN p)

\* Before the first loop ends memory follows the plan that nodes were told of.
Filling ==
  /\ \A i \in DOMAIN disk :
       /\ i < boot.next => Turn(disk, endpoints, i)
       /\ ~(i < boot.next) => endpoints[i].ips = disk[i].ips
  /\ \/ told = {}
     \/ \E p \in Seq(Records) :
          /\ Plan(disk, p) /\ DisjointAddresses(p) /\ ToldFrom(p)
          /\ \A i \in DOMAIN disk : i < boot.next => endpoints[i].ips = p[i].ips

\* What memory holds is on disk, with the same keys and tenants.
Mirrored ==
  /\ DOMAIN endpoints \subseteq DOMAIN disk
  /\ \A i \in DOMAIN endpoints : /\ endpoints[i].key = disk[i].key
                                /\ endpoints[i].tenant = disk[i].tenant
  /\ AllPlain(endpoints) /\ AllPlain(disk)

Kept == \A id \in DOMAIN endpoints : /\ id \in DOMAIN endpoints'
                                     /\ endpoints'[id].key = endpoints[id].key
                                     /\ endpoints'[id].tenant = endpoints[id].tenant

\* As long as the file was always read to its end, all that is on disk is in memory.
PlanInv ==
  /\ SameRecords(endpoints, disk) /\ AllPlain(endpoints) /\ AllPlain(disk)
  /\ Running \/ calls = {}
  /\ boot.stage = "addresses" => Filling
  /\ boot.stage # "addresses" => Plan(disk, endpoints) /\ ToldFrom(endpoints)

\* load finds all of a file whose names are plain.
LEMMA LoadPlain ==
  ASSUME NEW recs \in Seq(Records), AllPlain(recs), NEW found \in Load(recs)
  PROVE  found = recs
<1>1. PICK n \in 0 .. Len(recs) : found = SubSeq(recs, 1, n) /\ Found(recs, n)
  BY DEF Load
<1>2. Len(recs) \in Nat /\ DOMAIN recs = 1 .. Len(recs)
  BY LenProperties
<1>3. n = Len(recs)
  <2>1. n \in Nat /\ n <= Len(recs)
    BY <1>2
  <2>2. ~(n < Len(recs))
    <3> SUFFICES ASSUME n < Len(recs) PROVE FALSE
      OBVIOUS
    <3>1. n + 1 \in DOMAIN recs
      BY <1>2, <2>1
    <3> QED BY <1>1, <3>1, RegistryAssumption DEF Found, AllPlain
  <2>3. Len(recs) \in Nat
    BY <1>2
  <2> DEFINE len == Len(recs)
  <2> HIDE DEF len
  <2>4. len \in Nat /\ n \in Nat /\ n <= len /\ ~(n < len) => n = len
    OBVIOUS
  <2> QED BY <2>1, <2>2, <2>3, <2>4 DEF len
<1> QED BY <1>1, <1>3, SubSeqFull

\* The allocator's answer is one index, and None when the pool is used up only.
LEMMA OneAnswer ==
  ASSUME NEW used
  PROVE  /\ \A a, b \in Allocate(used) : a = b
         /\ \A a \in Allocate(used) : Cidrs(a) = <<>> => Pool \subseteq used
         /\ Pool \subseteq used => Allocate(used) = {None}
<1>1. Pool \subseteq Nat
  BY IpamAssumption DEF Pool, FIRST_NODE_INDEX
<1>2. \A a, b \in LowestFree(used) : a = b
  BY <1>1 DEF LowestFree
<1>3. \A a \in LowestFree(used) : a # None
  BY <1>1, IpamAssumption DEF LowestFree
<1>4. \A a : a # None => Cidrs(a) # <<>>
  BY DEF Cidrs
<1> QED BY <1>2, <1>3, <1>4 DEF Allocate

\* Two plans that agree before a record agree on it.
LEMMA Determined ==
  ASSUME NEW d, NEW p, NEW q, NEW i \in DOMAIN d, DOMAIN p = DOMAIN q,
         Turn(d, p, i), Turn(d, q, i),
         \A j \in DOMAIN p : j < i => p[j].ips = q[j].ips
  PROVE  p[i].ips = q[i].ips
<1>1. \A j \in DOMAIN p : j < i => OverlayIndices(p[j]) = OverlayIndices(q[j])
  BY DEF OverlayIndices
<1>2. UsedBefore(d, p, i) = UsedBefore(d, q, i)
  BY <1>1 DEF UsedBefore
<1> QED BY <1>2, OneAnswer DEF Turn

\* A turn looks at the addresses of the records up to its own.
LEMMA TurnKept ==
  ASSUME NEW d, NEW p, NEW q, NEW i \in DOMAIN d, DOMAIN p = DOMAIN q,
         Turn(d, p, i), p[i].ips = q[i].ips,
         \A j \in DOMAIN p : j < i => p[j].ips = q[j].ips
  PROVE  Turn(d, q, i)
<1>1. \A j \in DOMAIN p : j < i => OverlayIndices(p[j]) = OverlayIndices(q[j])
  BY DEF OverlayIndices
<1>2. UsedBefore(d, p, i) = UsedBefore(d, q, i)
  BY <1>1 DEF UsedBefore
<1> QED BY <1>2 DEF Turn

\* A record that a plan leaves without an address shows the pool to be used up.
LEMMA Exhausted ==
  ASSUME NEW d, NEW p, Plan(d, p), NEW i \in DOMAIN p, p[i].ips = <<>>
  PROVE  Pool \subseteq UsedIndices(p)
<1>1. d[i].ips = <<>> /\ Pool \subseteq UsedBefore(d, p, i)
  BY OneAnswer DEF Plan, Turn
<1>2. ASSUME NEW j \in DOMAIN d PROVE OverlayIndices(d[j]) \subseteq UsedIndices(p)
  <2>1. CASE d[j].ips = <<>>
    BY <2>1 DEF OverlayIndices
  <2>2. CASE d[j].ips # <<>>
    <3>1. p[j].ips = d[j].ips /\ j \in DOMAIN p
      BY <2>2 DEF Plan, Turn
    <3> QED BY <3>1 DEF UsedIndices, OverlayIndices
  <2> QED BY <2>1, <2>2
<1>3. UsedIndices(d) \subseteq UsedIndices(p)
  BY <1>2 DEF UsedIndices
<1>4. UsedBefore(d, p, i) \subseteq UsedIndices(p)
  BY <1>3 DEF UsedBefore, UsedIndices
<1> QED BY <1>1, <1>4

\* A list that ran once through the loop is left as it is by a second run.
LEMMA Settled ==
  ASSUME NEW q, \A i \in DOMAIN q : q[i].ips = <<>> => Pool \subseteq UsedIndices(q)
  PROVE  Plan(q, q)
<1> SUFFICES ASSUME NEW i \in DOMAIN q, q[i].ips = <<>> PROVE Turn(q, q, i)
  BY DEF Plan, Turn
<1>1. Pool \subseteq UsedBefore(q, q, i)
  BY DEF UsedBefore
<1>2. None \in Allocate(UsedBefore(q, q, i)) /\ Cidrs(None) = <<>>
  BY <1>1, OneAnswer DEF Cidrs
<1> QED BY <1>2 DEF Turn

\* So saving it makes it its own plan, also when other fields have changed.
LEMMA PlanSaved ==
  ASSUME NEW d, NEW p, Plan(d, p), NEW q, DOMAIN q = DOMAIN p,
         \A i \in DOMAIN p : q[i].ips = p[i].ips
  PROVE  Plan(d, q) /\ Plan(q, q)
<1>1. \A i \in DOMAIN p : OverlayIndices(q[i]) = OverlayIndices(p[i])
  BY DEF OverlayIndices
<1>2. UsedIndices(q) = UsedIndices(p)
  BY <1>1 DEF UsedIndices
<1>3. Plan(q, q)
  BY <1>2, Exhausted, Settled
<1>4. Plan(d, q)
  BY TurnKept DEF Plan
<1> QED BY <1>3, <1>4

\* What was told stays true of a list with the same addresses, or more of them.
LEMMA StillTold ==
  ASSUME NEW p, NEW q, DOMAIN p \subseteq DOMAIN q,
         \A i \in DOMAIN p : p[i].ips # <<>> => q[i].ips = p[i].ips,
         ToldFrom(p)
  PROVE  ToldFrom(q)
BY DEF ToldFrom, Tell

\* The steps after the first loop that add no record: they may change tokens and
\* flags, save or not, and tell what is in memory.
LEMMA StepsInPlace ==
  ASSUME PlanInv, boot.stage # "addresses", boot'.stage # "addresses",
         Running' \/ calls' = {},
         Unmoved(endpoints, endpoints'),
         disk' \in {disk, endpoints'},
         told' \subseteq told \cup Tell(endpoints, DOMAIN endpoints)
  PROVE  PlanInv'
<1>1. Plan(disk, endpoints') /\ Plan(endpoints', endpoints')
  BY PlanSaved DEF PlanInv, Unmoved
<1>2. Plan(disk, endpoints)'
  BY <1>1
<1>3. ToldFrom(endpoints)'
  BY DEF PlanInv, ToldFrom, Tell, Unmoved
<1>4. AllPlain(endpoints)' /\ AllPlain(disk)'
  BY DEF PlanInv, AllPlain, Unmoved
<1>5. SameRecords(endpoints, disk)'
  BY DEF PlanInv, SameRecords, Unmoved
<1> QED BY <1>2, <1>3, <1>4, <1>5 DEF PlanInv

\* A record with one field changed keeps the others: its addresses,
LEMMA AddressChanged ==
  ASSUME NEW recs \in Seq(Records), NEW id \in DOMAIN recs, NEW x
  PROVE  Readdressed(recs, [recs EXCEPT ![id].ips = x], id, x)
<1> DEFINE r   == [recs[id] EXCEPT !.ips = x]
           new == [recs EXCEPT ![id] = r]
<1>1. recs[id] \in Records
  BY ElementOfSeq
<1>2. /\ r.key = recs[id].key /\ r.tenant = recs[id].tenant
      /\ r.name = recs[id].name /\ r.ips = x
  BY <1>1 DEF Records
<1> HIDE DEF r
<1>3. /\ DOMAIN new = DOMAIN recs
      /\ \A i \in DOMAIN recs : new[i] = IF i = id THEN r ELSE recs[i]
  OBVIOUS
<1> HIDE DEF new
<1>4. Readdressed(recs, new, id, x)
  BY <1>2, <1>3 DEF Readdressed
<1>5. new = [recs EXCEPT ![id].ips = x]
  BY DEF new, r
<1> QED BY <1>4, <1>5, Zenon

\* its token,
LEMMA TokenChanged ==
  ASSUME NEW recs \in Seq(Records), NEW id \in DOMAIN recs, NEW x
  PROVE  Unmoved(recs, [recs EXCEPT ![id].token = x])
<1> DEFINE r   == [recs[id] EXCEPT !.token = x]
           new == [recs EXCEPT ![id] = r]
<1>1. recs[id] \in Records
  BY ElementOfSeq
<1>2. /\ r.key = recs[id].key /\ r.tenant = recs[id].tenant
      /\ r.name = recs[id].name /\ r.ips = recs[id].ips
  BY <1>1 DEF Records
<1> HIDE DEF r
<1>3. /\ DOMAIN new = DOMAIN recs
      /\ \A i \in DOMAIN recs : new[i] = IF i = id THEN r ELSE recs[i]
  OBVIOUS
<1> HIDE DEF new
<1>4. Unmoved(recs, new)
  BY <1>2, <1>3 DEF Unmoved
<1>5. new = [recs EXCEPT ![id].token = x]
  BY DEF new, r
<1> QED BY <1>4, <1>5, Zenon

\* and whether it is active.
LEMMA FlagChanged ==
  ASSUME NEW recs \in Seq(Records), NEW id \in DOMAIN recs, NEW x
  PROVE  Unmoved(recs, [recs EXCEPT ![id].active = x])
<1> DEFINE r   == [recs[id] EXCEPT !.active = x]
           new == [recs EXCEPT ![id] = r]
<1>1. recs[id] \in Records
  BY ElementOfSeq
<1>2. /\ r.key = recs[id].key /\ r.tenant = recs[id].tenant
      /\ r.name = recs[id].name /\ r.ips = recs[id].ips
  BY <1>1 DEF Records
<1> HIDE DEF r
<1>3. /\ DOMAIN new = DOMAIN recs
      /\ \A i \in DOMAIN recs : new[i] = IF i = id THEN r ELSE recs[i]
  OBVIOUS
<1> HIDE DEF new
<1>4. Unmoved(recs, new)
  BY <1>2, <1>3 DEF Unmoved
<1>5. new = [recs EXCEPT ![id].active = x]
  BY DEF new, r
<1> QED BY <1>4, <1>5, Zenon

\* The first start finds a plain file.
LEMMA InitPlan == PlainNames /\ Init /\ misreads = 0 => PlanInv
<1> SUFFICES ASSUME PlainNames, Init, misreads = 0 PROVE PlanInv
  OBVIOUS
<1>1. disk \in Seq(Records) /\ AllPlain(disk)
  BY RegistryAssumption DEF Init, PlainNames, AllPlain
<1>2. endpoints = disk
  BY <1>1, LoadPlain DEF Init
<1>3. boot.stage = "addresses" /\ boot.next = 1
  BY DEF Init, Stage
<1>4. \A i \in DOMAIN disk : ~(i < 1)
  BY <1>1, LenProperties
<1>5. Filling
  BY <1>2, <1>3, <1>4 DEF Init, Filling
<1> QED BY <1>1, <1>2, <1>3, <1>5 DEF Init, PlanInv, SameRecords

\* A turn of the first loop follows the plan.
LEMMA BackfillAddressPlan == Inv /\ PlanInv /\ BackfillAddress => PlanInv'
<1> SUFFICES ASSUME Inv, PlanInv, BackfillAddress PROVE PlanInv'
  OBVIOUS
<1> DEFINE n == boot.next
<1>1. /\ boot.stage = "addresses" /\ boot'.stage = "addresses" /\ boot'.next = n + 1
      /\ n \in DOMAIN endpoints /\ n \in Nat /\ DOMAIN endpoints \subseteq Nat
      /\ endpoints \in Seq(Records)
      /\ UNCHANGED <<disk, calls, told>>
  <2>1. boot \in Stages /\ boot.stage = "addresses" /\ endpoints \in Seq(Records)
    BY DEF BackfillAddress, Inv, TypeOK
  <2>2. boot' \in {[boot EXCEPT !.next = @ + 1], [boot EXCEPT !.next = @ + 1, !.changed = TRUE]}
    BY DEF BackfillAddress
  <2>3. boot'.stage = boot.stage /\ boot'.next = boot.next + 1
    BY <2>1, <2>2 DEF Stages
  <2>4. DOMAIN endpoints \subseteq Nat
    BY <2>1, LenProperties
  <2> QED BY <2>1, <2>3, <2>4 DEF BackfillAddress, history
<1>2. PICK index \in (IF endpoints[n].ips = <<>>
                      THEN Allocate(UsedIndices(endpoints)) ELSE {None}) :
        IF index = None THEN UNCHANGED endpoints
        ELSE endpoints' = [endpoints EXCEPT ![n].ips = <<index>>]
  BY DEF BackfillAddress
<1>3. /\ DOMAIN endpoints' = DOMAIN endpoints
      /\ \A i \in DOMAIN endpoints :
           /\ endpoints'[i].key = endpoints[i].key /\ endpoints'[i].tenant = endpoints[i].tenant
           /\ endpoints'[i].name = endpoints[i].name
           /\ i # n => endpoints'[i].ips = endpoints[i].ips
      /\ endpoints'[n].ips = IF endpoints[n].ips = <<>> THEN Cidrs(index) ELSE endpoints[n].ips
  <2>1. CASE index = None
    <3>1. endpoints' = endpoints /\ (endpoints[n].ips = <<>> => Cidrs(index) = endpoints[n].ips)
      BY <1>2, <2>1 DEF Cidrs
    <3> QED BY <1>1, <3>1
  <2>2. CASE index # None
    <3>1. /\ endpoints[n].ips = <<>> /\ Cidrs(index) = <<index>>
          /\ endpoints' = [endpoints EXCEPT ![n].ips = <<index>>]
      BY <1>2, <2>2 DEF Cidrs
    <3>2. n \in DOMAIN endpoints /\ endpoints \in Seq(Records)
      BY <1>1
    <3>3. Readdressed(endpoints, endpoints', n, <<index>>)
      BY <3>1, <3>2, AddressChanged, Zenon
    <3> QED BY <1>1, <3>1, <3>3 DEF Readdressed
  <2> QED BY <2>1, <2>2
<1> HIDE DEF n
<1>4. /\ \A i \in DOMAIN disk : (i < n => Turn(disk, endpoints, i))
                             /\ (~(i < n) => endpoints[i].ips = disk[i].ips)
      /\ DOMAIN disk = DOMAIN endpoints
  BY <1>1 DEF PlanInv, Filling, SameRecords, n
<1>5. Turn(disk, endpoints', n)
  <2>1. CASE endpoints[n].ips # <<>>
    BY <1>1, <1>3, <1>4, <2>1 DEF Turn
  <2>2. CASE endpoints[n].ips = <<>>
    <3>1. \A i \in DOMAIN disk : i < n /\ disk[i].ips # <<>> => endpoints[i].ips = disk[i].ips
      BY <1>4 DEF Turn
    <3>2. \A j \in DOMAIN disk :
            \/ OverlayIndices(disk[j]) = OverlayIndices(endpoints[j])
            \/ OverlayIndices(disk[j]) = {} /\ j < n
      BY <1>4, <3>1 DEF OverlayIndices
    <3>3. \A j \in DOMAIN endpoints : j < n =>
            OverlayIndices(endpoints'[j]) = OverlayIndices(endpoints[j])
      BY <1>1, <1>3 DEF OverlayIndices
    <3>4. ASSUME NEW j \in DOMAIN endpoints
          PROVE  OverlayIndices(endpoints[j]) \subseteq UsedBefore(disk, endpoints', n)
      <4>1. CASE j < n
        BY <1>3, <3>3, <4>1 DEF UsedBefore
      <4>2. CASE ~(j < n)
        BY <1>4, <3>2, <4>2 DEF UsedBefore, UsedIndices
      <4> QED BY <4>1, <4>2
    <3>5. UsedIndices(endpoints) \subseteq UsedBefore(disk, endpoints', n)
      BY <3>4 DEF UsedIndices
    <3>6. UsedBefore(disk, endpoints', n) \subseteq UsedIndices(endpoints)
      BY <1>3, <1>4, <3>2, <3>3 DEF UsedBefore, UsedIndices
    <3>7. UsedBefore(disk, endpoints', n) = UsedIndices(endpoints)
      BY <3>5, <3>6
    <3> QED BY <1>1, <1>2, <1>3, <1>4, <2>2, <3>7 DEF Turn
  <2> QED BY <2>1, <2>2
<1>6. \A i \in DOMAIN disk : i < n + 1 => Turn(disk, endpoints', i)
  <2> SUFFICES ASSUME NEW i \in DOMAIN disk, i < n PROVE Turn(disk, endpoints', i)
    BY <1>1, <1>4, <1>5
  <2> QED BY <1>1, <1>3, <1>4, TurnKept
<1>7. ASSUME NEW p \in Seq(Records), Plan(disk, p),
             \A i \in DOMAIN disk : i < n => endpoints[i].ips = p[i].ips
      PROVE  \A i \in DOMAIN disk : i < n + 1 => endpoints'[i].ips = p[i].ips
  <2>1. \A j \in DOMAIN endpoints' : j < n => endpoints'[j].ips = p[j].ips
    BY <1>1, <1>3, <1>4, <1>7
  <2>2. Turn(disk, p, n) /\ DOMAIN endpoints' = DOMAIN p /\ n \in DOMAIN disk
    BY <1>1, <1>3, <1>4, <1>7 DEF Plan
  <2>3. endpoints'[n].ips = p[n].ips
    BY <1>5, <2>1, <2>2, Determined
  <2> QED BY <1>1, <1>3, <1>4, <2>1, <2>3
<1>8. \/ told = {}
      \/ \E p \in Seq(Records) :
           /\ Plan(disk, p) /\ DisjointAddresses(p) /\ ToldFrom(p)
           /\ \A i \in DOMAIN disk : i < n + 1 => endpoints'[i].ips = p[i].ips
  BY <1>1, <1>7 DEF PlanInv, Filling, n
<1>9. \A i \in DOMAIN disk : ~(i < n + 1) => endpoints'[i].ips = disk[i].ips
  BY <1>1, <1>3, <1>4
<1>10. Filling'
  BY <1>1, <1>6, <1>8, <1>9 DEF Filling, ToldFrom
<1>11. SameRecords(endpoints, disk)' /\ AllPlain(endpoints)' /\ AllPlain(disk)'
  BY <1>1, <1>3 DEF PlanInv, SameRecords, AllPlain
<1> QED BY <1>1, <1>10, <1>11 DEF PlanInv, Running

\* The end of a loop: the plan is carried out, and saved or not.
LEMMA EndBackfillPlan == Inv /\ PlanInv /\ EndBackfill => PlanInv'
<1> SUFFICES ASSUME Inv, PlanInv, EndBackfill PROVE PlanInv'
  OBVIOUS
<1>1. /\ UNCHANGED <<endpoints, calls, told>> /\ disk' \in {disk, endpoints}
      /\ boot'.stage # "addresses" /\ calls = {}
  BY DEF EndBackfill, history, Save, Stage, PlanInv
<1>2. Plan(disk, endpoints) /\ ToldFrom(endpoints)
  <2>1. CASE boot.stage # "addresses"
    BY <2>1 DEF PlanInv
  <2>2. CASE boot.stage = "addresses"
    <3>1. DOMAIN endpoints = DOMAIN disk /\ \A i \in DOMAIN disk : i < boot.next
      <4>1. boot.next \in Nat \ {0} /\ boot.next \notin DOMAIN endpoints
        BY NextTurn DEF EndBackfill, Inv, TypeOK
      <4>2. DOMAIN endpoints = 1 .. Len(endpoints) /\ Len(endpoints) \in Nat
        BY LenProperties DEF Inv, TypeOK
      <4> QED BY <4>1, <4>2 DEF PlanInv, SameRecords
    <3>2. Plan(disk, endpoints)
      BY <2>2, <3>1 DEF PlanInv, Filling, Plan
    <3>3. CASE told = {}
      BY <3>2, <3>3 DEF ToldFrom
    <3>4. CASE told # {}
      <4>1. PICK p \in Seq(Records) :
              /\ Plan(disk, p) /\ ToldFrom(p)
              /\ \A i \in DOMAIN disk : endpoints[i].ips = p[i].ips
        BY <2>2, <3>1, <3>4 DEF PlanInv, Filling
      <4>2. DOMAIN p = DOMAIN endpoints
        BY <3>1, <4>1 DEF Plan
      <4>3. ToldFrom(endpoints)
        BY <3>1, <4>1, <4>2, StillTold
      <4> QED BY <3>2, <4>3
    <3> QED BY <3>3, <3>4
  <2> QED BY <2>1, <2>2
<1>3. Plan(endpoints, endpoints)
  BY <1>2, PlanSaved
<1>4. Plan(disk, endpoints)'
  BY <1>1, <1>2, <1>3
<1>5. ToldFrom(endpoints)'
  BY <1>1, <1>2 DEF ToldFrom
<1>6. SameRecords(endpoints, disk)' /\ AllPlain(endpoints)' /\ AllPlain(disk)'
  BY <1>1 DEF PlanInv, SameRecords, AllPlain
<1> QED BY <1>1, <1>4, <1>5, <1>6 DEF PlanInv

\* A restart begins the loop anew, on the same list, with the same plan.
LEMMA RestartPlan == Inv /\ PlanInv /\ Restart /\ misreads' = misreads => PlanInv'
<1> SUFFICES ASSUME Inv, PlanInv, Restart, misreads' = misreads PROVE PlanInv'
  OBVIOUS
<1>1. disk \in Seq(Records) /\ endpoints \in Seq(Records) /\ AllPlain(disk)
  BY DEF Inv, TypeOK, PlanInv
<1>2. endpoints' = disk
  <2>1. misreads \in Nat
    BY DEF Inv, TypeOK
  <2>2. endpoints' \in Load(disk)
    BY <2>1 DEF Restart
  <2> QED BY <1>1, <2>2, LoadPlain
<1>3. /\ UNCHANGED <<disk, told>> /\ calls' = {}
      /\ boot'.stage = "addresses" /\ boot'.next = 1
  BY DEF Restart, history, Stage
<1>4. \A i \in DOMAIN disk : ~(i < 1)
  BY <1>1, LenProperties
<1>5. \/ told = {}
      \/ \E p \in Seq(Records) : Plan(disk, p) /\ DisjointAddresses(p) /\ ToldFrom(p)
  <2>1. CASE boot.stage = "addresses"
    BY <2>1 DEF PlanInv, Filling
  <2>2. CASE boot.stage # "addresses"
    BY <1>1, <2>2 DEF PlanInv, Inv, Sound
  <2> QED BY <2>1, <2>2
<1>6. Filling'
  BY <1>2, <1>3, <1>4, <1>5 DEF Filling, ToldFrom
<1> QED BY <1>1, <1>2, <1>3, <1>6 DEF PlanInv, SameRecords

\* Enrolment appends a record, whose address is new, and saves; or does nothing.
LEMMA EnrollPlan ==
  ASSUME PlainNames, Inv, PlanInv, NEW tenant \in Owners, NEW key \in Keys, NEW name \in Names,
         NEW supplied \in Supplied, Enroll(tenant, key, name, supplied)
  PROVE  PlanInv'
<1>1. PICK index \in ChooseForEnrollment(supplied, UsedIndices(endpoints)), ok \in BOOLEAN :
        LET pushed == Append(endpoints, NewRecord(tenant, key, name, index)) IN
        /\ Save(ok, pushed)
        /\ endpoints' = PushedIf(ok, pushed)
        /\ told' = IF ok THEN told \cup Tell(pushed, {Len(pushed)}) ELSE told
  BY DEF Enroll
<1>2. /\ Running /\ boot' = boot /\ calls' = calls /\ boot.stage # "addresses"
      /\ Plan(disk, endpoints) /\ ToldFrom(endpoints)
      /\ endpoints \in Seq(Records) /\ drawn \in Nat
  BY DEF Enroll, Running, PlanInv, Inv, TypeOK
<1>3. CASE ~ok
  <2>1. UNCHANGED <<endpoints, disk, told>>
    BY <1>1, <1>3 DEF Save, PushedIf
  <2> QED BY <1>2, <2>1, StepsInPlace DEF Running, Unmoved
<1>4. CASE ok
  <2> DEFINE rec == NewRecord(tenant, key, name, index)
             pushed == Append(endpoints, rec)
             n == Len(endpoints) + 1
  <2>1. endpoints' = pushed /\ disk' = pushed /\ told' = told \cup Tell(pushed, {Len(pushed)})
    BY <1>1, <1>4 DEF Save, PushedIf
  <2>2. index \in Indices \cup {None}
    BY ChosenIsFree
  <2>3. rec \in Records /\ rec.name = Plain /\ rec.ips = Cidrs(index)
    <3>1. rec \in Records
      BY <1>2, <2>2, NewIsRecord DEF Tenants
    <3>2. rec.name = Plain /\ rec.ips = Cidrs(index)
      BY DEF NewRecord, PlainNames
    <3> QED BY <3>1, <3>2
  <2>4. /\ Len(pushed) = n /\ DOMAIN pushed = DOMAIN endpoints \cup {n} /\ n \notin DOMAIN endpoints
        /\ \A i \in DOMAIN endpoints : pushed[i] = endpoints[i]
        /\ pushed[n] = rec
    BY <1>2, <2>3, Appended
  <2> HIDE DEF rec, pushed, n
  <2>5. UsedIndices(endpoints) \subseteq UsedIndices(pushed)
    BY <2>4 DEF UsedIndices
  <2>6. ASSUME NEW i \in DOMAIN pushed, pushed[i].ips = <<>>
        PROVE  Pool \subseteq UsedIndices(pushed)
    <3>1. CASE i \in DOMAIN endpoints
      BY <1>2, <2>4, <2>5, <2>6, <3>1, Exhausted
    <3>2. CASE i = n
      <4>1. Cidrs(index) = <<>>
        BY <2>3, <2>4, <2>6, <3>2
      <4>2. supplied \notin Pool \ UsedIndices(endpoints)
        BY <4>1, IpamAssumption DEF ChooseForEnrollment, Cidrs, Pool, FIRST_NODE_INDEX
      <4>3. index \in Allocate(UsedIndices(endpoints))
        BY <4>2 DEF ChooseForEnrollment
      <4> QED BY <2>5, <4>1, <4>3, OneAnswer
    <3> QED BY <2>4, <3>1, <3>2
  <2>7. Plan(pushed, pushed)
    BY <2>6, Settled
  <2>8. ToldFrom(pushed)
    BY <1>2, <2>4, StillTold
  <2>9. ToldFrom(endpoints)'
    BY <2>1, <2>4, <2>8 DEF ToldFrom, Tell
  <2>10. AllPlain(pushed)
    BY <2>3, <2>4 DEF PlanInv, AllPlain
  <2>11. SameRecords(endpoints, disk)' /\ AllPlain(endpoints)' /\ AllPlain(disk)'
    BY <2>1, <2>10 DEF SameRecords, AllPlain
  <2>12. Plan(disk, endpoints)'
    BY <2>1, <2>7
  <2> QED BY <1>2, <2>9, <2>11, <2>12 DEF PlanInv, Running
<1> QED BY <1>3, <1>4

\* The other requests of an owner.
LEMMA OwnerPlan ==
  ASSUME PlainNames, Inv, PlanInv, NEW tenant \in Owners, Owner(tenant)
  PROVE  PlanInv'
<1>1. endpoints \in Seq(Records)
  BY DEF Inv, TypeOK
<1>2. ASSUME NEW key \in Keys, AlreadyEnrolled(tenant, key)
      PROVE  PlanInv'
  <2>1. PICK id \in Enrolled(tenant, key) : told' = told \cup Tell(endpoints, {id})
    BY <1>2 DEF AlreadyEnrolled
  <2>2. told' \subseteq told \cup Tell(endpoints, DOMAIN endpoints)
    BY <2>1 DEF Enrolled, Tell
  <2>3. Running /\ UNCHANGED <<endpoints, disk, boot, calls>>
    BY <1>2 DEF AlreadyEnrolled, registry
  <2> QED BY <2>2, <2>3, StepsInPlace DEF Running, Unmoved
<1>3. ASSUME NEW id \in Ids, DeleteEndpoint(tenant, id)
      PROVE  PlanInv'
  <2>1. /\ Running /\ UNCHANGED <<boot, calls, told>> /\ id \in DOMAIN endpoints
        /\ endpoints' = [endpoints EXCEPT ![id].active = FALSE]
        /\ disk' \in {disk, endpoints'}
    BY <1>3 DEF DeleteEndpoint, Mine, Active, Save
  <2>2. Unmoved(endpoints, endpoints')
    BY <1>1, <2>1, FlagChanged, Zenon
  <2> QED BY <2>1, <2>2, StepsInPlace DEF Running
<1>4. ASSUME NEW id \in Ids, RotateToken(tenant, id)
      PROVE  PlanInv'
  <2>1. /\ Running /\ UNCHANGED <<boot, calls, told>> /\ id \in DOMAIN endpoints
        /\ endpoints' = [endpoints EXCEPT ![id].token = drawn']
        /\ disk' \in {disk, endpoints'}
    BY <1>4 DEF RotateToken, Mine, Active, Save
  <2>2. Unmoved(endpoints, endpoints')
    BY <1>1, <2>1, TokenChanged, Zenon
  <2> QED BY <2>1, <2>2, StepsInPlace DEF Running
<1>5. ASSUME NEW id \in Ids, HeartbeatOwner(tenant, id)
      PROVE  PlanInv'
  <2>1. Running /\ UNCHANGED <<endpoints, disk, boot, calls, told>>
    BY <1>5 DEF HeartbeatOwner, history
  <2> QED BY <2>1, StepsInPlace DEF Running, Unmoved
<1> QED BY <1>2, <1>3, <1>4, <1>5, EnrollPlan DEF Owner

\* A turn of the second loop.
LEMMA BackfillTokenPlan == Inv /\ PlanInv /\ BackfillToken => PlanInv'
<1> SUFFICES ASSUME Inv, PlanInv, BackfillToken PROVE PlanInv'
  OBVIOUS
<1>1. /\ boot.stage = "tokens" /\ boot'.stage = "tokens"
      /\ boot.next \in DOMAIN endpoints /\ endpoints \in Seq(Records)
      /\ UNCHANGED <<disk, calls, told>> /\ calls = {}
  BY DEF BackfillToken, history, Inv, TypeOK, Stages, PlanInv, Running
<1>2. \/ endpoints' = endpoints
      \/ endpoints' = [endpoints EXCEPT ![boot.next].token = drawn']
  BY DEF BackfillToken
<1>3. Unmoved(endpoints, endpoints')
  <2>1. CASE endpoints' = endpoints
    BY <2>1 DEF Unmoved
  <2>2. CASE endpoints' = [endpoints EXCEPT ![boot.next].token = drawn']
    BY <1>1, <2>2, TokenChanged, Zenon
  <2> QED BY <1>2, <2>1, <2>2
<1> QED BY <1>1, <1>3, StepsInPlace

\* The two steps of node-token requests, of a running process only.
LEMMA NodePlan ==
  ASSUME Inv, PlanInv,
         \/ \E token \in 1 .. drawn, op \in {"peermap", "heartbeat"} : AuthNode(token, op)
         \/ \E call \in calls : HeartbeatToken(call) \/ Peermap(call)
  PROVE  PlanInv'
<1>1. Running /\ UNCHANGED <<endpoints, disk, boot>>
  BY DEF AuthNode, HeartbeatToken, Peermap, PlanInv
<1>2. told' \subseteq told \cup Tell(endpoints, DOMAIN endpoints)
  BY DEF AuthNode, HeartbeatToken, Peermap, history, Tell
<1> QED BY <1>1, <1>2, StepsInPlace DEF Running, Unmoved

\* Every step keeps the plan.
LEMMA NextPlan ==
  PlainNames /\ Inv /\ PlanInv /\ [Next]_vars /\ misreads' = misreads => PlanInv'
<1> SUFFICES ASSUME PlainNames, Inv, PlanInv, [Next]_vars, misreads' = misreads PROVE PlanInv'
  OBVIOUS
<1>1. CASE UNCHANGED vars
  <2>1. UNCHANGED <<endpoints, disk, boot, calls, told>>
    BY <1>1 DEF vars
  <2> QED BY <2>1 DEF PlanInv, Running, Filling, ToldFrom, SameRecords, AllPlain
<1> QED BY <1>1, BackfillAddressPlan, BackfillTokenPlan, EndBackfillPlan, RestartPlan,
           OwnerPlan, NodePlan DEF Next

\* The first start finds what is on disk, or part of it.
LEMMA InitMirrored == PlainNames /\ Init => Mirrored
<1> SUFFICES ASSUME PlainNames, Init PROVE Mirrored
  OBVIOUS
<1>1. disk \in Seq(Records) /\ AllPlain(disk)
  BY RegistryAssumption DEF Init, PlainNames, AllPlain
<1>2. endpoints \in Load(disk) \cup Cut(disk)
  BY DEF Init
<1>3. DOMAIN endpoints \subseteq DOMAIN disk /\ \A i \in DOMAIN endpoints : endpoints[i] = disk[i]
  BY <1>1, <1>2, LoadIsPrefix
<1> QED BY <1>1, <1>3 DEF Mirrored, AllPlain

\* The steps that add no record, and save or not.
LEMMA MirroredInPlace ==
  ASSUME Mirrored, disk' \in {disk, endpoints'},
         DOMAIN endpoints' = DOMAIN endpoints,
         \A i \in DOMAIN endpoints :
           /\ endpoints'[i].key = endpoints[i].key /\ endpoints'[i].tenant = endpoints[i].tenant
           /\ endpoints'[i].name = endpoints[i].name
  PROVE  Mirrored' /\ Kept
<1>1. Kept
  BY DEF Kept
<1>2. AllPlain(endpoints)' /\ AllPlain(disk)'
  BY DEF Mirrored, AllPlain
<1>3. Mirrored'
  BY <1>2 DEF Mirrored
<1> QED BY <1>1, <1>3

\* No step loses a record but a restart that reads part of the file only.
LEMMA NextMirrored ==
  PlainNames /\ Inv /\ Mirrored /\ [Next]_vars => Mirrored' /\ (misreads' = misreads => Kept)
<1> SUFFICES ASSUME PlainNames, Inv, Mirrored, [Next]_vars
             PROVE  Mirrored' /\ (misreads' = misreads => Kept)
  OBVIOUS
<1>1. endpoints \in Seq(Records) /\ disk \in Seq(Records) /\ misreads \in Nat /\ AllPlain(disk)
  BY DEF Inv, TypeOK, Mirrored
<1>2. ASSUME endpoints' = endpoints, disk' \in {disk, endpoints'}
      PROVE  Mirrored' /\ Kept
  BY <1>2, MirroredInPlace
<1>3. ASSUME Unmoved(endpoints, endpoints'), disk' \in {disk, endpoints'}
      PROVE  Mirrored' /\ Kept
  BY <1>3, MirroredInPlace DEF Unmoved
<1>4. CASE BackfillAddress
  <2>1. disk' = disk
    BY <1>4 DEF BackfillAddress
  <2>2. ASSUME boot.next \in DOMAIN endpoints,
               NEW index, endpoints' = [endpoints EXCEPT ![boot.next].ips = <<index>>]
        PROVE  Mirrored' /\ Kept
    <3>1. Readdressed(endpoints, endpoints', boot.next, <<index>>)
      BY <1>1, <2>2, AddressChanged, Zenon
    <3> QED BY <2>1, <3>1, MirroredInPlace DEF Readdressed
  <2> QED BY <1>2, <1>4, <2>1, <2>2 DEF BackfillAddress
<1>5. CASE Restart
  <2>1. endpoints' \in Load(disk) \cup Cut(disk) /\ disk' = disk
    BY <1>5 DEF Restart
  <2>2. /\ DOMAIN endpoints' \subseteq DOMAIN disk
        /\ \A i \in DOMAIN endpoints' : endpoints'[i] = disk[i]
    BY <1>1, <2>1, LoadIsPrefix
  <2>3. AllPlain(endpoints)' /\ AllPlain(disk)'
    BY <1>1, <2>1, <2>2 DEF AllPlain
  <2>4. Mirrored'
    BY <2>1, <2>2, <2>3 DEF Mirrored
  <2>5. ASSUME misreads' = misreads PROVE Kept
    <3>1. endpoints' \in Load(disk)
      BY <1>1, <1>5, <2>5 DEF Restart
    <3>2. endpoints' = disk
      BY <1>1, <3>1, LoadPlain
    <3> QED BY <3>2 DEF Mirrored, Kept
  <2> QED BY <2>4, <2>5
<1>6. ASSUME NEW tenant \in Owners, Owner(tenant)
      PROVE  Mirrored' /\ Kept
  <2>1. ASSUME NEW key \in Keys, NEW name \in Names, NEW supplied \in Supplied,
               Enroll(tenant, key, name, supplied)
        PROVE  Mirrored' /\ Kept
    <3>1. PICK index \in ChooseForEnrollment(supplied, UsedIndices(endpoints)), ok \in BOOLEAN :
            LET pushed == Append(endpoints, NewRecord(tenant, key, name, index)) IN
            Save(ok, pushed) /\ endpoints' = PushedIf(ok, pushed)
      BY <2>1 DEF Enroll
    <3>2. CASE ~ok
      BY <1>2, <3>1, <3>2 DEF Save, PushedIf
    <3>3. CASE ok
      <4> DEFINE rec == NewRecord(tenant, key, name, index)
                 pushed == Append(endpoints, rec)
      <4>1. index \in Indices \cup {None} /\ tenant \in Tenants /\ drawn \in Nat
        BY ChosenIsFree DEF Tenants, Inv, TypeOK
      <4>2. rec \in Records
        BY <4>1, NewIsRecord
      <4>3. rec.name = Plain
        BY DEF NewRecord, PlainNames
      <4>4. endpoints' = pushed /\ disk' = pushed
        BY <3>1, <3>3 DEF Save, PushedIf
      <4> HIDE DEF rec
      <4>5. /\ DOMAIN pushed = DOMAIN endpoints \cup {Len(endpoints) + 1}
            /\ \A i \in DOMAIN endpoints : pushed[i] = endpoints[i]
            /\ pushed[Len(endpoints) + 1] = rec
        BY <1>1, <4>2, Appended
      <4> HIDE DEF pushed
      <4>6. AllPlain(endpoints)' /\ AllPlain(disk)'
        BY <4>3, <4>4, <4>5 DEF Mirrored, AllPlain
      <4>7. Mirrored'
        BY <4>4, <4>6 DEF Mirrored
      <4> QED BY <4>4, <4>5, <4>7 DEF Kept
    <3> QED BY <3>2, <3>3
  <2>2. ASSUME NEW id \in Ids, DeleteEndpoint(tenant, id)
        PROVE  Mirrored' /\ Kept
    <3>1. /\ id \in DOMAIN endpoints /\ endpoints' = [endpoints EXCEPT ![id].active = FALSE]
          /\ disk' \in {disk, endpoints'}
      BY <2>2 DEF DeleteEndpoint, Mine, Active, Save
    <3>2. Unmoved(endpoints, endpoints')
      BY <1>1, <3>1, FlagChanged, Zenon
    <3> QED BY <1>3, <3>1, <3>2
  <2>3. ASSUME NEW id \in Ids, RotateToken(tenant, id)
        PROVE  Mirrored' /\ Kept
    <3>1. /\ id \in DOMAIN endpoints /\ endpoints' = [endpoints EXCEPT ![id].token = drawn']
          /\ disk' \in {disk, endpoints'}
      BY <2>3 DEF RotateToken, Mine, Active, Save
    <3>2. Unmoved(endpoints, endpoints')
      BY <1>1, <3>1, TokenChanged, Zenon
    <3> QED BY <1>3, <3>1, <3>2
  <2>4. ASSUME \/ \E key \in Keys : AlreadyEnrolled(tenant, key)
               \/ \E id \in Ids : HeartbeatOwner(tenant, id)
        PROVE  Mirrored' /\ Kept
    BY <1>2, <2>4 DEF AlreadyEnrolled, HeartbeatOwner, registry
  <2> QED BY <1>6, <2>1, <2>2, <2>3, <2>4 DEF Owner
<1>7. CASE BackfillToken
  <2>1. /\ disk' = disk /\ boot.next \in DOMAIN endpoints
        /\ \/ endpoints' = endpoints
           \/ endpoints' = [endpoints EXCEPT ![boot.next].token = drawn']
    BY <1>7 DEF BackfillToken
  <2>2. ASSUME endpoints' = [endpoints EXCEPT ![boot.next].token = drawn']
        PROVE  Unmoved(endpoints, endpoints')
    BY <1>1, <2>1, <2>2, TokenChanged, Zenon
  <2> QED BY <1>2, <1>3, <2>1, <2>2
<1>8. CASE EndBackfill
  BY <1>2, <1>8 DEF EndBackfill, Save
<1>9. CASE \/ \E token \in 1 .. drawn, op \in {"peermap", "heartbeat"} : AuthNode(token, op)
           \/ \E call \in calls : HeartbeatToken(call) \/ Peermap(call)
           \/ UNCHANGED vars
  BY <1>2, <1>9 DEF AuthNode, HeartbeatToken, Peermap, vars
<1> QED BY <1>4, <1>5, <1>6, <1>7, <1>8, <1>9 DEF Next

\* A read cut short is never forgotten.
LEMMA MisreadsGrow == Inv /\ [Next]_vars => misreads \in Nat /\ misreads' \in {misreads, misreads + 1}
<1> SUFFICES ASSUME Inv, [Next]_vars PROVE misreads \in Nat /\ misreads' \in {misreads, misreads + 1}
  OBVIOUS
<1>1. misreads \in Nat
  BY DEF Inv, TypeOK
<1>2. Restart => misreads' \in {misreads, misreads + 1}
  BY DEF Restart
<1>3. ~Restart => misreads' = misreads
  BY DEF Next, BackfillAddress, BackfillToken, EndBackfill, Owner, AlreadyEnrolled, Enroll,
         DeleteEndpoint, RotateToken, HeartbeatOwner, AuthNode, HeartbeatToken, Peermap,
         registry, vars
<1> QED BY <1>1, <1>2, <1>3

\* Both are invariants of a control plane with plain names, the plan as long as the
\* file was always read to its end.
THEOREM PlanKept == ASSUME PlainNames PROVE Spec => [](Mirrored /\ (misreads = 0 => PlanInv))
<1> DEFINE PInv == Mirrored /\ (misreads = 0 => PlanInv)
<1>1. Init => PInv
  BY InitMirrored, InitPlan
<1>2. Inv /\ PInv /\ [Next]_vars => PInv'
  <2> SUFFICES ASSUME Inv, PInv, [Next]_vars PROVE PInv'
    OBVIOUS
  <2>1. Mirrored'
    BY NextMirrored
  <2>2. misreads' = 0 => misreads = 0
    BY MisreadsGrow
  <2>3. misreads' = 0 => PlanInv'
    BY <2>2, NextPlan
  <2> QED BY <2>1, <2>3
<1> QED BY <1>1, <1>2, Invariance, PTL DEF Spec

\* With names the reader reads, an enrolled record stays, with its key and tenant,
\* at its place, unless a start reads part of the file only: "persist before
\* acknowledging" leaves no record in memory only.
THEOREM RecordsStay == ASSUME PlainNames PROVE Spec => NoRecordVanishes
<1>1. Inv /\ Mirrored /\ [Next]_vars => [misreads' = misreads => Kept]_vars
  BY NextMirrored
<1>2. Spec => [][misreads' = misreads => Kept]_vars
  BY <1>1, PlanKept, Invariance, PTL DEF Spec
<1> QED BY <1>2 DEF Kept, NoRecordVanishes

\* Of all that nodes were ever told an address names one node and a node has one
\* address, also when what was allocated was lost and is allocated again.
THEOREM AddressesForGood == ASSUME PlainNames PROVE Spec => []AddressNamesOneNode
<1>1. ASSUME NEW p \in Seq(Records), DisjointAddresses(p), ToldFrom(p)
      PROVE  AddressNamesOneNode
  <2> SUFFICES ASSUME NEW x \in told, NEW y \in told PROVE x.index = y.index <=> x.id = y.id
    BY DEF AddressNamesOneNode
  <2>1. ASSUME NEW z \in told
        PROVE  z.id \in DOMAIN p /\ z.index = p[z.id].ips[1] /\ z.index \in OverlayIndices(p[z.id])
    <3>1. z.id \in DOMAIN p /\ p[z.id].ips # <<>> /\ z.index = p[z.id].ips[1]
      BY <1>1 DEF ToldFrom, Tell
    <3>2. p[z.id].ips \in Seq(Indices)
      BY <3>1, Element
    <3>3. 1 \in DOMAIN p[z.id].ips
      BY <3>1, <3>2
    <3> QED BY <3>1, <3>3 DEF OverlayIndices
  <2> QED BY <1>1, <2>1 DEF DisjointAddresses
<1>2. Inv /\ (misreads = 0 => PlanInv) => AddressNamesOneNode
  <2> SUFFICES ASSUME Inv, misreads = 0, PlanInv PROVE AddressNamesOneNode
    BY DEF AddressNamesOneNode
  <2>1. CASE boot.stage # "addresses"
    BY <1>1, <2>1 DEF PlanInv, Inv, TypeOK, Sound
  <2>2. CASE boot.stage = "addresses"
    BY <1>1, <2>2 DEF PlanInv, Filling, AddressNamesOneNode
  <2> QED BY <2>1, <2>2
<1> QED BY <1>2, PlanKept, Invariance, PTL
=============================================================================
