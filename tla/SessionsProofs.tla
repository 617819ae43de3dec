--------------------------- MODULE SessionsProofs ---------------------------
(***************************************************************************)
(* The safety of Sessions, for any number of threads, pending logins,      *)
(* sessions and restarts.  What makes it inductive: a nonce is in one of   *)
(* three places (pending, one callback, or a finished login), so it leads  *)
(* to one session; and memory and disk hold the same sessions, as far as   *)
(* the property is about, since a restart makes one the other.             *)
(***************************************************************************)
EXTENDS Sessions, FiniteSetTheorems, TLAPS

\* A nonce is pending, or in one callback, or has made its session.
NonceInOnePlace ==
  /\ \A t \in Threads : calls[t] # None => calls[t] \notin pending
  /\ \A t, u \in Threads : calls[t] = calls[u] /\ calls[t] # None => t = u
  /\ \A l \in logins : /\ l.nonce \notin pending
                       /\ \A t \in Threads : calls[t] # l.nonce

\* What was logged out and written is gone from memory and disk.
Gone == \A token \in out : \A r \in sessions \cup file : r.token # token

\* A record that must not be lost.
Lasting(rec) == rec.expires > now /\ rec.token \notin left

\* A session that was written stays in memory and on disk.
Kept == ~harmed => \A rec \in saved : Lasting(rec) => rec \in sessions /\ rec \in file

Inv == TypeOK /\ NonceInOnePlace /\ OneSessionPerLogin /\ Gone /\ Kept

-----------------------------------------------------------------------------
(***************************************************************************)
(* The file, and the pending nonces                                        *)
(***************************************************************************)
\* persist leaves the old file, or live records of the store, and notices when
\* some are missing; a whole write never leaves the old file.
LEMMA PersistLeaves ==
  ASSUME NEW recs, NEW written \in BOOLEAN, harmed \in BOOLEAN, Persist(recs, written)
  PROVE  /\ harmed' \in BOOLEAN
         /\ file' \subseteq recs \/ (~written /\ file' = file)
         /\ ~harmed' => ~harmed /\ (file' = Live(recs) \/ (~written /\ file' = file))
<1>1. \A S \in Readable(Live(recs)) : S \subseteq recs
  BY DEF Readable, Live
<1>2. \A S \in ReadableCut(Live(recs)) : S \subseteq recs
  BY DEF ReadableCut, Live
<1>3. CASE written
  BY <1>1, <1>3 DEF Persist
<1>4. CASE ~written
  BY <1>2, <1>4 DEF Persist
<1> QED BY <1>3, <1>4

\* The pending nonces are finitely many, and with one more still not too many.
LEMMA RoomIsLeft ==
  ASSUME TypeOK, NEW nonce \in 1 .. begun + 1
  PROVE  LET S == Room(pending) \cup {nonce} IN
         /\ S \subseteq 1 .. begun + 1 /\ Cardinality(S) <= MAX_PENDING_STATES
<1>1. begun \in Nat /\ pending \subseteq 1 .. begun /\ IsFiniteSet(1 .. begun)
  BY FS_Interval, SessionsAssumption DEF TypeOK
<1>2. IsFiniteSet(pending) /\ Cardinality(pending) \in Nat
  BY <1>1, FS_Subset, FS_CardinalityType
<1>3. MAX_PENDING_STATES \in Nat \ {0}
  BY SessionsAssumption
<1>4. CASE Cardinality(pending) >= MAX_PENDING_STATES
  <2>1. Room(pending) \cup {nonce} = {nonce}
    BY <1>4 DEF Room
  <2>2. Cardinality({nonce}) = 1
    BY FS_Singleton
  <2> QED BY <1>3, <2>1, <2>2
<1>5. CASE ~(Cardinality(pending) >= MAX_PENDING_STATES)
  <2>1. Room(pending) = pending
    BY <1>5 DEF Room
  <2>2. Cardinality(pending \cup {nonce}) \in {Cardinality(pending), Cardinality(pending) + 1}
    BY <1>2, FS_AddElement, Zenon
  <2>3. Cardinality(pending \cup {nonce}) \in Nat
    BY <1>2, FS_AddElement, FS_CardinalityType
  <2>4. Cardinality(pending \cup {nonce}) <= MAX_PENDING_STATES
    BY <1>2, <1>3, <1>5, <2>2, <2>3
  <2> QED BY <1>1, <2>1, <2>4
<1> QED BY <1>4, <1>5

\* Taking a nonce leaves no more than there were.
LEMMA FewerPending ==
  ASSUME TypeOK, NEW nonce
  PROVE  Taken(nonce) \subseteq 1 .. begun /\ Cardinality(Taken(nonce)) <= MAX_PENDING_STATES
<1>1. pending \subseteq 1 .. begun /\ IsFiniteSet(1 .. begun)
  BY FS_Interval, SessionsAssumption DEF TypeOK
<1>2. IsFiniteSet(pending)
  BY <1>1, FS_Subset
<1>3. /\ IsFiniteSet(pending \ {nonce})
      /\ Cardinality(pending \ {nonce}) <= Cardinality(pending)
  BY <1>2, FS_Subset
<1>4. /\ Cardinality(pending) \in Nat /\ Cardinality(pending \ {nonce}) \in Nat
      /\ Cardinality(pending) <= MAX_PENDING_STATES /\ MAX_PENDING_STATES \in Nat
  BY <1>2, <1>3, FS_CardinalityType, SessionsAssumption DEF TypeOK
<1>5. Cardinality(pending \ {nonce}) <= MAX_PENDING_STATES
  BY <1>3, <1>4
<1> QED BY <1>1, <1>5 DEF Taken

-----------------------------------------------------------------------------
(***************************************************************************)
(* The invariant                                                           *)
(***************************************************************************)
\* It holds at the start.
LEMMA InitInv == Init => Inv
<1> SUFFICES ASSUME Init PROVE Inv
  OBVIOUS
<1> USE DEF Init
<1>1. Cardinality(pending) = 0 /\ MAX_PENDING_STATES \in Nat
  BY FS_EmptySet, SessionsAssumption
<1>2. TypeOK
  <2>1. Cardinality(pending) <= MAX_PENDING_STATES
    BY <1>1
  <2>2. /\ now \in 0 .. MaxTime /\ begun \in 0 .. MaxLogins
        /\ created \in 0 .. MaxSessions /\ restarts \in 0 .. MaxRestarts
    BY SessionsAssumption
  <2>3. left \subseteq 0 .. created
    OBVIOUS
  <2> QED BY <2>1, <2>2, <2>3 DEF TypeOK
<1>3. NonceInOnePlace /\ OneSessionPerLogin /\ Gone /\ Kept
  BY DEF NonceInOnePlace, OneSessionPerLogin, Gone, Kept
<1> QED BY <1>2, <1>3 DEF Inv

\* A login draws a fresh nonce, and may forget the pending ones.
LEMMA LoginInv == Inv /\ Login => Inv'
<1> SUFFICES ASSUME Inv, Login PROVE Inv'
  OBVIOUS
<1> USE DEF Inv, history
<1>1. begun \in Nat /\ begun' = begun + 1 /\ begun' \in 0 .. MaxLogins
  BY SessionsAssumption DEF Login, TypeOK
<1>2. pending' \subseteq 1 .. begun' /\ Cardinality(pending') <= MAX_PENDING_STATES
  BY <1>1, RoomIsLeft DEF Login
<1>3. pending' \subseteq pending \cup {begun + 1}
  BY <1>1 DEF Login, Room
<1>4. UNCHANGED <<now, calls, sessions, file, created, restarts, logins, saved, left, out, harmed>>
  BY DEF Login
<1>5. /\ calls \in [Threads -> (1 .. begun') \cup {None}]
      /\ logins \subseteq [nonce : 1 .. begun', token : 1 .. created]
  <2>1. 1 .. begun \subseteq 1 .. begun'
    BY <1>1
  <2> QED BY <2>1 DEF TypeOK
<1>6. TypeOK'
  BY <1>1, <1>2, <1>4, <1>5 DEF TypeOK, Records
<1>7. NonceInOnePlace'
  <2>1. /\ \A t \in Threads : calls[t] # None => calls[t] # begun + 1
        /\ \A l \in logins : l.nonce # begun + 1
    BY <1>1 DEF TypeOK
  <2> QED BY <1>3, <1>4, <2>1 DEF NonceInOnePlace
<1>8. OneSessionPerLogin' /\ Gone' /\ Kept'
  BY <1>4 DEF OneSessionPerLogin, Gone, Kept, Lasting
<1> QED BY <1>6, <1>7, <1>8

\* The first half of a callback moves a nonce from pending to its thread.
LEMMA CallbackBeginInv ==
  ASSUME Inv, NEW t \in Threads, NEW nonce \in pending, CallbackBegin(t, nonce)
  PROVE  Inv'
<1> USE DEF Inv, history
<1>1. UNCHANGED <<now, begun, sessions, file, created, restarts, logins, saved, left, out, harmed>>
  BY DEF CallbackBegin
<1>2. /\ pending' = pending \ {nonce}
      /\ pending' \subseteq 1 .. begun /\ Cardinality(pending') <= MAX_PENDING_STATES
  BY FewerPending DEF CallbackBegin, Taken
<1>3. /\ calls \in [Threads -> (1 .. begun) \cup {None}] /\ nonce \in 1 .. begun
      /\ calls' = [calls EXCEPT ![t] = nonce]
  BY DEF CallbackBegin, TypeOK
<1>4. TypeOK'
  BY <1>1, <1>2, <1>3 DEF TypeOK, Records
<1>5. NonceInOnePlace'
  BY <1>1, <1>2, <1>3 DEF NonceInOnePlace
<1>6. OneSessionPerLogin' /\ Gone' /\ Kept'
  BY <1>1 DEF OneSessionPerLogin, Gone, Kept, Lasting
<1> QED BY <1>4, <1>5, <1>6

\* A callback that fails drops its nonce.
LEMMA CallbackFailsInv ==
  ASSUME Inv, NEW t \in Threads, CallbackFails(t)
  PROVE  Inv'
<1> USE DEF Inv, history
<1>1. UNCHANGED <<now, begun, pending, sessions, file, created, restarts, logins, saved, left, out, harmed>>
  BY DEF CallbackFails
<1>2. /\ calls \in [Threads -> (1 .. begun) \cup {None}]
      /\ calls' = [calls EXCEPT ![t] = None]
  BY DEF CallbackFails, TypeOK
<1>3. TypeOK'
  BY <1>1, <1>2 DEF TypeOK, Records
<1>4. \A l \in logins : l.nonce # None
  BY SessionsAssumption DEF TypeOK
<1>5. NonceInOnePlace'
  BY <1>1, <1>2, <1>4 DEF NonceInOnePlace
<1>6. OneSessionPerLogin' /\ Gone' /\ Kept'
  BY <1>1 DEF OneSessionPerLogin, Gone, Kept, Lasting
<1> QED BY <1>3, <1>5, <1>6

\* The second half makes the one session of its nonce.
LEMMA CallbackEndInv ==
  ASSUME Inv, NEW t \in Threads, NEW name \in Names, CallbackEnd(t, name)
  PROVE  Inv'
<1> USE DEF Inv
<1> DEFINE rec   == [token |-> created', name |-> name, expires |-> now + TTL]
           login == [nonce |-> calls[t], token |-> created']
<1>1. PICK written \in BOOLEAN :
        /\ Insert(rec, written)
        /\ saved' = IF written THEN saved \cup {rec} ELSE saved
  BY DEF CallbackEnd
<1>2. /\ UNCHANGED <<now, begun, pending, restarts, left, out>>
      /\ calls[t] # None /\ calls' = [calls EXCEPT ![t] = None]
      /\ logins' = logins \cup {login}
  BY DEF CallbackEnd
<1>3. created \in Nat /\ created' = created + 1 /\ created' \in 1 .. MaxSessions
  BY SessionsAssumption DEF CallbackEnd, TypeOK
<1>4. rec \in Records /\ rec.expires > now /\ rec.token = created + 1
  BY <1>3, SessionsAssumption DEF Records, TypeOK
<1>5. sessions' = sessions \cup {rec} /\ Persist(sessions', written)
  BY <1>1 DEF Insert
<1>6. /\ harmed' \in BOOLEAN
      /\ file' \subseteq sessions' \/ (~written /\ file' = file)
      /\ ~harmed' => ~harmed /\ (file' = Live(sessions') \/ (~written /\ file' = file))
  BY <1>5, PersistLeaves DEF TypeOK
<1> HIDE DEF rec
<1>7. TypeOK'
  <2>1. calls' \in [Threads -> (1 .. begun) \cup {None}]
    BY <1>2 DEF TypeOK
  <2>2. login \in [nonce : 1 .. begun, token : 1 .. created']
    BY <1>2, <1>3 DEF TypeOK
  <2>3. logins' \subseteq [nonce : 1 .. begun, token : 1 .. created']
    <3>1. 1 .. created \subseteq 1 .. created' /\ 0 .. created \subseteq 0 .. created'
      BY <1>3
    <3> QED BY <1>2, <2>2, <3>1 DEF TypeOK
  <2>4. sessions' \subseteq Records /\ file' \subseteq Records /\ saved' \subseteq Records
    BY <1>1, <1>4, <1>5, <1>6 DEF TypeOK
  <2>5. left \subseteq 0 .. created' /\ created' \in 0 .. MaxSessions
    BY <1>3, SessionsAssumption DEF TypeOK
  <2> QED BY <1>2, <1>6, <2>1, <2>3, <2>4, <2>5 DEF TypeOK, Records
<1>8. NonceInOnePlace' /\ OneSessionPerLogin'
  <2>1. \A l \in logins : l.nonce # None /\ l.nonce # calls[t]
    BY SessionsAssumption DEF TypeOK, NonceInOnePlace
  <2>2. calls[t] \notin pending
    BY <1>2 DEF NonceInOnePlace
  <2>3. calls'[t] = None /\ \A u \in Threads : u # t => calls'[u] = calls[u]
    BY <1>2 DEF TypeOK
  <2>4. login.nonce = calls[t]
    OBVIOUS
  <2> HIDE DEF login
  <2>5. OneSessionPerLogin'
    BY <1>2, <2>1, <2>4 DEF OneSessionPerLogin
  <2>6. NonceInOnePlace'
    BY <1>2, <2>1, <2>2, <2>3, <2>4 DEF NonceInOnePlace
  <2> QED BY <2>5, <2>6
<1>9. Gone'
  <2>1. \A token \in out : token # rec.token
    BY <1>3, <1>4 DEF TypeOK
  <2>2. file' \subseteq sessions \cup file \cup {rec}
    BY <1>5, <1>6
  <2> QED BY <1>2, <1>5, <2>1, <2>2 DEF Gone
<1>10. Kept'
  <2> SUFFICES ASSUME ~harmed', NEW r \in saved', Lasting(r)' PROVE r \in sessions' /\ r \in file'
    BY DEF Kept
  <2>1. Lasting(r)
    BY <1>2 DEF Lasting
  <2>2. r \in sessions'
    BY <1>1, <1>5, <1>6, <2>1 DEF Kept
  <2>3. CASE file' = Live(sessions')
    BY <2>1, <2>2, <2>3 DEF Live, Lasting
  <2>4. CASE ~written /\ file' = file
    <3>1. r \in saved /\ ~harmed
      BY <1>1, <1>6, <2>4
    <3> QED BY <2>1, <2>2, <2>4, <3>1 DEF Kept
  <2> QED BY <1>6, <2>2, <2>3, <2>4
<1> QED BY <1>7, <1>8, <1>9, <1>10

\* A logout takes its session from memory, and from disk if it is written.
LEMMA LogoutInv ==
  ASSUME Inv, NEW token \in 0 .. created, Logout(token)
  PROVE  Inv'
<1> USE DEF Inv
<1>1. PICK written \in BOOLEAN :
        /\ Remove(token, written)
        /\ out' = IF written THEN out \cup {token} ELSE out
  BY DEF Logout
<1>2. /\ UNCHANGED <<now, begun, pending, calls, created, restarts, logins, saved>>
      /\ left' = left \cup {token}
  BY DEF Logout
<1>3. /\ sessions' = {r \in sessions : r.token # token}
      /\ Persist(sessions', written)
  BY <1>1 DEF Remove
<1>4. /\ harmed' \in BOOLEAN
      /\ file' \subseteq sessions' \/ (~written /\ file' = file)
      /\ ~harmed' => ~harmed /\ (file' = Live(sessions') \/ (~written /\ file' = file))
  BY <1>3, PersistLeaves DEF TypeOK
<1>5. TypeOK'
  BY <1>1, <1>2, <1>3, <1>4 DEF TypeOK, Records
<1>6. NonceInOnePlace' /\ OneSessionPerLogin'
  BY <1>2 DEF NonceInOnePlace, OneSessionPerLogin
<1>7. Gone'
  BY <1>1, <1>3, <1>4 DEF Gone
<1>8. Kept'
  <2> SUFFICES ASSUME ~harmed', NEW r \in saved, Lasting(r)' PROVE r \in sessions' /\ r \in file'
    BY <1>2 DEF Kept
  <2>1. Lasting(r) /\ r.token # token
    BY <1>2 DEF Lasting
  <2>2. r \in sessions' /\ r \in file
    BY <1>3, <1>4, <2>1 DEF Kept
  <2>3. CASE file' = Live(sessions')
    BY <2>1, <2>2, <2>3 DEF Live, Lasting
  <2> QED BY <1>4, <2>2, <2>3
<1> QED BY <1>5, <1>6, <1>7, <1>8

\* Time passes: fewer sessions are alive.
LEMMA TickInv == Inv /\ Tick => Inv'
<1> SUFFICES ASSUME Inv, Tick PROVE Inv'
  OBVIOUS
<1> USE DEF Inv, history
<1>1. /\ UNCHANGED <<begun, pending, calls, sessions, file, created, restarts, logins, saved, left, out, harmed>>
      /\ now \in Nat /\ now' = now + 1 /\ now' \in 0 .. MaxTime
  BY SessionsAssumption DEF Tick, TypeOK
<1>2. TypeOK' /\ NonceInOnePlace' /\ OneSessionPerLogin' /\ Gone'
  BY <1>1 DEF TypeOK, Records, NonceInOnePlace, OneSessionPerLogin, Gone
<1>3. \A r \in Records : r.expires > now' => r.expires > now
  BY <1>1 DEF Records
<1>4. \A r \in saved : Lasting(r)' => Lasting(r)
  BY <1>1, <1>3 DEF Lasting, TypeOK
<1>5. Kept'
  BY <1>1, <1>4 DEF Kept
<1> QED BY <1>2, <1>5

\* A restart makes memory what is alive on disk.
LEMMA RestartInv == Inv /\ Restart => Inv'
<1> SUFFICES ASSUME Inv, Restart PROVE Inv'
  OBVIOUS
<1> USE DEF Inv, history
<1>1. /\ UNCHANGED <<now, begun, file, created, logins, saved, left, out, harmed>>
      /\ pending' = {} /\ calls' = [t \in Threads |-> None]
      /\ sessions' = Live(file) /\ restarts' \in 0 .. MaxRestarts
  BY SessionsAssumption DEF Restart, TypeOK
<1>2. sessions' \subseteq file
  BY <1>1 DEF Live
<1>3. Cardinality({}) = 0
  BY FS_EmptySet
<1>4. TypeOK'
  BY <1>1, <1>2, <1>3, SessionsAssumption DEF TypeOK, Records
<1>5. NonceInOnePlace'
  <2>1. \A l \in logins : l.nonce # None
    BY SessionsAssumption DEF TypeOK
  <2> QED BY <1>1, <2>1 DEF NonceInOnePlace
<1>6. OneSessionPerLogin' /\ Gone'
  BY <1>1, <1>2 DEF OneSessionPerLogin, Gone
<1>7. Kept'
  BY <1>1 DEF Kept, Lasting, Live
<1> QED BY <1>4, <1>5, <1>6, <1>7

\* Every step preserves it.
LEMMA NextInv == Inv /\ [Next]_vars => Inv'
<1> SUFFICES ASSUME Inv, [Next]_vars PROVE Inv'
  OBVIOUS
<1>1. CASE Login
  BY <1>1, LoginInv
<1>2. CASE Tick
  BY <1>2, TickInv
<1>3. CASE Restart
  BY <1>3, RestartInv
<1>4. ASSUME NEW t \in Threads, NEW nonce \in pending, CallbackBegin(t, nonce) PROVE Inv'
  BY <1>4, CallbackBeginInv
<1>5. ASSUME NEW t \in Threads, CallbackFails(t) PROVE Inv'
  BY <1>5, CallbackFailsInv
<1>6. ASSUME NEW t \in Threads, NEW name \in Names, CallbackEnd(t, name) PROVE Inv'
  BY <1>6, CallbackEndInv
<1>7. ASSUME NEW token \in 0 .. created, Logout(token) PROVE Inv'
  BY <1>7, LogoutInv
<1>8. CASE UNCHANGED vars
  BY <1>8 DEF vars, Inv, TypeOK, Records, NonceInOnePlace, OneSessionPerLogin, Gone, Kept, Lasting
<1> QED BY <1>1, <1>2, <1>3, <1>4, <1>5, <1>6, <1>7, <1>8 DEF Next

\* So it holds throughout.
LEMMA InvHolds == Spec => []Inv
BY InitInv, NextInv, PTL DEF Spec

-----------------------------------------------------------------------------
(***************************************************************************)
(* Theorems                                                                *)
(***************************************************************************)
\* auth.rs: no more nonces pend than MAX_PENDING_STATES, and memory, disk and
\* callbacks hold nothing but what logins brought.
THEOREM TypeCorrect == Spec => []TypeOK
<1>1. Inv => TypeOK
  BY DEF Inv
<1> QED BY <1>1, InvHolds, PTL

\* A nonce authenticates one callback, however many carry it and however they
\* interleave with the calls to the provider (take_pending, handle_callback).
THEOREM OneLoginOneSession == Spec => []OneSessionPerLogin
<1>1. Inv => OneSessionPerLogin
  BY DEF Inv
<1> QED BY <1>1, InvHolds, PTL

\* A logout whose removal was written (SessionStore::remove) is final.
THEOREM LogoutIsFinal == Spec => []LoggedOutStaysOut
<1>1. Inv => LoggedOutStaysOut
  BY DEF Inv, Gone, LoggedOutStaysOut, Authenticates, Live
<1> QED BY <1>1, InvHolds, PTL

\* A written session lasts (SessionStore::insert, persist, load) until it expires
\* or is logged out, unless some write was harmed.
THEOREM SessionsSurvive == Spec => []SurvivesUnharmed
<1>1. Inv => SurvivesUnharmed
  BY DEF Inv, Kept, Lasting, SurvivesUnharmed, Authenticates, Live
<1> QED BY <1>1, InvHolds, PTL
=============================================================================
