------------------------------ MODULE Sessions ------------------------------
(***************************************************************************)
(* Login, logout and the session file of the control plane (auth.rs,       *)
(* listener.rs of crates/akurai-control/src).                              *)
(*                                                                         *)
(* A login leaves a nonce in pending_states.  The callback takes it under  *)
(* one lock, talks to the identity provider without any, and inserts the   *)
(* session under another: in between the thread is in `calls`.             *)
(*                                                                         *)
(* Every insert and remove writes the unexpired records to a temporary     *)
(* file and renames it.  Errors are ignored, those of write_all included:  *)
(* a write that is cut short is renamed into place like a whole one.  The  *)
(* file holds the records in the order of a HashMap, which is any, and the *)
(* reader counts braces inside strings too, so a name with an opening      *)
(* brace hides its record and every later one.  `file` is what the reader  *)
(* will find.                                                              *)
(*                                                                         *)
(* Nonces and tokens are random in the code and numbered here, so a draw   *)
(* is always fresh: random_token ignores an error of /dev/urandom, which   *)
(* is not modelled.                                                        *)
(***************************************************************************)
EXTENDS Naturals, FiniteSets

CONSTANTS
  Threads,            \* connection threads
  None,               \* no callback in this thread
  Names,              \* display names: Plain, Opening (with an unmatched "{")
  Plain, Opening,
  MAX_PENDING_STATES, \* 512
  TTL,                \* 86400 s
  MaxLogins,          \* bound: logins begun
  MaxSessions,        \* bound: sessions created
  MaxTime,            \* bound: the clock
  MaxRestarts         \* bound: restarts

ASSUME SessionsAssumption ==
  /\ None \notin Nat /\ Plain # Opening /\ Names \subseteq {Plain, Opening}
  /\ MAX_PENDING_STATES \in Nat \ {0} /\ TTL \in Nat \ {0}
  /\ MaxLogins \in Nat /\ MaxSessions \in Nat /\ MaxTime \in Nat /\ MaxRestarts \in Nat

VARIABLES
  now,       \* the clock
  begun,     \* nonces generated
  pending,   \* AppState.pending_states
  calls,     \* calls[t]: the nonce of the callback in thread t, between its locks
  sessions,  \* the records of SessionStore
  file,      \* the records that can be read from sessions.json
  created,   \* session tokens generated
  restarts,  \* restarts so far
  logins,    \* history: which nonce led to which token
  saved,     \* history: sessions on disk when their login was answered
  left,      \* history: tokens logged out ...
  out,       \* ... and those of them whose removal was written
  harmed     \* history: was ever a file written of which records are missing

history == <<logins, saved, left, out, harmed>>
vars == <<now, begun, pending, calls, sessions, file, created, restarts,
          logins, saved, left, out, harmed>>

-----------------------------------------------------------------------------
Records == [token : 1 .. MaxSessions, name : Names, expires : Nat]

Live(recs) == {r \in recs : r.expires > now}

\* get: the session a cookie authenticates.
Authenticates(token) == \E r \in Live(sessions) : r.token = token

TypeOK ==
  /\ now \in 0 .. MaxTime /\ begun \in 0 .. MaxLogins
  /\ created \in 0 .. MaxSessions /\ restarts \in 0 .. MaxRestarts
  /\ pending \subseteq 1 .. begun /\ Cardinality(pending) <= MAX_PENDING_STATES
  /\ calls \in [Threads -> (1 .. begun) \cup {None}]
  /\ sessions \subseteq Records /\ file \subseteq Records
  /\ logins \subseteq [nonce : 1 .. begun, token : 1 .. created]
  /\ saved \subseteq Records /\ out \subseteq left /\ left \subseteq 0 .. created
  /\ harmed \in BOOLEAN

Init ==
  /\ now = 0 /\ begun = 0 /\ pending = {}
  /\ calls = [t \in Threads |-> None]
  /\ sessions = {} /\ file = {}
  /\ created = 0 /\ restarts = 0
  /\ logins = {} /\ saved = {} /\ left = {} /\ out = {} /\ harmed = FALSE

-----------------------------------------------------------------------------
(***************************************************************************)
(* The file                                                                *)
(***************************************************************************)
\* What can be read of records written in some order: those before the first
\* name with an opening brace.
Readable(recs) == LET plain == {r \in recs : r.name = Plain} IN
                  IF plain = recs THEN {recs} ELSE SUBSET plain

\* The same, when the write is cut short anywhere.
ReadableCut(recs) == SUBSET {r \in recs : r.name = Plain}

\* persist, of the records the store now has.  written: the rename put a whole
\* file into place; otherwise one cut short is, or the old one stays.
Persist(recs, written) ==
  \/ /\ file' \in (IF written THEN Readable(Live(recs)) ELSE ReadableCut(Live(recs)))
     /\ harmed' = (harmed \/ file' # Live(recs))
  \/ /\ ~written
     /\ UNCHANGED <<file, harmed>>

-----------------------------------------------------------------------------
(***************************************************************************)
(* Login and callback                                                      *)
(***************************************************************************)
Room(nonces) == IF Cardinality(nonces) >= MAX_PENDING_STATES THEN {} ELSE nonces

Login ==
  /\ begun < MaxLogins
  /\ begun' = begun + 1
  /\ pending' = Room(pending) \cup {begun'}
  /\ UNCHANGED <<now, calls, sessions, file, created, restarts, history>>

\* Variant with a slip, used by no specification: the nonce is checked, not taken.
TakenLater(nonce) == pending

Taken(nonce) == pending \ {nonce}

\* The first locked section; a nonce that is not pending is turned away.
CallbackBegin(t, nonce) ==
  /\ calls[t] = None
  /\ nonce \in pending
  /\ pending' = Taken(nonce)
  /\ calls' = [calls EXCEPT ![t] = nonce]
  /\ UNCHANGED <<now, begun, sessions, file, created, restarts, history>>

\* The provider refuses the code or the token, or cannot be reached: exchange_code
\* or verify_id_token fails.
CallbackFails(t) ==
  /\ calls[t] # None
  /\ calls' = [calls EXCEPT ![t] = None]
  /\ UNCHANGED <<now, begun, pending, sessions, file, created, restarts, history>>

\* Variant with a slip, used by no specification: the file is written before the
\* record is inserted.
InsertPersistFirst(rec, written) ==
  /\ sessions' = sessions \cup {rec}
  /\ Persist(sessions, written)

\* SessionStore::insert
Insert(rec, written) ==
  /\ sessions' = sessions \cup {rec}
  /\ Persist(sessions', written)

\* The second locked section.
CallbackEnd(t, name) ==
  /\ calls[t] # None
  /\ created < MaxSessions
  /\ created' = created + 1
  /\ calls' = [calls EXCEPT ![t] = None]
  /\ logins' = logins \cup {[nonce |-> calls[t], token |-> created']}
  /\ LET rec == [token |-> created', name |-> name, expires |-> now + TTL] IN
       \E written \in BOOLEAN :
         /\ Insert(rec, written)
         /\ saved' = IF written THEN saved \cup {rec} ELSE saved
  /\ UNCHANGED <<now, begun, pending, restarts, left, out>>

-----------------------------------------------------------------------------
(***************************************************************************)
(* Logout, time, restarts                                                  *)
(***************************************************************************)
\* Variant with a slip, used by no specification: the removal is not written.
RemoveUnwritten(token, written) ==
  /\ sessions' = {r \in sessions : r.token # token}
  /\ UNCHANGED <<file, harmed>>

\* SessionStore::remove
Remove(token, written) ==
  /\ sessions' = {r \in sessions : r.token # token}
  /\ Persist(sessions', written)

\* handle_logout: whether the session is known does not matter (0: it never was).
Logout(token) ==
  /\ left' = left \cup {token}
  /\ \E written \in BOOLEAN :
       /\ Remove(token, written)
       /\ out' = IF written THEN out \cup {token} ELSE out
  /\ UNCHANGED <<now, begun, pending, calls, created, restarts, logins, saved>>

Tick ==
  /\ now < MaxTime
  /\ now' = now + 1
  /\ UNCHANGED <<begun, pending, calls, sessions, file, created, restarts, history>>

\* The process ends and starts again: SessionStore::load drops what has expired.
Restart ==
  /\ restarts < MaxRestarts
  /\ restarts' = restarts + 1
  /\ sessions' = Live(file)
  /\ pending' = {}
  /\ calls' = [t \in Threads |-> None]
  /\ UNCHANGED <<now, begun, file, created, history>>

Next ==
  \/ Login \/ Tick \/ Restart
  \/ \E t \in Threads : \/ \E nonce \in pending : CallbackBegin(t, nonce)
                        \/ CallbackFails(t)
                        \/ \E name \in Names : CallbackEnd(t, name)
  \/ \E token \in 0 .. created : Logout(token)

Spec == Init /\ [][Next]_vars

-----------------------------------------------------------------------------
(***************************************************************************)
(* Properties                                                              *)
(***************************************************************************)

\* The nonce is taken before the provider is called and the session created long
\* after: however many callbacks carry it, one login makes one session.
OneSessionPerLogin == \A x, y \in logins : x.nonce = y.nonce => x = y

\* A logout that reached the disk is for good: no restart and no write of another
\* login or logout brings the session back.
LoggedOutStaysOut == \A token \in out : ~Authenticates(token)

\* As long as no file was cut short and no name broke the reader: a session that
\* was on disk when its login was answered is there until it expires or is logged
\* out, whatever else fails to be written, and in whatever order.
SurvivesUnharmed ==
  ~harmed => \A rec \in saved :
               rec.expires > now /\ rec.token \notin left => Authenticates(rec.token)
=============================================================================
