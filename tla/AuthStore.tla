----------------------------- MODULE AuthStore -----------------------------
(***************************************************************************)
(* The administrator's password and sessions (src/auth.go, the session,    *)
(* login, logout and password handlers and authAPI of src/main.go).  One   *)
(* mutex guards the store; the password's hash is written to a file in     *)
(* place while it is held, and a handler that authenticated somebody       *)
(* creates the session after it was released.                              *)
(***************************************************************************)
EXTENDS Integers, Sequences, FiniteSets

CONSTANTS
    Client,             \* addresses logins come from
    Password,           \* passwords of an acceptable length, the legacy token among them
    Token,              \* bound: sessions created
    None,
    Empty, Partial,     \* what a write that was interrupted leaves
    loginFailureLimit,      \* 5 in the code
    loginBlockDuration,     \* 5 minutes
    loginRecordLifetime,    \* 15 minutes
    sessionLifetime,        \* 12 hours
    MaxWait,            \* bound: how long a login waits for the mutex
    MaxTime, MaxChanges, MaxCrashes     \* bounds

ASSUME AuthAssumption ==
    /\ loginFailureLimit \in Nat \ {0}
    /\ loginBlockDuration \in Nat \ {0}
    /\ loginRecordLifetime \in Nat /\ loginRecordLifetime >= loginBlockDuration
    /\ sessionLifetime \in Nat \ {0}
    /\ MaxWait \in Nat /\ MaxTime \in Nat /\ MaxChanges \in Nat /\ MaxCrashes \in Nat
    /\ Empty # Partial /\ None \notin {Empty, Partial}
    /\ {None, Empty, Partial} \cap Password = {}
    /\ None \notin Nat

VARIABLES
    now,
    file,           \* web-password.hash: whose hash it holds
    stored,         \* the legacy token in config.json
    env,            \* the token set in the environment
    up,
    hash, legacy,   \* a.hash, a.legacy
    sessions,       \* a.sessions: when each expires
    attempts,       \* a.loginAttempts
    writing,        \* setPasswordLocked under way, holding the lock
    clearing,       \* password handlers that have yet to call ClearLegacyAuth
    creating,       \* handlers that have yet to call CreateSession
    failed,         \* history: failed verifications of each client since it last succeeded
    acknowledged,   \* history: the password last set, or found in the file by a start
    unanswered,     \* history: the file holds what was never acknowledged
    changes, crashes

password == <<file, stored, hash, legacy, writing, acknowledged, unanswered>>
logins == <<attempts, failed>>
handlers == <<clearing, creating>>
bounds == <<changes, crashes>>
vars == <<now, up, env, password, sessions, logins, handlers, bounds>>

NoAttempt == [failures |-> 0, blockedUntil |-> 0, lastSeen |-> 0]
NotWriting == [kind |-> None, password |-> None]

\* loadConfig.
Overridden(token) == IF env # None THEN env ELSE token

Init ==
    /\ now = 0 /\ up = TRUE
    /\ file \in Password \cup {None} /\ stored \in Password \cup {None}
    /\ env \in Password \cup {None}
    /\ hash = file /\ legacy = Overridden(stored)
    /\ sessions = [t \in {} |-> 0]
    /\ attempts = [c \in {} |-> NoAttempt]
    /\ writing = NotWriting /\ clearing = 0 /\ creating = 0
    /\ failed = [c \in Client |-> <<>>]
    /\ acknowledged = (IF file # None THEN file ELSE legacy) /\ unanswered = FALSE
    /\ changes = 0 /\ crashes = 0

Tick ==
    /\ now < MaxTime
    /\ now' = now + 1
    /\ UNCHANGED <<up, env, password, sessions, logins, handlers, bounds>>

Unlocked == up /\ writing = NotWriting

----------------------------------------------------------------------------
(* Passwords. *)

\* Mistake: the legacy token is tried first.
verifyLegacyFirst(p) == IF legacy # None THEN p = legacy ELSE p = hash

\* verifyLocked; a file that was cut short holds nobody's hash.
verify(p) ==
    IF hash # None THEN p = hash ELSE legacy # None /\ p = legacy

Configured == hash # None \/ legacy # None

\* Setup and Change: os.WriteFile truncates the file, then writes it.
BeginWrite(kind, p) ==
    /\ Unlocked
    /\ changes < MaxChanges /\ changes' = changes + 1
    /\ writing' = [kind |-> kind, password |-> p]
    /\ file' = Empty /\ unanswered' = FALSE
    /\ UNCHANGED <<now, up, env, stored, hash, legacy, acknowledged, sessions, logins, handlers, crashes>>

Setup(p) == ~Configured /\ BeginWrite("setup", p)

ValidSession(t) == t \in DOMAIN sessions /\ now < sessions[t]

\* PUT /api/settings/password, which authAPI lets through with a session only.
Change(t, current, p) ==
    /\ ValidSession(t)
    /\ verify(current)
    /\ BeginWrite("change", p)

EndWrite ==
    /\ writing # NotWriting
    /\ file' = writing.password /\ hash' = writing.password
    /\ acknowledged' = writing.password /\ unanswered' = FALSE
    /\ writing' = NotWriting
    /\ IF writing.kind = "change"
       THEN /\ legacy' = None
            /\ sessions' = [t \in {} |-> 0]
            /\ clearing' = clearing + 1
            /\ UNCHANGED creating
       ELSE /\ creating' = creating + 1
            /\ UNCHANGED <<legacy, sessions, clearing>>
    /\ UNCHANGED <<now, up, env, stored, logins, bounds>>

\* What a write under way may have got to: the hash may be complete although Close
\* fails or the final newline is missing.
Interrupted ==
    /\ file' \in {Empty, Partial, writing.password}
    /\ unanswered' = (file' = writing.password)

\* The disk is full: an error.
WriteFails ==
    /\ writing # NotWriting
    /\ writing' = NotWriting
    /\ Interrupted
    /\ UNCHANGED <<now, up, env, stored, hash, legacy, acknowledged, sessions, logins, handlers, bounds>>

\* ConfigStore.ClearLegacyAuth, then the new session.
ClearLegacyAuth ==
    /\ clearing > 0
    /\ clearing' = clearing - 1 /\ creating' = creating + 1
    /\ stored' = None
    /\ UNCHANGED <<now, up, env, file, hash, legacy, writing, acknowledged, unanswered, sessions, logins, bounds>>

\* The configuration cannot be saved: an error, and no session.
ClearFails ==
    /\ clearing > 0
    /\ clearing' = clearing - 1
    /\ UNCHANGED <<now, up, env, password, sessions, logins, creating, bounds>>

----------------------------------------------------------------------------
(* Sessions. *)

\* Mistake: a new session replaces all others.
CreateSessionAlone(t) ==
    /\ Unlocked /\ creating > 0 /\ creating' = creating - 1
    /\ t \notin DOMAIN sessions
    /\ sessions' = [u \in {t} |-> now + sessionLifetime]
    /\ UNCHANGED <<now, up, env, password, logins, clearing, bounds>>

\* A random token; expired ones are dropped.
CreateSession(t) ==
    /\ Unlocked /\ creating > 0 /\ creating' = creating - 1
    /\ t \notin DOMAIN sessions
    /\ sessions' = [u \in {t} \cup {v \in DOMAIN sessions : now <= sessions[v]} |->
                      IF u = t THEN now + sessionLifetime ELSE sessions[u]]
    /\ UNCHANGED <<now, up, env, password, logins, clearing, bounds>>

\* POST /api/logout with a session's cookie.
DeleteSession(t) ==
    /\ Unlocked /\ ValidSession(t)
    /\ sessions' = [u \in DOMAIN sessions \ {t} |-> sessions[u]]
    /\ UNCHANGED <<now, up, env, password, logins, handlers, bounds>>

----------------------------------------------------------------------------
(* Authenticate and authenticateAt. *)

\* The clock was read before the mutex was waited for.
Read == {t \in 0..now : now - t <= MaxWait}

\* Records not seen for a while are dropped.
Remembered(t) == {c \in DOMAIN attempts : t - attempts[c].lastSeen <= loginRecordLifetime}
Attempt(c, t) == IF c \in Remembered(t) THEN attempts[c] ELSE NoAttempt

Recorded(c, t, attempt) ==
    [d \in Remembered(t) \cup {c} |-> IF d = c THEN attempt ELSE attempts[d]]

Refused(c, t) == t < Attempt(c, t).blockedUntil

\* Mistake: an attempt that is refused starts the block again.
AfterRefusalExtended(c, t) ==
    [Attempt(c, t) EXCEPT !.lastSeen = t, !.blockedUntil = t + loginBlockDuration]

AfterRefusal(c, t) == [Attempt(c, t) EXCEPT !.lastSeen = t]

\* Mistake: one failure too many before the block.
AfterFailureLate(c, t) ==
    LET n == Attempt(c, t).failures + 1
    IN  IF n > loginFailureLimit
        THEN [failures |-> 0, blockedUntil |-> t + loginBlockDuration, lastSeen |-> t]
        ELSE [Attempt(c, t) EXCEPT !.failures = n, !.lastSeen = t]

AfterFailure(c, t) ==
    LET n == Attempt(c, t).failures + 1
    IN  IF n >= loginFailureLimit
        THEN [failures |-> 0, blockedUntil |-> t + loginBlockDuration, lastSeen |-> t]
        ELSE [Attempt(c, t) EXCEPT !.failures = n, !.lastSeen = t]

others == <<now, up, env, password, sessions, clearing, bounds>>

Refuse(c, t) ==
    /\ Unlocked /\ Refused(c, t)
    /\ attempts' = Recorded(c, t, AfterRefusal(c, t))
    /\ UNCHANGED <<others, creating, failed>>

\* The login handler creates a session afterwards.
Admit(c, p, t) ==
    /\ Unlocked /\ ~Refused(c, t) /\ verify(p)
    /\ Cardinality(DOMAIN sessions) + clearing + creating < Cardinality(Token)
    /\ attempts' = [d \in Remembered(t) \ {c} |-> attempts[d]]
    /\ failed' = [failed EXCEPT ![c] = <<>>]
    /\ creating' = creating + 1
    /\ UNCHANGED others

\* The last few failures are enough of a history.
Latest(s) == IF Len(s) > loginFailureLimit + 1 THEN Tail(s) ELSE s

Fail(c, p, t) ==
    /\ Unlocked /\ ~Refused(c, t) /\ ~verify(p)
    /\ attempts' = Recorded(c, t, AfterFailure(c, t))
    /\ failed' = [failed EXCEPT ![c] = Latest(Append(@, now))]
    /\ UNCHANGED <<others, creating>>

----------------------------------------------------------------------------
\* The program dies; a write under way leaves what it got to.
Crash ==
    /\ up /\ crashes < MaxCrashes /\ crashes' = crashes + 1
    /\ up' = FALSE
    /\ writing' = NotWriting /\ clearing' = 0 /\ creating' = 0
    /\ IF writing = NotWriting THEN UNCHANGED <<file, unanswered>> ELSE Interrupted
    /\ UNCHANGED <<now, env, stored, hash, legacy, acknowledged, sessions, logins, changes>>

\* An empty file is as good as none.
ReadHash(f) == IF f = Empty THEN None ELSE f

NewAuthStore ==
    /\ ~up
    /\ up' = TRUE
    /\ hash' = ReadHash(file)
    /\ legacy' = Overridden(stored)
    /\ acknowledged' = (IF unanswered THEN file ELSE acknowledged) /\ unanswered' = FALSE
    /\ sessions' = [t \in {} |-> 0]
    /\ attempts' = [c \in {} |-> NoAttempt]
    /\ failed' = [c \in Client |-> <<>>]
    /\ UNCHANGED <<now, env, file, stored, writing, handlers, bounds>>

Next ==
    \/ Tick
    \/ \E p \in Password : Setup(p)
    \/ \E t \in Token, current, p \in Password : Change(t, current, p)
    \/ EndWrite \/ WriteFails \/ ClearLegacyAuth \/ ClearFails
    \/ \E t \in Token : CreateSession(t) \/ DeleteSession(t)
    \/ \E c \in Client, t \in Read :
          Refuse(c, t) \/ \E p \in Password : Admit(c, p, t) \/ Fail(c, p, t)
    \/ Crash \/ NewAuthStore

Spec == Init /\ [][Next]_vars

----------------------------------------------------------------------------
TypeOK ==
    /\ now \in Nat /\ up \in BOOLEAN
    /\ file \in Password \cup {None, Empty, Partial}
    /\ hash \in Password \cup {None, Partial}
    /\ stored \in Password \cup {None} /\ env \in Password \cup {None} /\ legacy \in Password \cup {None}
    /\ acknowledged \in Password \cup {None} /\ unanswered \in BOOLEAN
    /\ writing \in [kind : {None, "setup", "change"}, password : Password \cup {None}]
    /\ clearing \in Nat /\ creating \in Nat
    /\ DOMAIN sessions \subseteq Token /\ \A t \in DOMAIN sessions : sessions[t] \in Nat
    /\ DOMAIN attempts \subseteq Client
    /\ \A c \in DOMAIN attempts :
          attempts[c] \in [failures : 0..(loginFailureLimit - 1), blockedUntil : Nat, lastSeen : Nat]

(***************************************************************************)
(* Whatever was changed, half-cleared in config.json or restarted, exactly *)
(* the password last set is accepted: the legacy token is no way in once a *)
(* password was set.  Excepted is the time after a write of the hash that  *)
(* failed, until the next one or, if the file is complete all the same,    *)
(* until the next start, from which on the new password is the one.        *)
(***************************************************************************)
LastPasswordCounts ==
    up /\ writing = NotWriting /\ file \notin {Empty, Partial} /\ ~unanswered
        => \A p \in Password : verify(p) <=> p = acknowledged

(***************************************************************************)
(* Any loginFailureLimit + 1 failed attempts of one client that are not    *)
(* interrupted by a success span at least loginBlockDuration, less the     *)
(* time a login may wait for the mutex after it has read the clock,        *)
(* however they are spread and whatever was refused or forgotten.          *)
(***************************************************************************)
FailuresPaced ==
    \A c \in Client : LET s == failed[c] IN
        Len(s) > loginFailureLimit =>
            s[Len(s)] - s[Len(s) - loginFailureLimit] >= loginBlockDuration - MaxWait

(***************************************************************************)
(* A client is refused only within loginBlockDuration of an attempt of its *)
(* own that failed: being refused does not prolong the block.              *)
(***************************************************************************)
RefusedOnlyAfterFailure ==
    \A c \in Client, t \in Read : up /\ Refused(c, t) =>
        /\ failed[c] # <<>>
        /\ t - failed[c][Len(failed[c])] < loginBlockDuration

(***************************************************************************)
(* A session ends when its time is over, by its own logout, when the       *)
(* password is changed or with the program; nobody else's login or logout  *)
(* ends it.                                                                *)
(***************************************************************************)
SessionKept ==
    [][\A t \in Token : ValidSession(t) /\ ~ValidSession(t)' =>
          \/ sessions[t] <= now'
          \/ DOMAIN sessions' = DOMAIN sessions \ {t}
          \/ writing.kind = "change" /\ writing' = NotWriting
          \/ ~up]_vars
=============================================================================
