---------------------------- MODULE CountryProxy ----------------------------
(***************************************************************************)
(* The per-country SOCKS5 listeners (src/client_routes.go): handlers open  *)
(* a country's listener on demand, an accept loop serves it, clients       *)
(* authenticate with the client API key (src/runtime_auth.go), and the     *)
(* listeners are closed when the program's context is cancelled.  Each     *)
(* country has a port of its own (Ports), so a listener is named by its    *)
(* country.                                                                *)
(***************************************************************************)
EXTENDS Naturals, FiniteSets

CONSTANTS
    Country,    \* two-letter codes
    Key,        \* client API keys (never empty)
    None,       \* the empty key, the empty password
    Handler,    \* goroutines that call EnsureCountryProxy
    Client,     \* goroutines of forwardCountry
    MaxKeys     \* bound: changes of the key

ASSUME CountryProxyAssumption == None \notin Key /\ None \notin Country /\ MaxKeys \in Nat

VARIABLES
    known,              \* countries of m.instances
    key,                \* RuntimeClientAuth.key
    ctx,                \* m.countryProxyCtx: "live", "done"
    countryListeners,   \* m.countryListeners: the countries listed
    socket,             \* each country's listening socket
    serving,            \* countries whose accept loop runs
    closers,            \* countries with a goroutine that closes on ctx.Done
    swept,              \* the goroutine of StartCountryProxies emptied the map
    sweep,              \* what it still has to close
    ensure,             \* EnsureCountryProxy calls
    client,             \* accepted connections and their forwardCountry calls
    old,                \* history: keys that were replaced or cleared
    keys                \* changes of the key so far

listening == <<countryListeners, socket, serving, closers, swept, sweep>>
vars == <<known, key, ctx, listening, ensure, client, old, keys>>

NoCall == [at |-> "idle", c |-> None]

\* revoked: history, the old keys when the connection was accepted that have not
\* been set again since.
NoClient == [at |-> "idle", c |-> None, expected |-> None, revoked |-> {}]
ClientState == [at : {"idle", "accepted", "auth", "relay"}, c : Country \cup {None},
                expected : Key \cup {None}, revoked : SUBSET Key]

TypeOK ==
    /\ known \subseteq Country
    /\ key \in Key \cup {None}
    /\ ctx \in {"live", "done"}
    /\ countryListeners \subseteq Country
    /\ socket \in [Country -> {"none", "open", "closed"}]
    /\ serving \subseteq Country /\ closers \subseteq Country
    /\ swept \in BOOLEAN /\ sweep \subseteq Country
    /\ ensure \in [Handler -> [at : {"idle", "lock", "listen", "insert"}, c : Country \cup {None}]]
    /\ client \in [Client -> ClientState] /\ old \subseteq Key
    /\ keys \in 0..MaxKeys

Init ==
    /\ known \in SUBSET Country
    /\ key \in Key \cup {None}
    /\ ctx = "live"
    /\ countryListeners = {} /\ serving = {} /\ closers = {} /\ swept = FALSE /\ sweep = {}
    /\ socket = [c \in Country |-> "none"]
    /\ ensure = [h \in Handler |-> NoCall]
    /\ client = [k \in Client |-> NoClient] /\ old = {}
    /\ keys = 0

----------------------------------------------------------------------------
(* The rest of the program. *)

\* ensureCountry makes an Instance for a country it meets for the first time.
EnsureCountry(c) ==
    /\ known' = known \cup {c}
    /\ UNCHANGED <<key, ctx, listening, ensure, client, old, keys>>

\* What is remembered of a change of the key.
Remember(k) ==
    /\ keys < MaxKeys /\ keys' = keys + 1
    /\ old' = ((old \cup {key}) \ {k}) \cap Key
    /\ client' = [x \in Client |-> [client[x] EXCEPT !.revoked = @ \ {k}]]

\* Mistake: an empty key is taken for no change.
UpdateIgnoresEmpty(k) ==
    /\ Remember(k)
    /\ key' = IF k = None THEN key ELSE k
    /\ UNCHANGED <<known, ctx, listening, ensure>>

\* RuntimeClientAuth.Update.
UpdateClientAPIKey(k) ==
    /\ Remember(k)
    /\ key' = k
    /\ UNCHANGED <<known, ctx, listening, ensure>>

Cancel ==
    /\ ctx = "live" /\ ctx' = "done"
    /\ UNCHANGED <<known, key, listening, ensure, client, old, keys>>

----------------------------------------------------------------------------
(* EnsureCountryProxy. *)

\* Without a key it is refused before it waits for countryListenMu.
EnsureBegin(h, c) ==
    /\ ensure[h].at = "idle" /\ key # None
    /\ ensure' = [ensure EXCEPT ![h] = [at |-> "lock", c |-> c]]
    /\ UNCHANGED <<known, key, ctx, listening, client, old, keys>>

\* Mistake: countryListenMu is not taken.
MutexIgnored == TRUE

MutexFree == \A h \in Handler : ensure[h].at \notin {"listen", "insert"}

\* Unknown, already listed, or the service has ended: it returns.
EnsureLook(h) ==
    LET c == ensure[h].c
        listens == c \in known /\ c \notin countryListeners /\ ctx = "live"
    IN  /\ ensure[h].at = "lock" /\ MutexFree
        /\ ensure' = [ensure EXCEPT ![h] = IF listens THEN [@ EXCEPT !.at = "listen"] ELSE NoCall]
        /\ UNCHANGED <<known, key, ctx, listening, client, old, keys>>

\* net.Listen, which may always fail.
EnsureListens(h) ==
    LET c == ensure[h].c
    IN  /\ ensure[h].at = "listen"
        /\ \/ /\ socket[c] # "open"
              /\ socket' = [socket EXCEPT ![c] = "open"]
              /\ ensure' = [ensure EXCEPT ![h].at = "insert"]
           \/ ensure' = [ensure EXCEPT ![h] = NoCall] /\ UNCHANGED socket
        /\ UNCHANGED <<known, key, ctx, countryListeners, serving, closers, swept, sweep, client, old, keys>>

\* Mistake: the listener is left to the goroutine of StartCountryProxies.
EnsureInsertsOnly(h) ==
    LET c == ensure[h].c
    IN  /\ ensure[h].at = "insert"
        /\ countryListeners' = countryListeners \cup {c}
        /\ serving' = serving \cup {c}
        /\ ensure' = [ensure EXCEPT ![h] = NoCall]
        /\ UNCHANGED <<known, key, ctx, socket, closers, swept, sweep, client, old, keys>>

\* The listener is listed, serveCountryProxy and its closer are started; the
\* context is not looked at again.
EnsureInserts(h) ==
    LET c == ensure[h].c
    IN  /\ ensure[h].at = "insert"
        /\ countryListeners' = countryListeners \cup {c}
        /\ serving' = serving \cup {c}
        /\ closers' = closers \cup {c}
        /\ ensure' = [ensure EXCEPT ![h] = NoCall]
        /\ UNCHANGED <<known, key, ctx, socket, swept, sweep, client, old, keys>>

----------------------------------------------------------------------------
(* Closing. *)

\* The goroutine of StartCountryProxies empties the map, then closes.
SweepBegins ==
    /\ ctx = "done" /\ ~swept
    /\ swept' = TRUE /\ sweep' = countryListeners
    /\ countryListeners' = {}
    /\ UNCHANGED <<known, key, ctx, socket, serving, closers, ensure, client, old, keys>>

SweepCloses(c) ==
    /\ c \in sweep
    /\ socket' = [socket EXCEPT ![c] = "closed"]
    /\ sweep' = sweep \ {c}
    /\ UNCHANGED <<known, key, ctx, countryListeners, serving, closers, swept, ensure, client, old, keys>>

\* serveCountryProxy's own goroutine.
CloserCloses(c) ==
    /\ ctx = "done" /\ c \in closers
    /\ socket' = [socket EXCEPT ![c] = "closed"]
    /\ closers' = closers \ {c}
    /\ UNCHANGED <<known, key, ctx, countryListeners, serving, swept, sweep, ensure, client, old, keys>>

\* Accept returns an error, on a closed listener or (a full descriptor table)
\* on an open one: the loop ends and the listener stays listed.
ServeEnds(c) ==
    /\ c \in serving
    /\ serving' = serving \ {c}
    /\ UNCHANGED <<known, key, ctx, countryListeners, socket, closers, swept, sweep, ensure, client, old, keys>>

----------------------------------------------------------------------------
(* forwardCountry up to acquireInstance; Connections goes on from there. *)

moved == <<known, key, ctx, listening, ensure, old, keys>>

\* serveCountryProxy's Accept returns a connection.
Accept(k, c) ==
    /\ client[k].at = "idle"
    /\ c \in serving /\ socket[c] = "open"
    /\ client' = [client EXCEPT ![k] = [NoClient EXCEPT !.at = "accepted", !.c = c, !.revoked = old]]
    /\ UNCHANGED moved

\* Its goroutine runs: the deadline is set and the key is read, once.
ForwardCountry(k) ==
    /\ client[k].at = "accepted"
    /\ client' = [client EXCEPT ![k].at = "auth", ![k].expected = key]
    /\ UNCHANGED moved

\* A zero length is refused before the comparison.
Accepts(x, user, password) == user = x.c /\ password # None /\ password = x.expected

\* negotiateClientAuth.
NegotiateClientAuth(k, user, password) ==
    /\ client[k].at = "auth"
    /\ client' = [client EXCEPT ![k] =
                     IF Accepts(client[k], user, password) THEN [@ EXCEPT !.at = "relay"]
                     ELSE NoClient]
    /\ UNCHANGED moved

\* Mistake: no deadline is set.
NoDeadline(k) == client[k].at = "auth" /\ UNCHANGED vars

\* A client that does not say its password within 15 seconds.
Deadline(k) ==
    /\ client[k].at = "auth"
    /\ client' = [client EXCEPT ![k] = NoClient]
    /\ UNCHANGED moved

\* Either side closes the connection.
Disconnect(k) ==
    /\ client[k].at \in {"auth", "relay"}
    /\ client' = [client EXCEPT ![k] = NoClient]
    /\ UNCHANGED moved

----------------------------------------------------------------------------
EnsureNext(h) == EnsureLook(h) \/ EnsureListens(h) \/ EnsureInserts(h)

CloseNext(c) == SweepCloses(c) \/ CloserCloses(c)

Next ==
    \/ \E c \in Country :
          EnsureCountry(c) \/ ServeEnds(c) \/ CloseNext(c)
    \/ \E k \in Key \cup {None} : UpdateClientAPIKey(k)
    \/ Cancel \/ SweepBegins
    \/ \E h \in Handler : EnsureNext(h) \/ \E c \in Country : EnsureBegin(h, c)
    \/ \E k \in Client :
          \/ ForwardCountry(k) \/ Deadline(k) \/ Disconnect(k)
          \/ \E c \in Country : Accept(k, c)
          \/ \E user \in Country, p \in Key \cup {None} : NegotiateClientAuth(k, user, p)

Spec == Init /\ [][Next]_vars

\* Handlers and the goroutines that wait for the context are scheduled; so are
\* connections, whose reads fail once their deadline has passed.
Fairness ==
    /\ \A h \in Handler : WF_vars(EnsureNext(h))
    /\ WF_vars(SweepBegins)
    /\ \A c \in Country : WF_vars(CloseNext(c))
    /\ \A k \in Client : WF_vars(ForwardCountry(k)) /\ WF_vars(Deadline(k))

FairSpec == Spec /\ Fairness

----------------------------------------------------------------------------
(***************************************************************************)
(* Two requests for the same country never compete for its port: whoever   *)
(* calls net.Listen finds it free of this program's own listeners, also    *)
(* while the context is being cancelled.                                   *)
(***************************************************************************)
NoSelfConflict ==
    \A h \in Handler : ensure[h].at = "listen" => socket[ensure[h].c] # "open"

(***************************************************************************)
(* Whoever connects after a key was replaced or cleared is not let in with *)
(* it, unless it was set again, although the listener opened under the old *)
(* key stays open; and nobody is let in with an empty key.  Whoever had    *)
(* been accepted before the change is: the key is read once per            *)
(* connection (forwardCountry), before the client sends its password.      *)
(***************************************************************************)
RevokedKeyRefused ==
    \A k \in Client : client[k].at = "relay" => client[k].expected \in Key \ client[k].revoked

(***************************************************************************)
(* An old key does not linger either: once the key is no longer changed,   *)
(* the handshakes that still compare with an earlier one come to an end,   *)
(* whatever their clients do (the deadline of forwardCountry).             *)
(***************************************************************************)
OldKeyExpires == <>[](\A k \in Client : client[k].at = "auth" => client[k].expected = key)

(***************************************************************************)
(* No listener outlives the context, not even one that a handler listed    *)
(* after the map had been emptied.                                         *)
(***************************************************************************)
ListenersClose == <>[](ctx = "done" => \A c \in Country : socket[c] # "open")
=============================================================================
