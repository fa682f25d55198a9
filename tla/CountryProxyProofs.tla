------------------------- MODULE CountryProxyProofs -------------------------
(***************************************************************************)
(* Proofs about the per-country listeners, for any number of handlers,     *)
(* clients, countries and keys.                                            *)
(***************************************************************************)
EXTENDS CountryProxy, TLAPS

\* Between EnsureLook and EnsureInserts a handler holds countryListenMu.
Holds(h) == ensure[h].at \in {"listen", "insert"}

\* countryListenMu is a mutex.
OneHolder == \A g, h \in Handler : Holds(g) /\ Holds(h) => g = h

(***************************************************************************)
(* As long as the context lives, an open socket is in countryListeners, or *)
(* the handler that opened it still holds countryListenMu to list it.      *)
(***************************************************************************)
OpenIsListed ==
    ctx = "live" =>
        \A c \in Country : socket[c] = "open" =>
            c \in countryListeners \/ \E h \in Handler : ensure[h].at = "insert" /\ ensure[h].c = c

\* A call under way names a country; nothing is swept before the context ends.
CallsNamed == \A h \in Handler : ensure[h].at # "idle" => ensure[h].c \in Country
SweptWhenDone == ctx = "live" => ~swept /\ sweep = {}

\* The key in force is no old one, nor one that was revoked before a connection was
\* accepted; and no connection is judged by a key revoked before.
Judged ==
    /\ key \notin old
    /\ \A k \in Client :
          /\ key \notin client[k].revoked
          /\ client[k].at \in {"auth", "relay"} => client[k].expected \notin client[k].revoked
          /\ client[k].at = "relay" => client[k].expected \in Key

IInv ==
    /\ TypeOK /\ CallsNamed /\ SweptWhenDone /\ OneHolder /\ OpenIsListed
    /\ NoSelfConflict /\ Judged

(***************************************************************************)
(* What a handler does with its call leaves the other handlers alone.      *)
(***************************************************************************)
LEMMA EnsureUpdate ==
    ASSUME TypeOK, NEW h \in Handler,
           NEW at \in {"idle", "lock", "listen", "insert"}, NEW c \in Country \cup {None},
           ensure' = [ensure EXCEPT ![h] = [at |-> at, c |-> c]]
    PROVE  /\ ensure' \in [Handler -> [at : {"idle", "lock", "listen", "insert"},
                                       c : Country \cup {None}]]
           /\ ensure'[h].at = at /\ ensure'[h].c = c
           /\ \A g \in Handler \ {h} : ensure'[g] = ensure[g]
<1> DEFINE x == [at |-> at, c |-> c]
<1>1. x \in [at : {"idle", "lock", "listen", "insert"}, c : Country \cup {None}]  OBVIOUS
<1>2. x.at = at /\ x.c = c  OBVIOUS
<1>3. ensure' = [ensure EXCEPT ![h] = x]  OBVIOUS
<1> HIDE DEF x
<1> QED  BY <1>1, <1>2, <1>3 DEF TypeOK

(***************************************************************************)
(* A request that waits for countryListenMu holds nothing yet.             *)
(***************************************************************************)
LEMMA EnsureBeginStep ==
    ASSUME IInv, NEW h \in Handler, NEW c \in Country, EnsureBegin(h, c) PROVE IInv'
<1>1. ensure' = [ensure EXCEPT ![h] = [at |-> "lock", c |-> c]]  BY DEF EnsureBegin
<1>2. /\ ensure' \in [Handler -> [at : {"idle", "lock", "listen", "insert"},
                                  c : Country \cup {None}]]
      /\ ensure'[h].at = "lock" /\ ensure'[h].c = c
      /\ \A g \in Handler \ {h} : ensure'[g] = ensure[g]
  BY <1>1, EnsureUpdate DEF IInv
<1>3. ensure[h].at = "idle" /\ UNCHANGED <<known, key, ctx, listening, client, old, keys>>
  BY DEF EnsureBegin
<1>4. (TypeOK /\ SweptWhenDone /\ Judged)'
  BY <1>2, <1>3 DEF IInv, TypeOK, SweptWhenDone, Judged, listening
<1>5. CallsNamed' /\ OneHolder'  BY <1>2 DEF IInv, CallsNamed, OneHolder, Holds
<1>6. OpenIsListed' /\ NoSelfConflict'
  BY <1>2, <1>3 DEF IInv, OpenIsListed, NoSelfConflict, listening
<1> QED  BY <1>4, <1>5, <1>6 DEF IInv

(***************************************************************************)
(* Whoever gets countryListenMu and goes on to net.Listen finds the        *)
(* country's socket not open: it is unlisted, nobody else is between       *)
(* net.Listen and the map, and the context lives.                          *)
(***************************************************************************)
LEMMA EnsureLookStep ==
    ASSUME IInv, NEW h \in Handler, EnsureLook(h) PROVE IInv'
<1>c. PICK c \in Country : c = ensure[h].c  BY DEF IInv, CallsNamed, EnsureLook
<1>0. /\ ensure[h].at = "lock" /\ \A g \in Handler : ~Holds(g)
      /\ UNCHANGED <<known, key, ctx, listening, client, old, keys>>
  BY DEF EnsureLook, MutexFree, Holds
<1>1. PICK at \in {"idle", "listen"}, d \in {c, None} :
        /\ ensure' = [ensure EXCEPT ![h] = [at |-> at, c |-> d]]
        /\ at = "listen" => d = c /\ c \notin countryListeners /\ ctx = "live"
  <2>1. ensure[h] \in [at : {"idle", "lock", "listen", "insert"}, c : Country \cup {None}]
    BY DEF IInv, TypeOK
  <2>2. [ensure[h] EXCEPT !.at = "listen"] = [at |-> "listen", c |-> c]  BY <2>1, <1>c
  <2> QED  BY <1>c, <2>2 DEF EnsureLook, NoCall
<1>2. /\ ensure' \in [Handler -> [at : {"idle", "lock", "listen", "insert"},
                                  c : Country \cup {None}]]
      /\ ensure'[h].at = at /\ ensure'[h].c = d
      /\ \A g \in Handler \ {h} : ensure'[g] = ensure[g]
  BY <1>1, EnsureUpdate DEF IInv
<1>3. at = "listen" => socket[c] # "open"
  BY <1>0, <1>1 DEF IInv, OpenIsListed, Holds
<1>4. (TypeOK /\ SweptWhenDone /\ Judged)'
  BY <1>0, <1>2 DEF IInv, TypeOK, SweptWhenDone, Judged, listening
<1>5. CallsNamed' /\ OneHolder'  BY <1>0, <1>1, <1>2 DEF IInv, CallsNamed, OneHolder, Holds
<1>6. OpenIsListed'  BY <1>0, <1>2 DEF IInv, OpenIsListed, Holds, listening
<1>7. NoSelfConflict'  BY <1>0, <1>1, <1>2, <1>3 DEF IInv, NoSelfConflict, listening, Holds
<1> QED  BY <1>4, <1>5, <1>6, <1>7 DEF IInv

(***************************************************************************)
(* net.Listen opens the socket while its caller holds countryListenMu.     *)
(***************************************************************************)
LEMMA EnsureListensStep ==
    ASSUME IInv, NEW h \in Handler, EnsureListens(h) PROVE IInv'
<1>c. PICK c \in Country : c = ensure[h].c  BY DEF IInv, CallsNamed, EnsureListens
<1>0. /\ ensure[h].at = "listen"
      /\ UNCHANGED <<known, key, ctx, countryListeners, serving, closers, swept, sweep, client, old, keys>>
  BY DEF EnsureListens
<1>1. PICK at \in {"idle", "insert"}, d \in {c, None} :
        /\ ensure' = [ensure EXCEPT ![h] = [at |-> at, c |-> d]]
        /\ \/ at = "insert" /\ d = c /\ socket' = [socket EXCEPT ![c] = "open"]
           \/ at = "idle" /\ socket' = socket
  <2>1. ensure[h] \in [at : {"idle", "lock", "listen", "insert"}, c : Country \cup {None}]
    BY DEF IInv, TypeOK
  <2>2. [ensure[h] EXCEPT !.at = "insert"] = [at |-> "insert", c |-> c]  BY <2>1, <1>c
  <2> QED  BY <1>c, <2>2 DEF EnsureListens, NoCall
<1>2. /\ ensure' \in [Handler -> [at : {"idle", "lock", "listen", "insert"},
                                  c : Country \cup {None}]]
      /\ ensure'[h].at = at /\ ensure'[h].c = d
      /\ \A g \in Handler \ {h} : ensure'[g] = ensure[g]
  BY <1>1, EnsureUpdate DEF IInv
<1>3. /\ socket' \in [Country -> {"none", "open", "closed"}]
      /\ \A e \in Country \ {c} : socket'[e] = socket[e]
      /\ at = "idle" => socket' = socket
  BY <1>1 DEF IInv, TypeOK
<1>4. (TypeOK /\ SweptWhenDone /\ Judged)'
  BY <1>0, <1>2, <1>3 DEF IInv, TypeOK, SweptWhenDone, Judged
<1>5. CallsNamed' /\ OneHolder'
  BY <1>0, <1>1, <1>2 DEF IInv, CallsNamed, OneHolder, Holds
<1>6. OpenIsListed'  BY <1>0, <1>1, <1>2, <1>3 DEF IInv, OpenIsListed
<1>7. NoSelfConflict'
  BY <1>0, <1>1, <1>2 DEF IInv, NoSelfConflict, OneHolder, Holds
<1> QED  BY <1>4, <1>5, <1>6, <1>7 DEF IInv

(***************************************************************************)
(* The listener is listed before countryListenMu is released.              *)
(***************************************************************************)
LEMMA EnsureInsertsStep ==
    ASSUME IInv, NEW h \in Handler, EnsureInserts(h) PROVE IInv'
<1>c. PICK c \in Country : c = ensure[h].c  BY DEF IInv, CallsNamed, EnsureInserts
<1>0. /\ ensure' = [ensure EXCEPT ![h] = [at |-> "idle", c |-> None]]
      /\ countryListeners' = countryListeners \cup {c}
      /\ serving' = serving \cup {c} /\ closers' = closers \cup {c}
      /\ UNCHANGED <<known, key, ctx, socket, swept, sweep, client, old, keys>>
  BY <1>c DEF EnsureInserts, NoCall
<1>2. /\ ensure' \in [Handler -> [at : {"idle", "lock", "listen", "insert"},
                                  c : Country \cup {None}]]
      /\ ensure'[h].at = "idle"
      /\ \A g \in Handler \ {h} : ensure'[g] = ensure[g]
  BY <1>0, EnsureUpdate DEF IInv
<1>4. (TypeOK /\ SweptWhenDone /\ Judged)'
  BY <1>0, <1>2 DEF IInv, TypeOK, SweptWhenDone, Judged
<1>5. CallsNamed' /\ OneHolder' /\ NoSelfConflict'
  BY <1>0, <1>2 DEF IInv, CallsNamed, OneHolder, Holds, NoSelfConflict
<1>6. OpenIsListed'
  <2> SUFFICES ASSUME ctx' = "live", NEW e \in Country, socket'[e] = "open",
                      e \notin countryListeners'
               PROVE  \E g \in Handler : ensure'[g].at = "insert" /\ ensure'[g].c = e
    BY DEF OpenIsListed
  <2>1. PICK g \in Handler : ensure[g].at = "insert" /\ ensure[g].c = e
    BY <1>0 DEF IInv, OpenIsListed
  <2>2. g # h  BY <1>0, <1>c, <2>1
  <2> QED  BY <1>2, <2>1, <2>2
<1> QED  BY <1>4, <1>5, <1>6 DEF IInv

(***************************************************************************)
(* Closing goes on after the context ended and opens nothing.              *)
(***************************************************************************)
LEMMA CloseStep ==
    ASSUME IInv,
           \/ Cancel \/ SweepBegins
           \/ \E c \in Country : EnsureCountry(c) \/ ServeEnds(c) \/ CloseNext(c)
    PROVE  IInv'
<1>1. /\ TypeOK' /\ UNCHANGED <<key, old, ensure, client>>
      /\ \A c \in Country : socket'[c] \in {socket[c], "closed"}
  BY DEF IInv, TypeOK, SweptWhenDone, Cancel, SweepBegins, EnsureCountry, ServeEnds, CloseNext,
         SweepCloses, CloserCloses, listening
<1>2. ctx' = "live" => ctx = "live" /\ UNCHANGED <<countryListeners, socket, swept, sweep>>
  BY DEF IInv, SweptWhenDone, Cancel, SweepBegins, EnsureCountry, ServeEnds, CloseNext,
         SweepCloses, CloserCloses, listening
<1>3. (CallsNamed /\ OneHolder /\ Judged /\ SweptWhenDone)'
  BY <1>1, <1>2 DEF IInv, CallsNamed, OneHolder, Holds, Judged, SweptWhenDone
<1>4. OpenIsListed'  BY <1>1, <1>2 DEF IInv, OpenIsListed
<1>5. NoSelfConflict'  BY <1>1 DEF IInv, NoSelfConflict, CallsNamed
<1> QED  BY <1>1, <1>3, <1>4, <1>5 DEF IInv

(***************************************************************************)
(* A change of the key, and connections: the key in force is never among   *)
(* the ones revoked before, so a connection that reads it is not judged by *)
(* one of those.                                                           *)
(***************************************************************************)
LEMMA ClientStep ==
    ASSUME IInv,
           \/ \E k \in Key \cup {None} : UpdateClientAPIKey(k)
           \/ \E k \in Client :
                 \/ ForwardCountry(k) \/ Deadline(k) \/ Disconnect(k)
                 \/ \E c \in Country : Accept(k, c)
                 \/ \E user \in Country, p \in Key \cup {None} : NegotiateClientAuth(k, user, p)
    PROVE  IInv'
<1>0. UNCHANGED <<known, ctx, listening, ensure>>
  BY DEF UpdateClientAPIKey, ForwardCountry, Deadline, Disconnect, Accept, NegotiateClientAuth, moved
<1>1. (CallsNamed /\ SweptWhenDone /\ OneHolder /\ OpenIsListed /\ NoSelfConflict)'
  BY <1>0 DEF IInv, CallsNamed, SweptWhenDone, OneHolder, Holds, OpenIsListed, NoSelfConflict,
              listening
<1>2. ASSUME NEW k \in Key \cup {None}, UpdateClientAPIKey(k) PROVE IInv'
  <2>1. ASSUME NEW x \in Client
        PROVE  /\ client'[x] \in ClientState /\ client'[x].revoked = client[x].revoked \ {k}
               /\ client'[x].at = client[x].at /\ client'[x].expected = client[x].expected
    <3>1. client'[x] = [client[x] EXCEPT !.revoked = @ \ {k}]
      BY <1>2 DEF UpdateClientAPIKey, Remember
    <3>2. client[x] \in ClientState
      BY DEF IInv, TypeOK
    <3> QED  BY <3>1, <3>2 DEF ClientState
  <2>2. client' \in [Client -> ClientState]
    <3>1. client' = [x \in Client |-> client'[x]]
      BY <1>2 DEF UpdateClientAPIKey, Remember
    <3> QED  BY <2>1, <3>1
  <2>3. key' = k /\ old' \subseteq Key /\ k \notin old' /\ keys' \in 0..MaxKeys
    BY <1>2, CountryProxyAssumption DEF UpdateClientAPIKey, Remember, IInv, TypeOK
  <2>4. TypeOK'  BY <1>0, <2>2, <2>3 DEF IInv, TypeOK, listening
  <2>5. Judged'  BY <2>1, <2>3 DEF IInv, Judged
  <2> QED  BY <1>1, <2>4, <2>5 DEF IInv
<1>3. ASSUME NEW k \in Client, NEW x \in ClientState, key \notin x.revoked,
             x.at \in {"auth", "relay"} => x.expected \notin x.revoked,
             x.at = "relay" => x.expected \in Key,
             client' = [client EXCEPT ![k] = x], UNCHANGED <<key, old, keys>>
      PROVE  IInv'
  <2>1. /\ client' \in [Client -> ClientState] /\ client'[k] = x
        /\ \A l \in Client \ {k} : client'[l] = client[l]
    BY <1>3 DEF IInv, TypeOK
  <2>2. TypeOK'  BY <1>0, <1>3, <2>1 DEF IInv, TypeOK, listening
  <2>3. Judged'  BY <1>3, <2>1 DEF IInv, Judged
  <2> QED  BY <1>1, <2>2, <2>3 DEF IInv
<1>4. NoClient \in ClientState /\ NoClient.at = "idle" /\ NoClient.revoked = {}
  BY DEF NoClient, ClientState
<1>5. ASSUME NEW k \in Client, Deadline(k) \/ Disconnect(k) PROVE IInv'
  <2>1. client' = [client EXCEPT ![k] = NoClient] /\ UNCHANGED <<key, old, keys>>
    BY <1>5 DEF Deadline, Disconnect, moved
  <2> QED  BY <1>3, <1>4, <2>1
<1>6. ASSUME NEW k \in Client, NEW c \in Country, Accept(k, c) PROVE IInv'
  <2>1. PICK x : x = [NoClient EXCEPT !.at = "accepted", !.c = c, !.revoked = old]
    OBVIOUS
  <2>2. x = [at |-> "accepted", c |-> c, expected |-> None, revoked |-> old]
    BY <2>1 DEF NoClient
  <2>3. x \in ClientState /\ x.at = "accepted" /\ x.revoked = old
    BY <2>2 DEF ClientState, IInv, TypeOK
  <2>4. client' = [client EXCEPT ![k] = x] /\ UNCHANGED <<key, old, keys>>
    BY <1>6, <2>1 DEF Accept, moved
  <2>5. key \notin old  BY DEF IInv, Judged
  <2> QED  BY <1>3, <2>3, <2>4, <2>5
<1>7. ASSUME NEW k \in Client, ForwardCountry(k) PROVE IInv'
  <2>0. client[k] \in ClientState /\ key \in Key \cup {None} /\ key \notin client[k].revoked
    BY DEF IInv, TypeOK, Judged
  <2>1. PICK x : x = [client[k] EXCEPT !.at = "auth", !.expected = key]
    OBVIOUS
  <2>2. x \in ClientState /\ x.at = "auth" /\ x.expected = key /\ x.revoked = client[k].revoked
    BY <2>0, <2>1 DEF ClientState
  <2>3. client' = [client EXCEPT ![k] = x] /\ UNCHANGED <<key, old, keys>>
    BY <1>7, <2>0, <2>1 DEF ForwardCountry, moved, ClientState
  <2> QED  BY <1>3, <2>0, <2>2, <2>3
<1>8. ASSUME NEW k \in Client, NEW user \in Country, NEW p \in Key \cup {None}, NegotiateClientAuth(k, user, p)
      PROVE  IInv'
  <2>1. UNCHANGED <<key, old, keys>>  BY <1>8 DEF NegotiateClientAuth, moved
  <2>2. CASE ~Accepts(client[k], user, p)
    <3>1. client' = [client EXCEPT ![k] = NoClient]  BY <1>8, <2>2 DEF NegotiateClientAuth
    <3> QED  BY <1>3, <1>4, <2>1, <3>1
  <2>3. CASE Accepts(client[k], user, p)
    <3>1. /\ client[k] \in ClientState /\ client[k].at = "auth" /\ key \notin client[k].revoked
          /\ client[k].expected \notin client[k].revoked
      BY <1>8 DEF NegotiateClientAuth, IInv, TypeOK, Judged
    <3>2. client[k].expected \in Key
      BY <2>3, <3>1 DEF Accepts, ClientState
    <3>3. PICK x : x = [client[k] EXCEPT !.at = "relay"]
      OBVIOUS
    <3>4. /\ x \in ClientState /\ x.expected = client[k].expected
          /\ x.revoked = client[k].revoked
      BY <3>1, <3>3 DEF ClientState
    <3>5. client' = [client EXCEPT ![k] = x]
      BY <1>8, <2>3, <3>3 DEF NegotiateClientAuth
    <3> QED  BY <1>3, <2>1, <3>1, <3>2, <3>4, <3>5
  <2> QED  BY <2>2, <2>3
<1> QED  BY <1>2, <1>5, <1>6, <1>7, <1>8

(***************************************************************************)
(* The invariant holds from the start and is kept by every step.           *)
(***************************************************************************)
LEMMA AlwaysIInv == Spec => []IInv
<1>1. Init => IInv
  <2> SUFFICES ASSUME Init PROVE IInv  OBVIOUS
  <2>1. TypeOK
    <3>1. NoCall \in [at : {"idle", "lock", "listen", "insert"}, c : Country \cup {None}]
      BY DEF NoCall
    <3>2. NoClient \in ClientState
      BY DEF NoClient, ClientState
    <3>3. /\ ensure \in [Handler -> [at : {"idle", "lock", "listen", "insert"},
                                     c : Country \cup {None}]]
          /\ client \in [Client -> ClientState]
      BY <3>1, <3>2 DEF Init
    <3>4. keys \in 0..MaxKeys  BY CountryProxyAssumption DEF Init
    <3>5. swept \in BOOLEAN  BY Zenon DEF Init
    <3> QED  BY <3>3, <3>4, <3>5 DEF Init, TypeOK
  <2> QED  BY <2>1 DEF Init, IInv, CallsNamed, SweptWhenDone, OneHolder, Holds, OpenIsListed,
                     NoSelfConflict, Judged, NoCall, NoClient
<1>2. IInv /\ [Next]_vars => IInv'
  <2> SUFFICES ASSUME IInv, [Next]_vars PROVE IInv'  OBVIOUS
  <2>1. CASE UNCHANGED vars
    BY <2>1 DEF IInv, vars, listening, TypeOK, CallsNamed, SweptWhenDone, OneHolder, Holds,
                OpenIsListed, NoSelfConflict, Judged
  <2>2. CASE Next
    BY <2>2, EnsureBeginStep, EnsureLookStep, EnsureListensStep, EnsureInsertsStep, CloseStep,
       ClientStep DEF Next, EnsureNext
  <2> QED  BY <2>1, <2>2
<1> QED  BY <1>1, <1>2, PTL DEF Spec

(***************************************************************************)
(* However many requests ask for a country's proxy at once, and also while *)
(* the context is being cancelled, net.Listen is never called for a port   *)
(* this program still listens on.                                          *)
(***************************************************************************)
THEOREM ListenersNeverCompete == Spec => []NoSelfConflict
<1>1. IInv => NoSelfConflict  BY DEF IInv
<1> QED  BY <1>1, AlwaysIInv, PTL

(***************************************************************************)
(* However often the key is changed, cleared or set again while listeners  *)
(* are open and clients authenticate: a connection accepted after a key    *)
(* was revoked does not pass with it.                                      *)
(***************************************************************************)
THEOREM RevokedKeysRefused == Spec => []RevokedKeyRefused
<1>1. IInv => RevokedKeyRefused  BY DEF IInv, Judged, RevokedKeyRefused
<1> QED  BY <1>1, AlwaysIInv, PTL
=============================================================================
