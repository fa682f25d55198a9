------------------------------ MODULE Settings ------------------------------
(***************************************************************************)
(* Settings changed at run time (src/settings.go, src/config.go, the PUT   *)
(* /api/settings handlers of src/main.go, Manager.UpdateUpstream).  A      *)
(* handler merges its request into the stored configuration and writes it  *)
(* under ConfigStore's lock, and applies it to the running program after   *)
(* the lock was released.  config.json is replaced by a rename or, when it *)
(* is a mount point, truncated and rewritten.                              *)
(***************************************************************************)
EXTENDS Integers, FiniteSets, Ports

CONSTANTS
    Handler,        \* concurrent requests
    Inst,           \* Tor Instances, current ones and replacements
    Key, Address, User, Pass,
    None,           \* "", nil
    Torn,           \* an empty or partial config.json
    socks,          \* base_socks_port, which no handler changes
    Initial,        \* bound: the configuration files to begin with
    Requested,      \* bound: what operators ask for
    MaxRequests,    \* bound: how often
    MaxCrashes      \* bound: crashes and restarts

Upstream == [address : Address \cup {None}, username : User \cup {None}, password : Pass \cup {None}]
NoUpstream == [address |-> None, username |-> None, password |-> None]

\* The fields of Config that handlers change; token is whether the file still has
\* the auth_token of older versions.
Config == [limit : Int, minutes : Int, port : Int, key : Key \cup {None},
           upstream : Upstream, token : BOOLEAN]

\* What a handler is asked for: a password of None keeps the stored one; key is
\* None to keep it, "clear", or the new value, given or generated.
Request ==
    [kind : {"runtime"}, limit : Int, minutes : Int]
      \cup [kind : {"client"}, port : Int, key : Key \cup {None, "clear"}]
      \cup [kind : {"upstream"}, address : Address \cup {None}, username : User \cup {None},
            password : Pass \cup {None}, clear : BOOLEAN]
      \cup [kind : {"legacy"}]

Kind == {"runtime", "client", "upstream", "legacy"}

\* The statuses of an Instance that can be switched or stopped.
InUse == {"starting", "connecting", "running", "switching", "error"}

ASSUME SettingsAssumption ==
    /\ Initial \subseteq Config /\ Requested \subseteq Request
    /\ socks \in Int
    /\ MaxRequests \in Nat /\ MaxCrashes \in Nat
    /\ None \notin Key \cup Address \cup User \cup Pass \cup Handler \cup InUse
    /\ "clear" \notin Key
    /\ Torn \notin Config

VARIABLES
    file,           \* config.json
    late,           \* history: it was written by a save that reported an error afterwards
    mounted,        \* renaming onto it fails with EBUSY
    env,            \* the key and the upstream proxy set in the environment, or None
    up,             \* the program is running
    cfg,            \* ConfigStore.cfg
    lock,           \* the handler holding ConfigStore.mu
    h,              \* where each handler is, with what
    m,              \* Manager.cfg, and its RuntimeClientAuth
    catalog,        \* the upstream proxy of ExitCatalog's client
    tor,            \* the Instances' Tor processes
    unsure,         \* history: kinds of setting whose updates overlapped or failed half-way
    missed,         \* history: Instances an upstream update did not look for, or not in time
    requests, crashes

store == <<file, late, cfg, lock>>
outside == <<mounted, env, requests, crashes>>
history == <<unsure, missed>>
vars == <<store, outside, up, h, m, catalog, tor, history>>

----------------------------------------------------------------------------
(* validate, loadConfig. *)

Valid(c) ==
    /\ ValidPorts(socks, c.port)
    /\ c.limit \in 1..32
    /\ c.minutes \in 0..1440
    /\ c.upstream.username = None <=> c.upstream.password = None

OverriddenKey(key) == IF env.key # None THEN env.key ELSE key
OverriddenUpstream(upstream) == IF env.upstream # None THEN env.upstream ELSE upstream

Effective(c) ==
    [c EXCEPT !.key = OverriddenKey(@), !.upstream = OverriddenUpstream(@)]

\* The part of the configuration the running program works with.
Running(c) == [limit |-> c.limit, minutes |-> c.minutes, key |-> c.key, upstream |-> c.upstream]

\* A process: its upstream proxy; the status to go back to while a switch is
\* pending; whether it is itself a replacement and not yet in m.instances; and
\* whether awaitReady is about to read the proxy, or which one it is about to set.
Off == [status |-> "off", prev |-> None, replacing |-> FALSE, upstream |-> NoUpstream,
        due |-> FALSE, read |-> None]

Idle == [at |-> "idle", kind |-> None, next |-> None, upstream |-> None, key |-> None, todo |-> {}]

\* main has started with a configuration that is valid with what is overridden.
Init ==
    /\ mounted \in BOOLEAN
    /\ env \in [key : Key \cup {None}, upstream : {None} \cup {u \in Upstream : u.address # None}]
    /\ file \in Initial /\ Valid(Effective(file))
    /\ cfg = file /\ lock = None /\ up = TRUE /\ late = FALSE
    /\ m = Running(Effective(file)) /\ catalog = Effective(file).upstream
    /\ h = [x \in Handler |-> Idle]
    /\ tor = [i \in Inst |-> Off]
    /\ unsure = {} /\ missed = {} /\ requests = 0 /\ crashes = 0

----------------------------------------------------------------------------
(* ConfigStore's updates: merge, validate, save. *)

\* UpdateUpstream: a new address keeps the password unless one is given or it is
\* to be cleared; no address clears everything.
MergedUpstream(old, r) ==
    IF r.address = None THEN NoUpstream
    ELSE [address |-> r.address, username |-> r.username,
          password |-> IF r.clear THEN None ELSE IF r.password # None THEN r.password ELSE old.password]

MergedKey(old, r) == IF r.key = "clear" THEN None ELSE IF r.key # None THEN r.key ELSE old

Merged(c, r) ==
    CASE r.kind = "runtime" -> [c EXCEPT !.limit = r.limit, !.minutes = r.minutes]
      [] r.kind = "client" ->
            [c EXCEPT !.port = r.port, !.key = MergedKey(@, r)]
      [] r.kind = "upstream" -> [c EXCEPT !.upstream = MergedUpstream(@, r)]
      [] r.kind = "legacy" -> [c EXCEPT !.token = FALSE]

\* Mistake: the result of the merge is not validated.
AcceptedUnchecked(c, r) == r.kind # "legacy" \/ c.token

\* Whether anything is saved: not an invalid configuration, and ClearLegacyAuth,
\* which does not validate, only if there is something to clear.
Accepted(c, r) == IF r.kind = "legacy" THEN c.token ELSE Valid(Merged(c, r))

\* Mistake: the stored configuration is read without the lock.
LockIgnored(x) == TRUE

LockFree(x) == lock = None

\* Two updates of one kind that overlap may be applied in the other order.
Overlaps(x, r) == \E y \in Handler \ {x} : h[y].kind = r.kind

\* Mistake: s.cfg is set before the file was saved.
UpdateCommitsFirst(x, r) ==
    /\ up /\ requests < MaxRequests /\ requests' = requests + 1
    /\ h[x].at = "idle" /\ LockFree(x)
    /\ IF Accepted(cfg, r)
       THEN /\ h' = [h EXCEPT ![x] = [Idle EXCEPT !.at = "save", !.kind = r.kind, !.next = Merged(cfg, r)]]
            /\ lock' = x
            /\ cfg' = Merged(cfg, r)
            /\ unsure' = IF Overlaps(x, r) THEN unsure \cup {r.kind} ELSE unsure
       ELSE UNCHANGED <<h, lock, cfg, unsure>>
    /\ UNCHANGED <<file, late, mounted, env, crashes, up, m, catalog, tor, missed>>

\* The lock is taken and the new configuration written to a temporary file; or the
\* request is refused.
Update(x, r) ==
    /\ up /\ requests < MaxRequests /\ requests' = requests + 1
    /\ h[x].at = "idle" /\ LockFree(x)
    /\ IF Accepted(cfg, r)
       THEN /\ h' = [h EXCEPT ![x] = [Idle EXCEPT !.at = "save", !.kind = r.kind, !.next = Merged(cfg, r)]]
            /\ lock' = x
            /\ unsure' = IF Overlaps(x, r) THEN unsure \cup {r.kind} ELSE unsure
       ELSE UNCHANGED <<h, lock, unsure>>
    /\ UNCHANGED <<file, late, cfg, mounted, env, crashes, up, m, catalog, tor, missed>>

\* s.cfg = next and unlock; the rest is done without the lock.
Saved(x) ==
    /\ file' = h[x].next /\ late' = FALSE /\ cfg' = h[x].next /\ lock' = None
    /\ h' = [h EXCEPT ![x] = IF @.kind = "legacy" THEN Idle ELSE [@ EXCEPT !.at = "saved"]]
    /\ UNCHANGED <<outside, up, m, catalog, tor, history>>

\* An error: the handler answers with it.
GiveUp(x) ==
    /\ lock' = None
    /\ h' = [h EXCEPT ![x] = Idle]
    /\ UNCHANGED <<cfg, outside, up, m, catalog, tor, history>>

\* The temporary file cannot be written, or not be moved.
SaveFails(x) ==
    /\ h[x].at = "save"
    /\ GiveUp(x)
    /\ UNCHANGED <<file, late>>

\* replaceFile: os.Rename.
Rename(x) ==
    /\ h[x].at = "save" /\ ~mounted
    /\ Saved(x)

\* rewriteMountedFile: os.OpenFile with O_TRUNC, then io.Copy.
Truncate(x) ==
    /\ h[x].at = "save" /\ mounted
    /\ file' = Torn /\ late' = FALSE
    /\ h' = [h EXCEPT ![x].at = "copy"]
    /\ UNCHANGED <<cfg, lock, outside, up, m, catalog, tor, history>>

Copy(x) == h[x].at = "copy" /\ Saved(x)

\* io.Copy fails, or Sync or Close does after everything was written.
CopyFails(x) ==
    /\ h[x].at = "copy"
    /\ GiveUp(x)
    /\ \/ UNCHANGED <<file, late>>
       \/ file' = h[x].next /\ late' = TRUE

----------------------------------------------------------------------------
(* Applying what was saved. *)

program == <<store, outside, up, history>>

\* PUT /api/settings/runtime: UpdateMaxRunning, then UpdateCircuitRotateMinutes,
\* with the values of the request.
ApplyLimit(x) ==
    /\ h[x].at = "saved" /\ h[x].kind = "runtime"
    /\ m' = [m EXCEPT !.limit = h[x].next.limit]
    /\ h' = [h EXCEPT ![x].at = "minutes"]
    /\ UNCHANGED <<program, catalog, tor>>

ApplyMinutes(x) ==
    /\ h[x].at = "minutes"
    /\ m' = [m EXCEPT !.minutes = h[x].next.minutes]
    /\ h' = [h EXCEPT ![x] = Idle]
    /\ UNCHANGED <<program, catalog, tor>>

\* PUT /api/settings/client: the stored key is read again, then UpdateClientAPIKey.
RereadKey(x) ==
    /\ h[x].at = "saved" /\ h[x].kind = "client"
    /\ h' = [h EXCEPT ![x].at = "key", ![x].key = OverriddenKey(cfg.key)]
    /\ UNCHANGED <<program, m, catalog, tor>>

ApplyKey(x) ==
    /\ h[x].at = "key"
    /\ m' = [m EXCEPT !.key = h[x].key]
    /\ h' = [h EXCEPT ![x] = Idle]
    /\ UNCHANGED <<program, catalog, tor>>

\* The Instances UpdateUpstream finds: those of m.instances it can talk to.
Reached(i) == ~tor[i].replacing /\ tor[i].status \in {"connecting", "running", "error"}

\* awaitReady has told the process its proxy, and will not be run for it again.
Settled(i) == ~tor[i].due /\ tor[i].read = None /\ tor[i].prev = None

\* PUT /api/settings/upstream: the stored configuration is read again, and
\* Manager.UpdateUpstream looks for Instances.
RereadUpstream(x) ==
    /\ h[x].at = "saved" /\ h[x].kind = "upstream"
    /\ h' = [h EXCEPT ![x].at = "tor", ![x].upstream = OverriddenUpstream(cfg.upstream),
                      ![x].todo = {i \in Inst : Reached(i)}]
    /\ missed' = missed \cup {i \in Inst : tor[i].status # "off" /\ ~(Reached(i) /\ Settled(i))}
    /\ UNCHANGED <<store, outside, up, unsure, m, catalog, tor>>

\* applyUpstream and SIGNAL NEWNYM over the control port; an Instance that has
\* failed is given another chance.
ApplyToTor(x, i) ==
    /\ h[x].at = "tor" /\ i \in h[x].todo
    /\ tor[i].status # "off"
    /\ tor' = [tor EXCEPT ![i].upstream = h[x].upstream,
                          ![i].status = IF @ = "error" THEN "connecting" ELSE @]
    /\ h' = [h EXCEPT ![x].todo = @ \ {i}]
    /\ UNCHANGED <<program, m, catalog>>

\* Mistake: an Instance that cannot be reached is skipped.
TorSkipped(x) ==
    /\ h[x].at = "tor" /\ h[x].todo # {}
    /\ \E i \in h[x].todo : h' = [h EXCEPT ![x].todo = @ \ {i}]
    /\ UNCHANGED <<program, m, catalog, tor>>

\* The control port does not answer or Tor refuses: the update ends here, with the
\* new settings stored and some Instances using them.
TorFails(x) ==
    /\ h[x].at = "tor" /\ h[x].todo # {}
    /\ unsure' = unsure \cup {"upstream"}
    /\ h' = [h EXCEPT ![x] = Idle]
    /\ UNCHANGED <<store, outside, up, missed, m, catalog, tor>>

\* Mistake: the manager takes over the whole configuration it was handed.
ApplyWholeConfig(x) ==
    /\ h[x].at = "tor" /\ h[x].todo = {}
    /\ m' = [Running(h[x].next) EXCEPT !.upstream = h[x].upstream, !.key = OverriddenKey(@)]
    /\ h' = [h EXCEPT ![x].at = "catalog"]
    /\ UNCHANGED <<program, catalog, tor>>

\* m.cfg's three upstream fields.
ApplyUpstream(x) ==
    /\ h[x].at = "tor" /\ h[x].todo = {}
    /\ m' = [m EXCEPT !.upstream = h[x].upstream]
    /\ h' = [h EXCEPT ![x].at = "catalog"]
    /\ UNCHANGED <<program, catalog, tor>>

\* ExitCatalog.UpdateUpstream.
ApplyToCatalog(x) ==
    /\ h[x].at = "catalog"
    /\ catalog' = h[x].upstream
    /\ h' = [h EXCEPT ![x] = Idle]
    /\ UNCHANGED <<program, m, tor>>

----------------------------------------------------------------------------
(* Tor processes, as far as their upstream proxy goes. *)

others == <<store, outside, up, h, m, catalog, history>>

\* launchInstance or, for a replacement, startDetached: torrc has the manager's
\* upstream proxy.
Launch(i, replacing) ==
    /\ up /\ tor[i].status = "off"
    /\ tor' = [tor EXCEPT ![i] = [Off EXCEPT !.status = "starting", !.replacing = replacing,
                                            !.upstream = m.upstream]]
    /\ missed' = IF \E x \in Handler : h[x].at = "tor" THEN missed \cup {i} ELSE missed \ {i}
    /\ UNCHANGED <<store, outside, up, h, m, catalog, unsure>>

\* awaitReady: the port is open; ...
Connect(i) ==
    /\ tor[i].status = "starting"
    /\ tor' = [tor EXCEPT ![i].status = "connecting", ![i].due = TRUE]
    /\ UNCHANGED others

\* ... the manager's upstream proxy is read again ...
ReadUpstream(i) ==
    /\ tor[i].status # "off" /\ tor[i].due
    /\ tor' = [tor EXCEPT ![i].due = FALSE, ![i].read = m.upstream]
    /\ UNCHANGED others

\* ... and set.
SetUpstream(i) ==
    /\ tor[i].status # "off" /\ tor[i].read # None
    /\ tor' = [tor EXCEPT ![i].upstream = tor[i].read, ![i].read = None]
    /\ UNCHANGED others

\* awaitBootstrap has seen traffic; the one started after a cancelled switch does
\* not wait for awaitReady.
MarkRunning(i) ==
    /\ tor[i].status = "connecting"
    /\ tor' = [tor EXCEPT ![i].status = "running"]
    /\ UNCHANGED others

\* failInstance: no proxy could be set, or a deadline has passed.
Fail(i) ==
    /\ tor[i].status \in {"starting", "connecting", "switching"}
    /\ tor' = [tor EXCEPT ![i].status = "error", ![i].due = FALSE, ![i].read = None]
    /\ UNCHANGED others

\* replaceNode: the Instance waits for a replacement ...
BeginSwitch(i) ==
    /\ tor[i].status \in InUse /\ ~tor[i].replacing
    /\ tor' = [tor EXCEPT ![i].status = "switching",
                          ![i].prev = IF @ = None THEN tor[i].status ELSE @]
    /\ UNCHANGED others

\* ... which fails or is cancelled (restoreAfterReplacementLocked), ...
KeepOld(i) ==
    /\ tor[i].status # "off" /\ tor[i].prev # None
    /\ tor' = [tor EXCEPT ![i].status = tor[i].prev, ![i].prev = None]
    /\ UNCHANGED others

\* ... or takes its place (completeReplacement).  What this does to the Instance
\* replaced is Drain; nothing here depends on both happening at once.
Cutover(i) ==
    /\ tor[i].replacing /\ tor[i].status = "running"
    /\ tor' = [tor EXCEPT ![i].replacing = FALSE]
    /\ UNCHANGED others

\* The Instance was replaced or stopped: connections drain.
Drain(i) ==
    /\ tor[i].status \in InUse /\ ~tor[i].replacing
    /\ tor' = [tor EXCEPT ![i].status = "draining", ![i].prev = None]
    /\ UNCHANGED others

Exit(i) ==
    /\ tor[i].status # "off"
    /\ tor' = [tor EXCEPT ![i] = Off]
    /\ UNCHANGED others

----------------------------------------------------------------------------
Crash ==
    /\ up /\ crashes < MaxCrashes
    /\ crashes' = crashes + 1
    /\ up' = FALSE
    /\ lock' = None /\ h' = [x \in Handler |-> Idle] /\ tor' = [i \in Inst |-> Off]
    /\ unsure' = {} /\ missed' = {} /\ late' = FALSE
    /\ UNCHANGED <<file, cfg, mounted, env, requests, m, catalog>>

\* main, with a configuration file that can be parsed and is valid; otherwise the
\* program exits.
Restart ==
    /\ ~up
    /\ file # Torn /\ Valid(Effective(file))
    /\ up' = TRUE
    /\ cfg' = file
    /\ m' = Running(Effective(file)) /\ catalog' = Effective(file).upstream
    /\ UNCHANGED <<file, late, lock, outside, h, tor, history>>

Next ==
    \/ \E x \in Handler :
          \/ \E r \in Requested : Update(x, r)
          \/ SaveFails(x) \/ Rename(x) \/ Truncate(x) \/ Copy(x) \/ CopyFails(x)
          \/ ApplyLimit(x) \/ ApplyMinutes(x)
          \/ RereadKey(x) \/ ApplyKey(x)
          \/ RereadUpstream(x) \/ ApplyUpstream(x) \/ ApplyToCatalog(x) \/ TorFails(x)
          \/ \E i \in Inst : ApplyToTor(x, i)
    \/ \E i \in Inst :
          \/ \E replacing \in BOOLEAN : Launch(i, replacing)
          \/ Connect(i) \/ ReadUpstream(i) \/ SetUpstream(i) \/ MarkRunning(i) \/ Fail(i)
          \/ BeginSwitch(i) \/ KeepOld(i) \/ Cutover(i) \/ Drain(i) \/ Exit(i)
    \/ Crash \/ Restart

Spec == Init /\ [][Next]_vars

----------------------------------------------------------------------------
\* How far a request has come, with what it saves and applies.
HandlerState ==
    [at : {"idle", "save", "copy", "saved", "minutes", "key", "tor", "catalog"},
     kind : Kind \cup {None}, next : Config \cup {None},
     upstream : Upstream \cup {None}, key : Key \cup {None}, todo : SUBSET Inst]

\* A Tor process and its upstream proxy.
TorState ==
    [status : InUse \cup {"off", "draining"}, prev : InUse \cup {None}, replacing : BOOLEAN,
     upstream : Upstream, due : BOOLEAN, read : Upstream \cup {None}]

TypeOK ==
    /\ file \in Config \cup {Torn} /\ late \in BOOLEAN /\ cfg \in Config
    /\ mounted \in BOOLEAN /\ up \in BOOLEAN
    /\ lock \in Handler \cup {None}
    /\ h \in [Handler -> HandlerState]
    /\ m \in [limit : Int, minutes : Int, key : Key \cup {None}, upstream : Upstream]
    /\ catalog \in Upstream
    /\ tor \in [Inst -> TorState]
    /\ unsure \subseteq Kind /\ missed \subseteq Inst

(***************************************************************************)
(* config.json and ConfigStore stay together: while the program runs and   *)
(* nobody is writing, a readable file holds what the store answers with,   *)
(* failed saves included, with one exception (saveLocked, replaceFile): a  *)
(* mounted file rewritten completely when Sync or Close then failed holds  *)
(* what the caller was told was not saved, until the next save.  Only a    *)
(* mounted file is ever unreadable.                                        *)
(***************************************************************************)
FileCurrent ==
    /\ file = Torn \/ late => mounted
    /\ up /\ lock = None /\ file # Torn /\ ~late => file = cfg

(***************************************************************************)
(* No update is lost: a save changes the settings it was asked to change   *)
(* and keeps all others, those saved by a concurrent request included.     *)
(***************************************************************************)
Touches(kind, f) ==
    \/ kind = "runtime" /\ f \in {"limit", "minutes"}
    \/ kind = "client" /\ f \in {"port", "key"}
    \/ kind = "upstream" /\ f = "upstream"
    \/ kind = "legacy" /\ f = "token"

NoLostUpdate ==
    [][up /\ cfg' # cfg =>
         \E x \in Handler : \A f \in DOMAIN cfg : cfg'[f] # cfg[f] => Touches(h[x].kind, f)]_vars

(***************************************************************************)
(* Whatever sequence of requests was served and wherever the program died, *)
(* the file it left can be started from if it can be read at all: stored   *)
(* settings are valid together with what the environment overrides.        *)
(***************************************************************************)
RestartAccepted == file # Torn => Valid(Effective(file))

Updating(kind) == \E x \in Handler : h[x].kind = kind

(***************************************************************************)
(* When no update of a kind is under way, and no two of them overlapped    *)
(* and none failed half-way, the running program uses what is stored,      *)
(* together with what the environment overrides: updates of other kinds    *)
(* that run at the same time never undo it.                                *)
(***************************************************************************)
Applied ==
    up =>
      /\ ~Updating("runtime") /\ "runtime" \notin unsure =>
            m.limit = cfg.limit /\ m.minutes = cfg.minutes
      /\ ~Updating("client") /\ "client" \notin unsure => m.key = Effective(cfg).key
      /\ ~Updating("upstream") /\ "upstream" \notin unsure =>
            m.upstream = Effective(cfg).upstream /\ catalog = Effective(cfg).upstream

(***************************************************************************)
(* Likewise every running Tor process uses the stored upstream proxy once  *)
(* awaitReady is done with it: a new one is told by torrc and awaitReady,  *)
(* one of m.instances by UpdateUpstream.  Not covered are processes that   *)
(* UpdateUpstream did not look for while an update was applied (starting,  *)
(* switching or replacing another: a replacement keeps the old proxy after *)
(* its cutover), and those awaitReady told at the same time.               *)
(***************************************************************************)
TorFollows ==
    \A i \in Inst \ missed :
        tor[i].status = "running" /\ ~tor[i].due /\ tor[i].read = None
        /\ ~Updating("upstream") /\ "upstream" \notin unsure
            => tor[i].upstream = Effective(cfg).upstream
=============================================================================
