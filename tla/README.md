# A TLA+ specification of Tor Country Manager

Tor Country Manager runs one Tor client per country, offers each as a SOCKS5
port and lets operators, API clients and a health monitor start, stop and
switch them. Nearly all of its difficulty is in `src/manager.go`: HTTP handlers
and half a dozen kinds of goroutine change the same `Instance` records, each
holding a mutex only for a moment at a time. This project models that core, the
health monitor that drives it, the connections that depend on it, the exit
catalog, the settings, the password and session store and the files all of them
leave behind; it checks them with TLC on small instances and proves the central
guarantees with TLAPS for instances of any size.

`PROJECT.json` lists components, runs, mutants, the map from definitions to
source lines, findings, hazards and theorems. Line numbers below refer to the
repository's files under `src/`.

## 1. The system

| Component | State | Operations | Talks to |
|---|---|---|---|
| Instance manager (`manager.go`) | `instances`, `allInstances`, `active`, `shuttingDown`, `reservedPorts`, the `Instance` records; mutexes `startMu` (capacity and launches), `mu` (records), `portMu`, `dirMu`, `stateMu` | `Start`, `Activate`, `Stop`, `StartNode`/`ActivateNode`, `CancelReplacement`, `UpdateMaxRunning`, `UpdateUpstream`, `Shutdown`; goroutines `watch`, `awaitReady`, `awaitBootstrap`, `runAutoRestart`, `completeReplacement`, `drainAndStop`, `drainInstance`, circuit rotation | Tor processes (exec, signals, control port), instance directories, handlers, health monitor, proxies |
| Runtime state (`manager.go`, `main.go`) | `resumeNodes`, `resumeActive`, `runtime-state.json` | remember, forget, save, load, `Restore` | manager, file system |
| Route health monitor (`health.go`) | a record per country (failures, last switch), `globalFailure` | one round per minute: snapshot, probe, collect, apply | manager (`ActivateNode`, `StartNode`), catalog |
| Exit catalog (`catalog.go`) | node list, latencies, refresh in progress | refresh, latency checks, `SelectNode`, alternates | Onionoo, handlers, health |
| Client routes, country proxies (`client_routes.go`) | a listener per country, API key | `EnsureCountryProxy`, authentication, readiness | manager's acquire and release |
| Proxy and draining (`proxy.go`) | connection counts in `Instance` | accept, relay, release | manager |
| SOCKS5 client (`socks5.go`) | none | one handshake | Tor's SOCKS port |
| Web authentication (`auth.go`, `runtime_auth.go`) | sessions, throttle table, hash file | set up, log in, change the password | handlers |
| Settings (`settings.go`, `replace_file_*.go`) | `config.json` | update runtime, upstream, client settings | handlers, manager |
| Configuration (`config.go`) | none | validation, the port layout | all |
| Handlers and `main` (`main.go`) | none | decode, call one or two operations, answer | all |

What is hard here:

* **Read, unlock, act.** `startNode` looks at a record and writes it in another
  critical section; `makeRoom` chooses under one lock and stops under the next;
  `runAutoRestart` decides and then calls `Start`; `completeReplacement` reads
  the replacement's status under a read lock and installs it under the write
  lock; `watch` clears `cmd` and removes the directory afterwards.
* **Goroutines that outlive what they were started for.** Waiters, restart
  timers, drain goroutines and switch goroutines must find out that their
  process, attempt or replacement has been superseded.
* **Superseding.** A switch may be replaced, cancelled, stopped, failed or
  overtaken by the death of either process, at every point.
* **Shutdown** against everything else.
* **Crashes** between changing the list of routes, saving it and restoring it;
  in the middle of a rewrite of `config.json` or of the password's hash.
* **Store, then apply.** Settings handlers store under one lock and apply under
  others, to the manager, the catalog and one Tor process after the other.
* **Double-checked locks and late results** in the catalog.
* **Stale snapshots** in the health monitor: a result may be a probe (20 s) and
  a catalog refresh (30 s) old when it is applied.

What makes each component correct:

* manager: what counts as online has a process; no process is forgotten; every
  start, switch and stop ends; traffic moves only to verified processes; the
  limit on countries holds; Shutdown is complete and final; a scheduled restart
  has its timer;
* runtime state: no save is lost, no crash loses a route, what is stopped is
  forgotten;
* health: switches are paced and paused by a global failure, a round always
  ends, and it does not overrule operators;
* connections: the count that keeps a drain waiting is exact, a drain cuts
  nobody off before its deadline, and it ends;
* country proxies: handlers do not compete for a port, nobody who connects after
  a key was changed enters with it, no listener is left behind; the ports of
  the configured layout never meet;
* settings: the file is what the store says, no update is lost, an accepted
  sequence of updates can be restarted from, and the program follows it;
* authentication: the password last set is the one that counts, failed logins
  are paced, refusals end, sessions are independent;
* catalog: one download per refresh, measurements never resurrect a node, the
  node chosen is the one the policy means.

## 2. Modules

| Module | Contents |
|---|---|
| `Manager` | the instance manager: state, one action per critical section, fairness |
| `ManagerProps` | its properties: those it keeps, then those the repository states and the code breaks |
| `ManagerProofs` | theorems about `Manager`: types, processes, Shutdown, switches, waiters and timers, the limit on countries, and that it implements `Fleet` |
| `Fleet` | what the manager promises to the other components; `Manager` implements it |
| `Connections`, `ConnectionsProofs` | client connections and drains, on top of `Fleet`; theorems about them |
| `CountryProxy`, `CountryProxyProofs` | the listeners of the countries and their authentication; theorems about them |
| `Ports` | the port layout |
| `Settings` | the settings store, `config.json`, and applying what was stored |
| `SettingsProofs` | theorems about `Settings` and `Ports` |
| `AuthStore`, `AuthStoreProofs` | password, sessions and login throttling; theorems about them |
| `Catalog`, `CatalogProofs` | refresh, latency checks and selection of exit nodes; theorems about them |
| `Health`, `HealthProofs` | the health monitor over a reduced manager, with its properties; theorems about it |
| `RuntimeState` | the restore list, its file, `Restore` and crashes, with its properties |
| `RuntimeStateProofs` | theorems about `RuntimeState` |
| `MC...` | the same for TLC, with the sets and symmetries its runs use |

Operators that begin a comment with *Mistake* are mutated forms of the
definition that follows them. The specifications do not use them; a property is
only worth its run if some mistake of this kind breaks it.

### Manager

An `Instance` object is named `<<country, n>>`: `n = 0` is the object
`NewManager` or `ensureCountry` creates, `n > 0` the replacement made by the
country's `n`-th switch. Objects are never reused, so comparing names is
comparing pointers. Of the record the fields that control depends on are kept:
`status`, `cmd` (the number of its process, 0 for nil), `stopping`, `draining`,
`failed` (whether `failInstance` has signalled that process, whose status may have
changed since),
`prev` (`replacementPrevious`), `pending` (`pendingReplacement`), `attempts`,
`scheduled`, `startedAt` (a logical time), `exitIP` (whether one is known), `fp`
(the node asked for), `torrc` (the node the process was configured with) and
`port` (one for the pair a replacement reserves). The `replacement` flag and
`replacementSequence` are left out: the first is `pending # None`, the second is
implied by object identity.

Control state outside records:

* `op` is the holder of `startMu` and where it is (`evict`, `launch`, `trim`,
  `detach`), with the call's arguments;
* `calls` are handlers between two critical sections that do not hold `startMu`
  (`startNode` after its look, `Activate` after `Start`, `runAutoRestart`
  before and after `Start`);
* `tasks` are goroutines: waiters, the two halves of `watch` after the exit was
  recorded, restart timers, drains;
* `switches` are `completeReplacement` goroutines: polling, between the two
  locks, and before the final `rememberInstance`;
* `shutdown` is the call of `Shutdown`.

`ClientNext` are requests, `HandlerNext` the rest of the handlers,
`BackgroundNext` goroutines, `ProcessNext` the exit of a Tor process, at any
time and for any reason.

**Atomicity.** An action is one critical section of `mu`. Some actions join
several, where nothing another goroutine can do in between makes a difference
the model could see, or where the longer gap next to it already shows what can:

* `stop`'s successive critical sections, `forgetInstance` included (the caller
  of `makeRoom` and `UpdateMaxRunning` holds `startMu`; `Stop` takes it);
* `startNode`'s `ensureCountry` with the read that follows; the gap after the
  read is modelled;
* `StartLaunch` with its `rememberInstance` (under `startMu`);
* `GiveUp`: restore, stop the replacement, give the old one its waiter;
* Shutdown's copy of `allInstances` and the stops: each pass stops what is
  there, one Instance at a time;
* the exit of a process with `watch`'s first critical section; the clean-up
  (ports, directory) and the final one are separate actions.

Waiters of a process that is gone are dropped with it: they compare `cmd` and
return. Two equal calls in flight at the same point are one element of
`calls`. `UpstreamRetry` treats one Instance per request.

### Health

One round: `RunOnce` (snapshot of running countries and of `active`),
`ProbeInstance` (the probe of one route ends; its result is dropped if the route
changed), `Collect` (`globalFailure`), `ApplyProbeResult` one result at a time,
then the catalog refresh (`NoAlternate`, `AlternateNode`) and `switchNode`
(`SwitchRefused`, `SwitchNode`). The manager is reduced to one record per country:
its actions say which changes of a route the monitor may meet, those operators and
clients ask for (`Activate`, `Stop`, and `ChooseNode` for `ActivateNode` and
`StartNode`) included. Where it simplifies it allows more than the code: a failed
route may restart after a failed switch, and a replacement may be cut over to
although the old process died. A crash counts as a request, which bounds how often
routes change, not how.
`ConsecutiveFailures` is only compared with the threshold, so it stops counting
there. The clock `now` ticks freely, which covers any duration of a probe or a
refresh.

### RuntimeState

`Remember` and `Forget` change memory under `mu`; `Snapshot` takes `stateMu` and
copies; `Replace` renames the new file over the old one or fails, which `saved`
records. Writing the temporary file and renaming it is one step because only the
rename is visible after a crash. `Crash` loses memory, writers and locks. `Load`
or `LoadFails`, `RestoreStarts`, `RestoreFails` and `RestoreDone` are the next
program's start. A file that cannot be read or parsed is only logged: the list is
empty, and the first save replaces the file. Launches are not serialised by
`startMu` here and `Adopt` may hit any country, both more than the code allows. An
eviction during `Restore` is not modelled. It happens when more countries are
restored than may run: the limit was lowered between two programs, or countries
that failed, which stay on the list without a process, come up at the next start.

### Fleet and Connections

`Fleet` forgets statuses, tasks and locks: which Instances have a process, which
were told to end by a stop (`signalled`) or because they failed (`failed`), drain,
have had an exit address, may be handed out (`ready`,
free to change, but only within the living), which one answers for each country
(an Instance never answers for two), and the phase of Shutdown. Its promises are
in its guards: nothing is launched once it closes; an Instance that answers for a
country is drained before its process is stopped; `failInstance` may tell the
process of any Instance to end, one that answers for its country too, but none
that drains; traffic moves to a verified
Instance that is not draining, and the old one drains from that moment; Shutdown
returns nil when nothing lives, and gives up only when everything left was stopped.
`ManagerProps!ImplementsFleet` maps `Manager`'s records to these sets.

`Connections` composes the connection goroutines of `proxy.go` and
`client_routes.go` and the two drain goroutines with `Fleet`, failures under
held connections included. A drain is in its
loop, or has left it because the counter was zero or because the deadline had
passed; the call of `stopInstance` that follows is a step of its own. Dialling
and relaying are one state, "held": nothing but the release is visible.
Objects are not reused, which `retired` says: a cutover is never to an Instance
that has answered before.

### CountryProxy and Ports

`EnsureCountryProxy` is four steps (the key, the look, `net.Listen`, the insert),
of which the last three hold `countryListenMu`. The goroutine of
`StartCountryProxies` and the one of each `serveCountryProxy` close the same
sockets when the context ends. A connection is accepted by the loop (`Accept`), its
goroutine reads the key once (`ForwardCountry`), and it ends in one of the outcomes
of `negotiateClientAuth` or at the deadline of 15 seconds (`Deadline`); messages
that do not parse are `Disconnect`. The history variables `old` and `revoked` say
which keys had been replaced or cleared when the connection was accepted. The
bearer token of the API uses the same key and is not modelled separately.

`Ports` has the layout as operators over all integers: two-letter codes are
pairs of positions in the alphabet, Tor's ports are numbered as countries are
met. `Settings` uses its `ValidPorts` for `validate`. It is the configured layout:
the ports of `listen_address` and `proxy_address`, which `validate` does not compare
with it, and the ports replacements get from the system (`manager.go`:957) are
outside.

### Settings

A handler takes the store's lock, merges and validates (`Update`), saves
(`Rename`, or `Truncate` and `Copy` where the file is a mount point; each may
fail, the copy also when everything was written, which `late` records) and applies after unlocking: `runtime` to the manager in two steps, `client`
after reading the stored key again, `upstream` after reading the configuration
again, to one Tor process after the other (those `Reached`, chosen once), the
manager and the catalog.
Environment variables override the key and the upstream proxy in both places,
`loadConfig` and the handlers. `config.json` starts with the defaults and any
upstream proxy. A Tor process is reduced to its status, its upstream proxy, whether
it is a replacement that waits for its cutover, and where `awaitReady` is: it reads
the manager's proxy (`ReadUpstream`) and sets it later (`SetUpstream`). A failed
process stays until it exits, since `UpdateUpstream` gives it another chance. A
cutover and the drain of what it replaces are two steps, which no property here
tells from one. The history variables `unsure` and `missed` say where the code
cannot keep store and program together: updates of one kind that overlapped or
stopped half-way, and processes that were starting, switching, replacing another or
being told by `awaitReady` while an upstream update was applied. The country
proxy's host is handled like its port and left out.

### AuthStore

A password stands for its hash, so `file` holds a password, nothing, or what a
write that was cut short leaves. `os.WriteFile` truncates and writes: `BeginWrite`
and `EndWrite`, under the lock; a write that fails or is cut off by a crash may have
got anywhere (`Interrupted`), to the complete hash too, which `unanswered` records.
A login has read the clock at most `MaxWait` before it gets the mutex (`Read`). Handlers create their session after releasing it
(`creating`), the password handler after clearing the token in `config.json` as
well (`clearing`). The session check of `authAPI` and the operation it admits are
one step. Time is a counter that ticks freely. `failed` remembers the times of a
client's latest failed logins, `acknowledged` the password last set.

### Catalog

A request looks, waits for `refreshMu`, looks again, downloads, stores or fails,
starts measurements and (for a route) chooses country by country, each under a
lock of its own. The directory's answer is one of `Documents`; of a relay that
`refresh` keeps, country and weight are left. A request that only reads the
catalog is a `nodes` request whose measurements have not ended. `sort.Slice` is not
stable, so `First` is the set of nodes that may come first. `ChoiceBest` compares the
two passes with `Reference`, which defines the policies directly.

## 3. Runs

All passing runs stop when the bounded requests are used up and everything
asked for is done, hence `CHECK_DEADLOCK FALSE`; that nothing gets stuck before
is what the liveness runs check. States are distinct states.

| Run | States | Shows |
|---|---|---|
| `lifecycle` | 1.8 M | one country, all kinds of request, one switch, two launches per Instance, two automatic restarts, Shutdown: types, `CountedHasProcess`, `ShutdownLeavesNoProcess`, `NoLaunchAfterShutdown`, `WaiterExists`, `RestartNotLost`, and the refinement `ImplementsFleet` |
| `supersede` | 2.7 M | two switches of a country that supersede, cancel and stop each other: `PendingOwned`, `NoOrphan`, `CutoverVerified` |
| `capacity` | 2.2 M | two countries under limits of one and two, with evictions, stops, automatic restarts and a changing limit: `Capacity`, as long as the system is `Undisturbed` |
| `progress` | 95 k | `SwitchResolves`, `StartResolves`, `StopCompletes`, `ShutdownDrains` under fairness |
| `health` | 607 k | `Paced`, `PausedByGlobalFailure`, and `RoundEnds` under fairness, over two countries, restored or not, with an operator's request (a node request among them) or a crash |
| `persistence` | 0.7 M | `DiskCurrent`, `RestoreKeepsPending`, `RestoresActive` with two writers, failing writes and loads, and two crashes |
| `connections` | 210 k | `CountExact`, `DrainGraceful` and, under fairness, `DrainEnds` for two connections, an Instance and its replacement |
| `country_proxy` | 389 k | `NoSelfConflict`, `RevokedKeyRefused` and, under fairness, `ListenersClose` and `OldKeyExpires` for two handlers, a client and changes of the key |
| `settings` | 2.6 M | `FileCurrent`, `NoLostUpdate`, `RestartAccepted`, `Applied`, `TorFollows` for two handlers, a Tor process (a country's or a replacement) and a crash, with and without a mounted file and overriding variables |
| `auth` | 1.7 M | `LastPasswordCounts`, `FailuresPaced`, `RefusedOnlyAfterFailure`, `SessionKept` over three ticks, two changes of the password and a crash |
| `catalog` | 3.1 M | `NodesFromDocument`, `RefreshedOnce`, `ChoiceBest` for two requests, two nodes and three answers of the directory |

The constraint of `capacity` cuts every behaviour where `Undisturbed` ends, that is,
where a process is switched or a country that was stopped is online again: from
there on `Capacity` may fail (section 4). The run checks no liveness, for which a
constraint would not be sound.

**Bounds.** `MaxRequests` = 3 is enough for a request, one that conflicts with it,
and a third that meets their leftovers; a request for a node starts a country that
has no process, so runs without plain starts lose nothing. `MaxSwitch` = 1 gives
an old and a new Instance; 2 gives the superseded one as well (with two ports, as
each replacement holds one). `MaxLaunch` = 2 is what makes Instances, directories
and waiters of an earlier process meet those of a later one. `autoRestartLimit` is
1 or 2 instead of 3: 1 has only a last attempt, 2 has one before it. One node is
enough where only "the same or another Instance" matters, since a node request for
a node that is not running always switches. In `health`, `failures` = 1 and
`cooldown` = 1 have a value below and at each threshold; the health monitor starts
after `Restore`, so countries may be starting already and one request is enough to
interfere. In `settings` two requests are what it takes for one to meet another,
of the same or of another kind (there are two valid ones of each kind that has
values); refused ones are included. In `auth` two failures block for two ticks and are forgotten
after more than two, sessions last two, and a login waits one tick at most for the
mutex: three ticks are enough for a block to end, a record to be forgotten and a
session to expire. One client suffices, since clients share nothing but the table. In `catalog` one
tick makes a download or a measurement old. Symmetry among configured countries,
other countries, nodes, ports, handlers, callers and tokens is used where no
liveness is checked.

**Fairness** (`Manager!FairSpec`). Weak fairness of handlers and of goroutines: Go
schedules them, their mutexes are held for bounded times, and every wait has a
deadline: 90 s for the port, 3 min for the exit address, 4 min for a switch, the
drain timeout, the restart delay. No fairness says that a Tor process comes up,
that a port opens or that an exit is verified. A process ends for certain only if
it was signalled (`stopping`, or `failed` after `failInstance`): `signalProcess`
kills it after 8 s. `Health!FairSpec` has weak fairness of the monitor's
goroutine: a probe has a timeout of 20 s and a refresh one of 30 s.
`Connections!FairSpec` lets drain goroutines see their deadline and processes that
were told to end do so; no client ever has to close. `CountryProxy!FairSpec` lets
handlers past their locks finish, the goroutines that wait for the context
close their sockets, and connections start and meet their deadline.

## 4. What the code does not keep

One run, `ready_after_restart`, states what the repository's README says of the
program and shows an execution that breaks it; `PROJECT.json` quotes the lines.
`stop` sets `draining` and nothing resets it, so a country stopped and started
again is reported ready and refuses connections.

`ManagerProps` has five more formulas of this kind, each with the line of the
README it comes from. TLC refutes each within seconds on one or two countries:

| Formula | What happens |
|---|---|
| `LastRestartHasTimer` | the last announced automatic restart never happens, because the limit is compared again after the attempt was counted (478) |
| `RestartOnlyRemembered` | an automatic restart past its check launches a country stopped meanwhile, and it is remembered again (504) |
| `PinnedExit` | two node requests leave a country running one node and claiming the other (814) |
| `CutoverAlive` | traffic moves to a replacement that has just died (1036) |
| `EvictionMakesRoom` | a country stopped and started again still has `draining` set, so `stop` returns early (608) and reports success: with the limit reached, the start of another country evicts nothing and goes ahead (README 151); a lowered limit leaves it online as well |

`CutoverVerified`, `RestartNotLost` and `Capacity` in an undisturbed system are the
parts of these promises that do hold.

The model has further executions of this kind. They are not kept as runs, but
the formulas are short, and TLC refutes each within seconds on one or two
countries:

* `~shuttingDown => (inst[instances[c]].status = "stopped" => c \notin resumeNodes)`:
  `completeReplacement` remembers a country (1056) after `stop` forgot it;
* `inst[i].status = "running" => inst[i].exitIP`: a cancelled switch restores
  "running" (914) for a later process that was never verified; with "switching"
  on the left as well, a country switched while still connecting counts as ready;
* `inst[i].cmd # 0 => DirOf(i, inst[i].cmd) \in dirs`: `watch` removes the directory
  (418) the next process already uses, and two Instances may share one, since a
  restarted replacement moves to the country's directory (268), where the old
  process may still drain;
* `shutdown = "done" => dirs = {}`: Shutdown waits for `cmd`, not for the clean-up
  (1389), which `TestShutdownWaitsForProcessAndCleanup` expects;
* `op.at = "evict" /\ op'.at = "launch" => active \notin op.todo`: a country chosen for
  eviction may be activated before it is stopped (331);
* `Capacity` with switches or a change of the upstream proxy: a failed country
  whose process lives comes back online without asking `makeRoom`, when it is
  switched (857) or given another chance by `UpdateUpstream`;
* in `Health`, `active' \in {active, None} \/ requests' # requests`: an automatic switch uses
  the active flag of its snapshot (`health.go`:246) and overrules an operator;
  likewise it may launch a country stopped while the catalog was refreshed. Two
  automatic switches may start closer together than the cooldown, since it is
  counted from a time read before the refresh (198, 241); `Paced` bounds their rate.
  A result dropped because its route changed does not count (161): if one failing
  result is left, an outage is taken for a bad node, and if the only success was
  dropped, bad nodes are taken for an outage;
* in `Settings`, `Applied` without `unsure`: two updates of one kind may be applied in
  the other order (`main.go`:206), and an Instance that cannot be reached ends
  an upstream update after it was stored (`manager.go`:1195); `TorFollows` without
  `missed`: an Instance that was starting, switching or a pending replacement, which
  `UpdateUpstream` does not look at (`manager.go`:1186), keeps the old proxy, a
  replacement also after its cutover, and `awaitReady` may set the old one after the
  new; `file # Torn`: a crash while a mounted file is rewritten; `FileCurrent` without
  `late`: a mounted file whose `Sync` or `Close` failed (`replace_file_unix.go`:37) holds
  an update that was answered with an error, until the next save or start;
* in `AuthStore`, `LastPasswordCounts` without its premises on `file` and
  `unanswered`: a hash file cut short admits the legacy token, a new setup, or
  nobody, and one that is complete although its write failed makes a password count
  at the next start whose change was answered with an error; a login checked
  before a change of the password gets its session after it;
* in `Catalog`, a download through the old upstream proxy that ends after
  `UpdateUpstream` marks the catalog fresh;
* in `CountryProxy`, `client[k].at = "auth" => client[k].expected = key`: README 172 says that
  the old key is invalid at once ("旧密钥随即失效"), but a connection accepted before
  the change is let in with it for up to 15 seconds (`client_routes.go`:104);
  `RevokedKeyRefused` and `OldKeyExpires` are what does hold;
* in `CountryProxy`, `c \in countryListeners /\ socket[c] = "open" => c \in serving`: an error
  of `Accept` ends the loop of a listener that stays listed (`client_routes.go`:95);
* in `Connections`, `DrainGraceful` without its last line: an Instance switched while it
  is still connecting is "switching" (857), hence handed out (688), and its waiter may
  fail it (532, 559) and signal the process (562-572) under the connections it was
  given, without a drain;
* in `Connections`, a drain goroutine stops whatever process its Instance has when
  it leaves its loop, one launched since included (641).

## 5. Proofs

**Manager.** Assumption: `ManagerAssumption` (there are finitely many countries,
without which those online could not be counted, configured codes are among them,
limits are positive, bounds are natural numbers, `None` is none of the
names). `TypeCorrect` proves `TypeOK` together with `OpOK`: what the holder of
`startMu` works on exists, without which the types are not inductive, because
`Start` uses the country's current Instance several steps after it looked.

`OnlineHasProcess`, `ShutdownComplete` and `ShutdownIsFinal` follow from

    IInv == TypeOK /\ OpOK /\ ProcessInv /\ ShutdownInv

* `ProcessInv` is `CountedHasProcess` with `ProcessTracked` (a process's
  Instance is in `allInstances`). The argument is in lemmas on records: only the
  two launches and the exit change `cmd`, and every other helper (`stop`,
  `stopInstance`, `restoreAfterReplacementLocked`, scheduling) keeps it and leaves
  no online status without a process (`Kept`). `ProcessStep` is then one step per
  action.
* `ShutdownInv`: once `shuttingDown` is set, nobody who may still launch a
  process holds `startMu` (Shutdown sets the flag while holding it, and everyone
  looks at the flag after taking it), and when Shutdown has returned nil there is
  no process. `ShutdownReturns` sees every Instance of `allInstances` without a
  process; `ProcessTracked` makes these all Instances there are, and the
  first half keeps it so.

**Switches.** `SwitchesOwned`, `ProcessesOwned` and `CutoversVerified` follow from
`IInv` and

    SwitchInv == Named /\ Born /\ Fledgling /\ Verified /\ DrainInv /\ PendingClean
                 /\ Unadopted /\ PendingOwned /\ NoOrphan

None of the three is inductive. A replacement must be one its country was not
moved to yet and belong to one `replaceNode` or `completeReplacement` only
(`Fledgling`), otherwise a superseded switch could resolve, or stop, the one that
superseded it; an object that was not made yet has no state (`Born`); and an
Instance never changes its country (`Named`). `Verified` carries the poll, made
under the read lock, to the cutover under the write lock: a replacement keeps the
exit address it once had. `DrainInv` and `PendingClean` say who drains: what was
told to end does, the old Instance of a finished cutover does, and neither side of a
pending switch does before Shutdown. Steps are of two kinds
(`StillOrMoves`): most change nothing a switch depends on, which `StillKeeps` settles
at once; the others (`Moves`) have a lemma each.

`ManagerImplementsFleet` uses the same invariant. Every step of the manager is a
step of `Fleet` or leaves its state alone: the two launches are `Launch`,
`WatchExit` is `Exit`, `ExitVerified` is `Verify`, a waiter that fails is `Fail`, the cutover is `Cutover`, the
creation of a country is `Adopt`, what stops, drains or gives up is `Withdraw`,
and the steps of Shutdown are `Close` and `Closed`. That only verified Instances
that do not drain are cut over to is `Verified` and `PendingClean`, that nothing
is launched once it closes and that it returns over no process is `ShutdownInv`.

`WaitersExist` and `RestartsKept` need `TimedInv` in addition: a restart is
scheduled only for a country's current Instance that failed, has no process and no
pending switch, so that whatever starts, stops or switches it also clears the
schedule; and whoever waits for a process is not dropped before it (`Spared`, and
`Undue` for what is not waited for).

**The limit.** `CapacityKept` is `Spec /\ []Undisturbed => []Capacity`, for kinds of
request without changes of the upstream proxy. `Undisturbed` (nothing is being
switched, and nothing online has drained before) names the two ways section 4
shows around `makeRoom`, and the third is a kind of request. Everything else may
happen: any number of countries, starts, stops, failures, automatic restarts,
changes of the limit, Shutdown, countries that were not configured. `Capacity` is
not inductive: `makeRoom` looks and `Start` launches some steps later,
`UpdateMaxRunning` lowers the limit first and stops countries one by one.
`RoomInv` says what the holder of `startMu` may rely on meanwhile: a country about
to be launched has room without itself, one about to be evicted makes it, and what
`UpdateMaxRunning` has still to stop is enough. The steps that do not decide about
room bring nobody online (`RoomCases`), a stop takes its country off the list
(`StopOffline`, where `Undisturbed` is needed). `TrimEnough` is the
argument about the choice: let a country other than the active one be left, and
take the one that started first; everything older was chosen, and since it was not
chosen itself, the older ones are at least as many as the limit is exceeded by. If
none is left, at most the active one stays, and limits are positive.

**Health.** Assumption: `HealthAssumption` (the threshold is positive, `None` is none of
the names or times). `SwitchesPaced` and `SwitchingPaused` follow from

    IInv == TypeOK /\ Judged /\ CooledDown

`Judged`: while a switch is being prepared, the round's results are those it was
judged by, and not all of two or more failed. Only the monitor writes what it
depends on, so every step of the manager, of operators and of the clock keeps it.
`CooledDown` is the strengthening `Paced` needs: the last recorded switch time is at
least as many cooldowns late as there were switches before it, and while the next
one is prepared, the time that will be recorded is a cooldown later. `Paced` alone
is not inductive, since it says nothing of the recorded time.

**RuntimeState.** Assumption: `RuntimeStateAssumption`. `SavesAreNotLost`,
`RestoreIsCrashSafe` and `RestoredActiveIsRestored` follow from

    IInv == TypeOK /\ LockInv /\ SavedInv /\ PendingInv /\ RestoresActive

`LockInv`: the writer that is writing is the one that holds `stateMu`. `SavedInv`:
if nobody is waiting to save, the newest list is on disk, or in the hands of the
writer, or the last write failed. It is needed because `DiskCurrent` says nothing
while anyone is busy. It holds because the list is read after `stateMu` was taken,
so the last to take it has seen every change. A failed load counts as a failed
write. `PendingInv`: what `Restore` has
still to start is in memory, on disk and in the copy being written, so neither a
save nor a crash can lose it.

**Ports** (in `SettingsProofs`). No assumption. `ValidConfigPortsApart`: if
`validate` accepts the two base ports, then no two countries, no two purposes and
no country and Tor process share a port in the layout, and every port exists. The argument is
arithmetic: `CodeNumber` is that a two-letter code is determined by its number
between 0 and 675, the rest is that the compared ranges are exactly those in use.

**Settings.** Assumption: `SettingsAssumption` (requests are well formed, `None` and
`Torn` are no values). `FileStaysCurrent`, `RestartsAccepted`, `NoUpdateLost` and
`SettingsTypeCorrect` follow from

    IInv == TypeOK /\ EnvInv /\ ApplyInv /\ StoreInv
    StoreInv == LockInv /\ FileInv /\ SavingInv

`LockInv`: the handler that saves is the one that holds the lock. `FileInv` is
`FileCurrent` without its premise on the lock, with both the file (a `late` one too)
and the store valid under the environment. `SavingInv` is the heart of it: what is being saved is
valid and *still* differs from what is stored only where its request may change
it; it is kept because nobody else touches the store while the lock is held
(`StoreKept`). `ApplyInv` is needed for the types alone. `AcceptedValid` is the lemma
on the code's validation: `validate` looks at the merged configuration without the
environment, and an overriding environment that was valid at the start cannot
make it invalid; `ClearLegacyAuth` may skip it, since the token plays no part.

`StoredPortsApart` combines this with the theorem on ports: what the handlers
leave in `config.json` is accepted, hence its ports never meet.

`SettingsApplied` and `TorKeepsUp` rest on `IInv` and `FollowInv`. For each kind
of setting it says at which places of the handler store and program may differ
(`RuntimeInv`, `ClientInv`, `UpstreamInv`), and for each Tor process that was not
missed that it is still on the handler's list, has been told, or will read the
stored proxy when it starts (`TorInv`); what `awaitReady` has read and not yet set is
the manager's. `Alone` is what `unsure` means: a kind
that is not in it has one handler at most, so that what this one has read is what
is stored.

**Connections.** Assumption: `ConnectionsAssumption` (connections are finitely
many, without which they cannot be counted). `ConnectionsCounted` and
`DrainsGraceful` follow from

    IInv == TypeOK /\ CountExact /\ HeldServes /\ DrainsSettled /\ CountryKnown

`HeldServes`: a connection is held on an Instance that answers for a country, or did
until a cutover and drains since, so a replacement that is given up has none. `DrainsSettled`: a drain works on an Instance
that takes no new connections, so "the counter was zero", read before `stopInstance` is
called, stays true. All the proofs know of the manager is `Fleet`, and
`ManagerImplementsFleet` says that the manager keeps to it.

**CountryProxy.** Assumption: `CountryProxyAssumption` (`None` is no key and no
country). `RevokedKeysRefused` needs that a revoked key is not the current one, nor one
that a handshake compares with. `ListenersNeverCompete` follows from `TypeOK`,
`OneHolder` (`countryListenMu` is a mutex) and `OpenIsListed` (while the context
lives an open socket is listed or about to be, by the holder of the mutex), with
the facts about names and the sweep that make them inductive. After the context
ended nobody listens again, so a socket that is being closed has no rival.

**AuthStore.** Assumption: `AuthAssumption` (limits are positive, records live at
least as long as a block, the values of `file` that are no passwords are distinct).

    IInv == TypeOK /\ PasswordInv /\ LoginInv /\ FailuresPaced

`PasswordInv` gives `PasswordCounts`: before the first password the legacy token
counts; afterwards the file names the password and a running program agrees.
`LoginInv` gives `LoginsThrottled` and `BlocksEnd`. It relates the record the code
keeps to the history it was made from (`Accounts`): all failures but the counted
ones are older than a block less the wait for the mutex (`Pace`), or will be when the
block ends. Forgetting a record
is harmless because of the assumption on its lifetime (`AttemptAccounts`).
`SessionsKept` needs the types alone.

**Catalog.** Assumption: `CatalogAssumption`.

    IInv == TypeOK /\ NodesFromDocument /\ FetchInv /\ RouteInv

`FetchInv` is the second half of the double-checked lock: who downloads holds
`refreshMu` and the catalog is still old, which gives `DownloadsOnce`.
`RouteGetsBest` compares a program of two passes and a sort with the definition of
the policy. `ChoosingInv` says what a request that nothing disturbed has gathered
(exactly the candidates of the countries it has passed), `FirstIsLowest` that the
comparison of `lessExitNode` puts first what `Lowest` defines, and `ChosenIsBest`
joins them. `LessIsStrictWeakOrder` is what `sort.Slice` asks of the comparison.

**Only model-checked:** liveness (`SwitchResolves`, `StartResolves`, `StopCompletes`,
`ShutdownDrains`, `RoundEnds`, `DrainEnds`, `ListenersClose`, `OldKeyExpires`), since fairness is
beyond the prover. Every invariant and action property a passing run checks is
also the subject of a theorem.

## 6. Not modelled

* Circuit rotation (`manager.go`:1256-1310): one goroutine per Instance sends
  NEWNYM; it changes nothing that other code reads. Two things to know: an
  interval of 0 does not end the rotations that run, and a rotation that met a
  status other than "running" is not started again when a switch is cancelled.
* The control protocol and the exit lookups: a command succeeds or fails.
* `CleanupStaleInstanceDirs`, which runs once before anything else.
* The SOCKS5 client (`socks5.go`): one sequential handshake, whose failure is a
  failed probe, measurement or dial in the modules that use it.
* Parsing of the directory's answer (addresses, exit policies, names,
  continents), password hashing, cookies, HTTP decoding and headers, log files,
  the Web page, deployment files.
* Texts of errors, names and addresses everywhere.

## 7. Further work

* When `stop` or `Start` resets `draining`, `ReadyIsAcquirable` and
  `EvictionMakesRoom` become properties to keep, and `Undisturbed` loses its second
  half in `capacity` and in `CapacityKept`; `Fleet` and `Connections`, which rely on a drain being final for an
  Instance, have to be told of the reset.
* The formulas of section 4 that are not runs are candidates in the same way.
* Circuit rotation and an eviction during `Restore` are the parts of the manager's
  control that are left out.
