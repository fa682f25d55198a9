------------------------------ MODULE Manager ------------------------------
(***************************************************************************)
(* The Tor instance manager (src/manager.go): countries are started,       *)
(* stopped, restarted after a crash and switched to another exit node      *)
(* while HTTP handlers, one watch goroutine per Tor process, readiness     *)
(* waiters, restart timers, drain goroutines and the goroutine that        *)
(* completes a switch all touch the same Instance records.                 *)
(*                                                                         *)
(* One action is one critical section of m.mu, or a run of critical        *)
(* sections between which no other goroutine can change what they use      *)
(* (README, "Atomicity").  startMu is the variable op.                     *)
(***************************************************************************)
EXTENDS Integers, FiniteSets

CONSTANTS
    Country,            \* two-letter codes
    Configured,         \* codes listed in the configuration (NewManager)
    Node,               \* exit relays, by fingerprint
    Port,               \* local ports the kernel hands out to replacements
    Limits,             \* values of max_running an operator may set
    None,               \* nil, "" and "no entry"
    autoRestartLimit,   \* 3 in the code
    MaxSwitch,          \* bound: replacements created per country
    MaxLaunch,          \* bound: Tor processes launched per Instance
    MaxRequests,        \* bound: calls made by clients and operators
    Kinds               \* bound: the kinds of call they make

(***************************************************************************)
(* An Instance object is named by its country and the number of the switch *)
(* that created it; number 0 is the object NewManager or ensureCountry     *)
(* made.  Objects are never reused, so comparing names is comparing        *)
(* pointers, and pendingReplacement = r already identifies the switch that *)
(* replacementSequence numbers.                                            *)
(***************************************************************************)
Inst == Country \X (0..MaxSwitch)
Home(i) == i[1]
Original(c) == <<c, 0>>

ASSUME ManagerAssumption ==
    /\ IsFiniteSet(Country) /\ Configured \subseteq Country
    /\ Limits \subseteq Nat \ {0}
    /\ autoRestartLimit \in Nat
    /\ MaxSwitch \in Nat
    /\ MaxLaunch \in Nat
    /\ MaxRequests \in Nat
    /\ None \notin Country /\ None \notin Inst /\ None \notin Node /\ None \notin Port

Status == {"stopped", "starting", "connecting", "running", "switching",
           "draining", "stopping", "error"}

\* The statuses makeRoom and UpdateMaxRunning count as online.
Counted == {"starting", "connecting", "running", "switching"}

(***************************************************************************)
(* cmd is the number of the Instance's Tor process, 0 for nil; launched    *)
(* counts the processes it has had.  `replacement' is left out: it is      *)
(* pending # None.                                                         *)
(* exitIP is whether ExitIP is set, torrc the node the process was         *)
(* configured with, startedAt a logical time.  failed is the state of the  *)
(* process, not of the record: failInstance interrupted it, so it will end *)
(* whatever is written into the status afterwards.                         *)
(***************************************************************************)
Instance ==
    [status : Status, cmd : Nat, launched : Nat, stopping : BOOLEAN, draining : BOOLEAN,
     failed : BOOLEAN, prev : Status \cup {None}, pending : Inst \cup {None},
     attempts : Nat, scheduled : BOOLEAN, startedAt : Nat, exitIP : BOOLEAN,
     fp : Node \cup {None}, torrc : Node \cup {None}, port : Port \cup {None}]

Fresh(node, port) ==
    [status |-> "stopped", cmd |-> 0, launched |-> 0, stopping |-> FALSE,
     draining |-> FALSE, failed |-> FALSE, prev |-> None, pending |-> None,
     attempts |-> 0, scheduled |-> FALSE, startedAt |-> 0, exitIP |-> FALSE,
     fp |-> node, torrc |-> None, port |-> port]

(***************************************************************************)
(* Goroutines.  A waiter (awaitReady, awaitBootstrap) carries the process  *)
(* it waits for and, in k, what made it: None for the launch, the failed   *)
(* replacement for resumeAfterReplacement, the instance itself for         *)
(* UpdateUpstream.  watchClean and watchSettle are the two halves of watch *)
(* after the exit was recorded; timer carries the attempt in p.            *)
(***************************************************************************)
Task == [fn : {"awaitReady", "awaitBootstrap", "watchClean", "watchSettle", "timer", "drain"},
         i : Inst, p : Nat, k : Inst \cup {None}]

\* completeReplacement(cur, rep, act), and where it is.
Switch == [at : {"poll", "cut", "remember"}, cur : Inst, rep : Inst, act : BOOLEAN]

\* A handler between two critical sections, not holding startMu.
Call == [at : {"adopt", "replace", "assign", "start", "activate", "restart", "restartFailed"},
         i : Inst, node : Node \cup {None}, act : BOOLEAN]

(***************************************************************************)
(* The holder of startMu.  act: Activate follows; i: the instance whose    *)
(* auto-restart called Start, or the one replaceNode replaces.             *)
(***************************************************************************)
Op == [at : {"idle", "evict", "launch", "trim", "detach"}, c : Country \cup {None},
       i : Inst \cup {None}, rep : Inst \cup {None}, act : BOOLEAN, todo : SUBSET Country]

Idle == [at |-> "idle", c |-> None, i |-> None, rep |-> None, act |-> FALSE, todo |-> {}]

VARIABLES
    instances,      \* m.instances: the current Instance of each known country
    allInstances,   \* m.allInstances: what Shutdown waits for
    active,         \* m.active: the exit of the unified proxy
    maxRunning,     \* m.cfg.MaxRunning
    shuttingDown,   \* m.shuttingDown
    resumeNodes,    \* keys of m.resumeNodes: what a restart restores
    reservedPorts,  \* m.reservedPorts
    dirs,           \* instance directories on disk
    inst,           \* the Instance objects
    clock,          \* logical time of the next launch
    tasks, switches, calls, op,
    shutdown,       \* the Shutdown call: "no", "loop", "done", "timeout"
    requests        \* calls made so far

mgr == <<maxRunning, shuttingDown, shutdown>>
world == <<reservedPorts, dirs, clock, allInstances>>
vars == <<instances, active, resumeNodes, mgr, world, inst, tasks, switches, calls, op, requests>>

TypeOK ==
    /\ instances \in [Country -> Inst \cup {None}]
    /\ allInstances \subseteq Inst
    /\ active \in Country \cup {None}
    /\ maxRunning \in Nat
    /\ shuttingDown \in BOOLEAN
    /\ resumeNodes \subseteq Country
    /\ reservedPorts \subseteq Port
    /\ dirs \subseteq Inst
    /\ inst \in [Inst -> Instance]
    /\ clock \in Nat
    /\ tasks \subseteq Task
    /\ switches \subseteq Switch
    /\ calls \subseteq Call
    /\ op \in Op
    /\ shutdown \in {"no", "loop", "done", "timeout"}
    /\ requests \in Nat

Init ==
    /\ instances = [c \in Country |-> IF c \in Configured THEN Original(c) ELSE None]
    /\ allInstances = {Original(c) : c \in Configured}
    /\ active = None
    /\ maxRunning \in Limits
    /\ shuttingDown = FALSE
    /\ resumeNodes = {}
    /\ reservedPorts = {}
    /\ dirs = {}
    /\ inst = [i \in Inst |-> Fresh(None, None)]
    /\ clock = 1
    /\ tasks = {} /\ switches = {} /\ calls = {} /\ op = Idle
    /\ shutdown = "no"
    /\ requests = 0

Request(kind) == kind \in Kinds /\ requests < MaxRequests /\ requests' = requests + 1

GoTask(fn, i, p, k) == [fn |-> fn, i |-> i, p |-> p, k |-> k]
GoCall(at, i, node, act) == [at |-> at, i |-> i, node |-> node, act |-> act]

----------------------------------------------------------------------------
(* What the helpers do to one Instance. *)

\* The directory of process p of i: startDetached makes one of its own for the
\* first process of a replacement, Start uses StateDir/<code>.
DirOf(i, p) == IF p = 1 THEN i ELSE Original(Home(i))

\* reserveLocalPort returns one of these; a port the kernel offers twice is refused.
FreePorts == Port \ reservedPorts

\* releaseInstancePorts; the fixed ports of an Original are not reserved.
ReleaseInstancePorts(i) == reservedPorts' = reservedPorts \ {inst[i].port}

\* removeInstanceDir.
RemoveInstanceDir(dir) == dirs' = dirs \ {dir}

\* Mistake: the process is not interrupted.
StopInstanceWithoutSignal(x) == IF x.cmd = 0 THEN [x EXCEPT !.status = "stopped"] ELSE x

\* stopInstance, with the interrupt it sends.
StopInstance(x) ==
    IF x.stopping THEN x
    ELSE IF x.cmd = 0 THEN [x EXCEPT !.status = "stopped"]
    ELSE [x EXCEPT !.stopping = TRUE, !.draining = TRUE, !.status = "stopping"]

\* The node torrc pins the process to: None stands for any of the country's.
Torrc(x) == x.fp

\* The record Start leaves when cmd.Start() succeeded at time t.
Launched(x, t) ==
    [x EXCEPT !.cmd = x.launched + 1, !.launched = x.launched + 1,
              !.status = "starting", !.scheduled = FALSE, !.exitIP = FALSE,
              !.startedAt = t, !.stopping = FALSE, !.torrc = Torrc(x), !.failed = FALSE]

\* The record startDetached leaves.
Detached(x, t) ==
    [x EXCEPT !.cmd = x.launched + 1, !.launched = x.launched + 1,
              !.status = "starting", !.startedAt = t, !.torrc = Torrc(x), !.failed = FALSE]

\* Mistake: a status no reader of Status knows.
ExitedUnknownStatus(x) == [x EXCEPT !.cmd = 0, !.stopping = FALSE, !.failed = FALSE, !.status = "exited"]

\* The record watch leaves in its first critical section.
Exited(x) ==
    [x EXCEPT !.cmd = 0, !.stopping = FALSE, !.failed = FALSE,
              !.status = IF x.stopping THEN "stopped" ELSE "error"]

\* Mistake: the attempts are reset, the scheduled restart is not.
StopRecordKeepsSchedule(x) ==
    LET y == [x EXCEPT !.pending = None, !.prev = None, !.attempts = 0]
    IN  IF x.cmd = 0 THEN [y EXCEPT !.status = "stopped"]
        ELSE [y EXCEPT !.status = "draining", !.draining = TRUE]

\* The record stop leaves of the country's current Instance.
StopRecord(x) ==
    LET y == [x EXCEPT !.pending = None, !.prev = None]
    IN  IF x.cmd = 0
        THEN [y EXCEPT !.status = "stopped", !.scheduled = FALSE, !.attempts = 0]
        ELSE IF x.draining THEN y
        ELSE [y EXCEPT !.status = "draining", !.draining = TRUE,
                       !.scheduled = FALSE, !.attempts = 0]

\* restoreAfterReplacementLocked: the old Instance resumes only if it is alive.
Resumes(x) == x.cmd # 0 /\ ~x.stopping /\ ~x.draining

\* Mistakes: the old Instance is taken to be alive; its status is not restored.
RestoredAsAlive(x) == IF x.prev \in {None, "switching"} THEN "running" ELSE x.prev
RestoredUnchanged(x) == x.status

RestoredStatus(x) ==
    IF Resumes(x)
    THEN IF x.prev \in {None, "switching"} THEN "running" ELSE x.prev
    ELSE IF x.status \in {"error", "stopped", "stopping"} THEN x.status ELSE "error"

\* Mistake: pendingReplacement is left behind.
RestoreKeepsPending(x) == [x EXCEPT !.status = RestoredStatus(x), !.prev = None]

RestoreRecord(x) ==
    [x EXCEPT !.status = RestoredStatus(x), !.pending = None, !.prev = None]

\* Mistake: nobody waits for the resumed Instance.
ResumeWithoutWaiter(i, rep) == {}

\* resumeAfterReplacement: the waiter of a resumed, not yet running, Instance.
ResumeTasks(i, rep) ==
    {GoTask(fn, i, inst[i].cmd, rep) : fn \in
        IF ~Resumes(inst[i]) THEN {}
        ELSE IF inst[i].prev = "starting" THEN {"awaitReady"}
        ELSE IF inst[i].prev = "connecting" THEN {"awaitBootstrap"} ELSE {}}

\* autoRestartEligibleLocked and scheduleAutoRestartLocked.
Eligible(i) ==
    /\ ~shuttingDown /\ instances[Home(i)] = i
    /\ inst[i].status = "error" /\ inst[i].cmd = 0
    /\ ~inst[i].stopping /\ ~inst[i].draining /\ inst[i].pending = None
    /\ inst[i].attempts < autoRestartLimit

Schedules(i) == Eligible(i) /\ ~inst[i].scheduled

Scheduled(x) == [x EXCEPT !.attempts = x.attempts + 1, !.scheduled = TRUE]

----------------------------------------------------------------------------
(* Capacity. *)

Online == {c \in Country : instances[c] # None /\ inst[instances[c]].status \in Counted}

StartedAt(c) == inst[instances[c]].startedAt

Oldest(S) == {c \in S : \A d \in S : StartedAt(c) <= StartedAt(d)}

\* Mistake: the limit itself counts as room.
HasRoomOffByOne(c) == c \in Online \/ Cardinality(Online) <= maxRunning

HasRoom(c) == c \in Online \/ Cardinality(Online) < maxRunning

----------------------------------------------------------------------------
(* Start and Activate, holding startMu. *)

\* A Start that returns an error reports to the auto-restart that called it.
FailedCall(i) == IF i = None THEN {} ELSE {GoCall("restartFailed", i, None, FALSE)}

\* Start up to and including makeRoom's decision; rest are the other calls.
StartEnter(c, act, by, rest) ==
    /\ op = Idle
    /\ instances[c] # None
    /\ \/ /\ shuttingDown \/ (~HasRoom(c) /\ Online \subseteq {active})
          /\ calls' = rest \cup FailedCall(by)
          /\ UNCHANGED op
       \/ /\ ~shuttingDown /\ HasRoom(c)
          /\ op' = [Idle EXCEPT !.at = "launch", !.c = c, !.i = by, !.act = act]
          /\ calls' = rest
       \/ /\ ~shuttingDown /\ ~HasRoom(c)
          /\ \E d \in Oldest(Online \ {active}) :
                op' = [Idle EXCEPT !.at = "evict", !.c = c, !.i = by, !.act = act, !.todo = {d}]
          /\ calls' = rest
    /\ UNCHANGED <<instances, active, resumeNodes, mgr, world, inst, tasks, switches>>

Start(c, act) == Request("start") /\ StartEnter(c, act, None, calls)

\* startNode's last line, after the node was assigned.
StartAssigned(call) ==
    /\ call \in calls /\ call.at = "start"
    /\ StartEnter(Home(call.i), call.act, None, calls \ {call})
    /\ UNCHANGED requests

\* runAutoRestart's call of Start, after it released m.mu.
StartRestart(call) ==
    /\ call \in calls /\ call.at = "restart"
    /\ StartEnter(Home(call.i), FALSE, call.i, calls \ {call})
    /\ UNCHANGED requests

(***************************************************************************)
(* stop(c): the Instance drains (or is stopped at once), its pending       *)
(* replacement is stopped, the country is forgotten.  Stopping a country   *)
(* whose process is already draining forgets nothing.                      *)
(***************************************************************************)
StopCountry(c) ==
    LET i == instances[c]
        x == inst[i]
        noop == x.cmd # 0 /\ x.draining
    IN  /\ inst' = [j \in Inst |-> IF j = i THEN StopRecord(x)
                                   ELSE IF j = x.pending THEN StopInstance(inst[j])
                                   ELSE inst[j]]
        /\ resumeNodes' = IF noop THEN resumeNodes ELSE resumeNodes \ {c}
        /\ active' = IF ~noop /\ active = c THEN None ELSE active
        /\ tasks' = IF x.cmd # 0 /\ ~x.draining
                    THEN tasks \cup {GoTask("drain", i, 0, None)} ELSE tasks

\* makeRoom's stop of the oldest country.
Evict ==
    /\ op.at = "evict"
    /\ \E d \in op.todo : StopCountry(d)
    /\ op' = [op EXCEPT !.at = "launch", !.todo = {}]
    /\ UNCHANGED <<instances, mgr, world, switches, calls, requests>>

\* Start returns nil: Activate goes on to set m.active.
StartReturns ==
    /\ op' = Idle
    /\ calls' = calls \cup
         (IF op.act THEN {GoCall("activate", instances[op.c], None, TRUE)} ELSE {})

StartFails == op' = Idle /\ calls' = calls \cup FailedCall(op.i)

\* The country is online already, or still draining.
StartAlready ==
    /\ op.at = "launch"
    /\ inst[instances[op.c]].status \in Counted \cup {"draining"}
    /\ StartReturns
    /\ UNCHANGED <<instances, active, resumeNodes, mgr, world, inst, tasks, switches, requests>>

\* "previous Tor process has not exited yet"
StartBusy ==
    /\ op.at = "launch"
    /\ inst[instances[op.c]].status \notin Counted \cup {"draining"}
    /\ inst[instances[op.c]].cmd # 0
    /\ StartFails
    /\ UNCHANGED <<instances, active, resumeNodes, mgr, world, inst, tasks, switches, requests>>

CanLaunch(i) == inst[i].status \notin Counted \cup {"draining"} /\ inst[i].cmd = 0

\* prepareTorCommand or cmd.Start fails; both remove the country's directory.
StartError ==
    LET i == instances[op.c]
    IN  /\ op.at = "launch" /\ CanLaunch(i)
        /\ \E s \in {inst[i].status, "error"} : inst' = [inst EXCEPT ![i].status = s]
        /\ RemoveInstanceDir(Original(op.c))
        /\ StartFails
        /\ UNCHANGED <<instances, active, resumeNodes, mgr, reservedPorts, clock, allInstances,
                       tasks, switches, requests>>

\* The process is launched, remembered, and its goroutines started.
StartLaunch ==
    LET i == instances[op.c]
    IN  /\ op.at = "launch" /\ CanLaunch(i)
        /\ inst[i].launched < MaxLaunch
        /\ inst' = [inst EXCEPT ![i] = Launched(@, clock)]
        /\ clock' = clock + 1
        /\ allInstances' = allInstances \cup {i}
        /\ dirs' = dirs \cup {Original(op.c)}
        /\ resumeNodes' = resumeNodes \cup {op.c}
        /\ tasks' = tasks \cup {GoTask("awaitReady", i, inst[i].launched + 1, None)}
        /\ StartReturns
        /\ UNCHANGED <<instances, active, mgr, reservedPorts, switches, requests>>

\* Activate's own critical section.
Activate(call) ==
    LET c == Home(call.i)
        x == inst[instances[c]]
    IN  /\ call \in calls /\ call.at = "activate"
        /\ active' = IF ~x.draining /\ x.status \in Counted THEN c ELSE active
        /\ calls' = calls \ {call}
        /\ UNCHANGED <<instances, resumeNodes, mgr, world, inst, tasks, switches, op, requests>>

----------------------------------------------------------------------------
(* Stop, UpdateMaxRunning and CancelReplacement, holding startMu. *)

Stop(c) ==
    /\ Request("stop")
    /\ op = Idle /\ instances[c] # None
    /\ StopCountry(c)
    /\ UNCHANGED <<instances, mgr, world, switches, calls, op>>

\* The countries to stop are chosen, oldest first, before any is stopped.
UpdateMaxRunning(limit) ==
    LET others == Online \ {active}
        excess == Cardinality(Online) - limit
        older(c) == {d \in others : StartedAt(d) < StartedAt(c)}
    IN  /\ Request("limit")
        /\ op = Idle
        /\ maxRunning' = limit
        /\ op' = [Idle EXCEPT !.at = "trim",
                              !.todo = {c \in others : Cardinality(older(c)) < excess}]
        /\ UNCHANGED <<instances, active, resumeNodes, shuttingDown, shutdown, world, inst,
                       tasks, switches, calls>>

TrimOne ==
    /\ op.at = "trim"
    /\ \E c \in op.todo : StopCountry(c) /\ op' = [op EXCEPT !.todo = @ \ {c}]
    /\ UNCHANGED <<instances, mgr, world, switches, calls, requests>>

TrimDone ==
    /\ op.at = "trim" /\ op.todo = {}
    /\ op' = Idle
    /\ UNCHANGED <<instances, active, resumeNodes, mgr, world, inst, tasks, switches, calls, requests>>

\* Mistake: the abandoned replacement keeps running.
GiveUpWithoutStop(cur, rep) ==
    /\ inst' = [inst EXCEPT ![cur] = RestoreRecord(@)]
    /\ tasks' = tasks \cup ResumeTasks(cur, rep)

\* Mistake: the old Instance is stopped instead of the replacement.
GiveUpStopsOld(cur, rep) ==
    /\ inst' = [inst EXCEPT ![cur] = StopInstance(RestoreRecord(@))]
    /\ tasks' = tasks \cup ResumeTasks(cur, rep)

\* The restore of cur and the stop of the replacement it gives up.
GiveUp(cur, rep) ==
    /\ inst' = [inst EXCEPT ![cur] = RestoreRecord(@), ![rep] = StopInstance(@)]
    /\ tasks' = tasks \cup ResumeTasks(cur, rep)

CancelReplacement(c) ==
    /\ Request("cancel")
    /\ op = Idle /\ instances[c] # None
    /\ inst[instances[c]].pending # None
    /\ GiveUp(instances[c], inst[instances[c]].pending)
    /\ UNCHANGED <<instances, active, resumeNodes, mgr, world, switches, calls, op>>

----------------------------------------------------------------------------
(* startNode and replaceNode: pinning a country to an exit node. *)

\* ensureCountry, then the read that chooses between the three ways to go on.
StartNode(c, node, act) ==
    LET i == IF instances[c] = None THEN Original(c) ELSE instances[c]
        x == inst[i]
        running == x.fp = node /\ x.status = "running"
        at == IF running THEN "adopt" ELSE IF x.cmd # 0 THEN "replace" ELSE "assign"
    IN  /\ Request("node")
        /\ instances' = [instances EXCEPT ![c] = i]
        /\ allInstances' = IF instances[c] = None THEN allInstances \cup {i} ELSE allInstances
        /\ calls' = IF running /\ ~act THEN calls ELSE calls \cup {GoCall(at, i, node, act)}
        /\ UNCHANGED <<active, resumeNodes, mgr, reservedPorts, dirs, clock, inst, tasks,
                       switches, op>>

\* The node runs already: only m.active changes.
Adopt(call) ==
    /\ call \in calls /\ call.at = "adopt"
    /\ active' = Home(call.i)
    /\ calls' = calls \ {call}
    /\ UNCHANGED <<instances, resumeNodes, mgr, world, inst, tasks, switches, op, requests>>

Assign(call) ==
    /\ call \in calls /\ call.at = "assign"
    /\ inst' = [inst EXCEPT ![call.i].fp = call.node]
    /\ calls' = (calls \ {call}) \cup {[call EXCEPT !.at = "start"]}
    /\ UNCHANGED <<instances, active, resumeNodes, mgr, world, tasks, switches, op, requests>>

Replaceable(i) ==
    /\ instances[Home(i)] = i /\ inst[i].cmd # 0
    /\ ~inst[i].stopping /\ ~inst[i].draining

\* replaceNode refuses, or no port can be reserved (net.Listen may always fail).
ReplaceRefused(call) ==
    /\ call \in calls /\ call.at = "replace"
    /\ op = Idle
    /\ calls' = calls \ {call}
    /\ UNCHANGED <<instances, active, resumeNodes, mgr, world, inst, tasks, switches, op, requests>>

\* The name of the next Instance object: those in use have a port.
NextReplacement(c) ==
    {<<c, n>> : n \in {m \in 1..MaxSwitch :
        /\ inst[<<c, m>>].port = None
        /\ \A l \in 1..(m - 1) : inst[<<c, l>>].port # None}}

\* The record replaceNode leaves of the current Instance.
SwitchingTo(x, rep) ==
    [x EXCEPT !.prev = IF x.pending = None THEN x.status ELSE x.prev,
              !.status = "switching", !.pending = rep]

\* replaceNode up to startDetached; a pending replacement is superseded.
ReplaceBegin(call) ==
    /\ call \in calls /\ call.at = "replace"
    /\ op = Idle /\ ~shuttingDown /\ Replaceable(call.i)
    /\ \E rep \in NextReplacement(Home(call.i)), port \in FreePorts :
          /\ reservedPorts' = reservedPorts \cup {port}
          /\ inst' = [j \in Inst |-> IF j = call.i THEN SwitchingTo(inst[j], rep)
                                     ELSE IF j = rep THEN Fresh(call.node, port)
                                     ELSE IF j = inst[call.i].pending THEN StopInstance(inst[j])
                                     ELSE inst[j]]
          /\ op' = [Idle EXCEPT !.at = "detach", !.c = Home(call.i), !.i = call.i,
                                !.rep = rep, !.act = call.act]
    /\ calls' = calls \ {call}
    /\ UNCHANGED <<instances, active, resumeNodes, mgr, dirs, clock, allInstances, tasks,
                   switches, requests>>

\* startDetached succeeds: the process runs and completeReplacement is started.
DetachStarts ==
    /\ op.at = "detach"
    /\ inst' = [inst EXCEPT ![op.rep] = Detached(@, clock)]
    /\ clock' = clock + 1
    /\ allInstances' = allInstances \cup {op.rep}
    /\ dirs' = dirs \cup {op.rep}
    /\ tasks' = tasks \cup {GoTask("awaitReady", op.rep, 1, None)}
    /\ switches' = switches \cup {[at |-> "poll", cur |-> op.i, rep |-> op.rep, act |-> op.act]}
    /\ op' = Idle
    /\ UNCHANGED <<instances, active, resumeNodes, mgr, reservedPorts, calls, requests>>

\* startDetached fails: ports released, the old route restored.
DetachFails ==
    /\ op.at = "detach"
    /\ ReleaseInstancePorts(op.rep)
    /\ IF inst[op.i].pending = op.rep
       THEN /\ inst' = [inst EXCEPT ![op.i] = RestoreRecord(@)]
            /\ tasks' = tasks \cup ResumeTasks(op.i, op.rep)
       ELSE UNCHANGED <<inst, tasks>>
    /\ op' = Idle
    /\ UNCHANGED <<instances, active, resumeNodes, mgr, dirs, clock, allInstances, switches,
                   calls, requests>>

----------------------------------------------------------------------------
(* completeReplacement, without startMu. *)

Wanted(s) == inst[s.cur].pending = s.rep

\* What the second look, under the write lock, checks.
Installable(s) == Wanted(s) /\ instances[Home(s.cur)] = s.cur

\* Mistake: anything but a failure is taken for readiness.
ReadyUnlessFailed(s) == Wanted(s) /\ inst[s.rep].status \notin {"error", "stopped"}

\* What the poll, under the read lock, waits for.
Ready(s) == Wanted(s) /\ inst[s.rep].status = "running"

SwitchPoll(s) ==
    /\ s \in switches /\ s.at = "poll"
    /\ Ready(s)
    /\ switches' = (switches \ {s}) \cup {[s EXCEPT !.at = "cut"]}
    /\ UNCHANGED <<instances, active, resumeNodes, mgr, world, inst, tasks, calls, op, requests>>

\* The cutover, which looks again at the pointers but not at the status.
SwitchCut(s) ==
    /\ s \in switches /\ s.at = "cut"
    /\ Installable(s)
    /\ instances' = [instances EXCEPT ![Home(s.cur)] = s.rep]
    /\ active' = IF s.act THEN Home(s.cur) ELSE active
    /\ inst' = [inst EXCEPT ![s.cur].pending = None, ![s.cur].prev = None,
                            ![s.cur].draining = TRUE, ![s.cur].status = "draining"]
    /\ switches' = (switches \ {s}) \cup {[s EXCEPT !.at = "remember"]}
    /\ UNCHANGED <<resumeNodes, mgr, world, tasks, calls, op, requests>>

\* rememberInstance and the drain of the old Instance, after m.mu was released.
SwitchRemember(s) ==
    /\ s \in switches /\ s.at = "remember"
    /\ resumeNodes' = resumeNodes \cup {Home(s.cur)}
    /\ tasks' = tasks \cup {GoTask("drain", s.cur, 0, None)}
    /\ switches' = switches \ {s}
    /\ UNCHANGED <<instances, active, mgr, world, inst, calls, op, requests>>

\* The switch was cancelled, superseded or stopped: its process goes.
SwitchUnwanted(s) ==
    /\ s \in switches /\ s.at \in {"poll", "cut"}
    /\ IF s.at = "poll" THEN ~Wanted(s) ELSE ~Installable(s)
    /\ inst' = [inst EXCEPT ![s.rep] = StopInstance(@)]
    /\ switches' = switches \ {s}
    /\ UNCHANGED <<instances, active, resumeNodes, mgr, world, tasks, calls, op, requests>>

\* The replacement failed, or four minutes passed.
SwitchGivesUp(s) ==
    /\ s \in switches /\ s.at = "poll"
    /\ Wanted(s)
    /\ GiveUp(s.cur, s.rep)
    /\ switches' = switches \ {s}
    /\ UNCHANGED <<instances, active, resumeNodes, mgr, world, calls, op, requests>>

\* drainAndStop and drainInstance: connections ended, or the timeout passed.
Drained(t) ==
    /\ t \in tasks /\ t.fn = "drain"
    /\ inst' = [inst EXCEPT ![t.i] = StopInstance(@)]
    /\ tasks' = tasks \ {t}
    /\ UNCHANGED <<instances, active, resumeNodes, mgr, world, switches, calls, op, requests>>

----------------------------------------------------------------------------
(* watch and the automatic restart. *)

\* The process of i exits, by itself or because it was signalled.  A waiter of
\* a process that is gone never changes anything again and is dropped here.
WatchExit(i) ==
    /\ inst[i].cmd # 0
    /\ inst' = [inst EXCEPT ![i] = Exited(@)]
    /\ allInstances' = allInstances \ {i}
    /\ tasks' = {t \in tasks : ~(t.i = i /\ t.fn \in {"awaitReady", "awaitBootstrap"})}
                   \cup {GoTask("watchClean", i, inst[i].cmd, None)}
    /\ UNCHANGED <<instances, active, resumeNodes, mgr, reservedPorts, dirs, clock, switches,
                   calls, op, requests>>

WatchClean(t) ==
    /\ t \in tasks /\ t.fn = "watchClean"
    /\ ReleaseInstancePorts(t.i)
    /\ RemoveInstanceDir(DirOf(t.i, t.p))
    /\ tasks' = (tasks \ {t}) \cup {[t EXCEPT !.fn = "watchSettle"]}
    /\ UNCHANGED <<instances, active, resumeNodes, mgr, clock, allInstances, inst, switches,
                   calls, op, requests>>

\* scheduleAutoRestartLocked, or whatever its caller does when it refuses.
ScheduleRestart(i) ==
    /\ Schedules(i)
    /\ inst' = [inst EXCEPT ![i] = Scheduled(@)]
    /\ UNCHANGED active

WatchSettle(t) ==
    /\ t \in tasks /\ t.fn = "watchSettle"
    /\ \/ /\ ScheduleRestart(t.i)
          /\ tasks' = (tasks \ {t}) \cup {GoTask("timer", t.i, inst[t.i].attempts + 1, None)}
       \/ /\ ~Schedules(t.i)
          /\ active' = IF /\ instances[Home(t.i)] = t.i
                          /\ inst[t.i].cmd = 0 /\ active = Home(t.i)
                       THEN None ELSE active
          /\ tasks' = tasks \ {t}
          /\ UNCHANGED inst
    /\ UNCHANGED <<instances, resumeNodes, mgr, world, switches, calls, op, requests>>

\* The backoff timer: Start is called after m.mu was released.
TimerFires(t) ==
    LET x == inst[t.i]
        go == x.scheduled /\ x.attempts = t.p /\ Eligible(t.i)
    IN  /\ t \in tasks /\ t.fn = "timer"
        /\ inst' = IF go THEN [inst EXCEPT ![t.i].scheduled = FALSE] ELSE inst
        /\ calls' = IF go THEN calls \cup {GoCall("restart", t.i, None, FALSE)} ELSE calls
        /\ tasks' = tasks \ {t}
        /\ UNCHANGED <<instances, active, resumeNodes, mgr, world, switches, op, requests>>

RestartFailed(call) ==
    /\ call \in calls /\ call.at = "restartFailed"
    /\ \/ /\ ScheduleRestart(call.i)
          /\ tasks' = tasks \cup {GoTask("timer", call.i, inst[call.i].attempts + 1, None)}
       \/ /\ ~Schedules(call.i)
          /\ active' = IF active = Home(call.i) THEN None ELSE active
          /\ UNCHANGED <<inst, tasks>>
    /\ calls' = calls \ {call}
    /\ UNCHANGED <<instances, resumeNodes, mgr, world, switches, op, requests>>

----------------------------------------------------------------------------
(* awaitReady, awaitBootstrap and UpdateUpstream's retry. *)

Waits(t, status) == inst[t.i].cmd = t.p /\ inst[t.i].status = status

\* The SOCKS port opened.
PortOpens(t) ==
    /\ t \in tasks /\ t.fn = "awaitReady"
    /\ Waits(t, "starting")
    /\ inst' = [inst EXCEPT ![t.i].status = "connecting"]
    /\ tasks' = (tasks \ {t}) \cup {[t EXCEPT !.fn = "awaitBootstrap"]}
    /\ UNCHANGED <<instances, active, resumeNodes, mgr, world, switches, calls, op, requests>>

\* markInstanceRunning: an exit address was obtained through this Instance.
ExitVerified(t) ==
    /\ t \in tasks /\ t.fn = "awaitBootstrap"
    /\ Waits(t, "connecting")
    /\ inst' = [inst EXCEPT ![t.i].status = "running", ![t.i].exitIP = TRUE,
                            ![t.i].attempts = 0, ![t.i].scheduled = FALSE]
    /\ tasks' = tasks \ {t}
    /\ UNCHANGED <<instances, active, resumeNodes, mgr, world, switches, calls, op, requests>>

\* The waiter finds that the Instance is no longer in its state.
WaiterQuits(t) ==
    /\ t \in tasks
    /\ \/ t.fn = "awaitReady" /\ ~Waits(t, "starting")
       \/ t.fn = "awaitBootstrap" /\ ~Waits(t, "connecting")
    /\ tasks' = tasks \ {t}
    /\ UNCHANGED <<instances, active, resumeNodes, mgr, world, inst, switches, calls, op, requests>>

\* The record failInstance leaves; the process is interrupted at once, without a
\* drain and whoever uses it: a connecting Instance that is being switched counts
\* as "switching", and acquireInstance hands it out.
FailInstance(x) == [x EXCEPT !.status = "error", !.failed = TRUE]

\* Its deadline passed, or the upstream could not be applied: failInstance.
WaiterFails(t) ==
    LET x == inst[t.i]
        fails == x.cmd # 0 /\ x.cmd = t.p /\ ~x.stopping /\ ~x.draining
    IN  /\ t \in tasks /\ t.fn \in {"awaitReady", "awaitBootstrap"}
        /\ inst' = IF fails THEN [inst EXCEPT ![t.i] = FailInstance(@)] ELSE inst
        /\ tasks' = tasks \ {t}
        /\ UNCHANGED <<instances, active, resumeNodes, mgr, world, switches, calls, op, requests>>

\* UpdateUpstream gives a failed but still living Instance another chance.
UpstreamRetry(c) ==
    LET i == instances[c]
    IN  /\ Request("upstream")
        /\ i # None
        /\ inst[i].status = "error" /\ inst[i].cmd # 0
        /\ ~inst[i].stopping /\ ~inst[i].draining
        /\ inst' = [inst EXCEPT ![i].status = "connecting"]
        /\ tasks' = tasks \cup {GoTask("awaitBootstrap", i, inst[i].cmd, i)}
        /\ UNCHANGED <<instances, active, resumeNodes, mgr, world, switches, calls, op>>

----------------------------------------------------------------------------
(* Shutdown. *)

\* Mistake: the flag is set without taking startMu.
ShutdownWithoutLock ==
    /\ Request("shutdown")
    /\ shutdown = "no"
    /\ shuttingDown' = TRUE /\ shutdown' = "loop"
    /\ UNCHANGED <<instances, active, resumeNodes, maxRunning, world, inst, tasks, switches,
                   calls, op>>

ShutdownBegin ==
    /\ Request("shutdown")
    /\ op = Idle /\ shutdown = "no"
    /\ shuttingDown' = TRUE /\ shutdown' = "loop"
    /\ UNCHANGED <<instances, active, resumeNodes, maxRunning, world, inst, tasks, switches,
                   calls, op>>

ShutdownStops(i) ==
    /\ shutdown = "loop"
    /\ i \in allInstances /\ inst[i].cmd # 0 /\ ~inst[i].stopping
    /\ inst' = [inst EXCEPT ![i] = StopInstance(@)]
    /\ UNCHANGED <<instances, active, resumeNodes, mgr, world, tasks, switches, calls, op, requests>>

\* Mistake: only the current Instances are waited for.
ShutdownIgnoresOld ==
    /\ shutdown = "loop"
    /\ \A c \in Country : instances[c] # None => inst[instances[c]].cmd = 0
    /\ shutdown' = "done"
    /\ UNCHANGED <<instances, active, resumeNodes, maxRunning, shuttingDown, world, inst, tasks,
                   switches, calls, op, requests>>

ShutdownReturns ==
    /\ shutdown = "loop"
    /\ \A i \in allInstances : inst[i].cmd = 0
    /\ shutdown' = "done"
    /\ UNCHANGED <<instances, active, resumeNodes, maxRunning, shuttingDown, world, inst, tasks,
                   switches, calls, op, requests>>

\* The context is looked at only after a pass that stopped every process.
ShutdownTimesOut ==
    /\ shutdown = "loop"
    /\ \E i \in allInstances : inst[i].cmd # 0
    /\ \A i \in allInstances : inst[i].cmd # 0 => inst[i].stopping
    /\ shutdown' = "timeout"
    /\ UNCHANGED <<instances, active, resumeNodes, maxRunning, shuttingDown, world, inst, tasks,
                   switches, calls, op, requests>>

----------------------------------------------------------------------------
\* What clients and operators may ask for.
ClientNext ==
    \/ \E c \in Country :
          \/ \E act \in BOOLEAN : Start(c, act)
          \/ \E node \in Node, act \in BOOLEAN : StartNode(c, node, act)
          \/ Stop(c) \/ CancelReplacement(c) \/ UpstreamRetry(c)
    \/ \E limit \in Limits : UpdateMaxRunning(limit)
    \/ ShutdownBegin

\* Handlers going on after they were called.
HandlerNext ==
    \/ Evict \/ StartAlready \/ StartBusy \/ StartError \/ StartLaunch
    \/ TrimOne \/ TrimDone \/ DetachStarts \/ DetachFails
    \/ \E call \in calls :
          \/ StartAssigned(call) \/ StartRestart(call) \/ Activate(call)
          \/ Adopt(call) \/ Assign(call) \/ ReplaceRefused(call) \/ ReplaceBegin(call)
          \/ RestartFailed(call)
    \/ \E i \in Inst : ShutdownStops(i)
    \/ ShutdownReturns \/ ShutdownTimesOut

\* Background goroutines.
BackgroundNext ==
    \/ \E s \in switches :
          SwitchPoll(s) \/ SwitchCut(s) \/ SwitchRemember(s) \/ SwitchUnwanted(s) \/ SwitchGivesUp(s)
    \/ \E t \in tasks :
          \/ Drained(t) \/ WatchClean(t) \/ WatchSettle(t) \/ TimerFires(t)
          \/ PortOpens(t) \/ ExitVerified(t) \/ WaiterQuits(t) \/ WaiterFails(t)

ProcessNext == \E i \in Inst : WatchExit(i)

Next == ClientNext \/ HandlerNext \/ BackgroundNext \/ ProcessNext

Spec == Init /\ [][Next]_vars

----------------------------------------------------------------------------
(* Fairness.  Handlers and goroutines are always scheduled and every wait   *)
(* in them has a deadline; a signalled process is killed after 8 seconds.   *)
Fairness ==
    /\ WF_vars(HandlerNext)
    /\ WF_vars(BackgroundNext)
    /\ WF_vars(\E i \in Inst : (inst[i].stopping \/ inst[i].failed) /\ WatchExit(i))

FairSpec == Spec /\ Fairness
=============================================================================
