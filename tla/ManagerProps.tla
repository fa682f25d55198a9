---------------------------- MODULE ManagerProps ----------------------------
(***************************************************************************)
(* What the instance manager guarantees and, in the second half, what the  *)
(* repository says of it and the code does not keep.                       *)
(***************************************************************************)
EXTENDS Manager

(***************************************************************************)
(* A country that makeRoom and UpdateMaxRunning count as online, and       *)
(* acquireInstance may hand a connection to, has a Tor process: nothing    *)
(* that restores, adopts or retries a status (restoreAfterReplacement,     *)
(* UpdateUpstream, watch) leaves an online status on a dead Instance.      *)
(***************************************************************************)
CountedHasProcess == \A i \in Inst : inst[i].status \in Counted => inst[i].cmd # 0

\* Every process belongs to an Instance that Shutdown will look at.
ProcessTracked == \A i \in Inst : inst[i].cmd # 0 => i \in allInstances

(***************************************************************************)
(* When Shutdown returns nil no Tor process is left, the ones of pending,  *)
(* superseded and drained replacements included, whatever was starting or  *)
(* switching when it was called.                                           *)
(***************************************************************************)
ShutdownLeavesNoProcess == shutdown = "done" => \A i \in Inst : inst[i].cmd = 0

(***************************************************************************)
(* Once shuttingDown is set no process is launched any more, neither by a  *)
(* Start or replaceNode that had begun before nor by a restart timer.      *)
(***************************************************************************)
NoLaunchAfterShutdown ==
    [][shuttingDown => \A i \in Inst : inst'[i].launched = inst[i].launched]_vars

(***************************************************************************)
(* A pending replacement is never left behind: the Instance it hangs on is *)
(* the country's current one, and replaceNode is still launching it or a   *)
(* completeReplacement for exactly this pair is still polling.  Otherwise  *)
(* the country would stay "switching" for ever.                            *)
(***************************************************************************)
PendingOwned ==
    \A i \in Inst : inst[i].pending # None =>
        /\ instances[Home(i)] = i
        /\ \/ op.at = "detach" /\ op.i = i /\ op.rep = inst[i].pending
           \/ \E s \in switches : s.at # "remember" /\ s.cur = i /\ s.rep = inst[i].pending

(***************************************************************************)
(* No Tor process is forgotten by everybody: each is its country's current *)
(* Instance, is being stopped, is draining, or is watched by the goroutine *)
(* that completes its switch.                                              *)
(***************************************************************************)
NoOrphan ==
    \A i \in Inst : inst[i].cmd # 0 =>
        \/ instances[Home(i)] = i
        \/ inst[i].stopping
        \/ \E t \in tasks : t.fn = "drain" /\ t.i = i
        \/ \E s \in switches : IF s.at = "remember" THEN s.cur = i ELSE s.rep = i

HasWaiter(i, fn) == \E t \in tasks : t.fn = fn /\ t.i = i /\ t.p = inst[i].cmd

(***************************************************************************)
(* A country that is starting or connecting has a goroutine that waits for *)
(* exactly its process, also after a switch was cancelled or failed        *)
(* (resumeAfterReplacement) and after UpdateUpstream's retry; without one  *)
(* it would stay in that status for ever.                                  *)
(***************************************************************************)
WaiterExists ==
    \A i \in Inst : ~inst[i].draining =>
        /\ inst[i].status = "starting" => HasWaiter(i, "awaitReady")
        /\ inst[i].status = "connecting" => HasWaiter(i, "awaitBootstrap")

HasTimer(i) == \E t \in tasks : t.fn = "timer" /\ t.i = i /\ t.p = inst[i].attempts

(***************************************************************************)
(* A restart that is recorded as scheduled, and is not the last one, has   *)
(* its timer: stop, Start and markInstanceRunning never separate the flag  *)
(* restartScheduled from the attempt number the timer compares with.       *)
(***************************************************************************)
RestartNotLost ==
    ~shuttingDown =>
    \A i \in Inst : inst[i].scheduled /\ inst[i].attempts < autoRestartLimit => HasTimer(i)

(***************************************************************************)
(* A country's connections are only ever moved to an Instance that has     *)
(* obtained an exit address (completeReplacement), however many switches   *)
(* are superseded, cancelled or stopped on the way.                        *)
(***************************************************************************)
CutoverVerified ==
    [][\A c \in Country : (instances[c] # None /\ instances'[c] # instances[c])
                            => inst[instances'[c]].exitIP]_vars

(***************************************************************************)
(* Nobody switches nodes, and no country is started again after it was     *)
(* stopped: nothing resets draining, so stop returns early for a process   *)
(* launched later.                                                         *)
(***************************************************************************)
Undisturbed ==
    \A i \in Inst : inst[i].pending = None /\ (inst[i].draining => inst[i].status \notin Counted)

(***************************************************************************)
(* Except while UpdateMaxRunning is still stopping countries, at most      *)
(* max_running countries are online, however starts, automatic restarts,   *)
(* stops and changes of the limit meet.  It holds as long as the system is *)
(* Undisturbed and the upstream proxy is not changed.                      *)
(***************************************************************************)
Capacity == op.at # "trim" => Cardinality(Online) <= maxRunning

(***************************************************************************)
(* Every switch ends: the country becomes draining, running or whatever it *)
(* was before, or fails, within completeReplacement's deadline.            *)
(***************************************************************************)
SwitchResolves ==
    \A i \in Inst : inst[i].status = "switching" ~> inst[i].status # "switching"

(***************************************************************************)
(* A country being drained or stopped ends up without a process            *)
(* (drainAndStop, drainInstance, signalProcess).                           *)
(***************************************************************************)
StopCompletes ==
    \A i \in Inst : inst[i].status \in {"draining", "stopping"} ~> inst[i].cmd = 0

Undecided(i) == inst[i].status \in {"starting", "connecting"} /\ ~inst[i].draining

(***************************************************************************)
(* A started country is decided: it runs, fails or is stopped              *)
(* (awaitReady's 90 seconds, awaitBootstrap's 3 minutes).                  *)
(***************************************************************************)
StartResolves == \A i \in Inst : Undecided(i) ~> ~Undecided(i)

(***************************************************************************)
(* After Shutdown was called every Tor process ends, those of switches     *)
(* that were under way too.                                                *)
(***************************************************************************)
ShutdownDrains == shuttingDown ~> \A i \in Inst : inst[i].cmd = 0

(***************************************************************************)
(* The manager implements Fleet: under every interleaving of handlers,     *)
(* timers, waiters and switches, a process is launched only while the      *)
(* manager is open; a country's Instance is stopped only after its drain   *)
(* began, and is otherwise told to end only by failInstance, which leaves  *)
(* draining Instances alone; draining is never taken back; connections     *)
(* move only to an Instance that had an exit address; and Shutdown reports *)
(* success only when no process is left.                                   *)
(***************************************************************************)
Abstract ==
    INSTANCE Fleet WITH
        alive <- {i \in Inst : inst[i].cmd # 0},
        signalled <- {i \in Inst : inst[i].stopping},
        failed <- {i \in Inst : inst[i].cmd # 0 /\ inst[i].failed /\ ~inst[i].stopping},
        draining <- {i \in Inst : inst[i].draining},
        verified <- {i \in Inst : inst[i].exitIP},
        ready <- {i \in Inst : inst[i].status \in {"running", "switching"}},
        current <- instances,
        phase <- CASE shutdown = "no" -> "open" [] shutdown = "loop" -> "closing"
                   [] shutdown = "done" -> "closed" [] OTHER -> "abandoned"

ImplementsFleet == Abstract!Spec

----------------------------------------------------------------------------
(***************************************************************************)
(* README: a client polls until ready is true and then connects.           *)
(* clientRouteForRequest looks at the status only, acquireInstance at      *)
(* draining too, and nothing ever resets draining.                         *)
(***************************************************************************)
ReadyIsAcquirable ==
    \A c \in Country : LET i == instances[c] IN
        i # None => (inst[i].status \in {"running", "switching"} => ~inst[i].draining)

(***************************************************************************)
(* README: up to three automatic restarts.  The last one is announced and  *)
(* counted, but runAutoRestart finds the attempts used up and returns.     *)
(***************************************************************************)
LastRestartHasTimer ==
    ~shuttingDown => \A i \in Inst : inst[i].scheduled => HasTimer(i)

(***************************************************************************)
(* README: a stopped country is removed from what is restored.  An         *)
(* automatic restart that released m.mu before Stop launches it again, and *)
(* it is remembered again.                                                 *)
(***************************************************************************)
RestartOnlyRemembered ==
    [][LET i == instances[op.c]
       IN  op.at = "launch" /\ op.i # None /\ inst'[i].launched # inst[i].launched
             => op.c \in resumeNodes]_vars

(***************************************************************************)
(* README: the chosen exit is pinned.  startNode writes the choice into an *)
(* Instance that another request may have started with a different node    *)
(* since it looked.                                                        *)
(***************************************************************************)
PinnedExit ==
    \A i \in Inst : inst[i].status = "running" => inst[i].torrc = inst[i].fp

(***************************************************************************)
(* README: the new instance is verified, then traffic moves.  The status   *)
(* is read before the write lock is taken and not looked at again.         *)
(***************************************************************************)
CutoverAlive ==
    [][\A c \in Country : (instances[c] # None /\ instances'[c] # instances[c])
                            => inst[instances'[c]].status = "running"]_vars

(***************************************************************************)
(* README: once the limit is reached, choosing a new country stops the     *)
(* oldest one, so Start launches only when there is room.  stop returns    *)
(* early for a country that has been stopped and started before.           *)
(***************************************************************************)
EvictionMakesRoom ==
    op.at = "launch" => op.c \in Online \/ Cardinality(Online) < maxRunning
=============================================================================
