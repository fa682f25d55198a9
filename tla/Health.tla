------------------------------- MODULE Health -------------------------------
(***************************************************************************)
(* The route health monitor (src/health.go).  One goroutine probes every   *)
(* running country each minute and, after repeated failures, asks the      *)
(* manager for another exit node in the same country.  A round works on a  *)
(* snapshot; operators and the manager's own goroutines go on meanwhile.   *)
(*                                                                         *)
(* The manager is reduced to the state of each country's route.  Only the  *)
(* monitor writes records and runs rounds, so a run of critical sections   *)
(* of its own mutex is one step.                                           *)
(***************************************************************************)
EXTENDS Integers, FiniteSets

CONSTANTS
    Country,
    Node,           \* exit nodes, each with an address of its own
    None,           \* "", no time, no country
    failures,       \* routeHealthFailures: 3 in the code
    cooldown,       \* routeHealthSwitchDelay, in the ticks of now
    MaxTime,        \* bound: ticks
    MaxRequests     \* bound: what operators ask for, and Tor's crashes

ASSUME HealthAssumption ==
    /\ failures \in Nat \ {0}
    /\ cooldown \in Nat
    /\ MaxTime \in Nat /\ MaxRequests \in Nat
    /\ None \notin Country /\ None \notin Node /\ None \notin Nat

Status == {"stopped", "starting", "running", "switching", "draining", "error"}

\* SocksPort tells an Instance from its replacement, which is given a port while
\* the old one still holds its own; a later one may get the first one's again.
Port == {0, 1}

\* next and act are the pending replacement's node and its activate flag, prev the
\* status to go back to (its zero value is "stopped" here).
Route == [status : Status, prev : Status, node : Node \cup {None}, port : Port,
          next : Node \cup {None}, act : BOOLEAN]

Probe == [c : Country, node : Node \cup {None}, port : Port, active : BOOLEAN, ok : BOOLEAN]

VARIABLES
    route,          \* the manager's current Instance of each country
    active,         \* the manager's m.active
    records,        \* m.records: ConsecutiveFailures, LastSwitchAt, AutomaticSwitchAttempts
    globalFailure,
    at,             \* where the monitor is
    probing,        \* probes under way, ok not known yet
    collected,      \* the round's results, in no particular order
    pending,        \* those still to be applied
    current,        \* the result whose switch is being prepared
    since,          \* applyProbeResult's now
    choice,         \* the alternate node
    now, requests

round == <<at, probing, collected, pending, current, since, choice>>
vars == <<route, active, records, globalFailure, round, now, requests>>

At == {"idle", "probe", "apply", "refresh", "switch"}

Record == [fails : Nat, switchedAt : Nat \cup {None}, attempts : Nat]

TypeOK ==
    /\ route \in [Country -> Route]
    /\ active \in Country \cup {None}
    /\ records \in [Country -> Record]
    /\ globalFailure \in BOOLEAN
    /\ at \in At
    /\ probing \subseteq Probe /\ collected \subseteq Probe /\ pending \subseteq collected
    /\ current \in Probe \cup {None}
    /\ since \in Nat
    /\ choice \in Node \cup {None}
    /\ now \in Nat /\ requests \in Nat

\* The monitor is started after Restore, which may have launched countries.
Init ==
    /\ \E restored \in SUBSET Country :
          /\ route = [c \in Country |->
                        [status |-> IF c \in restored THEN "starting" ELSE "stopped",
                         prev |-> "stopped", node |-> None, port |-> 0,
                         next |-> None, act |-> FALSE]]
          /\ active \in restored \cup {None}
    /\ records = [c \in Country |-> [fails |-> 0, switchedAt |-> None, attempts |-> 0]]
    /\ globalFailure = FALSE
    /\ at = "idle" /\ probing = {} /\ collected = {} /\ pending = {} /\ current = None
    /\ since = 0 /\ choice = None
    /\ now = 0 /\ requests = 0

----------------------------------------------------------------------------
(* The manager, as far as the monitor can tell. *)

Request == requests < MaxRequests /\ requests' = requests + 1

manager == <<records, globalFailure, round, now>>

NoProcess(r) == r.status \in {"stopped", "error"}

\* Activate: the country is started if it has no process, and becomes the exit
\* of the unified proxy.
Activate(c) ==
    /\ Request
    /\ route[c].status # "draining"
    /\ route' = IF NoProcess(route[c])
                THEN [route EXCEPT ![c].status = "starting"] ELSE route
    /\ active' = c
    /\ UNCHANGED manager

Stop(c) ==
    /\ Request
    /\ route' = [route EXCEPT ![c].status = IF NoProcess(route[c]) THEN "stopped" ELSE "draining",
                              ![c].next = None, ![c].prev = "stopped", ![c].act = FALSE]
    /\ active' = IF active = c THEN None ELSE active
    /\ UNCHANGED manager

Drained(c) ==
    /\ route[c].status = "draining"
    /\ route' = [route EXCEPT ![c].status = "stopped"]
    /\ UNCHANGED <<active, manager, requests>>

\* The exit address was obtained.
Verified(c) ==
    /\ route[c].status = "starting"
    /\ route' = [route EXCEPT ![c].status = "running"]
    /\ UNCHANGED <<active, manager, requests>>

\* Tor exits, and is restarted automatically.
Crash(c) ==
    /\ Request
    /\ route[c].status \in {"starting", "running", "switching"}
    /\ route' = [route EXCEPT ![c].status = "error"]
    /\ UNCHANGED <<active, manager>>

Restart(c) ==
    /\ route[c].status = "error" /\ route[c].next = None
    /\ route' = [route EXCEPT ![c].status = "starting"]
    /\ UNCHANGED <<active, manager, requests>>

\* completeReplacement: cut over, or keep the old route.
Cutover(c) ==
    /\ route[c].next # None
    /\ route' = [route EXCEPT ![c].status = "running", ![c].node = route[c].next,
                              ![c].port = 1 - @, ![c].next = None,
                              ![c].prev = "stopped", ![c].act = FALSE]
    /\ active' = IF route[c].act THEN c ELSE active
    /\ UNCHANGED <<manager, requests>>

KeepOld(c) ==
    /\ route[c].next # None
    /\ route' = [route EXCEPT ![c].status = IF @ = "error" THEN @ ELSE route[c].prev,
                              ![c].next = None, ![c].prev = "stopped", ![c].act = FALSE]
    /\ UNCHANGED <<active, manager, requests>>

\* What startNode makes of a route: nothing if it runs that node already, a
\* pending replacement if it has a process, a start otherwise.
Pinned(r, node, act) ==
    IF r.status = "running" /\ r.node = node THEN r
    ELSE IF NoProcess(r) THEN [r EXCEPT !.status = "starting", !.node = node]
    ELSE [r EXCEPT !.status = "switching", !.next = node, !.act = act,
                   !.prev = IF r.next = None THEN r.status ELSE r.prev]

\* Whether m.active is set before startNode returns.
SetsActive(r, node, act) ==
    act /\ (NoProcess(r) \/ (r.status = "running" /\ r.node = node))

\* An operator or a client picks a node: ActivateNode (act) or StartNode.
ChooseNode(c, node, act) ==
    /\ Request
    /\ route[c].status # "draining"
    /\ route' = [route EXCEPT ![c] = Pinned(@, node, act)]
    /\ active' = IF SetsActive(route[c], node, act) THEN c ELSE active
    /\ UNCHANGED manager

----------------------------------------------------------------------------
(* runOnce. *)

Tick ==
    /\ now < MaxTime
    /\ now' = now + 1
    /\ UNCHANGED <<route, active, records, globalFailure, round, requests>>

\* The snapshot: every running country, and which one is active.
RunOnce ==
    /\ at = "idle"
    /\ probing' = {[c |-> c, node |-> route[c].node, port |-> route[c].port,
                    active |-> active = c, ok |-> FALSE] :
                     c \in {d \in Country : route[d].status = "running"}}
    /\ at' = "probe"
    /\ UNCHANGED <<route, active, records, globalFailure, collected, pending, current, since,
                   choice, now, requests>>

\* The route a probe went through is still the country's route.
StillCurrent(p) ==
    /\ route[p.c].status = "running"
    /\ route[p.c].port = p.port /\ route[p.c].node = p.node

\* Mistake: a dropped result is waited for.
ProbeDropsForever(p, ok) ==
    /\ p \in probing
    /\ StillCurrent(p)
    /\ probing' = probing \ {p}
    /\ collected' = collected \cup {[p EXCEPT !.ok = ok]}
    /\ UNCHANGED <<route, active, records, globalFailure, at, pending, current, since, choice, now,
                   requests>>

\* A probe ends; the result of a route that changed meanwhile is dropped.
ProbeInstance(p, ok) ==
    /\ p \in probing
    /\ probing' = probing \ {p}
    /\ collected' = IF StillCurrent(p) THEN collected \cup {[p EXCEPT !.ok = ok]} ELSE collected
    /\ UNCHANGED <<route, active, records, globalFailure, at, pending, current, since, choice, now,
                   requests>>

AllFailed == Cardinality(collected) > 1 /\ \A p \in collected : ~p.ok

Collect ==
    /\ at = "probe" /\ probing = {}
    /\ globalFailure' = AllFailed
    /\ pending' = collected
    /\ at' = IF collected = {} THEN "idle" ELSE "apply"
    /\ UNCHANGED <<route, active, records, probing, collected, current, since, choice, now, requests>>

----------------------------------------------------------------------------
(* applyProbeResult, one result after the other. *)

\* Mistake: the cooldown is over one tick early.
CooledEarly(record) == record.switchedAt = None \/ now - record.switchedAt >= cooldown - 1

Cooled(record) == record.switchedAt = None \/ now - record.switchedAt >= cooldown

\* Mistake: a global failure does not pause switching.
ShouldSwitchAlways(record) == record.fails >= failures /\ Cooled(record)

ShouldSwitch(record) == ~globalFailure /\ record.fails >= failures /\ Cooled(record)

\* ConsecutiveFailures is only ever compared with the threshold.
CountedTo(n) == IF n > failures THEN failures ELSE n

\* Where the monitor goes once p is dealt with: the next result, or the end of
\* the round.
NextResult(p) ==
    /\ pending' = pending \ {p}
    /\ current' = None /\ choice' = None /\ since' = 0
    /\ IF pending = {p} THEN at' = "idle" /\ collected' = {}
       ELSE at' = "apply" /\ UNCHANGED collected

ApplyProbeResult(p) ==
    LET record == [records[p.c] EXCEPT !.fails = IF p.ok THEN 0 ELSE CountedTo(@ + 1)]
    IN  /\ at = "apply" /\ p \in pending
        /\ records' = [records EXCEPT ![p.c] = record]
        /\ IF ~p.ok /\ ShouldSwitch(record)
           THEN /\ at' = "refresh" /\ current' = p /\ since' = now
                /\ UNCHANGED <<collected, pending, choice>>
           ELSE NextResult(p)
        /\ UNCHANGED <<route, active, globalFailure, probing, now, requests>>

\* The catalog cannot be refreshed, or has no other node in the country.
NoAlternate ==
    /\ at = "refresh"
    /\ NextResult(current)
    /\ UNCHANGED <<route, active, records, globalFailure, probing, now, requests>>

\* alternateNode, and the cooldown starts.
AlternateNode(node) ==
    /\ at = "refresh"
    /\ node # current.node
    /\ choice' = node
    /\ records' = [records EXCEPT ![current.c].switchedAt = since]
    /\ at' = "switch"
    /\ UNCHANGED <<route, active, globalFailure, probing, collected, pending, current, since, now,
                   requests>>

\* switchNode returns an error: the manager refused, or Tor could not be started.
SwitchRefused ==
    /\ at = "switch"
    /\ NextResult(current)
    /\ UNCHANGED <<route, active, records, globalFailure, probing, now, requests>>

\* switchNode succeeds; active is the flag of the snapshot.
SwitchNode ==
    LET c == current.c
    IN  /\ at = "switch"
        /\ route[c].status # "draining"
        /\ route' = [route EXCEPT ![c] = Pinned(@, choice, current.active)]
        /\ active' = IF SetsActive(route[c], choice, current.active) THEN c ELSE active
        /\ records' = [records EXCEPT ![c].fails = 0, ![c].attempts = @ + 1]
        /\ NextResult(current)
        /\ UNCHANGED <<globalFailure, probing, now, requests>>

----------------------------------------------------------------------------
Monitor ==
    \/ RunOnce \/ Collect \/ NoAlternate \/ SwitchRefused \/ SwitchNode
    \/ \E p \in probing, ok \in BOOLEAN : ProbeInstance(p, ok)
    \/ \E p \in pending : ApplyProbeResult(p)
    \/ \E node \in Node : AlternateNode(node)

Manager ==
    \E c \in Country :
        \/ Activate(c) \/ Stop(c)
        \/ \E node \in Node, act \in BOOLEAN : ChooseNode(c, node, act)
        \/ Drained(c) \/ Verified(c) \/ Crash(c) \/ Restart(c) \/ Cutover(c) \/ KeepOld(c)

Next == Monitor \/ Manager \/ Tick

Spec == Init /\ [][Next]_vars

\* Probes end after 20 seconds and a refresh after 30: a round never hangs.
FairSpec == Spec /\ WF_vars(Monitor)

----------------------------------------------------------------------------
(***************************************************************************)
(* The cooldown limits how often a country is switched: by the time now    *)
(* the monitor has switched it at most once, and once more for every       *)
(* cooldown that has passed.  LastSwitchAt is read before the catalog is   *)
(* refreshed and written after it, so two switches may start closer        *)
(* together than the cooldown; what a slow refresh gains is lost again     *)
(* with the next one.                                                      *)
(***************************************************************************)
Paced ==
    \A c \in Country : LET n == records[c].attempts IN n > 0 => (n - 1) * cooldown <= now

(***************************************************************************)
(* The monitor prepares a switch only in a round that saw some checked     *)
(* route work, or that checked a single one: when two or more results are  *)
(* usable and all are failures (an outage, not a bad node) it refreshes    *)
(* and switches nothing, in whatever order the results are applied and     *)
(* whatever operators do to the routes meanwhile.  Results dropped because *)
(* their route changed do not count, so a round may take one bad node for  *)
(* an outage, or an outage for one bad node.                               *)
(***************************************************************************)
PausedByGlobalFailure ==
    at \in {"refresh", "switch"} /\ Cardinality(collected) > 1 => \E p \in collected : p.ok

(***************************************************************************)
(* Every round of runOnce ends, whatever happens to the routes meanwhile:  *)
(* results that are dropped are not waited for and every collected result  *)
(* is applied.                                                             *)
(***************************************************************************)
RoundEnds == at # "idle" ~> at = "idle"
=============================================================================
