---------------------------- MODULE Connections ----------------------------
(***************************************************************************)
(* Client connections and the draining of Instances (src/proxy.go,         *)
(* src/client_routes.go, and acquireInstance, releaseInstance,             *)
(* drainAndStop and drainInstance of src/manager.go), on top of what the   *)
(* manager promises (Fleet).  A connection counts for its Instance from    *)
(* acquireInstance to releaseInstance; a drain goroutine polls that count  *)
(* until it is zero or the drain timeout has passed.                       *)
(***************************************************************************)
EXTENDS Integers, FiniteSets

CONSTANTS
    Country, Inst, None,
    Conn    \* goroutines of forward and forwardCountry

ASSUME ConnectionsAssumption == IsFiniteSet(Conn)

VARIABLES
    alive, signalled, failed, draining, verified, ready, current, phase,    \* see Fleet
    conn,                \* where each goroutine is
    ActiveConnections,   \* the counter of each Instance
    drains,              \* the drainAndStop and drainInstance goroutines
    retired              \* Instances that answered for a country: never a replacement again

\* The manager, as it appears from here.
M == INSTANCE Fleet

fleet == <<alive, signalled, failed, draining, verified, ready, current, phase>>
conns == <<conn, ActiveConnections>>
vars == <<fleet, conns, drains, retired>>

\* idle; accepted for country c; holding i, to dial it and then to relay.
ConnState == [at : {"idle", "accepted", "held"}, c : Country \cup {None},
              i : Inst \cup {None}]

Free == [at |-> "idle", c |-> None, i |-> None]

\* A drain of i: polling, or out of its loop because the counter was zero, or
\* because of the deadline.
Drain == [at : {"poll", "empty", "late"}, i : Inst]

TypeOK ==
    /\ alive \subseteq Inst /\ signalled \subseteq alive /\ failed \subseteq alive
    /\ ready \subseteq alive
    /\ draining \subseteq Inst /\ verified \subseteq Inst
    /\ current \in [Country -> Inst \cup {None}]
    /\ phase \in {"open", "closing", "closed", "abandoned"}
    /\ conn \in [Conn -> ConnState]
    /\ ActiveConnections \in [Inst -> Nat]
    /\ drains \subseteq Drain
    /\ retired \subseteq Inst

Init ==
    /\ M!Init
    /\ conn = [k \in Conn |-> Free]
    /\ ActiveConnections = [i \in Inst |-> 0]
    /\ drains = {} /\ retired = {}

----------------------------------------------------------------------------
(* The connection goroutines. *)

\* forward read m.active, or a client authenticated at country c's listener.
Accept(k, c) ==
    /\ conn[k].at = "idle"
    /\ conn' = [conn EXCEPT ![k] = [at |-> "accepted", c |-> c, i |-> None]]
    /\ UNCHANGED <<ActiveConnections, drains, retired, fleet>>

\* Mistake: a draining Instance is handed out as long as its status allows it.
AcquirableWhileDraining(i) == i # None /\ i \in ready

Acquirable(i) == i # None /\ i \in ready /\ i \notin draining

AcquireInstance(k) ==
    LET i == current[conn[k].c]
    IN  /\ conn[k].at = "accepted"
        /\ IF Acquirable(i)
           THEN /\ conn' = [conn EXCEPT ![k].at = "held", ![k].i = i]
                /\ ActiveConnections' = [ActiveConnections EXCEPT ![i] = @ + 1]
           ELSE conn' = [conn EXCEPT ![k] = Free] /\ UNCHANGED ActiveConnections
        /\ UNCHANGED <<drains, retired, fleet>>

\* releaseInstance, deferred: the dial failed or both directions have ended.
\* proxyBothWays ends with the client, not with the process: an idle client
\* keeps its half open after the process died.
ReleaseInstance(k) ==
    LET i == conn[k].i
    IN  /\ conn[k].at = "held"
        /\ conn' = [conn EXCEPT ![k] = Free]
        /\ ActiveConnections' =
              [ActiveConnections EXCEPT ![i] = IF @ > 0 THEN @ - 1 ELSE @]
        /\ UNCHANGED <<drains, retired, fleet>>

----------------------------------------------------------------------------
(* The manager's steps and the goroutines they start. *)

\* Mistake: Start clears the counter with the other fields it resets.
LaunchResetsCount(i) ==
    /\ M!Launch(i)
    /\ ActiveConnections' = [ActiveConnections EXCEPT ![i] = 0]
    /\ UNCHANGED <<conn, drains, retired>>

\* Start or startDetached; the connections of an earlier process still count.
LaunchInstance(i) == M!Launch(i) /\ UNCHANGED <<conns, drains, retired>>

\* stop: the country's Instance drains, drainAndStop is started.
StopInstanceOf(c) ==
    LET i == current[c]
    IN  /\ i # None /\ i \in alive /\ i \notin draining
        /\ M!Withdraw({i}, {})
        /\ drains' = drains \cup {[at |-> "poll", i |-> i]}
        /\ UNCHANGED <<conns, retired>>

\* completeReplacement: the cutover to an Instance made for it, whose counter is
\* set to zero, and drainInstance for the old one.
CompleteReplacement(c, i) ==
    /\ i \notin retired
    /\ M!Cutover(c, i)
    /\ ActiveConnections' = [ActiveConnections EXCEPT ![i] = 0]
    /\ drains' = drains \cup {[at |-> "poll", i |-> current[c]]}
    /\ retired' = retired \cup {current[c]}
    /\ UNCHANGED conn

\* A replacement is given up, or Shutdown stops everything.
StopAtOnce(i) ==
    /\ i \notin signalled
    /\ phase = "closing" \/ (phase = "open" /\ ~M!IsCurrent(i) /\ i \notin draining)
    /\ M!Withdraw({}, {i})
    /\ UNCHANGED <<conns, drains, retired>>

\* failInstance: the process of an Instance that does not drain is interrupted,
\* whoever holds it.
FailInstance(i) == i \notin failed /\ M!Fail({i}) /\ UNCHANGED <<conns, drains, retired>>

\* The first critical section of watch.
ExitInstance(i) == M!Exit(i) /\ UNCHANGED <<conns, drains, retired>>

ManagerStep ==
    \/ \E i \in Inst : LaunchInstance(i) \/ StopAtOnce(i) \/ FailInstance(i)
    \/ \E c \in Country : StopInstanceOf(c)
    \/ \E c \in Country, i \in Inst : CompleteReplacement(c, i)
    \/ \E i \in Inst : ExitInstance(i)
    \/ /\ \/ \E i \in Inst : M!Verify(i)
          \/ \E c \in Country, i \in Inst \ retired : M!Adopt(c, i)
          \/ M!Close \/ M!Closed
       /\ UNCHANGED <<conns, drains, retired>>

\* A status changes, and nothing else.
StatusStep ==
    /\ UNCHANGED <<alive, signalled, failed, draining, verified, current, phase>>
    /\ UNCHANGED <<conns, drains, retired>>

----------------------------------------------------------------------------
(* The drain goroutines. *)

\* The look at the counter that ends the loop.
DrainPoll(d) ==
    /\ d \in drains /\ d.at = "poll"
    /\ ActiveConnections[d.i] = 0
    /\ drains' = (drains \ {d}) \cup {[d EXCEPT !.at = "empty"]}
    /\ UNCHANGED <<conns, retired, fleet>>

\* Mistake: the deadline is never looked at.
DrainWithoutDeadline(d) == FALSE /\ UNCHANGED vars

DrainDeadline(d) ==
    /\ d \in drains /\ d.at = "poll"
    /\ drains' = (drains \ {d}) \cup {[d EXCEPT !.at = "late"]}
    /\ UNCHANGED <<conns, retired, fleet>>

\* stopInstance after the loop, whatever process the Instance has by now.
DrainStops(d) ==
    /\ d \in drains /\ d.at # "poll"
    /\ drains' = drains \ {d}
    /\ IF d.i \in alive /\ d.i \notin signalled THEN M!Withdraw({}, {d.i})
       ELSE UNCHANGED <<alive, signalled, failed, draining, verified, current, phase>>
    /\ UNCHANGED <<conns, retired>>

----------------------------------------------------------------------------
ConnNext ==
    \E k \in Conn : (\E c \in Country : Accept(k, c)) \/ AcquireInstance(k) \/ ReleaseInstance(k)

DrainStep(d) == DrainDeadline(d) \/ (DrainStops(d) /\ ready' \in SUBSET alive')

DrainNext == \E d \in drains : DrainPoll(d) \/ DrainStep(d)

EnvNext == (ManagerStep \/ StatusStep) /\ ready' \in SUBSET alive'

Next == ConnNext \/ DrainNext \/ EnvNext

Spec == Init /\ [][Next]_vars

\* Instances whose process was told to end, and will.
Told == signalled \cup failed

(***************************************************************************)
(* Drain goroutines are scheduled and see their deadline; a process that   *)
(* was told to end is killed after 8 seconds.  Nothing makes a client      *)
(* close its connection.                                                   *)
(***************************************************************************)
Fairness ==
    \A i \in Inst :
        /\ WF_vars(\E d \in drains : d.i = i /\ DrainStep(d))
        /\ WF_vars(i \in Told /\ ExitInstance(i) /\ ready' \in SUBSET alive')

FairSpec == Spec /\ Fairness

----------------------------------------------------------------------------
Holders(i) == {k \in Conn : conn[k].at = "held" /\ conn[k].i = i}

(***************************************************************************)
(* ActiveConnections is the number of goroutines between acquireInstance   *)
(* and releaseInstance, across exits, restarts and replacements of the     *)
(* process: a cutover clears the counter of an Instance nobody has used    *)
(* yet, and the guard of releaseInstance never hides a lost increment.     *)
(***************************************************************************)
CountExact == \A i \in Inst : ActiveConnections[i] = Cardinality(Holders(i))

(***************************************************************************)
(* No stop, limit, switch or cancelled switch cuts a connection before the *)
(* drain deadline: while the program is not shutting down, the process     *)
(* under a connection is told to end only by a drain whose deadline had    *)
(* passed, although the drain decides on a counter it read before it takes *)
(* the lock again and connections are accepted all the time; or because it *)
(* failed (failInstance), and then not while it drains.                    *)
(***************************************************************************)
DrainGraceful ==
    [][\A i \in Told' \ Told :
          phase = "open" /\ Holders(i) # {}
             => \/ \E d \in drains \ drains' : d.i = i /\ d.at = "late"
                \/ i \in failed' /\ i \notin draining']_vars

(***************************************************************************)
(* An Instance that is drained loses its process even if its clients never *)
(* close their connections.                                                *)
(***************************************************************************)
DrainEnds == \A i \in Inst : (\E d \in drains : d.i = i) ~> i \notin alive
=============================================================================
