------------------------------- MODULE Fleet -------------------------------
(***************************************************************************)
(* What the instance manager promises to the rest of the program, without  *)
(* startMu, goroutines, ports, retries or statuses: which Instances have a *)
(* Tor process, which one answers for a country, which ones take no new    *)
(* connection, and what shutting down means.  Manager implements it; the   *)
(* connection side (Connections) is built on it.                           *)
(***************************************************************************)
CONSTANTS
    Country,    \* two-letter codes
    Inst,       \* Instance objects
    None        \* no Instance

VARIABLES
    alive,      \* Instances with a Tor process
    signalled,  \* those whose process was told to end by a stop
    failed,     \* those told to end because they failed, and not stopped since
    draining,   \* Instances that take no new connection
    verified,   \* Instances whose last process obtained an exit address
    ready,      \* Instances acquireInstance hands out unless they drain
    current,    \* the Instance of each country
    phase       \* of Shutdown: "open", "closing", "closed", "abandoned"

fleet == <<alive, signalled, failed, draining, verified, ready, current, phase>>

Init ==
    /\ alive = {} /\ signalled = {} /\ failed = {} /\ draining = {} /\ verified = {} /\ ready = {}
    /\ current \in [Country -> Inst \cup {None}]
    /\ \A c, d \in Country : current[c] = current[d] => c = d \/ current[c] = None
    /\ phase = "open"

\* An Instance belongs to one country.
IsCurrent(i) == \E c \in Country : current[c] = i

\* Nothing is launched once the fleet closes.
Launch(i) ==
    /\ phase = "open" /\ i \notin alive
    /\ alive' = alive \cup {i}
    /\ verified' = verified \ {i}
    /\ UNCHANGED <<signalled, failed, draining, current, phase>>

Exit(i) ==
    /\ i \in alive
    /\ alive' = alive \ {i} /\ signalled' = signalled \ {i} /\ failed' = failed \ {i}
    /\ UNCHANGED <<draining, verified, current, phase>>

Verify(i) ==
    /\ i \in alive
    /\ verified' = verified \cup {i}
    /\ UNCHANGED <<alive, signalled, failed, draining, current, phase>>

\* failInstance: processes that could not obtain an exit are told to end, the
\* ones that serve a country too, but never one that drains.
Fail(F) ==
    /\ F \subseteq alive /\ F \cap draining = {}
    /\ failed' = failed \cup F
    /\ UNCHANGED <<alive, signalled, draining, verified, current, phase>>

\* Who may be stopped: an Instance that serves its country is first drained,
\* unless everything ends.
Stoppable(i) == i \in alive /\ (i \in draining \/ ~IsCurrent(i) \/ phase # "open")

\* Some Instances begin to drain, some processes are stopped.
Withdraw(D, S) ==
    /\ D \subseteq alive /\ \A i \in S : Stoppable(i)
    /\ draining' = draining \cup D \cup S
    /\ signalled' = signalled \cup S /\ failed' = failed \ S
    /\ UNCHANGED <<alive, verified, current, phase>>

\* ensureCountry: an unknown country gets an Instance that was never used.
Adopt(c, i) ==
    /\ current[c] = None
    /\ i \notin alive /\ i \notin draining /\ ~IsCurrent(i)
    /\ current' = [current EXCEPT ![c] = i]
    /\ UNCHANGED <<alive, signalled, failed, draining, verified, phase>>

\* The cutover: connections move to an Instance that had an exit address, and
\* the one they leave drains from the same moment.  Neither of the two is in
\* the middle of a drain; before Shutdown neither was ever drained.
Cutover(c, i) ==
    /\ current[c] # None /\ ~IsCurrent(i)
    /\ i \in verified
    /\ phase = "open" => {current[c], i} \cap draining = {}
    /\ {current[c], i} \cap draining \cap alive \subseteq signalled
    /\ current' = [current EXCEPT ![c] = i]
    /\ draining' = draining \cup {current[c]}
    /\ UNCHANGED <<alive, signalled, failed, verified, phase>>

Close ==
    /\ phase = "open" /\ phase' = "closing"
    /\ UNCHANGED <<alive, signalled, failed, draining, verified, current>>

\* Shutdown returns nil only when nothing is left, and gives up only on
\* processes that were all stopped.
Closed ==
    /\ phase = "closing"
    /\ \/ alive = {} /\ phase' = "closed"
       \/ alive # {} /\ alive \subseteq signalled /\ phase' = "abandoned"
    /\ UNCHANGED <<alive, signalled, failed, draining, verified, current>>

FleetNext ==
    \/ \E i \in Inst : Launch(i) \/ Exit(i) \/ Verify(i)
    \/ \E F \in SUBSET Inst : Fail(F)
    \/ \E D, S \in SUBSET Inst : Withdraw(D, S)
    \/ \E c \in Country, i \in Inst : Adopt(c, i) \/ Cutover(c, i)
    \/ Close \/ Closed

\* Any step may also change which living Instances are ready.
Next == FleetNext /\ ready' \in SUBSET alive'

Spec == Init /\ [][Next]_fleet
=============================================================================
