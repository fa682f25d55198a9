------------------------------ MODULE Catalog ------------------------------
(***************************************************************************)
(* The catalog of exit nodes (src/catalog.go): requests refresh it when it *)
(* is older than ten minutes, one at a time, measure latencies in the      *)
(* background and choose a node for a client's route.  c.mu guards the     *)
(* map, refreshMu the download; every c.mu critical section is one action. *)
(***************************************************************************)
EXTENDS Integers, Sequences, FiniteSets

CONSTANTS
    Node,               \* fingerprints
    Country,
    Documents,          \* what the directory may answer: [country, weight] of some nodes
    Latencies,          \* what a measurement may yield; -2 stands for a failure
    Caller,             \* concurrent requests
    Wanted,             \* the countries a route may be requested for, in order
    None,               \* the zero time, nobody
    freshFor,           \* ten minutes
    latencyFor,         \* five minutes
    MaxTime, MaxCalls, MaxUpdates       \* bounds

Unmeasured == -1
Failed == -2

ASSUME CatalogAssumption ==
    /\ \A d \in Documents : DOMAIN d \subseteq Node
                            /\ \A n \in DOMAIN d : d[n] \in [country : Country, weight : Nat]
    /\ Latencies \subseteq Nat \cup {Failed}
    /\ \A w \in Wanted : w \in Seq(Country) /\ w # <<>>
    /\ freshFor \in Nat /\ latencyFor \in Nat
    /\ MaxTime \in Nat /\ MaxCalls \in Nat /\ MaxUpdates \in Nat
    /\ None \notin Nat /\ None \notin Caller

Kind == {"refresh", "nodes", "lowest_latency", "failover"}

VARIABLES
    nodes,          \* c.nodes
    fetchedAt, lastError,
    upstream,       \* the number of the upstream proxy c.client uses
    refreshMu,      \* its holder
    call,           \* what each request is doing
    measuring,      \* measurements waiting for a slot of latencySem or under way
    document,       \* history: the document stored last
    steady,         \* history: requests that have seen no change since they began to choose
    now, calls

data == <<nodes, fetchedAt, lastError, document>>
vars == <<data, upstream, refreshMu, call, measuring, steady, now, calls>>

Idle == [at |-> "idle", kind |-> None, want |-> <<>>, measured |-> FALSE, todo |-> <<>>, found |-> {}]

Entry == [country : Country, weight : Nat, latency : Int, checked : Nat \cup {None}]

\* A candidate: a copy of the map's entry.
Candidate == [node : Node, country : Country, weight : Nat, latency : Int]

Init ==
    /\ nodes = [n \in {} |-> None] /\ document = nodes
    /\ fetchedAt = None /\ lastError = FALSE
    /\ upstream = 0 /\ refreshMu = None
    /\ call = [x \in Caller |-> Idle]
    /\ measuring = {} /\ steady = {}
    /\ now = 0 /\ calls = 0

Tick ==
    /\ now < MaxTime /\ now' = now + 1
    /\ UNCHANGED <<data, upstream, refreshMu, call, measuring, steady, calls>>

\* PUT /api/settings/upstream.
UpdateUpstream ==
    /\ upstream < MaxUpdates
    /\ upstream' = upstream + 1
    /\ fetchedAt' = None
    /\ UNCHANGED <<nodes, lastError, document, refreshMu, call, measuring, steady, now, calls>>

----------------------------------------------------------------------------
(* refresh and EnsureFresh. *)

Recent == DOMAIN nodes # {} /\ fetchedAt # None /\ now - fetchedAt < freshFor

\* Where a request goes on once the catalog is fresh enough for it.
Continue(x) ==
    call' = [call EXCEPT ![x] = IF @.kind = "refresh" THEN Idle ELSE [@ EXCEPT !.at = "checks"]]

\* What a request names: nothing, the country whose nodes are listed, or a
\* route's candidates.
Asked(kind, want) ==
    CASE kind = "refresh" -> <<>>
      [] kind = "nodes" -> <<Head(want)>>
      [] OTHER -> want

\* A request: the first look.
Call(x, kind, want) ==
    /\ call[x] = Idle /\ calls < MaxCalls /\ calls' = calls + 1
    /\ call' = [call EXCEPT ![x] =
                  [Idle EXCEPT !.kind = kind, !.want = Asked(kind, want),
                               !.at = IF kind # "refresh" /\ Recent THEN "checks" ELSE "wait"]]
    /\ UNCHANGED <<data, upstream, refreshMu, measuring, steady, now>>

\* Mistake: the catalog is not looked at again once the lock is held.
NeverFresh(x) == FALSE

Fresh(x) == call[x].kind # "refresh" /\ Recent

\* refreshMu, the second look, and the client that will be used.
Acquire(x) ==
    /\ call[x].at = "wait" /\ refreshMu = None
    /\ IF Fresh(x)
       THEN Continue(x) /\ UNCHANGED refreshMu
       ELSE call' = [call EXCEPT ![x].at = "fetch"] /\ refreshMu' = x
    /\ UNCHANGED <<data, upstream, measuring, steady, now, calls>>

\* No answer, not 200, or not a document: setError.
FetchFails(x) ==
    /\ call[x].at = "fetch"
    /\ lastError' = TRUE
    /\ refreshMu' = None
    /\ call' = [call EXCEPT ![x].at = "failed"]
    /\ UNCHANGED <<nodes, fetchedAt, document, upstream, measuring, steady, now, calls>>

\* EnsureFresh makes do with the old nodes, if there are any; Refresh returns the error.
OldNodes(x) ==
    /\ call[x].at = "failed"
    /\ IF DOMAIN nodes # {} THEN Continue(x) ELSE call' = [call EXCEPT ![x] = Idle]
    /\ UNCHANGED <<data, upstream, refreshMu, measuring, steady, now, calls>>

\* A node that is known and was measured lately keeps its latency.
Kept(n) == n \in DOMAIN nodes /\ nodes[n].checked # None /\ now - nodes[n].checked < latencyFor

Stored(d) ==
    [n \in DOMAIN d |->
       [country |-> d[n].country, weight |-> d[n].weight,
        latency |-> IF Kept(n) THEN nodes[n].latency ELSE Unmeasured,
        checked |-> IF Kept(n) THEN nodes[n].checked ELSE None]]

\* The usable relays of the answer replace the map.
Store(x, d) ==
    /\ call[x].at = "fetch"
    /\ nodes' = Stored(d) /\ document' = d
    /\ fetchedAt' = now /\ lastError' = FALSE
    /\ refreshMu' = None
    /\ Continue(x)
    /\ steady' = {}
    /\ UNCHANGED <<upstream, measuring, now, calls>>

----------------------------------------------------------------------------
(* Latencies. *)

\* Whether startLatencyChecks leaves n alone.
CheckedLately(n) == nodes[n].checked # None /\ now - nodes[n].checked < latencyFor

\* startLatencyChecks for every requested country; a route's request then waits
\* two seconds.  (Its limit of ten nodes a country is out of reach here.)
StartChecks(x) ==
    /\ call[x].at = "checks"
    /\ measuring' = measuring \cup
         {[node |-> n, by |-> x] :
            n \in {k \in DOMAIN nodes : /\ \E j \in DOMAIN call[x].want : nodes[k].country = call[x].want[j]
                                        /\ ~CheckedLately(k)}}
    /\ call' = [call EXCEPT ![x] = IF @.kind = "nodes" THEN Idle
                                   ELSE [@ EXCEPT !.at = "collect", !.measured = TRUE, !.todo = call[x].want]]
    /\ steady' = steady \cup {x}
    /\ UNCHANGED <<data, upstream, refreshMu, now, calls>>

\* Mistake: the result is written whether or not the node is still there.
WrittenBackAlways(n, latency) ==
    [k \in DOMAIN nodes \cup {n} |->
       IF k # n THEN nodes[k]
       ELSE IF n \in DOMAIN nodes THEN [nodes[n] EXCEPT !.latency = latency, !.checked = now]
       ELSE [country |-> None, weight |-> 0, latency |-> latency, checked |-> now]]

WrittenBack(n, latency) ==
    IF n \in DOMAIN nodes
    THEN [nodes EXCEPT ![n].latency = latency, ![n].checked = now]
    ELSE nodes

\* measureTCPLatency has ended.
Measured(t, latency) ==
    /\ t \in measuring
    /\ nodes' = WrittenBack(t.node, latency)
    /\ measuring' = measuring \ {t}
    /\ steady' = {}
    /\ UNCHANGED <<fetchedAt, lastError, document, upstream, refreshMu, call, now, calls>>

----------------------------------------------------------------------------
(* SelectNode. *)

latencyRank(latency) == IF latency >= 0 THEN 0 ELSE IF latency = Unmeasured THEN 1 ELSE 2

\* Mistake: a measurement that failed counts as a low latency.
lessExitNodeRaw(left, right) ==
    IF left.latency # right.latency THEN left.latency < right.latency
    ELSE left.weight > right.weight

lessExitNode(left, right) ==
    IF latencyRank(left.latency) # latencyRank(right.latency)
    THEN latencyRank(left.latency) < latencyRank(right.latency)
    ELSE IF left.latency >= 0 /\ left.latency # right.latency THEN left.latency < right.latency
    ELSE left.weight > right.weight

\* What sorting may put first: equal nodes come in any order.
First(S) == {a \in S : \A b \in S : ~lessExitNode(b, a)}

NodesForCountry(c) ==
    {[node |-> n, country |-> c, weight |-> nodes[n].weight, latency |-> nodes[n].latency] :
       n \in {k \in DOMAIN nodes : nodes[k].country = c}}

Usable(S, requireMeasured) == {a \in S : requireMeasured => a.latency >= 0}

\* bestCandidate, country by country, each read under a lock of its own.  With
\* failover the first country that has a node decides.
Collect(x) ==
    LET r == call[x]
        S == Usable(NodesForCountry(Head(r.todo)), r.measured)
    IN  /\ r.at = "collect" /\ r.todo # <<>>
        /\ call' = [call EXCEPT ![x].found = @ \cup S,
                                ![x].todo = IF r.kind = "failover" /\ S # {} THEN <<>> ELSE Tail(@)]
        /\ UNCHANGED <<data, upstream, refreshMu, measuring, steady, now, calls>>

\* The first pass wants a measured node, the second takes any.
Choose(x) ==
    LET r == call[x]
    IN  /\ r.at = "collect" /\ r.todo = <<>>
        /\ call' = [call EXCEPT ![x] = IF r.found = {} /\ r.measured
                                       THEN [@ EXCEPT !.measured = FALSE, !.todo = r.want]
                                       ELSE Idle]
        /\ UNCHANGED <<data, upstream, refreshMu, measuring, steady, now, calls>>

\* The client goes away while SelectNode waits.
Cancelled(x) ==
    /\ call[x].at = "collect" /\ call[x].measured /\ call[x].todo = call[x].want
    /\ call' = [call EXCEPT ![x] = Idle]
    /\ UNCHANGED <<data, upstream, refreshMu, measuring, steady, now, calls>>

----------------------------------------------------------------------------
Request(x) ==
    \/ Acquire(x) \/ FetchFails(x) \/ OldNodes(x) \/ (\E d \in Documents : Store(x, d))
    \/ StartChecks(x) \/ Collect(x) \/ Choose(x)

Next ==
    \/ Tick \/ UpdateUpstream
    \/ \E x \in Caller : Request(x) \/ Cancelled(x)
    \/ \E x \in Caller, kind \in Kind, want \in Wanted : Call(x, kind, want)
    \/ \E t \in measuring, latency \in Latencies : Measured(t, latency)

Spec == Init /\ [][Next]_vars

----------------------------------------------------------------------------
TypeOK ==
    /\ DOMAIN nodes \subseteq Node /\ \A n \in DOMAIN nodes : nodes[n] \in Entry
    /\ fetchedAt \in Nat \cup {None} /\ lastError \in BOOLEAN
    /\ upstream \in Nat
    /\ refreshMu \in Caller \cup {None}
    /\ call \in [Caller -> [at : {"idle", "wait", "fetch", "failed", "checks", "collect"},
                            kind : Kind \cup {None}, want : Seq(Country), measured : BOOLEAN,
                            todo : Seq(Country), found : SUBSET Candidate]]
    /\ measuring \subseteq [node : Node, by : Caller]
    /\ steady \subseteq Caller
    /\ now \in Nat /\ calls \in Nat

(***************************************************************************)
(* The map is the document stored last: a measurement that ends late never *)
(* brings a node back that a refresh has removed, nor changes where a node *)
(* is (startLatencyChecks, refresh).  A node has a latency only together   *)
(* with the time it was measured.                                          *)
(***************************************************************************)
NodesFromDocument ==
    /\ DOMAIN nodes = DOMAIN document
    /\ \A n \in DOMAIN nodes :
          /\ nodes[n].country = document[n].country /\ nodes[n].weight = document[n].weight
          /\ nodes[n].latency = Unmeasured <=> nodes[n].checked = None

(***************************************************************************)
(* However many requests find the catalog old at once, a document is only  *)
(* replaced by one of them, unless the old one has meanwhile expired, was  *)
(* invalidated by UpdateUpstream or was empty.                             *)
(***************************************************************************)
RefreshedOnce ==
    [][\A x \in Caller : call[x].at = "fetch" /\ call'[x].at = "checks" => ~Recent]_vars

\* The lowest latency; nodes nobody measured before those that failed; then weight.
Lowest(S) ==
    LET measured == {a \in S : a.latency >= 0}
        unmeasured == {a \in S : a.latency = Unmeasured}
        Heaviest(T) == {a \in T : \A b \in T : a.weight >= b.weight}
    IN  IF measured # {}
        THEN Heaviest({a \in measured : \A b \in measured : a.latency <= b.latency})
        ELSE IF unmeasured # {} THEN Heaviest(unmeasured) ELSE Heaviest(S)

Reference(want, policy) ==
    LET All == UNION {NodesForCountry(want[i]) : i \in DOMAIN want}
        pool == IF \E a \in All : a.latency >= 0 THEN {a \in All : a.latency >= 0} ELSE All
        In(i) == {a \in pool : a.country = want[i]}
        first == {i \in DOMAIN want : In(i) # {} /\ \A j \in 1..(i - 1) : In(j) = {}}
    IN  IF policy = "failover" THEN UNION {Lowest(In(i)) : i \in first} ELSE Lowest(pool)

(***************************************************************************)
(* SelectNode's two passes over the countries, each sorted, give the node  *)
(* the policy means: for lowest_latency the best of all countries, for     *)
(* failover the best of the first country that has one, measured nodes     *)
(* going first in both.  Stated for requests during which the catalog does *)
(* not change.                                                             *)
(***************************************************************************)
ChoiceBest ==
    [][\A x \in steady :
         call[x].at = "collect" /\ call[x].todo = <<>> /\ call'[x] = Idle
            => First(call[x].found) = Reference(call[x].want, call[x].kind)]_vars
=============================================================================
