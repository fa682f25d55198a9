--------------------------- MODULE CatalogProofs ---------------------------
(***************************************************************************)
(* Theorems about Catalog, for any number of requests, nodes, countries    *)
(* and directory answers.                                                  *)
(***************************************************************************)
EXTENDS Catalog, TLAPS

Record == [at : {"idle", "wait", "fetch", "failed", "checks", "collect"},
           kind : Kind \cup {None}, want : Seq(Country), measured : BOOLEAN,
           todo : Seq(Country), found : SUBSET Candidate]

\* Whoever downloads holds refreshMu, and has found the catalog old unless it was
\* told to refresh it; the catalog stays old as long as the lock is held.
FetchInv ==
    \A x \in Caller : call[x].at = "fetch" =>
        refreshMu = x /\ (call[x].kind # "refresh" => ~Recent)

\* A request has candidates only while it chooses, which only those for a route do.
RouteOK(r) ==
    /\ r.at # "collect" => r.found = {}
    /\ r.at # "idle" => r.kind \in Kind
    /\ r.at = "checks" => r.kind # "refresh"
    /\ r.at = "collect" => r.kind \in {"lowest_latency", "failover"}
    /\ r.at # "idle" /\ r.kind \in {"lowest_latency", "failover"} => r.want # <<>>

RouteInv == \A x \in Caller : RouteOK(call[x])

IInv == TypeOK /\ NodesFromDocument /\ FetchInv /\ RouteInv

\* In these proofs a request is one of the types of TypeOK.
LEMMA RecordType == TypeOK => call \in [Caller -> Record]
  BY DEF TypeOK, Record

\* The empty record is one.
LEMMA IdleType == Idle \in Record
<1>1. <<>> \in Seq(Country)  OBVIOUS
<1> QED  BY <1>1 DEF Idle, Record, Kind

\* What is left in place of a request is a request.
LEMMA OneCall ==
    ASSUME TypeOK, NEW x \in Caller, NEW r, call' = [call EXCEPT ![x] = r]
    PROVE  /\ call'[x] = r
           /\ \A y \in Caller : y # x => call'[y] = call[y]
           /\ r \in Record => call' \in [Caller -> Record]
  BY RecordType

\* What Continue makes of a request.
LEMMA ContinueKeeps ==
    ASSUME TypeOK, NEW x \in Caller, Continue(x)
    PROVE  /\ call' \in [Caller -> Record]
           /\ \A y \in Caller : y # x => call'[y] = call[y]
           /\ \/ call'[x] = Idle /\ call[x].kind = "refresh"
              \/ call'[x] = [call[x] EXCEPT !.at = "checks"] /\ call[x].kind # "refresh"
<1> DEFINE r == IF call[x].kind = "refresh" THEN Idle ELSE [call[x] EXCEPT !.at = "checks"]
<1>1. call' = [call EXCEPT ![x] = r]  BY DEF Continue
<1>2. call[x] \in Record  BY RecordType
<1>3. r \in Record  BY <1>2, IdleType DEF Record
<1> QED  BY <1>1, <1>3, OneCall

\* A measurement changes the latency of a node that is there, and nothing else.
LEMMA WrittenBackKeeps ==
    ASSUME TypeOK, NodesFromDocument, NEW n \in Node, NEW latency \in Latencies,
           nodes' = WrittenBack(n, latency)
    PROVE  /\ DOMAIN nodes' = DOMAIN nodes
           /\ \A k \in DOMAIN nodes : k # n => nodes'[k] = nodes[k]
           /\ n \in DOMAIN nodes =>
                /\ nodes'[n] \in Entry /\ nodes'[n].country = nodes[n].country
                /\ nodes'[n].weight = nodes[n].weight
                /\ nodes'[n].latency = latency /\ nodes'[n].checked = now
<1>1. latency \in Int /\ now \in Nat  BY CatalogAssumption DEF TypeOK, Failed
<1>2. CASE n \notin DOMAIN nodes  BY <1>2 DEF WrittenBack
<1>3. CASE n \in DOMAIN nodes
  <2>1. nodes' = [nodes EXCEPT ![n] = [[@ EXCEPT !.latency = latency] EXCEPT !.checked = now]]
    BY <1>3 DEF WrittenBack
  <2>2. nodes[n] \in Entry  BY <1>3 DEF TypeOK
  <2>3. nodes'[n] = [[nodes[n] EXCEPT !.latency = latency] EXCEPT !.checked = now]  BY <1>3, <2>1
  <2> QED  BY <1>1, <1>3, <2>1, <2>2, <2>3 DEF Entry
<1> QED  BY <1>2, <1>3

\* What a refresh stores are entries.
LEMMA StoredType ==
    ASSUME TypeOK, NodesFromDocument, NEW d \in Documents
    PROVE  /\ DOMAIN Stored(d) = DOMAIN d /\ DOMAIN d \subseteq Node
           /\ \A n \in DOMAIN d :
                /\ Stored(d)[n] \in Entry
                /\ Stored(d)[n].country = d[n].country /\ Stored(d)[n].weight = d[n].weight
                /\ Stored(d)[n].latency = Unmeasured <=> Stored(d)[n].checked = None
<1>1. DOMAIN Stored(d) = DOMAIN d /\ DOMAIN d \subseteq Node  BY CatalogAssumption DEF Stored
<1>2. ASSUME NEW n \in DOMAIN d
      PROVE  /\ Stored(d)[n] \in Entry
             /\ Stored(d)[n].country = d[n].country /\ Stored(d)[n].weight = d[n].weight
             /\ Stored(d)[n].latency = Unmeasured <=> Stored(d)[n].checked = None
  <2>1. d[n] \in [country : Country, weight : Nat]  BY CatalogAssumption
  <2>2. Stored(d)[n] = [country |-> d[n].country, weight |-> d[n].weight,
                        latency |-> IF Kept(n) THEN nodes[n].latency ELSE Unmeasured,
                        checked |-> IF Kept(n) THEN nodes[n].checked ELSE None]
    BY DEF Stored
  <2>3. CASE Kept(n)
    <3>1. n \in DOMAIN nodes /\ nodes[n] \in Entry /\ (nodes[n].latency = Unmeasured <=> nodes[n].checked = None)
      BY <2>3 DEF Kept, TypeOK, NodesFromDocument
    <3> QED  BY <2>1, <2>2, <2>3, <3>1 DEF Entry
  <2>4. CASE ~Kept(n)  BY <2>1, <2>2, <2>4 DEF Entry, Unmeasured
  <2> QED  BY <2>3, <2>4
<1> QED  BY <1>1, <1>2

\* The candidates of a country are candidates.
LEMMA CandidatesType ==
    ASSUME TypeOK, NEW c \in Country PROVE NodesForCountry(c) \subseteq Candidate
  BY DEF TypeOK, NodesForCountry, Candidate, Entry

----------------------------------------------------------------------------
(***************************************************************************)
(* A step of one request that leaves the catalog alone.                    *)
(***************************************************************************)
LEMMA CallKeeps ==
    ASSUME IInv, NEW x \in Caller, NEW r \in Record, call' = [call EXCEPT ![x] = r],
           RouteOK(r), UNCHANGED <<nodes, fetchedAt, document, now>>,
           lastError' \in BOOLEAN, upstream' \in Nat, calls' \in Nat,
           steady' \subseteq Caller, measuring' \subseteq [node : Node, by : Caller],
           \/ refreshMu' = refreshMu /\ (r.at = "fetch" => call[x].at = "fetch" /\ r.kind = call[x].kind)
           \/ refreshMu = None /\ refreshMu' = x /\ (r.at = "fetch" /\ r.kind # "refresh" => ~Recent)
           \/ refreshMu = x /\ refreshMu' = None /\ r.at # "fetch"
    PROVE  IInv'
<1>1. /\ call'[x] = r /\ \A y \in Caller : y # x => call'[y] = call[y]
      /\ call' \in [Caller -> Record]
  BY OneCall DEF IInv
<1>2. TypeOK'  BY <1>1 DEF IInv, TypeOK, Record
<1>3. NodesFromDocument'  BY DEF IInv, NodesFromDocument
<1>4. Recent' <=> Recent  BY DEF Recent
<1>5. FetchInv'
  <2> SUFFICES ASSUME NEW y \in Caller, call'[y].at = "fetch"
               PROVE  refreshMu' = y /\ (call'[y].kind # "refresh" => ~Recent')
    BY DEF FetchInv
  <2>1. None \notin Caller  BY CatalogAssumption
  <2> QED  BY <1>1, <1>4, <2>1 DEF IInv, FetchInv
<1>6. RouteInv'  BY <1>1 DEF IInv, RouteInv
<1> QED  BY <1>2, <1>3, <1>5, <1>6 DEF IInv

(***************************************************************************)
(* Every step keeps the inductive invariant.                               *)
(***************************************************************************)
LEMMA CatalogStep == IInv /\ [Next]_vars => IInv'
<1> SUFFICES ASSUME IInv, [Next]_vars PROVE IInv'  OBVIOUS
<1>0. TypeOK /\ NodesFromDocument /\ FetchInv /\ RouteInv  BY DEF IInv
<1>t. /\ lastError \in BOOLEAN /\ upstream \in Nat /\ calls \in Nat /\ steady \subseteq Caller
      /\ measuring \subseteq [node : Node, by : Caller] /\ now \in Nat /\ fetchedAt \in Nat \cup {None}
  BY <1>0 DEF TypeOK
<1>r. \A x \in Caller : call[x] \in Record /\ RouteOK(call[x])  BY <1>0, RecordType DEF RouteInv
<1>n. None \notin Caller /\ None \notin Nat  BY CatalogAssumption
<1>1. CASE Tick
  <2>1. now' = now + 1 /\ UNCHANGED <<nodes, fetchedAt, document, call, refreshMu>>
    BY <1>1 DEF Tick, data
  <2>2. Recent' => Recent
    <3>1. fetchedAt \in Nat => (now + 1 - fetchedAt < freshFor => now - fetchedAt < freshFor)
      BY <1>t, CatalogAssumption
    <3> QED  BY <1>t, <2>1, <3>1 DEF Recent
  <2>3. FetchInv'  BY <1>0, <2>1, <2>2 DEF FetchInv
  <2>4. TypeOK' /\ NodesFromDocument' /\ RouteInv'
    BY <1>0, <1>1, <2>1 DEF Tick, data, TypeOK, NodesFromDocument, RouteInv
  <2> QED  BY <2>3, <2>4 DEF IInv
<1>2. CASE UpdateUpstream
  <2>1. ~Recent'  BY <1>2 DEF UpdateUpstream, Recent
  <2> QED  BY <1>0, <1>2, <2>1
           DEF UpdateUpstream, IInv, TypeOK, NodesFromDocument, FetchInv, RouteInv
<1>3. ASSUME NEW x \in Caller, NEW kind \in Kind, NEW want \in Wanted, Call(x, kind, want) PROVE IInv'
  <2> DEFINE r == [Idle EXCEPT !.kind = kind, !.want = Asked(kind, want),
                               !.at = IF kind # "refresh" /\ Recent THEN "checks" ELSE "wait"]
  <2>1. want \in Seq(Country) /\ want # <<>>  BY CatalogAssumption
  <2>2. Asked(kind, want) \in Seq(Country) /\ (kind \in {"lowest_latency", "failover"} => Asked(kind, want) # <<>>)
    <3>1. Head(want) \in Country /\ <<Head(want)>> \in Seq(Country) /\ <<>> \in Seq(Country)  BY <2>1
    <3> QED  BY <2>1, <3>1 DEF Asked
  <2>3. r \in Record /\ r.at # "fetch" /\ RouteOK(r)
    BY <2>2, IdleType DEF Idle, Record, RouteOK
  <2>4. call' = [call EXCEPT ![x] = r] /\ UNCHANGED <<data, upstream, refreshMu, measuring, steady, now>>
    BY <1>3 DEF Call
  <2>5. calls' \in Nat  BY <1>3, <1>t DEF Call
  <2> HIDE DEF r
  <2> QED  BY <1>t, <2>3, <2>4, <2>5, CallKeeps DEF data
<1>4. ASSUME NEW x \in Caller, Acquire(x) PROVE IInv'
  <2>1. UNCHANGED <<data, upstream, measuring, steady, now, calls>> /\ call[x].at = "wait" /\ refreshMu = None
    BY <1>4 DEF Acquire
  <2>2. CASE Fresh(x)
    <3> DEFINE r == IF call[x].kind = "refresh" THEN Idle ELSE [call[x] EXCEPT !.at = "checks"]
    <3>1. call' = [call EXCEPT ![x] = r] /\ refreshMu' = refreshMu
      BY <1>4, <2>2 DEF Acquire, Continue
    <3>2. r \in Record /\ RouteOK(r) /\ r.at # "fetch"
      BY <1>r, <2>1, <2>2, IdleType DEF Record, RouteOK, Fresh
    <3> HIDE DEF r
    <3> QED  BY <1>t, <2>1, <3>1, <3>2, CallKeeps DEF data
  <2>3. CASE ~Fresh(x)
    <3> DEFINE r == [call[x] EXCEPT !.at = "fetch"]
    <3>1. call' = [call EXCEPT ![x] = r] /\ refreshMu' = x  BY <1>4, <2>3 DEF Acquire
    <3>2. r \in Record /\ RouteOK(r) /\ (r.kind # "refresh" => ~Recent)
      BY <1>r, <2>1, <2>3 DEF Record, RouteOK, Fresh
    <3> HIDE DEF r
    <3> QED  BY <1>t, <2>1, <3>1, <3>2, CallKeeps DEF data
  <2> QED  BY <2>2, <2>3
<1>5. ASSUME NEW x \in Caller, FetchFails(x) PROVE IInv'
  <2> DEFINE r == [call[x] EXCEPT !.at = "failed"]
  <2>1. r \in Record /\ RouteOK(r) /\ r.at # "fetch"
    BY <1>5, <1>r DEF FetchFails, Record, RouteOK
  <2>2. /\ call' = [call EXCEPT ![x] = r] /\ refreshMu' = None /\ lastError' = TRUE
        /\ UNCHANGED <<nodes, fetchedAt, document, upstream, measuring, steady, now, calls>>
        /\ call[x].at = "fetch"
    BY <1>5 DEF FetchFails
  <2>3. refreshMu = x  BY <1>0, <2>2 DEF FetchInv
  <2> HIDE DEF r
  <2> QED  BY <1>t, <2>1, <2>2, <2>3, CallKeeps
<1>6. ASSUME NEW x \in Caller, OldNodes(x) PROVE IInv'
  <2> DEFINE r == IF DOMAIN nodes = {} \/ call[x].kind = "refresh" THEN Idle
                  ELSE [call[x] EXCEPT !.at = "checks"]
  <2>1. call' = [call EXCEPT ![x] = r] /\ UNCHANGED <<data, upstream, refreshMu, measuring, steady, now, calls>>
    BY <1>6 DEF OldNodes, Continue
  <2>2. r \in Record /\ RouteOK(r) /\ r.at # "fetch"
    <3>1. Idle \in Record /\ Idle.at = "idle" /\ Idle.found = {} /\ RouteOK(Idle)
      BY IdleType DEF Idle, RouteOK
    <3> QED  BY <1>6, <1>r, <3>1 DEF OldNodes, Record, RouteOK
  <2> HIDE DEF r
  <2> QED  BY <1>t, <2>1, <2>2, CallKeeps DEF data
<1>7. ASSUME NEW x \in Caller, NEW d \in Documents, Store(x, d) PROVE IInv'
  <2>1. /\ nodes' = Stored(d) /\ document' = d /\ fetchedAt' = now /\ lastError' = FALSE
        /\ refreshMu' = None /\ steady' = {} /\ call[x].at = "fetch" /\ Continue(x)
        /\ UNCHANGED <<upstream, measuring, now, calls>>
    BY <1>7 DEF Store
  <2>2. /\ call' \in [Caller -> Record] /\ \A y \in Caller : y # x => call'[y] = call[y]
        /\ \/ call'[x] = Idle
           \/ call'[x] = [call[x] EXCEPT !.at = "checks"] /\ call[x].kind # "refresh"
    BY <1>0, <2>1, ContinueKeeps
  <2>3. TypeOK'  BY <1>0, <1>t, <2>1, <2>2, StoredType DEF TypeOK, Record
  <2>4. NodesFromDocument'  BY <1>0, <2>1, StoredType DEF NodesFromDocument
  <2>5. call'[x].at \in {"idle", "checks"} /\ RouteOK(call'[x])
    <3>1. CASE call'[x] = Idle  BY <3>1 DEF Idle, RouteOK
    <3>2. CASE call'[x] = [call[x] EXCEPT !.at = "checks"] /\ call[x].kind # "refresh"
      <4>1. /\ call'[x].at = "checks" /\ call'[x].kind = call[x].kind
            /\ call'[x].want = call[x].want /\ call'[x].found = call[x].found
        BY <1>r, <3>2 DEF Record
      <4> QED  BY <1>r, <2>1, <3>2, <4>1 DEF RouteOK
    <3> QED  BY <2>2, <3>1, <3>2
  <2>6. FetchInv'
    <3>1. \A y \in Caller : call'[y].at # "fetch"  BY <1>0, <2>1, <2>2, <2>5 DEF FetchInv
    <3> QED  BY <3>1 DEF FetchInv
  <2>7. RouteInv'  BY <1>r, <2>2, <2>5 DEF RouteInv
  <2> QED  BY <2>3, <2>4, <2>6, <2>7 DEF IInv
<1>8. ASSUME NEW x \in Caller, StartChecks(x) PROVE IInv'
  <2> DEFINE r == IF call[x].kind = "nodes" THEN Idle
                  ELSE [call[x] EXCEPT !.at = "collect", !.measured = TRUE, !.todo = call[x].want]
  <2>1. /\ call' = [call EXCEPT ![x] = r] /\ UNCHANGED <<data, upstream, refreshMu, now, calls>>
        /\ steady' = steady \cup {x} /\ call[x].at = "checks"
    BY <1>8 DEF StartChecks
  <2>2. measuring' \subseteq [node : Node, by : Caller]  BY <1>0, <1>8 DEF StartChecks, TypeOK
  <2>3. r \in Record /\ r.at # "fetch"  BY <1>r, IdleType DEF Idle, Record
  <2>4. RouteOK(r)
    <3>1. CASE call[x].kind = "nodes"  BY <3>1 DEF Idle, RouteOK
    <3>2. CASE call[x].kind # "nodes"
      <4>1. /\ r.at = "collect" /\ r.kind = call[x].kind
            /\ r.want = call[x].want /\ r.found = call[x].found
        BY <1>r, <3>2 DEF Record
      <4> QED  BY <1>r, <2>1, <3>2, <4>1 DEF RouteOK, Kind
    <3> QED  BY <3>1, <3>2
  <2> HIDE DEF r
  <2> QED  BY <1>t, <2>1, <2>2, <2>3, <2>4, CallKeeps DEF data
<1>9. ASSUME NEW x \in Caller, Collect(x) PROVE IInv'
  <2> DEFINE S == Usable(NodesForCountry(Head(call[x].todo)), call[x].measured)
             t == IF call[x].kind = "failover" /\ S # {} THEN <<>> ELSE Tail(call[x].todo)
             r == [[call[x] EXCEPT !.found = @ \cup S] EXCEPT !.todo = t]
  <2>1. call[x].at = "collect" /\ call[x].todo # <<>> /\ call[x] \in Record /\ call[x].todo \in Seq(Country)
    BY <1>9, <1>r DEF Collect, Record
  <2>2. S \subseteq Candidate
    <3>1. Head(call[x].todo) \in Country  BY <2>1
    <3> QED  BY <1>0, <3>1, CandidatesType DEF Usable
  <2>3. t \in Seq(Country)  BY <2>1
  <2>4. call' = [call EXCEPT ![x] = r] /\ UNCHANGED <<data, upstream, refreshMu, measuring, steady, now, calls>>
    BY <1>9, <1>r DEF Collect, Record
  <2> HIDE DEF S, t
  <2>5. r \in Record /\ RouteOK(r) /\ r.at # "fetch"
    BY <1>r, <2>1, <2>2, <2>3 DEF Record, RouteOK
  <2> HIDE DEF r
  <2> QED  BY <1>t, <2>4, <2>5, CallKeeps DEF data
<1>10. ASSUME NEW x \in Caller, Choose(x) PROVE IInv'
  <2> DEFINE r == IF call[x].found = {} /\ call[x].measured
                  THEN [call[x] EXCEPT !.measured = FALSE, !.todo = call[x].want] ELSE Idle
  <2>1. call' = [call EXCEPT ![x] = r] /\ UNCHANGED <<data, upstream, refreshMu, measuring, steady, now, calls>>
    BY <1>10 DEF Choose
  <2>2. r \in Record /\ RouteOK(r) /\ r.at # "fetch"
    BY <1>10, <1>r, IdleType DEF Choose, Idle, Record, RouteOK
  <2> HIDE DEF r
  <2> QED  BY <1>t, <2>1, <2>2, CallKeeps DEF data
<1>11. ASSUME NEW x \in Caller, Cancelled(x) PROVE IInv'
  <2>1. /\ call' = [call EXCEPT ![x] = Idle]
        /\ UNCHANGED <<data, upstream, refreshMu, measuring, steady, now, calls>>
    BY <1>11 DEF Cancelled
  <2>2. RouteOK(Idle) /\ Idle.at # "fetch"  BY DEF Idle, RouteOK
  <2> QED  BY <1>t, <2>1, <2>2, IdleType, CallKeeps DEF data
<1>12. ASSUME NEW t \in measuring, NEW latency \in Latencies, Measured(t, latency) PROVE IInv'
  <2>1. t.node \in Node  BY <1>t
  <2>2. /\ nodes' = WrittenBack(t.node, latency) /\ measuring' \subseteq measuring /\ steady' = {}
        /\ UNCHANGED <<fetchedAt, lastError, document, upstream, refreshMu, call, now, calls>>
    BY <1>12 DEF Measured
  <2>3. /\ DOMAIN nodes' = DOMAIN nodes
        /\ \A k \in DOMAIN nodes : k # t.node => nodes'[k] = nodes[k]
        /\ t.node \in DOMAIN nodes =>
             /\ nodes'[t.node] \in Entry /\ nodes'[t.node].country = nodes[t.node].country
             /\ nodes'[t.node].weight = nodes[t.node].weight
             /\ nodes'[t.node].latency = latency /\ nodes'[t.node].checked = now
    BY <1>0, <2>1, <2>2, WrittenBackKeeps
  <2>4. latency # Unmeasured /\ now # None  BY <1>t, <1>n, CatalogAssumption DEF Unmeasured, Failed
  <2>5. TypeOK'  BY <1>0, <2>2, <2>3 DEF TypeOK
  <2>6. NodesFromDocument'  BY <1>0, <2>2, <2>3, <2>4 DEF NodesFromDocument
  <2>7. FetchInv' /\ RouteInv'  BY <1>0, <2>2, <2>3 DEF FetchInv, RouteInv, Recent
  <2> QED  BY <2>5, <2>6, <2>7 DEF IInv
<1>13. CASE UNCHANGED vars
  BY <1>0, <1>13 DEF vars, data, IInv, TypeOK, NodesFromDocument, FetchInv, RouteInv, Recent
<1> QED  BY <1>1, <1>2, <1>3, <1>4, <1>5, <1>6, <1>7, <1>8, <1>9, <1>10, <1>11, <1>12, <1>13 DEF Next, Request

(***************************************************************************)
(* It holds of the empty catalog.                                          *)
(***************************************************************************)
LEMMA CatalogInit == Init => IInv
<1> SUFFICES ASSUME Init PROVE IInv  OBVIOUS
<1>1. DOMAIN nodes = {} /\ DOMAIN document = {}  BY DEF Init
<1>2. \A x \in Caller : call[x] = Idle  BY DEF Init
<1>3. Idle.at = "idle" /\ Idle.found = {} /\ RouteOK(Idle)  BY DEF Idle, RouteOK
<1>4. TypeOK  BY <1>1, <1>2, IdleType DEF Init, TypeOK, Record
<1>5. NodesFromDocument  BY <1>1 DEF NodesFromDocument
<1> QED  BY <1>2, <1>3, <1>4, <1>5 DEF IInv, FetchInv, RouteInv

(***************************************************************************)
(* The inductive invariant always holds.                                   *)
(***************************************************************************)
LEMMA CatalogAlways == Spec => []IInv
  BY CatalogInit, CatalogStep, PTL DEF Spec

(***************************************************************************)
(* NodesFromDocument for every number of requests, nodes and measurements: *)
(* the catalog is the document stored last, however late measurements end. *)
(***************************************************************************)
THEOREM CatalogFromDocument == Spec => []NodesFromDocument
<1>1. IInv => NodesFromDocument  BY DEF IInv
<1> QED  BY <1>1, CatalogAlways, PTL

(***************************************************************************)
(* A step changes at most one request, the one that takes it.              *)
(***************************************************************************)
LEMMA OneMoves ==
    ASSUME TypeOK, [Next]_vars
    PROVE  \/ call' = call
           \/ \E y \in Caller :
                /\ Request(y) \/ Cancelled(y) \/ (\E kind \in Kind, want \in Wanted : Call(y, kind, want))
                /\ \A x \in Caller : x # y => call'[x] = call[x]
<1>1. CASE Tick \/ UpdateUpstream \/ (\E t \in measuring, latency \in Latencies : Measured(t, latency))
           \/ UNCHANGED vars
  BY <1>1 DEF Tick, UpdateUpstream, Measured, vars
<1>2. ASSUME NEW y \in Caller, NEW kind \in Kind, NEW want \in Wanted, Call(y, kind, want)
      PROVE  \A x \in Caller : x # y => call'[x] = call[x]
  BY <1>2, RecordType DEF Call
<1>3. ASSUME NEW y \in Caller, Cancelled(y) PROVE \A x \in Caller : x # y => call'[x] = call[x]
  BY <1>3, RecordType DEF Cancelled
<1>4. ASSUME NEW y \in Caller, Request(y) PROVE \A x \in Caller : x # y => call'[x] = call[x]
  BY <1>4, RecordType
     DEF Request, Acquire, FetchFails, OldNodes, Store, StartChecks, Collect, Choose, Continue
<1> QED  BY <1>1, <1>2, <1>3, <1>4 DEF Next

(***************************************************************************)
(* RefreshedOnce for every number of requests: nobody but who was told to  *)
(* replaces a document that is still fresh.                                *)
(***************************************************************************)
THEOREM DownloadsOnce == Spec => RefreshedOnce
<1> DEFINE Kept1 == \A x \in Caller : call[x].at = "fetch" /\ call'[x].at = "checks" => ~Recent
<1>1. IInv /\ [Next]_vars => [Kept1]_vars
  <2> SUFFICES ASSUME IInv, Next, NEW x \in Caller, call[x].at = "fetch", call'[x].at = "checks", Recent
               PROVE  FALSE
    OBVIOUS
  <2>1. TypeOK /\ call[x].kind = "refresh"  BY DEF IInv, FetchInv
  <2>2. call[x] \in Record /\ x \in DOMAIN call  BY <2>1, RecordType
  <2>3. call' # call  OBVIOUS
  <2>4. Request(x) \/ Cancelled(x) \/ (\E kind \in Kind, want \in Wanted : Call(x, kind, want))
    BY <2>1, <2>3, OneMoves
  <2>5. Request(x) /\ ~Acquire(x) /\ ~OldNodes(x) /\ ~StartChecks(x) /\ ~Collect(x) /\ ~Choose(x)
    <3>1. call[x] # Idle  BY DEF Idle
    <3>2. call[x].at \notin {"wait", "failed", "checks", "collect"}  OBVIOUS
    <3>3. ~Cancelled(x) /\ ~Acquire(x) /\ ~OldNodes(x) /\ ~StartChecks(x) /\ ~Collect(x) /\ ~Choose(x)
      BY <3>2 DEF Cancelled, Acquire, OldNodes, StartChecks, Collect, Choose
    <3>4. \A kind \in Kind, want \in Wanted : ~Call(x, kind, want)  BY <3>1 DEF Call
    <3> QED  BY <2>4, <3>3, <3>4
  <2>6. CASE FetchFails(x)
    <3>1. call'[x] = [call[x] EXCEPT !.at = "failed"]  BY <2>2, <2>6 DEF FetchFails
    <3> QED  BY <2>2, <3>1 DEF Record
  <2>7. ASSUME NEW d \in Documents, Store(x, d) PROVE FALSE
    <3>1. call'[x] = Idle  BY <2>1, <2>7, ContinueKeeps DEF Store
    <3> QED  BY <3>1 DEF Idle
  <2> QED  BY <2>5, <2>6, <2>7 DEF Request
<1> QED  BY <1>1, CatalogAlways, PTL DEF Spec, RefreshedOnce

----------------------------------------------------------------------------
(* The choice of a node. *)

(***************************************************************************)
(* lessExitNode is what sort.Slice requires, a strict weak order: it is    *)
(* irreflexive and transitive, and so is being equally good.  With another *)
(* comparison sorting could put any node first.                            *)
(***************************************************************************)
THEOREM LessIsStrictWeakOrder ==
    ASSUME NEW a \in Candidate, NEW b \in Candidate, NEW c \in Candidate
    PROVE  /\ ~lessExitNode(a, a)
           /\ lessExitNode(a, b) /\ lessExitNode(b, c) => lessExitNode(a, c)
           /\ ~lessExitNode(a, c) /\ ~lessExitNode(c, a)
                => (lessExitNode(a, b) <=> lessExitNode(c, b)) /\ (lessExitNode(b, a) <=> lessExitNode(b, c))
<1>1. \A d \in {a, b, c} : d.latency \in Int /\ d.weight \in Int  BY DEF Candidate
<1> QED  BY <1>1 DEF lessExitNode, latencyRank, Unmeasured

\* The elements sorting may put first are those the policy calls best.
LEMMA FirstIsLowest ==
    ASSUME NEW S \in SUBSET Candidate
    PROVE  First(S) = Lowest(S)
<1> DEFINE measured == {a \in S : a.latency >= 0}
           unmeasured == {a \in S : a.latency = Unmeasured}
           nearest == {a \in measured : \A b \in measured : a.latency <= b.latency}
           Heaviest(T) == {a \in T : \A b \in T : a.weight >= b.weight}
<1>1. \A a \in S : a.latency \in Int /\ a.weight \in Int  BY DEF Candidate
<1>2. CASE measured # {}
  <2>1. Lowest(S) = Heaviest(nearest)  BY <1>2 DEF Lowest
  <2>2. ASSUME NEW a \in First(S) PROVE a \in Heaviest(nearest)
    <3>1. a \in S /\ \A b \in S : ~lessExitNode(b, a)  BY <2>2 DEF First
    <3>2. a.latency >= 0  BY <1>1, <1>2, <3>1 DEF lessExitNode, latencyRank, Unmeasured
    <3>3. \A b \in measured : a.latency <= b.latency  BY <1>1, <3>1, <3>2 DEF lessExitNode, latencyRank
    <3>4. \A b \in nearest : a.weight >= b.weight  BY <1>1, <3>1, <3>2, <3>3 DEF lessExitNode, latencyRank
    <3> QED  BY <3>1, <3>2, <3>3, <3>4
  <2>3. ASSUME NEW a \in Heaviest(nearest) PROVE a \in First(S)
    <3>1. a \in S /\ a.latency >= 0 /\ \A b \in measured : a.latency <= b.latency  BY <2>3
    <3>2. \A b \in nearest : a.weight >= b.weight  BY <2>3
    <3>3. ASSUME NEW b \in S, lessExitNode(b, a) PROVE FALSE
      <4>1. b.latency >= 0  BY <1>1, <3>1, <3>3 DEF lessExitNode, latencyRank, Unmeasured
      <4>2. a.latency = b.latency  BY <1>1, <3>1, <3>3, <4>1 DEF lessExitNode, latencyRank
      <4>3. b \in nearest  BY <3>1, <4>1, <4>2
      <4> QED  BY <1>1, <3>1, <3>2, <3>3, <4>1, <4>2, <4>3 DEF lessExitNode, latencyRank
    <3> QED  BY <3>1, <3>3 DEF First
  <2> QED  BY <2>1, <2>2, <2>3
<1>3. CASE measured = {} /\ unmeasured # {}
  <2>1. Lowest(S) = Heaviest(unmeasured)  BY <1>3 DEF Lowest
  <2>2. \A a \in S : ~(a.latency >= 0)  BY <1>3
  <2> QED  BY <1>1, <1>3, <2>1, <2>2 DEF First, lessExitNode, latencyRank, Unmeasured
<1>4. CASE measured = {} /\ unmeasured = {}
  <2>1. Lowest(S) = Heaviest(S)  BY <1>4 DEF Lowest
  <2>2. \A a \in S : ~(a.latency >= 0) /\ a.latency # Unmeasured  BY <1>4
  <2> QED  BY <1>1, <2>1, <2>2 DEF First, lessExitNode, latencyRank
<1> QED  BY <1>2, <1>3, <1>4

\* The candidates of the j-th country of a route, in the pass r is in.
Pool(r, j) == Usable(NodesForCountry(r.want[j]), r.measured)

\* What has been found in the first k countries of a route: with lowest_latency
\* everything, with failover nothing, or what the k-th country has.
Passed(r, k) ==
    \/ /\ Len(r.todo) = Len(r.want) - k
       /\ \A i \in 1..Len(r.todo) : r.todo[i] = r.want[k + i]
       /\ r.found = UNION {Pool(r, j) : j \in 1..k}
       /\ r.kind = "failover" => r.found = {}
    \/ /\ r.kind = "failover" /\ r.todo = <<>> /\ k >= 1
       /\ r.found = Pool(r, k) /\ r.found # {}
       /\ \A j \in 1..(k - 1) : Pool(r, j) = {}

\* The second pass means that no country has a node that was measured.
Unmeasurable(r) == \A j \in 1..Len(r.want) : Usable(NodesForCountry(r.want[j]), TRUE) = {}

Choosing(r) ==
    /\ \E k \in 0..Len(r.want) : Passed(r, k)
    /\ ~r.measured => Unmeasurable(r)

\* Requests that have seen no change know the candidates of the countries behind them.
ChoosingInv == \A x \in steady : call[x].at = "collect" => Choosing(call[x])

\* What SelectNode has found in the end is what the policy means.
LEMMA ChosenIsBest ==
    ASSUME TypeOK, NEW r \in Record, r.kind \in {"lowest_latency", "failover"}, Choosing(r),
           r.todo = <<>>, r.found # {} \/ ~r.measured
    PROVE  First(r.found) = Reference(r.want, r.kind)
<1> DEFINE N(i) == NodesForCountry(r.want[i])
           All == UNION {N(i) : i \in DOMAIN r.want}
           pool == IF \E a \in All : a.latency >= 0 THEN {a \in All : a.latency >= 0} ELSE All
           In(i) == {a \in pool : a.country = r.want[i]}
           first == {i \in DOMAIN r.want : In(i) # {} /\ \A j \in 1..(i - 1) : In(j) = {}}
<1>1. /\ r.want \in Seq(Country) /\ DOMAIN r.want = 1..Len(r.want) /\ Len(r.want) \in Nat
      /\ r.measured \in BOOLEAN /\ r.found \subseteq Candidate
  BY DEF Record
<1>2. \A c, a : a \in NodesForCountry(c) => a.country = c  BY DEF NodesForCountry
<1>3. PICK k \in 0..Len(r.want) : Passed(r, k)  BY DEF Choosing
<1>4. \A j \in 1..Len(r.want) : Pool(r, j) = {a \in N(j) : r.measured => a.latency >= 0}
  BY DEF Pool, Usable
<1>5. \A a \in r.found : \E j \in 1..Len(r.want) : a \in Pool(r, j)
  BY <1>1, <1>3 DEF Passed
<1>6. pool = {a \in All : r.measured => a.latency >= 0}
  <2>1. CASE r.measured
    <3>1. \E a \in All : a.latency >= 0  BY <1>1, <1>4, <1>5, <2>1
    <3> QED  BY <2>1, <3>1
  <2>2. CASE ~r.measured
    <3>1. \A a \in All : ~(a.latency >= 0)  BY <1>1, <2>2 DEF Choosing, Unmeasurable, Usable
    <3> QED  BY <2>2, <3>1
  <2> QED  BY <2>1, <2>2
<1> HIDE DEF pool
<1>7. \A j \in 1..Len(r.want) : In(j) = Pool(r, j)  BY <1>1, <1>2, <1>4, <1>6
<1>8. pool = UNION {Pool(r, j) : j \in 1..Len(r.want)}  BY <1>1, <1>4, <1>6
<1>9. Reference(r.want, r.kind) = IF r.kind = "failover" THEN UNION {Lowest(In(i)) : i \in first} ELSE Lowest(pool)
  BY DEF Reference, pool
<1>10. First(r.found) = Lowest(r.found)  BY <1>1, FirstIsLowest
<1>11. CASE r.kind = "lowest_latency"
  <2>1. Len(r.want) - k = 0 /\ r.found = UNION {Pool(r, j) : j \in 1..k}  BY <1>3, <1>11 DEF Passed
  <2>2. k = Len(r.want)  BY <1>1, <2>1
  <2> QED  BY <1>8, <1>9, <1>10, <1>11, <2>1, <2>2
<1>12. CASE r.kind = "failover" /\ r.found = {}
  <2>1. Len(r.want) - k = 0 /\ UNION {Pool(r, j) : j \in 1..k} = {}  BY <1>3, <1>12 DEF Passed
  <2>2. k = Len(r.want)  BY <1>1, <2>1
  <2>3. first = {}  BY <1>1, <1>7, <2>1, <2>2
  <2>4. First(r.found) = {}  BY <1>12 DEF First
  <2> QED  BY <1>9, <1>12, <2>3, <2>4
<1>13. CASE r.kind = "failover" /\ r.found # {}
  <2>1. k >= 1 /\ r.found = Pool(r, k) /\ \A j \in 1..(k - 1) : Pool(r, j) = {}
    BY <1>3, <1>13 DEF Passed
  <2>2. first = {k}
    <3>1. k \in DOMAIN r.want /\ \A j \in 1..(k - 1) : j \in DOMAIN r.want  BY <1>1, <2>1
    <3>2. k \in first  BY <1>1, <1>7, <1>13, <2>1, <3>1
    <3>3. ASSUME NEW i \in first PROVE i = k
      <4>1. i \in 1..Len(r.want) /\ In(i) # {} /\ \A j \in 1..(i - 1) : In(j) = {}  BY <1>1
      <4>2. ~(i < k)  BY <1>1, <1>7, <2>1, <4>1
      <4>3. ~(k < i)  BY <1>1, <1>7, <1>13, <2>1, <4>1
      <4> QED  BY <4>1, <4>2, <4>3
    <3> QED  BY <3>2, <3>3
  <2>3. In(k) = r.found  BY <1>1, <1>7, <2>1
  <2> HIDE DEF In, first
  <2> QED  BY <1>9, <1>10, <1>13, <2>2, <2>3
<1> QED  BY <1>11, <1>12, <1>13

\* A request that begins with its first country has passed none.
LEMMA NonePassed ==
    ASSUME NEW r \in Record, r.todo = r.want, r.found = {} PROVE Passed(r, 0)
<1>1. /\ r.want \in Seq(Country) /\ Len(r.want) \in Nat
      /\ Len(r.want) = Len(r.want) - 0 /\ \A i \in 1..Len(r.want) : 0 + i = i
  BY DEF Record
<1>2. UNION {Pool(r, j) : j \in 1..0} = {}  OBVIOUS
<1> QED  BY <1>1, <1>2 DEF Passed

\* The tail of a sequence is one shorter.
LEMMA LenTail == ASSUME NEW s \in Seq(Country), s # <<>> PROVE Len(Tail(s)) = Len(s) - 1
  OBVIOUS

\* Collecting passes one country more.
LEMMA CollectPasses ==
    ASSUME NEW r \in Record, NEW q \in Record, Choosing(r), r.todo # <<>>,
           q.kind = r.kind, q.want = r.want, q.measured = r.measured,
           LET S == Usable(NodesForCountry(Head(r.todo)), r.measured)
           IN  /\ q.found = r.found \cup S
               /\ q.todo = IF r.kind = "failover" /\ S # {} THEN <<>> ELSE Tail(r.todo)
    PROVE  Choosing(q)
<1>1. /\ r.want \in Seq(Country) /\ r.todo \in Seq(Country) /\ Len(r.want) \in Nat /\ Len(r.todo) \in Nat
  BY DEF Record
<1>2. PICK k \in 0..Len(r.want) : Passed(r, k)  BY DEF Choosing
<1>3. /\ Len(r.todo) = Len(r.want) - k
      /\ \A i \in 1..Len(r.todo) : r.todo[i] = r.want[k + i]
      /\ r.found = UNION {Pool(r, j) : j \in 1..k}
      /\ r.kind = "failover" => r.found = {}
  BY <1>2 DEF Passed
<1>4. Len(r.todo) >= 1  BY <1>1
<1>5. k + 1 \in 1..Len(r.want) /\ Head(r.todo) = r.want[k + 1]  BY <1>1, <1>3, <1>4
<1>6. \A j : Pool(q, j) = Pool(r, j)  BY DEF Pool
<1>7. q.found = r.found \cup Pool(r, k + 1)  BY <1>5 DEF Pool
<1>8. Passed(q, k + 1)
  <2>1. CASE r.kind = "failover" /\ Pool(r, k + 1) # {}
    <3>1. q.todo = <<>> /\ q.found = Pool(q, k + 1) /\ q.found # {}
      BY <1>3, <1>5, <1>6, <1>7, <2>1 DEF Pool
    <3>2. (k + 1) - 1 = k /\ k + 1 >= 1  BY <1>1
    <3>3. \A j \in 1..k : Pool(q, j) = {}  BY <1>3, <1>6, <2>1
    <3> QED  BY <2>1, <3>1, <3>2, <3>3 DEF Passed
  <2>2. CASE ~(r.kind = "failover" /\ Pool(r, k + 1) # {})
    <3>1. q.todo = Tail(r.todo)  BY <1>5, <2>2 DEF Pool
    <3>2. Len(q.todo) = Len(q.want) - (k + 1)
      <4>1. Len(q.todo) = Len(r.todo) - 1  BY <1>1, <3>1, LenTail
      <4> QED  BY <1>1, <1>3, <4>1
    <3>3. ASSUME NEW i \in 1..Len(q.todo) PROVE q.todo[i] = q.want[(k + 1) + i]
      <4>1. q.todo[i] = r.todo[i + 1] /\ i + 1 \in 1..Len(r.todo)  BY <1>1, <1>3, <1>4, <3>1, <3>2
      <4>2. r.todo[i + 1] = r.want[k + (i + 1)] /\ k + (i + 1) = (k + 1) + i  BY <1>1, <1>3, <3>2, <4>1
      <4> QED  BY <4>1, <4>2
    <3>4. q.found = UNION {Pool(q, j) : j \in 1..(k + 1)}
      <4>1. 1..(k + 1) = (1..k) \cup {k + 1}  BY <1>1
      <4> DEFINE P == UNION {Pool(r, j) : j \in 1..k}
      <4>2. \A a : a \in UNION {Pool(q, j) : j \in 1..(k + 1)} <=> \E j \in 1..(k + 1) : a \in Pool(r, j)
        BY <1>6
      <4>3. \A a : a \in P <=> \E j \in 1..k : a \in Pool(r, j)  OBVIOUS
      <4>4. q.found = P \cup Pool(r, k + 1)  BY <1>3, <1>7
      <4> HIDE DEF P
      <4> QED  BY <4>1, <4>2, <4>3, <4>4
    <3>5. q.kind = "failover" => q.found = {}  BY <1>3, <1>7, <2>2
    <3> QED  BY <3>2, <3>3, <3>4, <3>5 DEF Passed
  <2> QED  BY <2>1, <2>2
<1>9. ~q.measured => Unmeasurable(q)  BY DEF Choosing, Unmeasurable
<1>10. k + 1 \in 0..Len(q.want)  BY <1>1, <1>5
<1> QED  BY <1>8, <1>9, <1>10 DEF Choosing

\* The second pass begins when the first has found nothing in any country.
LEMMA SecondPass ==
    ASSUME NEW r \in Record, NEW q \in Record, Choosing(r), r.todo = <<>>, r.found = {}, r.measured,
           q.want = r.want, q.todo = r.want, q.found = {}
    PROVE  Choosing(q)
<1>1. r.want \in Seq(Country) /\ Len(r.want) \in Nat  BY DEF Record
<1>2. PICK k \in 0..Len(r.want) : Passed(r, k)  BY DEF Choosing
<1>3. Len(r.want) - k = 0 /\ UNION {Pool(r, j) : j \in 1..k} = {}  BY <1>2 DEF Passed
<1>4. k = Len(r.want)  BY <1>1, <1>3
<1>5. \A j \in 1..Len(r.want) : Pool(r, j) = {}  BY <1>3, <1>4
<1>6. Unmeasurable(q)  BY <1>5 DEF Unmeasurable, Pool
<1>7. 0 \in 0..Len(q.want)  BY <1>1
<1> QED  BY <1>6, <1>7, NonePassed DEF Choosing

(***************************************************************************)
(* As long as the catalog does not change, every step of a request keeps   *)
(* what it knows.                                                          *)
(***************************************************************************)
LEMMA ChoosingStep == IInv /\ ChoosingInv /\ [Next]_vars => ChoosingInv'
<1> SUFFICES ASSUME IInv, ChoosingInv, [Next]_vars, NEW x \in steady', call'[x].at = "collect"
             PROVE  Choosing(call[x])'
  BY DEF ChoosingInv
<1>1. TypeOK /\ RouteInv /\ x \in Caller
  <2>1. IInv'  BY CatalogStep
  <2> QED  BY <2>1 DEF IInv, TypeOK
<1>2. call[x] \in Record /\ RouteOK(call[x]) /\ call'[x] \in Record
  <2>1. IInv'  BY CatalogStep
  <2> QED  BY <1>1, <2>1, RecordType DEF IInv, TypeOK, Record, RouteInv
<1>3. nodes' = nodes /\ (x \in steady \/ StartChecks(x))
  <2>1. CASE Tick \/ UpdateUpstream \/ UNCHANGED vars  BY <2>1 DEF Tick, UpdateUpstream, data, vars
  <2>2. ASSUME NEW y \in Caller, Request(y) PROVE nodes' = nodes /\ (x \in steady \/ StartChecks(x))
    <3>1. CASE Acquire(y) \/ FetchFails(y) \/ OldNodes(y) \/ Collect(y) \/ Choose(y)
      BY <3>1 DEF Acquire, FetchFails, OldNodes, Collect, Choose, data
    <3>2. CASE StartChecks(y)  BY <3>2 DEF StartChecks, data
    <3>3. CASE \E d \in Documents : Store(y, d)  BY <3>3 DEF Store
    <3> QED  BY <2>2, <3>1, <3>2, <3>3 DEF Request
  <2>3. ASSUME NEW y \in Caller, Cancelled(y) \/ (\E kind \in Kind, want \in Wanted : Call(y, kind, want))
        PROVE  nodes' = nodes /\ x \in steady
    BY <2>3 DEF Cancelled, Call, data
  <2>4. CASE \E t \in measuring, latency \in Latencies : Measured(t, latency)  BY <2>4 DEF Measured
  <2> QED  BY <2>1, <2>2, <2>3, <2>4 DEF Next
<1>4. (\A r : Choosing(r)' <=> Choosing(r))
  BY <1>3 DEF Choosing, Passed, Unmeasurable, Pool, Usable, NodesForCountry
<1>5. CASE call'[x] = call[x]
  <2>1. x \in steady
    <3>1. CASE StartChecks(x)  BY <1>5, <3>1 DEF StartChecks
    <3> QED  BY <1>3, <3>1
  <2> QED  BY <1>4, <1>5, <2>1 DEF ChoosingInv
<1>6. CASE call'[x] # call[x]
  <2>1. Request(x) \/ Cancelled(x) \/ (\E kind \in Kind, want \in Wanted : Call(x, kind, want))
    BY <1>1, <1>6, OneMoves
  <2>2. CASE StartChecks(x)
    <3>1. /\ call'[x] = IF call[x].kind = "nodes" THEN Idle
                        ELSE [call[x] EXCEPT !.at = "collect", !.measured = TRUE, !.todo = call[x].want]
          /\ call[x].at = "checks"
      BY <1>1, <2>2, RecordType DEF StartChecks
    <3>2. call[x].kind # "nodes"  BY <3>1 DEF Idle
    <3>3. /\ call'[x].measured /\ call'[x].todo = call'[x].want /\ call'[x].found = {}
      BY <1>2, <3>1, <3>2 DEF Record, RouteOK
    <3>4. 0 \in 0..Len(call'[x].want)  BY <1>2 DEF Record
    <3>5. Choosing(call'[x])  BY <1>2, <3>3, <3>4, NonePassed DEF Choosing
    <3> QED  BY <1>4, <3>5
  <2>3. CASE ~StartChecks(x)
    <3>0. x \in steady  BY <1>3, <2>3
    <3>1. Collect(x) \/ Choose(x)
      <4>1. Idle.at # "collect" /\ \A at : [call[x] EXCEPT !.at = at].at = at
        BY <1>2 DEF Idle, Record
      <4>2. ~Continue(x)  BY <1>1, <4>1, ContinueKeeps
      <4>c. \A r : call' = [call EXCEPT ![x] = r] => r.at = "collect"  BY <1>1, RecordType
      <4>a. ~Acquire(x)  BY <4>1, <4>2, <4>c DEF Acquire
      <4>o. ~OldNodes(x)  BY <4>1, <4>2, <4>c DEF OldNodes
      <4>f. ~FetchFails(x) /\ ~Cancelled(x)  BY <4>1, <4>c DEF FetchFails, Cancelled
      <4>3. \A d \in Documents : ~Store(x, d)  BY <1>1, <4>1, ContinueKeeps DEF Store
      <4>4. \A kind \in Kind, want \in Wanted : ~Call(x, kind, want)
        BY <1>1, RecordType DEF Call, Idle
      <4> QED  BY <2>1, <2>3, <4>a, <4>o, <4>f, <4>3, <4>4 DEF Request
    <3>2. Choosing(call[x])  BY <3>0, <3>1 DEF ChoosingInv, Collect, Choose
    <3>3. CASE Collect(x)
      <4> DEFINE S == Usable(NodesForCountry(Head(call[x].todo)), call[x].measured)
                 t == IF call[x].kind = "failover" /\ S # {} THEN <<>> ELSE Tail(call[x].todo)
                 r == [[call[x] EXCEPT !.found = @ \cup S] EXCEPT !.todo = t]
      <4>1. call' = [call EXCEPT ![x] = r] /\ call[x].todo # <<>>
        BY <1>2, <3>3 DEF Collect, Record
      <4>2. call'[x] = r
        <5> HIDE DEF r
        <5> QED  BY <1>1, <4>1, OneCall
      <4> HIDE DEF S, t
      <4>3. /\ call'[x].kind = call[x].kind /\ call'[x].want = call[x].want
            /\ call'[x].measured = call[x].measured
            /\ call'[x].found = call[x].found \cup S /\ call'[x].todo = t
        BY <1>2, <4>2 DEF Record
      <4>4. Choosing(call'[x])  BY <1>2, <3>2, <4>1, <4>3, CollectPasses DEF S, t
      <4> QED  BY <1>4, <4>4
    <3>4. CASE Choose(x)
      <4>1. /\ call'[x] = IF call[x].found = {} /\ call[x].measured
                          THEN [call[x] EXCEPT !.measured = FALSE, !.todo = call[x].want] ELSE Idle
            /\ call[x].todo = <<>>
        BY <1>1, <3>4, RecordType DEF Choose
      <4>2. call[x].found = {} /\ call[x].measured  BY <4>1 DEF Idle
      <4>3. /\ call'[x].want = call[x].want /\ call'[x].todo = call[x].want
            /\ call'[x].found = {}
        BY <1>2, <4>1, <4>2 DEF Record
      <4>4. Choosing(call'[x])  BY <1>2, <3>2, <4>1, <4>2, <4>3, SecondPass
      <4> QED  BY <1>4, <4>4
    <3> QED  BY <3>1, <3>3, <3>4
  <2> QED  BY <2>2, <2>3
<1> QED  BY <1>5, <1>6

(***************************************************************************)
(* ChoiceBest for every number of countries, nodes and requests: a route   *)
(* gets the node its policy means, whatever it had to wait for, if the     *)
(* catalog did not change while it was chosen.                             *)
(***************************************************************************)
THEOREM RouteGetsBest == Spec => ChoiceBest
<1> DEFINE Best == \A x \in steady :
             call[x].at = "collect" /\ call[x].todo = <<>> /\ call'[x] = Idle
                => First(call[x].found) = Reference(call[x].want, call[x].kind)
<1>1. Init => ChoosingInv  BY DEF Init, ChoosingInv
<1>2. Spec => [](IInv /\ ChoosingInv)
  BY <1>1, CatalogAlways, CatalogInit, CatalogStep, ChoosingStep, PTL DEF Spec
<1>3. IInv /\ ChoosingInv /\ [Next]_vars => [Best]_vars
  <2> SUFFICES ASSUME IInv, ChoosingInv, Next, NEW x \in steady,
                      call[x].at = "collect", call[x].todo = <<>>, call'[x] = Idle
               PROVE  First(call[x].found) = Reference(call[x].want, call[x].kind)
    OBVIOUS
  <2>1. TypeOK /\ x \in Caller /\ RouteOK(call[x]) /\ Choosing(call[x])
    BY DEF IInv, TypeOK, RouteInv, ChoosingInv
  <2>2. call[x] \in Record  BY <2>1, RecordType
  <2>3. Choose(x)
    <3>1. call' # call /\ call[x] # Idle  BY DEF Idle
    <3>2. Request(x) \/ Cancelled(x) \/ (\E kind \in Kind, want \in Wanted : Call(x, kind, want))
      BY <2>1, <3>1, OneMoves
    <3>3. call[x].want # <<>>  BY <2>1 DEF RouteOK
    <3>4. ~Acquire(x) /\ ~OldNodes(x) /\ ~FetchFails(x) /\ ~StartChecks(x) /\ ~Collect(x) /\ ~Cancelled(x)
      BY <3>3 DEF Acquire, OldNodes, FetchFails, StartChecks, Collect, Cancelled
    <3>5. \A d \in Documents : ~Store(x, d)  BY DEF Store
    <3>6. \A kind \in Kind, want \in Wanted : ~Call(x, kind, want)  BY <3>1 DEF Call
    <3> QED  BY <3>2, <3>4, <3>5, <3>6 DEF Request
  <2>4. call[x].found # {} \/ ~call[x].measured
    <3> SUFFICES ASSUME call[x].found = {}, call[x].measured PROVE FALSE  OBVIOUS
    <3>1. call'[x] = [call[x] EXCEPT !.measured = FALSE, !.todo = call[x].want]
      BY <2>1, <2>3, RecordType DEF Choose
    <3>2. call'[x].at = "collect"  BY <2>2, <3>1 DEF Record
    <3> QED  BY <3>2 DEF Idle
  <2> QED  BY <2>1, <2>2, <2>4, ChosenIsBest DEF RouteOK
<1> QED  BY <1>2, <1>3, PTL DEF Spec, ChoiceBest
=============================================================================
