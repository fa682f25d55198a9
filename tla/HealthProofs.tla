---------------------------- MODULE HealthProofs ----------------------------
(***************************************************************************)
(* Proofs about the route health monitor, for every value of the           *)
(* constants.  What a round decided in applyProbeResult has to stay true   *)
(* while the catalog is refreshed and the node is chosen, with clients,    *)
(* the manager and the clock going on: nobody but the monitor writes the   *)
(* records and globalFailure, and the time it read does not move.          *)
(***************************************************************************)
EXTENDS Health, TLAPS

\* What the round found is what it is judged by until it ends, and a switch being
\* prepared was decided with no global failure.
Judged ==
    /\ at # "probe" => probing = {}
    /\ at \in {"apply", "refresh", "switch"} => globalFailure = AllFailed
    /\ at \in {"refresh", "switch"} => ~globalFailure /\ current \in Probe
    /\ at = "switch" => choice \in Node

\* The switch of c is recorded and not counted yet.
Recorded(c) == at = "switch" /\ current.c = c

\* A switch is decided a cooldown after the last one was; the times decided at
\* pay for all switches but the first.
CooledDown ==
    /\ at = "refresh" =>
         /\ since <= now
         /\ LET old == records[current.c].switchedAt IN old = None \/ since - old >= cooldown
    /\ \A c \in Country :
         LET last == records[c].switchedAt
             n == records[c].attempts
         IN  /\ n > 0 \/ Recorded(c) => last # None
             /\ last # None => last <= now
             /\ last # None => (IF Recorded(c) THEN n ELSE n - 1) * cooldown <= last

IInv == TypeOK /\ Judged /\ CooledDown

\* A step of the manager, an operator or the clock.
Elsewhere == UNCHANGED <<records, globalFailure, round>>

(***************************************************************************)
(* The statuses by name, so that proofs need not expand the set.           *)
(***************************************************************************)
LEMMA StatusNames ==
    /\ "stopped" \in Status /\ "starting" \in Status /\ "running" \in Status
    /\ "switching" \in Status /\ "draining" \in Status /\ "error" \in Status
  BY DEF Status

(***************************************************************************)
(* Whatever startNode does to a route leaves one.                          *)
(***************************************************************************)
LEMMA PinnedType ==
    ASSUME NEW r \in Route, NEW node \in Node, NEW act \in BOOLEAN
    PROVE  Pinned(r, node, act) \in Route
<1>1. [r EXCEPT !.status = "starting", !.node = node] \in Route  BY StatusNames DEF Route
<1>2. ASSUME NEW p \in Status
      PROVE  [r EXCEPT !.status = "switching", !.next = node, !.act = act, !.prev = p] \in Route
  BY StatusNames DEF Route
<1>3. (IF r.next = None THEN r.status ELSE r.prev) \in Status  BY DEF Route
<1> QED  BY <1>1, <1>2, <1>3 DEF Pinned

(***************************************************************************)
(* What the manager and its operators do leaves routes, and leaves the     *)
(* monitor alone.                                                          *)
(***************************************************************************)
LEMMA ManagerStep ==
    ASSUME TypeOK, Manager
    PROVE  /\ route' \in [Country -> Route] /\ active' \in Country \cup {None}
           /\ requests' \in Nat /\ Elsewhere /\ now' = now
<1> USE DEF manager, round
<1>0. PICK c \in Country : \/ Activate(c) \/ Stop(c) \/ Drained(c) \/ Verified(c)
                           \/ Crash(c) \/ Restart(c) \/ Cutover(c) \/ KeepOld(c)
                           \/ \E node \in Node, act \in BOOLEAN : ChooseNode(c, node, act)
  BY DEF Manager
<1>1. \A d \in Country : route[d] \in Route  BY DEF TypeOK
<1>2. /\ Elsewhere /\ now' = now
      /\ requests' \in Nat /\ active' \in Country \cup {None}
  BY <1>0 DEF Elsewhere, TypeOK, Request, Activate, Stop, Drained, Verified, Crash, Restart,
              Cutover, KeepOld, ChooseNode
<1> SUFFICES route' \in [Country -> Route]
  BY <1>2
<1>3. ASSUME NEW v \in Route, route' = [route EXCEPT ![c] = v]
      PROVE  route' \in [Country -> Route]
  BY <1>3 DEF TypeOK
<1>4. ASSUME NEW s \in Status, route' = [route EXCEPT ![c].status = s]
      PROVE  route' \in [Country -> Route]
  <2>1. [route[c] EXCEPT !.status = s] \in Route  BY <1>1 DEF Route
  <2>2. route' = [route EXCEPT ![c] = [route[c] EXCEPT !.status = s]]  BY <1>4
  <2> QED  BY <1>3, <2>1, <2>2
<1>5. CASE Activate(c)
  BY <1>1, <1>4, <1>5, StatusNames DEF Activate, TypeOK
<1>6. CASE Drained(c) \/ Verified(c) \/ Crash(c) \/ Restart(c)
  BY <1>4, <1>6, StatusNames DEF Drained, Verified, Crash, Restart
<1>7. ASSUME NEW s \in Status,
             route' = [route EXCEPT ![c].status = s, ![c].next = None, ![c].prev = "stopped",
                                    ![c].act = FALSE]
      PROVE  route' \in [Country -> Route]
  <2>1. PICK v : v = [route[c] EXCEPT !.status = s, !.next = None, !.prev = "stopped", !.act = FALSE]
    OBVIOUS
  <2>2. v \in Route  BY <1>1, <2>1, StatusNames DEF Route
  <2>3. route' = [route EXCEPT ![c] = v]  BY <1>7, <2>1 DEF TypeOK
  <2> QED  BY <1>3, <2>2, <2>3
<1>8. CASE Stop(c)
  <2>1. PICK s \in Status : s = IF NoProcess(route[c]) THEN "stopped" ELSE "draining"
    BY StatusNames
  <2> QED  BY <1>7, <1>8, <2>1 DEF Stop
<1>9. CASE KeepOld(c)
  <2>1. PICK s \in Status : s = IF route[c].status = "error" THEN route[c].status ELSE route[c].prev
    BY <1>1 DEF Route
  <2> QED  BY <1>7, <1>9, <2>1 DEF KeepOld
<1>10. CASE Cutover(c)
  <2>0. PICK n : n = 1 - route[c].port  OBVIOUS
  <2>1. PICK w : w = [route[c] EXCEPT !.status = "running", !.node = route[c].next, !.port = n]
    OBVIOUS
  <2>2. w \in Route
    <3>1. n \in Port /\ route[c].next \in Node \cup {None}  BY <1>1, <2>0 DEF Route, Port
    <3>2. [route[c] EXCEPT !.status = "running"] \in Route  BY <1>1, StatusNames DEF Route
    <3>3. ASSUME NEW r \in Route, NEW m \in Node \cup {None}, NEW k \in Port
          PROVE  [r EXCEPT !.node = m, !.port = k] \in Route
      BY DEF Route
    <3> QED  BY <2>1, <3>1, <3>2, <3>3
  <2>3. PICK v : v = [w EXCEPT !.next = None, !.prev = "stopped", !.act = FALSE]  OBVIOUS
  <2>4. v \in Route  BY <2>2, <2>3, StatusNames DEF Route
  <2>5. route' = [route EXCEPT ![c] = v]  BY <1>10, <2>0, <2>1, <2>3 DEF Cutover, TypeOK
  <2> QED  BY <1>3, <2>4, <2>5
<1>11. ASSUME NEW node \in Node, NEW act \in BOOLEAN, ChooseNode(c, node, act)
       PROVE  route' \in [Country -> Route]
  <2>1. Pinned(route[c], node, act) \in Route  BY <1>1, PinnedType
  <2> QED  BY <1>3, <1>11, <2>1 DEF ChooseNode
<1> QED  BY <1>0, <1>5, <1>6, <1>8, <1>9, <1>10, <1>11

(***************************************************************************)
(* What the cooldowns add up to.                                           *)
(***************************************************************************)
LEMMA Times ==
    ASSUME NEW n \in Nat
    PROVE  /\ n * cooldown \in Nat /\ (n - 1) * cooldown \in Int
           /\ (n - 1) * cooldown + cooldown = n * cooldown
           /\ (n + 1) - 1 = n
           /\ (n - 1) * cooldown <= n * cooldown
<1>1. n * cooldown \in Nat /\ (n - 1) * cooldown \in Int  BY HealthAssumption
<1>2. (n - 1) * cooldown + cooldown = n * cooldown  BY HealthAssumption
<1> QED  BY <1>1, <1>2, HealthAssumption

(***************************************************************************)
(* What the clock and everybody but the last steps of a switch leave of    *)
(* the cooldowns.                                                          *)
(***************************************************************************)
LEMMA CooldownKept ==
    ASSUME IInv, TypeOK', now' >= now, at' # "switch", at' # "refresh",
           \A c \in Country : /\ records'[c].switchedAt = records[c].switchedAt
                             /\ records'[c].attempts = records[c].attempts
    PROVE  CooledDown'
<1> SUFFICES ASSUME NEW c \in Country
             PROVE  LET last == records'[c].switchedAt
                        n == records'[c].attempts
                    IN  /\ n > 0 => last # None
                        /\ last # None => last <= now'
                        /\ last # None => (n - 1) * cooldown <= last
  BY DEF CooledDown, Recorded
<1>1. PICK last \in Nat \cup {None}, n \in Nat :
         /\ last = records[c].switchedAt /\ n = records[c].attempts
         /\ last = records'[c].switchedAt /\ n = records'[c].attempts
  BY DEF IInv, TypeOK, Record
<1>2. /\ n > 0 => last # None /\ (last # None => last <= now)
      /\ last # None => n * cooldown <= last \/ (n - 1) * cooldown <= last
  BY <1>1 DEF IInv, CooledDown
<1>3. (n - 1) * cooldown \in Int /\ n * cooldown \in Int /\ (n - 1) * cooldown <= n * cooldown
  BY Times
<1>4. last # None => (n - 1) * cooldown <= last  BY <1>2, <1>3
<1>5. last # None => last <= now'  BY <1>1 DEF IInv, TypeOK, CooledDown
<1> QED  BY <1>1, <1>2, <1>4, <1>5

(***************************************************************************)
(* Going on to the next result forgets the switch that was prepared and    *)
(* keeps what the round is judged by.                                      *)
(***************************************************************************)
LEMMA NextResultEffect ==
    ASSUME IInv, at \in {"apply", "refresh", "switch"}, NEW p, NextResult(p),
           globalFailure' = globalFailure, probing' = probing
    PROVE  /\ collected' \subseteq Probe /\ pending' \subseteq collected'
           /\ current' = None /\ choice' = None /\ since' = 0
           /\ at' \in {"idle", "apply"} /\ Judged'
<1>1. /\ collected' \subseteq Probe /\ pending' \subseteq collected'
      /\ current' = None /\ choice' = None /\ since' = 0
      /\ at' \in {"idle", "apply"} /\ (at' = "apply" => collected' = collected)
  BY DEF NextResult, IInv, TypeOK
<1>2. probing = {} /\ globalFailure = AllFailed  BY DEF IInv, Judged
<1>3. at' = "apply" => AllFailed' = AllFailed  BY <1>1 DEF AllFailed
<1> QED  BY <1>1, <1>2, <1>3 DEF Judged

(***************************************************************************)
(* A new result, however it ended, is counted and the switch decided on    *)
(* the record just written.                                                *)
(***************************************************************************)
LEMMA ApplyEffect ==
    ASSUME IInv, NEW p \in pending, ApplyProbeResult(p)
    PROVE  IInv'
<1> DEFINE old == records[p.c]
           rec == [old EXCEPT !.fails = IF p.ok THEN 0 ELSE CountedTo(@ + 1)]
<1>1. p \in Probe /\ p.c \in Country  BY DEF IInv, TypeOK, Probe
<1>2. old \in Record  BY <1>1 DEF IInv, TypeOK, Record
<1>3. (IF p.ok THEN 0 ELSE CountedTo(old.fails + 1)) \in Nat
  BY <1>2, HealthAssumption DEF Record, CountedTo
<1>4. rec \in Record /\ rec.switchedAt = old.switchedAt /\ rec.attempts = old.attempts
  <2>1. ASSUME NEW n \in Nat
        PROVE  /\ [old EXCEPT !.fails = n] \in Record
               /\ [old EXCEPT !.fails = n].switchedAt = old.switchedAt
               /\ [old EXCEPT !.fails = n].attempts = old.attempts
    BY <1>2 DEF Record
  <2> QED  BY <1>3, <2>1
<1>5. records' = [records EXCEPT ![p.c] = rec]  BY DEF ApplyProbeResult
<1> HIDE DEF rec
<1>6. /\ records' \in [Country -> Record] /\ records'[p.c] = rec
      /\ \A c \in Country : /\ records'[c].switchedAt = records[c].switchedAt
                           /\ records'[c].attempts = records[c].attempts
  BY <1>1, <1>4, <1>5 DEF IInv, TypeOK
<1>7. CASE ~p.ok /\ ShouldSwitch(rec)
  <2>1. /\ at = "apply" /\ at' = "refresh" /\ current' = p /\ since' = now
        /\ UNCHANGED <<collected, pending, choice, route, active, globalFailure, probing, now, requests>>
    BY <1>7 DEF ApplyProbeResult, rec
  <2>2. TypeOK'  BY <1>1, <1>6, <2>1 DEF IInv, TypeOK, At
  <2>3. ~globalFailure /\ (rec.switchedAt = None \/ now - rec.switchedAt >= cooldown)
    BY <1>7 DEF ShouldSwitch, Cooled
  <2>4. Judged'
    <3>1. AllFailed' = AllFailed  BY <2>1 DEF AllFailed
    <3> QED  BY <1>1, <2>1, <2>3, <3>1 DEF IInv, Judged
  <2>5. CooledDown'
    <3>1. ASSUME NEW c \in Country
          PROVE  LET last == records'[c].switchedAt
                     n == records'[c].attempts
                 IN  /\ n > 0 \/ Recorded(c)' => last # None
                     /\ last # None => last <= now'
                     /\ last # None => (IF Recorded(c)' THEN n ELSE n - 1) * cooldown <= last
      BY <1>6, <2>1 DEF IInv, CooledDown, Recorded
    <3>2. since' <= now'  BY <2>1 DEF IInv, TypeOK
    <3> QED  BY <1>1, <1>6, <2>1, <2>3, <3>1, <3>2 DEF CooledDown
  <2> QED  BY <2>2, <2>4, <2>5 DEF IInv
<1>8. CASE ~(~p.ok /\ ShouldSwitch(rec))
  <2>1. /\ NextResult(p) /\ at = "apply"
        /\ UNCHANGED <<route, active, globalFailure, probing, now, requests>>
    BY <1>8 DEF ApplyProbeResult, rec
  <2>2. /\ collected' \subseteq Probe /\ pending' \subseteq collected'
        /\ current' = None /\ choice' = None /\ since' = 0
        /\ at' \in {"idle", "apply"} /\ Judged'
    BY <2>1, NextResultEffect
  <2>3. TypeOK'  BY <1>6, <2>1, <2>2 DEF IInv, TypeOK, At
  <2>4. now' >= now  BY <2>1 DEF IInv, TypeOK
  <2>5. CooledDown'  BY <1>6, <2>2, <2>3, <2>4, CooldownKept
  <2> QED  BY <2>2, <2>3, <2>5 DEF IInv
<1> QED  BY <1>7, <1>8

(***************************************************************************)
(* The chosen node is written down with the time the decision was made at, *)
(* a cooldown after the last one: the switch to come is paid for.          *)
(***************************************************************************)
LEMMA AlternateEffect ==
    ASSUME IInv, NEW node \in Node, AlternateNode(node)
    PROVE  IInv'
<1>1. ~globalFailure /\ current \in Probe /\ current.c \in Country
  BY DEF IInv, Judged, AlternateNode, Probe
<1>2. PICK old \in Record : old = records[current.c]  BY <1>1 DEF IInv, TypeOK
<1>3. PICK rec : rec = [old EXCEPT !.switchedAt = since]  OBVIOUS
<1>4. rec \in Record /\ rec.switchedAt = since /\ rec.attempts = old.attempts
  BY <1>3 DEF IInv, TypeOK, Record
<1>5. records' = [records EXCEPT ![current.c] = rec]  BY <1>2, <1>3 DEF AlternateNode
<1>6. /\ records' \in [Country -> Record] /\ records'[current.c] = rec
      /\ \A c \in Country \ {current.c} : records'[c] = records[c]
  BY <1>1, <1>4, <1>5 DEF IInv, TypeOK
<1>7. /\ choice' = node /\ at = "refresh" /\ at' = "switch"
      /\ UNCHANGED <<route, active, globalFailure, probing, collected, pending, current, since,
                     now, requests>>
  BY DEF AlternateNode
<1>8. TypeOK'  BY <1>6, <1>7 DEF IInv, TypeOK, At
<1>9. Judged'
  <2>1. AllFailed' = AllFailed  BY <1>7 DEF AllFailed
  <2> QED  BY <1>1, <1>7, <2>1 DEF IInv, Judged
<1>10. /\ since \in Nat /\ since <= now
       /\ old.switchedAt = None \/ since - old.switchedAt >= cooldown
  BY <1>2, <1>7 DEF IInv, TypeOK, CooledDown
<1>11. old.attempts * cooldown <= since
  <2>1. PICK last \in Nat \cup {None}, n \in Nat : last = old.switchedAt /\ n = old.attempts
    BY DEF Record
  <2>2. /\ n > 0 => last # None
        /\ last # None => (n - 1) * cooldown <= last
    BY <1>1, <1>2, <1>7, <2>1 DEF IInv, CooledDown, Recorded
  <2>3. (n - 1) * cooldown \in Int /\ (n - 1) * cooldown + cooldown = n * cooldown /\ n * cooldown \in Nat
    BY Times
  <2>4. CASE last = None
    <3>1. n = 0  BY <2>2, <2>4
    <3>2. n * cooldown = 0  BY <3>1, HealthAssumption
    <3> QED  BY <1>10, <2>1, <3>2
  <2>5. CASE last # None
    <3>1. since - last >= cooldown /\ last \in Nat  BY <1>10, <2>1, <2>5
    <3>2. n * cooldown <= since  BY <1>10, <2>2, <2>3, <2>5, <3>1, HealthAssumption
    <3> QED  BY <2>1, <3>2
  <2> QED  BY <2>4, <2>5
<1>12. CooledDown'
  <2>1. ASSUME NEW c \in Country
        PROVE  LET last == records'[c].switchedAt
                   n == records'[c].attempts
               IN  /\ n > 0 \/ Recorded(c)' => last # None
                   /\ last # None => last <= now'
                   /\ last # None => (IF Recorded(c)' THEN n ELSE n - 1) * cooldown <= last
    <3>1. CASE c = current.c
      BY <1>4, <1>6, <1>7, <1>10, <1>11, <3>1, HealthAssumption DEF Recorded
    <3>2. CASE c # current.c
      BY <1>6, <1>7, <3>2 DEF IInv, CooledDown, Recorded
    <3> QED  BY <3>1, <3>2
  <2> QED  BY <1>7, <2>1 DEF CooledDown
<1> QED  BY <1>8, <1>9, <1>12 DEF IInv

(***************************************************************************)
(* switchNode gives the country another node; the switch is counted.       *)
(***************************************************************************)
LEMMA SwitchNodeEffect ==
    ASSUME IInv, SwitchNode
    PROVE  IInv'
<1>1. /\ current \in Probe /\ current.c \in Country
      /\ current.active \in BOOLEAN /\ choice \in Node
  BY DEF IInv, Judged, SwitchNode, Probe
<1>2. PICK c \in Country : c = current.c  BY <1>1
<1>3. PICK r : r = Pinned(route[c], choice, current.active)  OBVIOUS
<1>4. r \in Route  BY <1>1, <1>3, PinnedType DEF IInv, TypeOK
<1>5. route' = [route EXCEPT ![c] = r]  BY <1>2, <1>3 DEF SwitchNode
<1>6. route' \in [Country -> Route]  BY <1>4, <1>5 DEF IInv, TypeOK
<1>7. PICK old \in Record : old = records[c]  BY DEF IInv, TypeOK
<1>8. PICK n \in Nat : n = old.attempts  BY DEF Record
<1>9. PICK rec : rec = [old EXCEPT !.fails = 0, !.attempts = n + 1]  OBVIOUS
<1>10. rec \in Record /\ rec.attempts = n + 1 /\ rec.switchedAt = old.switchedAt
  <2>1. PICK mid : mid = [old EXCEPT !.fails = 0]  OBVIOUS
  <2>2. mid \in Record /\ mid.switchedAt = old.switchedAt  BY <2>1 DEF Record
  <2>3. rec = [mid EXCEPT !.attempts = n + 1]  BY <1>9, <2>1 DEF Record
  <2>4. n + 1 \in Nat  OBVIOUS
  <2> QED  BY <2>2, <2>3, <2>4 DEF Record
<1>11. records' = [records EXCEPT ![c] = rec]
  BY <1>2, <1>7, <1>8, <1>9 DEF SwitchNode, IInv, TypeOK
<1>12. /\ records' \in [Country -> Record] /\ records'[c] = rec
       /\ \A d \in Country \ {c} : records'[d] = records[d]
  BY <1>10, <1>11 DEF IInv, TypeOK
<1>13. active' \in Country \cup {None}  BY <1>2 DEF SwitchNode, IInv, TypeOK
<1>14. /\ NextResult(current) /\ at = "switch"
       /\ UNCHANGED <<globalFailure, probing, now, requests>>
  BY DEF SwitchNode
<1>15. /\ collected' \subseteq Probe /\ pending' \subseteq collected'
       /\ current' = None /\ choice' = None /\ since' = 0
       /\ at' \in {"idle", "apply"} /\ Judged'
  BY <1>14, NextResultEffect
<1>16. TypeOK'  BY <1>6, <1>12, <1>13, <1>14, <1>15 DEF IInv, TypeOK, At
<1>17. CooledDown'
  <2>1. ASSUME NEW d \in Country
        PROVE  LET last == records'[d].switchedAt
                   k == records'[d].attempts
               IN  /\ k > 0 => last # None
                   /\ last # None => last <= now'
                   /\ last # None => (k - 1) * cooldown <= last
    <3>1. CASE d = c
      <4>1. /\ old.switchedAt # None /\ old.switchedAt <= now
            /\ n * cooldown <= old.switchedAt
        BY <1>2, <1>7, <1>8, <1>14 DEF IInv, CooledDown, Recorded
      <4>2. (n + 1) - 1 = n  OBVIOUS
      <4> QED  BY <1>10, <1>12, <1>14, <3>1, <4>1, <4>2
    <3>2. CASE d # c
      <4>1. ~Recorded(d)  BY <1>2, <3>2 DEF Recorded
      <4> QED  BY <1>12, <1>14, <3>2, <4>1 DEF IInv, CooledDown
    <3> QED  BY <3>1, <3>2
  <2> QED  BY <1>15, <2>1 DEF CooledDown, Recorded
<1> QED  BY <1>15, <1>16, <1>17 DEF IInv

(***************************************************************************)
(* The monitor's other steps write neither records nor routes.             *)
(***************************************************************************)
LEMMA RoundEffect ==
    ASSUME IInv,
           \/ RunOnce \/ Collect \/ NoAlternate \/ SwitchRefused
           \/ \E p \in probing, ok \in BOOLEAN : ProbeInstance(p, ok)
    PROVE  IInv'
<1>0. ASSUME TypeOK', Judged', at' # "switch", at' # "refresh", records' = records, now' = now
      PROVE  IInv'
  <2>1. now' >= now  BY <1>0 DEF IInv, TypeOK
  <2> QED  BY <1>0, <2>1, CooldownKept DEF IInv
<1>1. CASE RunOnce
  <2>1. \A c \in Country : [c |-> c, node |-> route[c].node, port |-> route[c].port,
                            active |-> active = c, ok |-> FALSE] \in Probe
    BY DEF IInv, TypeOK, Route, Probe
  <2>2. probing' \subseteq Probe  BY <1>1, <2>1 DEF RunOnce
  <2>3. TypeOK'  BY <1>1, <2>2 DEF IInv, RunOnce, TypeOK, At
  <2>4. Judged'  BY <1>1 DEF RunOnce, Judged
  <2> QED  BY <1>0, <1>1, <2>3, <2>4 DEF RunOnce
<1>2. CASE Collect
  <2>1. TypeOK'  BY <1>2 DEF IInv, Collect, TypeOK, At, AllFailed
  <2>2. AllFailed' = AllFailed  BY <1>2 DEF Collect, AllFailed
  <2>3. Judged'  BY <1>2, <2>2 DEF Collect, Judged
  <2> QED  BY <1>0, <1>2, <2>1, <2>3 DEF Collect
<1>3. CASE NoAlternate \/ SwitchRefused
  <2>1. /\ NextResult(current) /\ at \in {"refresh", "switch"}
        /\ UNCHANGED <<route, active, records, globalFailure, probing, now, requests>>
    BY <1>3 DEF NoAlternate, SwitchRefused
  <2>2. /\ collected' \subseteq Probe /\ pending' \subseteq collected'
        /\ current' = None /\ choice' = None /\ since' = 0
        /\ at' \in {"idle", "apply"} /\ Judged'
    BY <2>1, NextResultEffect
  <2>3. TypeOK'  BY <2>1, <2>2 DEF IInv, TypeOK, At
  <2> QED  BY <1>0, <2>1, <2>2, <2>3
<1>4. ASSUME NEW p \in probing, NEW ok \in BOOLEAN, ProbeInstance(p, ok)
      PROVE  IInv'
  <2>1. [p EXCEPT !.ok = ok] \in Probe  BY DEF IInv, TypeOK, Probe
  <2>2. /\ collected' \subseteq Probe /\ probing' \subseteq Probe /\ collected \subseteq collected'
    BY <1>4, <2>1 DEF ProbeInstance, IInv, TypeOK
  <2>3. UNCHANGED <<route, active, records, globalFailure, at, pending, current, since, choice,
                    now, requests>>
    BY <1>4 DEF ProbeInstance
  <2>4. TypeOK'  BY <2>2, <2>3 DEF IInv, TypeOK
  <2>5. at = "probe"  BY DEF IInv, Judged
  <2>6. Judged'  BY <2>3, <2>5 DEF Judged
  <2> QED  BY <1>0, <2>3, <2>4, <2>5, <2>6
<1> QED  BY <1>1, <1>2, <1>3, <1>4

(***************************************************************************)
(* Everybody else leaves what was decided alone, and time only grows.      *)
(***************************************************************************)
LEMMA OthersEffect ==
    ASSUME IInv, Manager \/ Tick \/ UNCHANGED vars
    PROVE  IInv'
<1>1. /\ route' \in [Country -> Route] /\ active' \in Country \cup {None}
      /\ requests' \in Nat /\ UNCHANGED <<records, globalFailure, round>>
      /\ now' \in Nat /\ now' >= now
  <2>1. CASE Manager
    BY <2>1, ManagerStep DEF IInv, TypeOK, Elsewhere
  <2>2. CASE Tick \/ UNCHANGED vars
    BY <2>2 DEF Tick, vars, IInv, TypeOK
  <2> QED  BY <2>1, <2>2
<1>2. UNCHANGED <<at, probing, collected, pending, current, since, choice>>  BY <1>1 DEF round
<1>3. TypeOK'  BY <1>1, <1>2 DEF IInv, TypeOK
<1>4. AllFailed' = AllFailed  BY <1>2 DEF AllFailed
<1>5. Judged'  BY <1>1, <1>2, <1>4 DEF IInv, Judged
<1>6. CooledDown'
  <2>1. at' = "refresh" =>
          /\ since' <= now'
          /\ LET old == records'[current'.c].switchedAt IN old = None \/ since' - old >= cooldown
    BY <1>1, <1>2 DEF IInv, CooledDown, TypeOK
  <2>2. ASSUME NEW c \in Country
        PROVE  LET last == records'[c].switchedAt
                   n == records'[c].attempts
               IN  /\ n > 0 \/ Recorded(c)' => last # None
                   /\ last # None => last <= now'
                   /\ last # None => (IF Recorded(c)' THEN n ELSE n - 1) * cooldown <= last
    <3>1. records'[c] = records[c] /\ Recorded(c)' = Recorded(c)  BY <1>1, <1>2 DEF Recorded
    <3>2. records[c].switchedAt # None => records[c].switchedAt \in Nat  BY DEF IInv, TypeOK, Record
    <3>3. records[c].switchedAt # None => records[c].switchedAt <= now'
      BY <1>1, <3>2 DEF IInv, TypeOK, CooledDown
    <3> QED  BY <3>1, <3>3 DEF IInv, CooledDown
  <2> QED  BY <2>1, <2>2 DEF CooledDown
<1> QED  BY <1>3, <1>5, <1>6 DEF IInv

(***************************************************************************)
(* Who takes a step.                                                       *)
(***************************************************************************)
LEMMA Cases ==
    ASSUME [Next]_vars
    PROVE  \/ \E p \in pending : ApplyProbeResult(p)
           \/ \E node \in Node : AlternateNode(node)
           \/ SwitchNode
           \/ RunOnce \/ Collect \/ NoAlternate \/ SwitchRefused
           \/ \E p \in probing, ok \in BOOLEAN : ProbeInstance(p, ok)
           \/ Manager \/ Tick \/ UNCHANGED vars
  BY DEF Next, Monitor

(***************************************************************************)
(* A new monitor has the inductive invariant.                              *)
(***************************************************************************)
LEMMA IInvInit == Init => IInv
<1> SUFFICES ASSUME Init PROVE IInv  OBVIOUS
<1>1. PICK restored \in SUBSET Country :
          /\ route = [c \in Country |->
                        [status |-> IF c \in restored THEN "starting" ELSE "stopped",
                         prev |-> "stopped", node |-> None, port |-> 0,
                         next |-> None, act |-> FALSE]]
          /\ active \in restored \cup {None}
  BY DEF Init
<1>2. route \in [Country -> Route] /\ active \in Country \cup {None}
  BY <1>1, StatusNames DEF Route, Port
<1>3. records \in [Country -> Record]  BY DEF Init, Record
<1>4. TypeOK  BY <1>2, <1>3 DEF Init, TypeOK, At
<1>5. Judged  BY DEF Init, Judged
<1>6. CooledDown  BY DEF Init, CooledDown, Recorded
<1> QED  BY <1>4, <1>5, <1>6 DEF IInv

(***************************************************************************)
(* It holds in every reachable state.                                      *)
(***************************************************************************)
LEMMA IInvAlways == Spec => []IInv
<1>1. IInv /\ [Next]_vars => IInv'
  BY Cases, ApplyEffect, AlternateEffect, SwitchNodeEffect, RoundEffect, OthersEffect
<1> QED  BY <1>1, IInvInit, PTL DEF Spec

(***************************************************************************)
(* Every reachable state of the monitor, the routes it sees and the round  *)
(* it is in is well formed.                                                *)
(***************************************************************************)
THEOREM TypeCorrect == Spec => []TypeOK
<1>1. IInv => TypeOK  BY DEF IInv
<1> QED  BY <1>1, IInvAlways, PTL

(***************************************************************************)
(* In every behaviour and for every cooldown, the monitor has switched a   *)
(* country at most once and once more for every cooldown that has passed,  *)
(* however long the refreshes between the decisions and the switches took. *)
(***************************************************************************)
THEOREM SwitchesPaced == Spec => []Paced
<1>1. IInv => Paced
  <2> SUFFICES ASSUME IInv, NEW c \in Country, records[c].attempts > 0
               PROVE  (records[c].attempts - 1) * cooldown <= now
    BY DEF Paced
  <2>1. PICK last \in Nat \cup {None}, n \in Nat :
           last = records[c].switchedAt /\ n = records[c].attempts
    BY DEF IInv, TypeOK, Record
  <2>2. /\ last # None /\ last <= now
        /\ n * cooldown <= last \/ (n - 1) * cooldown <= last
    BY <2>1 DEF IInv, CooledDown
  <2>3. (n - 1) * cooldown \in Int /\ n * cooldown \in Int /\ (n - 1) * cooldown <= n * cooldown
    BY Times
  <2>4. last \in Nat /\ now \in Nat  BY <2>2 DEF IInv, TypeOK
  <2>5. (n - 1) * cooldown <= now  BY <2>2, <2>3, <2>4
  <2> QED  BY <2>1, <2>5
<1> QED  BY <1>1, IInvAlways, PTL

(***************************************************************************)
(* In every behaviour, a round with several usable results, all failures,  *)
(* prepares no switch, from the first result applied to the last and       *)
(* whatever operators and the manager do to the routes meanwhile.          *)
(***************************************************************************)
THEOREM SwitchingPaused == Spec => []PausedByGlobalFailure
<1>1. IInv => PausedByGlobalFailure
  BY DEF IInv, TypeOK, Judged, AllFailed, PausedByGlobalFailure
<1> QED  BY <1>1, IInvAlways, PTL
=============================================================================
