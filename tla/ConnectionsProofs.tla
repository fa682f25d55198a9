------------------------- MODULE ConnectionsProofs -------------------------
(***************************************************************************)
(* Proofs about connections and drains, for every set of countries and     *)
(* Instances and any finite number of connections.                         *)
(***************************************************************************)
EXTENDS Connections, FiniteSetTheorems, TLAPS

(***************************************************************************)
(* A connection is held only on an Instance that answers for a country, or *)
(* on one that answered until a cutover and drains since.  So an Instance  *)
(* made for a replacement has no connections before its cutover.           *)
(***************************************************************************)
HeldServes ==
    \A k \in Conn : conn[k].at = "held" =>
        /\ conn[k].i \in Inst /\ conn[k].i # None
        /\ M!IsCurrent(conn[k].i) \/ conn[k].i \in draining \cap retired

(***************************************************************************)
(* Whoever waits for an Instance's connections to end waits for one that   *)
(* takes no new ones, and what it concluded stays true.                    *)
(***************************************************************************)
DrainsSettled ==
    \A d \in drains : d.i \in draining /\ (d.at = "empty" => Holders(d.i) = {})

\* A connection that is about to call acquireInstance knows its country.
CountryKnown == \A k \in Conn : conn[k].at = "accepted" => conn[k].c \in Country

IInv == TypeOK /\ CountExact /\ HeldServes /\ DrainsSettled /\ CountryKnown

----------------------------------------------------------------------------
(***************************************************************************)
(* The connections that hold an Instance can be counted.                   *)
(***************************************************************************)
LEMMA HoldersFinite ==
    ASSUME NEW i PROVE IsFiniteSet(Holders(i)) /\ Cardinality(Holders(i)) \in Nat
<1>1. Holders(i) \subseteq Conn  BY DEF Holders
<1>2. IsFiniteSet(Holders(i))  BY <1>1, ConnectionsAssumption, FS_Subset
<1> QED  BY <1>2, FS_CardinalityType

(***************************************************************************)
(* One more, one less, none: what acquireInstance, releaseInstance and the *)
(* reset at a cutover rely on.                                             *)
(***************************************************************************)
LEMMA CountChanges ==
    ASSUME NEW S, IsFiniteSet(S), NEW k
    PROVE  /\ k \notin S => Cardinality(S \cup {k}) = Cardinality(S) + 1
           /\ k \in S => Cardinality(S) \in Nat \ {0} /\ Cardinality(S \ {k}) = Cardinality(S) - 1
           /\ Cardinality(S) = 0 <=> S = {}
<1>1. Cardinality(S) \in Nat  BY FS_CardinalityType
<1>2. Cardinality(S) = 0 <=> S = {}  BY FS_EmptySet
<1>3. k \notin S => Cardinality(S \cup {k}) = Cardinality(S) + 1  BY FS_AddElement
<1>4. k \in S => Cardinality(S \ {k}) = Cardinality(S) - 1  BY FS_RemoveElement
<1> QED  BY <1>1, <1>2, <1>3, <1>4

(***************************************************************************)
(* A step that touches neither connections nor counters keeps the count,   *)
(* and keeps the rest if it only adds to what drains and retires, keeps    *)
(* every current Instance that somebody holds or retires it, and starts    *)
(* drains of draining Instances only.                                      *)
(***************************************************************************)
LEMMA ConnsKept ==
    ASSUME IInv, UNCHANGED conn, UNCHANGED ActiveConnections,
           draining \subseteq draining', retired \subseteq retired',
           \A c \in Country : \/ current[c] = None \/ current'[c] = current[c]
                              \/ current[c] \in draining' \cap retired',
           \A d \in drains' : \/ d \in drains
                              \/ d.i \in draining' /\ (d.at = "empty" => Holders(d.i) = {})
    PROVE  (CountExact /\ HeldServes /\ DrainsSettled /\ CountryKnown)'
<1>1. \A i : Holders(i)' = Holders(i)  BY DEF Holders
<1>2. CountExact'  BY <1>1 DEF IInv, CountExact
<1>3. HeldServes'
  <2> SUFFICES ASSUME NEW k \in Conn, conn[k].at = "held"
               PROVE  /\ conn[k].i \in Inst /\ conn[k].i # None
                      /\ M!IsCurrent(conn[k].i)' \/ conn[k].i \in draining' \cap retired'
    BY DEF HeldServes, M!IsCurrent
  <2> QED  BY DEF IInv, HeldServes, M!IsCurrent
<1>4. DrainsSettled'  BY <1>1 DEF IInv, DrainsSettled
<1>5. CountryKnown'  BY DEF IInv, CountryKnown
<1> QED  BY <1>2, <1>3, <1>4, <1>5

----------------------------------------------------------------------------
(* Connection goroutines. *)

(***************************************************************************)
(* Accepting a connection holds nothing yet.                               *)
(***************************************************************************)
LEMMA AcceptStep ==
    ASSUME IInv, NEW k \in Conn, NEW c \in Country, Accept(k, c)
    PROVE  IInv'
<1> USE DEF IInv, Accept, fleet
<1>1. TypeOK'  BY DEF TypeOK, ConnState
<1>2. \A i : Holders(i)' = Holders(i)  BY DEF Holders, TypeOK
<1>3. CountExact'  BY <1>2 DEF CountExact
<1>4. HeldServes'  BY DEF HeldServes, TypeOK, M!IsCurrent
<1>5. DrainsSettled'  BY <1>2 DEF DrainsSettled
<1>6. CountryKnown'  BY DEF CountryKnown, TypeOK
<1> QED  BY <1>1, <1>3, <1>4, <1>5, <1>6

(***************************************************************************)
(* acquireInstance adds one holder to the Instance whose counter it raises *)
(* and never to one that drains.                                           *)
(***************************************************************************)
LEMMA AcquireStep ==
    ASSUME IInv, NEW k \in Conn, AcquireInstance(k)
    PROVE  IInv'
<1>i. PICK i : i = current[conn[k].c]  OBVIOUS
<1>0. /\ conn[k].at = "accepted" /\ conn[k] \in ConnState /\ conn \in [Conn -> ConnState]
      /\ UNCHANGED <<drains, retired, fleet>>
  BY DEF IInv, TypeOK, AcquireInstance
<1>1. CASE ~Acquirable(i)
  <2>1. conn' = [conn EXCEPT ![k] = Free] /\ UNCHANGED ActiveConnections
    BY <1>1, <1>i DEF AcquireInstance
  <2>2. TypeOK'  BY <1>0, <2>1 DEF IInv, TypeOK, ConnState, Free, fleet
  <2>3. \A j : Holders(j)' = Holders(j)  BY <1>0, <2>1 DEF Holders, Free
  <2>4. CountExact'  BY <2>1, <2>3 DEF IInv, CountExact
  <2>5. HeldServes'  BY <1>0, <2>1 DEF IInv, HeldServes, Free, M!IsCurrent, fleet
  <2>6. DrainsSettled'  BY <1>0, <2>3 DEF IInv, DrainsSettled, fleet
  <2>7. CountryKnown'  BY <1>0, <2>1 DEF IInv, CountryKnown, Free
  <2> QED  BY <2>2, <2>4, <2>5, <2>6, <2>7 DEF IInv
<1>2. CASE Acquirable(i)
  <2>1. /\ conn' = [conn EXCEPT ![k].at = "held", ![k].i = i]
        /\ ActiveConnections' = [ActiveConnections EXCEPT ![i] = @ + 1]
    BY <1>2, <1>i DEF AcquireInstance
  <2>2. conn[k].c \in Country /\ i \in Inst /\ i # None /\ i \notin draining
    BY <1>0, <1>2, <1>i DEF Acquirable, IInv, TypeOK, CountryKnown
  <2>3. /\ conn' \in [Conn -> ConnState]
        /\ conn'[k].at = "held" /\ conn'[k].i = i
        /\ \A l \in Conn \ {k} : conn'[l] = conn[l]
    BY <1>0, <2>1, <2>2 DEF ConnState
  <2>4. /\ ActiveConnections' \in [Inst -> Nat]
        /\ ActiveConnections'[i] = ActiveConnections[i] + 1
        /\ \A j \in Inst \ {i} : ActiveConnections'[j] = ActiveConnections[j]
    BY <2>1, <2>2 DEF IInv, TypeOK
  <2>5. TypeOK'  BY <1>0, <2>3, <2>4 DEF IInv, TypeOK, fleet
  <2>6. /\ k \notin Holders(i) /\ Holders(i)' = Holders(i) \cup {k}
        /\ \A j : j # i => Holders(j)' = Holders(j)
    BY <1>0, <2>3 DEF Holders
  <2>7. CountExact'  BY <2>2, <2>4, <2>6, HoldersFinite, CountChanges DEF IInv, CountExact
  <2>8. HeldServes'
    <3>1. M!IsCurrent(i)  BY <2>2, <1>i DEF M!IsCurrent
    <3> QED  BY <1>0, <2>2, <2>3, <3>1 DEF IInv, HeldServes, M!IsCurrent, fleet
  <2>9. DrainsSettled'  BY <1>0, <2>2, <2>6 DEF IInv, DrainsSettled, fleet
  <2>10. CountryKnown'  BY <1>0, <2>3 DEF IInv, CountryKnown
  <2> QED  BY <2>5, <2>7, <2>8, <2>9, <2>10 DEF IInv
<1> QED  BY <1>1, <1>2

(***************************************************************************)
(* releaseInstance removes one holder and lowers the counter by one: its   *)
(* guard against zero never applies.                                       *)
(***************************************************************************)
LEMMA ReleaseStep ==
    ASSUME IInv, NEW k \in Conn, ReleaseInstance(k)
    PROVE  IInv'
<1>i. PICK i : i = conn[k].i  OBVIOUS
<1>0. /\ conn[k].at = "held" /\ conn \in [Conn -> ConnState]
      /\ conn' = [conn EXCEPT ![k] = Free]
      /\ ActiveConnections' = [ActiveConnections EXCEPT ![i] = IF @ > 0 THEN @ - 1 ELSE @]
      /\ UNCHANGED <<drains, retired, fleet>>
  BY <1>i DEF IInv, TypeOK, ReleaseInstance
<1>1. i \in Inst  BY <1>0, <1>i DEF IInv, HeldServes
<1>2. k \in Holders(i)  BY <1>0, <1>i DEF Holders
<1>3. /\ conn' \in [Conn -> ConnState] /\ conn'[k].at = "idle"
      /\ \A l \in Conn \ {k} : conn'[l] = conn[l]
  BY <1>0 DEF ConnState, Free
<1>4. /\ Holders(i)' = Holders(i) \ {k}
      /\ \A j : j # i => Holders(j)' = Holders(j)
  BY <1>0, <1>3, <1>i DEF Holders
<1>5. /\ ActiveConnections[i] = Cardinality(Holders(i)) /\ ActiveConnections[i] \in Nat \ {0}
  BY <1>1, <1>2, HoldersFinite, CountChanges DEF IInv, CountExact
<1>6. /\ ActiveConnections' \in [Inst -> Nat]
      /\ ActiveConnections'[i] = ActiveConnections[i] - 1
      /\ \A j \in Inst \ {i} : ActiveConnections'[j] = ActiveConnections[j]
  BY <1>0, <1>1, <1>5 DEF IInv, TypeOK
<1>7. TypeOK'  BY <1>0, <1>3, <1>6 DEF IInv, TypeOK, fleet
<1>8. CountExact'
  BY <1>1, <1>2, <1>4, <1>5, <1>6, HoldersFinite, CountChanges DEF IInv, CountExact
<1>9. HeldServes'  BY <1>0, <1>3 DEF IInv, HeldServes, M!IsCurrent, fleet
<1>10. DrainsSettled'  BY <1>0, <1>4 DEF IInv, DrainsSettled, fleet
<1>11. CountryKnown'  BY <1>3 DEF IInv, CountryKnown
<1> QED  BY <1>7, <1>8, <1>9, <1>10, <1>11 DEF IInv

----------------------------------------------------------------------------
(* The drain goroutines. *)

(***************************************************************************)
(* A drain that read a counter of zero has nobody left to wait for.        *)
(***************************************************************************)
LEMMA DrainPollStep ==
    ASSUME IInv, NEW d, DrainPoll(d)
    PROVE  IInv'
<1>0. d \in Drain /\ d \in drains  BY DEF IInv, TypeOK, DrainPoll
<1>1. d.i \in Inst /\ d.i \in draining  BY <1>0 DEF IInv, DrainsSettled, Drain
<1>2. Holders(d.i) = {}
  BY <1>1, HoldersFinite, CountChanges DEF DrainPoll, IInv, CountExact
<1> DEFINE e == [d EXCEPT !.at = "empty"]
<1>3. e \in Drain /\ e.i = d.i  BY <1>0 DEF Drain
<1> HIDE DEF e
<1>4. /\ drains' \subseteq drains \cup {e}
      /\ UNCHANGED <<conn, ActiveConnections, retired, fleet>>
  BY DEF DrainPoll, e, conns
<1>5. TypeOK'  BY <1>3, <1>4 DEF IInv, TypeOK, fleet
<1>6. (CountExact /\ HeldServes /\ DrainsSettled /\ CountryKnown)'
  BY <1>1, <1>2, <1>3, <1>4, ConnsKept DEF fleet
<1> QED  BY <1>5, <1>6 DEF IInv

(***************************************************************************)
(* A drain whose deadline passed concludes nothing.                        *)
(***************************************************************************)
LEMMA DrainDeadlineStep ==
    ASSUME IInv, NEW d, DrainDeadline(d)
    PROVE  IInv'
<1>0. d \in Drain /\ d \in drains  BY DEF IInv, TypeOK, DrainDeadline
<1>1. d.i \in Inst /\ d.i \in draining  BY <1>0 DEF IInv, DrainsSettled, Drain
<1> DEFINE e == [d EXCEPT !.at = "late"]
<1>3. e \in Drain /\ e.i = d.i /\ e.at = "late"  BY <1>0 DEF Drain
<1> HIDE DEF e
<1>4. /\ drains' \subseteq drains \cup {e}
      /\ UNCHANGED <<conn, ActiveConnections, retired, fleet>>
  BY DEF DrainDeadline, e, conns
<1>5. TypeOK'  BY <1>3, <1>4 DEF IInv, TypeOK, fleet
<1>6. (CountExact /\ HeldServes /\ DrainsSettled /\ CountryKnown)'
  BY <1>1, <1>3, <1>4, ConnsKept DEF fleet
<1> QED  BY <1>5, <1>6 DEF IInv

(***************************************************************************)
(* Nor does the stop after it disturb anything.                            *)
(***************************************************************************)
LEMMA DrainStopsStep ==
    ASSUME IInv, NEW d, DrainStops(d), ready' \in SUBSET alive'
    PROVE  IInv'
<1>1. /\ drains' \subseteq drains /\ draining \subseteq draining' /\ draining' \subseteq draining \cup {d.i}
      /\ alive' = alive /\ signalled' \subseteq alive /\ failed' \subseteq alive
      /\ UNCHANGED <<conn, ActiveConnections, retired, verified, current, phase>>
  BY DEF DrainStops, M!Withdraw, conns, IInv, TypeOK
<1>2. d.i \in Inst  BY DEF DrainStops, IInv, TypeOK, Drain
<1>3. TypeOK'  BY <1>1, <1>2 DEF IInv, TypeOK
<1>4. (CountExact /\ HeldServes /\ DrainsSettled /\ CountryKnown)'  BY <1>1, ConnsKept
<1> QED  BY <1>3, <1>4 DEF IInv

----------------------------------------------------------------------------
(* The manager. *)

(***************************************************************************)
(* A cutover resets the counter of an Instance that nobody holds, and the  *)
(* Instance it leaves drains and retires with its connections.             *)
(***************************************************************************)
LEMMA CutoverStep ==
    ASSUME IInv, NEW c \in Country, NEW i \in Inst, CompleteReplacement(c, i),
           ready' \in SUBSET alive'
    PROVE  IInv'
<1>0. /\ i \notin retired /\ ~M!IsCurrent(i) /\ current[c] # None
      /\ current' = [current EXCEPT ![c] = i]
      /\ draining' = draining \cup {current[c]} /\ retired' = retired \cup {current[c]}
      /\ drains' = drains \cup {[at |-> "poll", i |-> current[c]]}
      /\ ActiveConnections' = [ActiveConnections EXCEPT ![i] = 0]
      /\ UNCHANGED <<conn, alive, signalled, failed, verified, phase>>
  BY DEF CompleteReplacement, M!Cutover
<1>1. Holders(i) = {}  BY <1>0 DEF IInv, HeldServes, Holders
<1>2. ActiveConnections[i] = 0  BY <1>1, HoldersFinite, CountChanges DEF IInv, CountExact
<1>3. ActiveConnections' = ActiveConnections  BY <1>0, <1>2 DEF IInv, TypeOK
<1>4. current[c] \in Inst  BY <1>0 DEF IInv, TypeOK
<1>5. TypeOK'
  <2>1. [at |-> "poll", i |-> current[c]] \in Drain  BY <1>4 DEF Drain
  <2>2. drains' \subseteq Drain /\ current' \in [Country -> Inst \cup {None}]
    BY <1>0, <2>1 DEF IInv, TypeOK
  <2> QED  BY <1>0, <1>3, <1>4, <2>2 DEF IInv, TypeOK
<1>6. (CountExact /\ HeldServes /\ DrainsSettled /\ CountryKnown)'
  <2>1. \A e \in Country : current'[e] = current[e] \/ current[e] \in draining' \cap retired'
    BY <1>0 DEF IInv, TypeOK
  <2>2. \A d \in drains' : d \in drains \/ (d.at = "poll" /\ d.i \in draining')
    BY <1>0
  <2> QED  BY <1>0, <1>3, <2>1, <2>2, ConnsKept
<1> QED  BY <1>5, <1>6 DEF IInv

(***************************************************************************)
(* stop begins a drain.                                                    *)
(***************************************************************************)
LEMMA StopStep ==
    ASSUME IInv, NEW c \in Country, StopInstanceOf(c), ready' \in SUBSET alive'
    PROVE  IInv'
<1> DEFINE e == [at |-> "poll", i |-> current[c]]
<1>0. /\ current[c] \in Inst /\ draining' = draining \cup {current[c]}
      /\ drains' = drains \cup {e} /\ signalled' = signalled /\ failed' = failed
      /\ UNCHANGED <<conn, ActiveConnections, retired, alive, verified, current, phase>>
  BY DEF StopInstanceOf, M!Withdraw, conns, IInv, TypeOK
<1>1. e \in Drain /\ e.at = "poll" /\ e.i \in draining'  BY <1>0 DEF Drain
<1> HIDE DEF e
<1>2. TypeOK'  BY <1>0, <1>1 DEF IInv, TypeOK
<1>3. (CountExact /\ HeldServes /\ DrainsSettled /\ CountryKnown)'
  BY <1>0, <1>1, ConnsKept
<1> QED  BY <1>2, <1>3 DEF IInv

(***************************************************************************)
(* The manager's other steps leave connections, counters and drains alone. *)
(***************************************************************************)
LEMMA FleetStep ==
    ASSUME IInv, ready' \in SUBSET alive',
           \/ \E i \in Inst : \/ LaunchInstance(i) \/ StopAtOnce(i) \/ FailInstance(i)
                              \/ ExitInstance(i)
                              \/ M!Verify(i) /\ UNCHANGED <<conns, drains, retired>>
           \/ \E c \in Country, i \in Inst \ retired :
                 M!Adopt(c, i) /\ UNCHANGED <<conns, drains, retired>>
           \/ (M!Close \/ M!Closed) /\ UNCHANGED <<conns, drains, retired>>
           \/ StatusStep
    PROVE  IInv'
<1>1. /\ alive' \subseteq Inst /\ signalled' \subseteq alive' /\ failed' \subseteq alive'
      /\ verified' \subseteq Inst
      /\ draining \subseteq draining' /\ draining' \subseteq Inst
      /\ phase' \in {"open", "closing", "closed", "abandoned"}
  BY DEF IInv, TypeOK, LaunchInstance, StopAtOnce, StatusStep, FailInstance, ExitInstance,
         M!Launch, M!Exit, M!Verify, M!Fail, M!Withdraw, M!Stoppable, M!Adopt, M!Close, M!Closed
<1>2. /\ current' \in [Country -> Inst \cup {None}]
      /\ \A e \in Country : current[e] = None \/ current'[e] = current[e]
  BY DEF IInv, TypeOK, LaunchInstance, StopAtOnce, StatusStep, FailInstance, ExitInstance,
         M!Launch, M!Exit, M!Verify, M!Fail, M!Withdraw, M!Adopt, M!Close, M!Closed
<1>3. UNCHANGED <<conn, ActiveConnections, drains, retired>>
  BY DEF LaunchInstance, StopAtOnce, FailInstance, ExitInstance, StatusStep, conns
<1>4. TypeOK'  BY <1>1, <1>2, <1>3 DEF IInv, TypeOK
<1>5. (CountExact /\ HeldServes /\ DrainsSettled /\ CountryKnown)'
  BY <1>1, <1>2, <1>3, ConnsKept
<1> QED  BY <1>4, <1>5 DEF IInv

----------------------------------------------------------------------------
(***************************************************************************)
(* The counters start exact and every step keeps them so.                  *)
(***************************************************************************)
LEMMA AlwaysIInv == Spec => []IInv
<1>1. Init => IInv
  <2> SUFFICES ASSUME Init PROVE IInv  OBVIOUS
  <2>1. TypeOK  BY DEF Init, M!Init, TypeOK, ConnState, Free
  <2>2. \A i : Holders(i) = {}  BY DEF Init, Holders, Free
  <2>3. CountExact  BY <2>2, FS_EmptySet DEF Init, CountExact
  <2>4. HeldServes /\ DrainsSettled /\ CountryKnown
    BY DEF Init, HeldServes, DrainsSettled, CountryKnown, Free
  <2> QED  BY <2>1, <2>3, <2>4 DEF IInv
<1>2. IInv /\ [Next]_vars => IInv'
  <2> SUFFICES ASSUME IInv, [Next]_vars PROVE IInv'  OBVIOUS
  <2>1. ASSUME ConnNext PROVE IInv'
    BY <2>1, AcceptStep, AcquireStep, ReleaseStep DEF ConnNext
  <2>2. ASSUME DrainNext PROVE IInv'
    BY <2>2, DrainPollStep, DrainDeadlineStep, DrainStopsStep DEF DrainNext, DrainStep
  <2>3. ASSUME EnvNext PROVE IInv'
    BY <2>3, CutoverStep, StopStep, FleetStep DEF EnvNext, ManagerStep
  <2>4. ASSUME UNCHANGED vars PROVE IInv'
    <3>1. UNCHANGED <<conn, ActiveConnections, drains, retired, alive, signalled, failed, draining,
                      verified, ready, current, phase>>
      BY <2>4 DEF vars, conns, fleet
    <3>2. TypeOK'  BY <3>1 DEF IInv, TypeOK
    <3> QED  BY <3>1, <3>2, ConnsKept DEF IInv
  <2> QED  BY <2>1, <2>2, <2>3, <2>4 DEF Next
<1> QED  BY <1>1, <1>2, PTL DEF Spec

(***************************************************************************)
(* ActiveConnections always is the number of connections between           *)
(* acquireInstance and releaseInstance, however often Instances are        *)
(* launched, drained, replaced and exit: the drain loops wait for the      *)
(* right number.                                                           *)
(***************************************************************************)
THEOREM ConnectionsCounted == Spec => []CountExact
<1>1. IInv => CountExact  BY DEF IInv
<1> QED  BY <1>1, AlwaysIInv, PTL

(***************************************************************************)
(* Until Shutdown no process is told to end under a connection, except by  *)
(* a drain that ran into its deadline or because it failed before any      *)
(* drain.                                                                  *)
(***************************************************************************)
THEOREM DrainsGraceful == Spec => DrainGraceful
<1> DEFINE Graceful ==
      \A i \in Told' \ Told :
         phase = "open" /\ Holders(i) # {}
            => \/ \E d \in drains \ drains' : d.i = i /\ d.at = "late"
               \/ i \in failed' /\ i \notin draining'
<1>1. IInv /\ [Next]_vars => [Graceful]_vars
  <2> SUFFICES ASSUME IInv, Next, NEW i \in Told' \ Told, phase = "open", Holders(i) # {},
                      ~(i \in failed' /\ i \notin draining')
               PROVE  \E d \in drains \ drains' : d.i = i /\ d.at = "late"
    OBVIOUS
  <2>1. M!IsCurrent(i) \/ i \in draining  BY DEF IInv, HeldServes, Holders
  <2>2. ~ConnNext  BY DEF ConnNext, Accept, AcquireInstance, ReleaseInstance, fleet, Told
  <2>3. ~EnvNext
    <3>1. \A j \in Inst : ~StopAtOnce(j)
      BY <2>1 DEF StopAtOnce, M!Withdraw, IInv, TypeOK, Told
    <3>2. \A j \in Inst : ~FailInstance(j)  BY DEF FailInstance, M!Fail, Told
    <3> QED  BY <3>1, <3>2 DEF EnvNext, ManagerStep, StatusStep, LaunchInstance, StopInstanceOf,
                  CompleteReplacement, ExitInstance, M!Launch, M!Withdraw, M!Cutover, M!Exit,
                  M!Verify, M!Adopt, M!Close, M!Closed, Told
  <2>4. PICK d \in drains : DrainPoll(d) \/ DrainStep(d)  BY <2>2, <2>3 DEF Next, DrainNext
  <2>5. DrainStops(d)  BY <2>4 DEF DrainPoll, DrainStep, DrainDeadline, fleet, Told
  <2>6. d.i = i /\ d \notin drains'  BY <2>5 DEF DrainStops, M!Withdraw, Told
  <2>7. d.at = "late"  BY <2>5, <2>6 DEF DrainStops, IInv, TypeOK, Drain, DrainsSettled
  <2> QED  BY <2>6, <2>7
<1> QED  BY <1>1, AlwaysIInv, PTL DEF Spec, DrainGraceful
=============================================================================
