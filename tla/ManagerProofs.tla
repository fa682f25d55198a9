--------------------------- MODULE ManagerProofs ---------------------------
(***************************************************************************)
(* Proofs about the instance manager, for every value of the constants.    *)
(*                                                                         *)
(* Types, processes, Shutdown.  ProcessInv says which Instances have       *)
(* processes, ShutdownInv that nobody who may launch one holds startMu     *)
(* once the flag is set; with the types they are inductive.                *)
(*                                                                         *)
(* Switches, and that the manager implements Fleet.  Most steps leave      *)
(* alone what a switch depends on (Still); the others are the few handlers *)
(* listed in Moves.  SwitchInv is proved for the first kind once and for   *)
(* each of the second kind separately, and the same split maps every step  *)
(* to one of Fleet.                                                        *)
(*                                                                         *)
(* Waiters and timers (TimedInv), and the limit on countries (RoomInv).    *)
(***************************************************************************)
EXTENDS ManagerProps, FiniteSetTheorems, WellFoundedInduction, TLAPS

(***************************************************************************)
(* The statuses by name, so that proofs need not expand the set.           *)
(***************************************************************************)
LEMMA StatusNames ==
    /\ "stopped" \in Status /\ "starting" \in Status /\ "connecting" \in Status
    /\ "running" \in Status /\ "switching" \in Status /\ "draining" \in Status
    /\ "stopping" \in Status /\ "error" \in Status
  BY DEF Status

(***************************************************************************)
(* An Instance's country is a country.                                     *)
(***************************************************************************)
LEMMA HomeType == \A i \in Inst : Home(i) \in Country
  BY DEF Inst, Home

(***************************************************************************)
(* The Instance object a country begins with is one, and is that           *)
(* country's.                                                              *)
(***************************************************************************)
LEMMA OriginalType == \A c \in Country : Original(c) \in Inst /\ Home(Original(c)) = c
  BY ManagerAssumption DEF Inst, Original, Home

(***************************************************************************)
(* A process's directory is named by an Instance.                          *)
(***************************************************************************)
LEMMA DirOfType == \A i \in Inst, p \in Nat : DirOf(i, p) \in Inst
  BY HomeType, OriginalType DEF DirOf

(***************************************************************************)
(* A new Instance record, as NewManager and replaceNode make it, is well   *)
(* formed.                                                                 *)
(***************************************************************************)
LEMMA FreshType ==
    ASSUME NEW n \in Node \cup {None}, NEW p \in Port \cup {None}
    PROVE  Fresh(n, p) \in Instance
  BY StatusNames DEF Fresh, Instance

(***************************************************************************)
(* A flag of a well formed record may be set either way.                   *)
(***************************************************************************)
LEMMA FlagTypes ==
    ASSUME NEW x \in Instance, NEW b \in BOOLEAN
    PROVE  /\ [x EXCEPT !.stopping = b] \in Instance
           /\ [x EXCEPT !.draining = b] \in Instance
           /\ [x EXCEPT !.scheduled = b] \in Instance
           /\ [x EXCEPT !.exitIP = b] \in Instance
           /\ [x EXCEPT !.failed = b] \in Instance
<1>1. [x EXCEPT !.stopping = b] \in Instance  BY DEF Instance
<1>2. [x EXCEPT !.draining = b] \in Instance  BY DEF Instance
<1>3. [x EXCEPT !.scheduled = b] \in Instance  BY DEF Instance
<1>4. [x EXCEPT !.exitIP = b] \in Instance  BY DEF Instance
<1>5. [x EXCEPT !.failed = b] \in Instance  BY DEF Instance
<1> QED  BY <1>1, <1>2, <1>3, <1>4, <1>5

(***************************************************************************)
(* stopInstance leaves a well formed record.                               *)
(***************************************************************************)
LEMMA StopInstanceType == ASSUME NEW x \in Instance PROVE StopInstance(x) \in Instance
<1>1. [x EXCEPT !.status = "stopped"] \in Instance  BY StatusNames DEF Instance
<1>2. [x EXCEPT !.stopping = TRUE, !.draining = TRUE, !.status = "stopping"] \in Instance
  BY StatusNames DEF Instance
<1> QED  BY <1>1, <1>2 DEF StopInstance

(***************************************************************************)
(* The types of the fields the proofs read.                                *)
(***************************************************************************)
LEMMA FieldTypes ==
    ASSUME NEW x \in Instance
    PROVE  /\ x.cmd \in Nat /\ x.launched \in Nat /\ x.attempts \in Nat /\ x.startedAt \in Nat
           /\ x.status \in Status /\ x.pending \in Inst \cup {None}
           /\ x.port \in Port \cup {None} /\ x.fp \in Node \cup {None}
  BY DEF Instance

(***************************************************************************)
(* So does a successful Start.                                             *)
(***************************************************************************)
LEMMA LaunchedType == ASSUME NEW x \in Instance, NEW t \in Nat PROVE Launched(x, t) \in Instance
<1> DEFINE n == x.launched + 1
<1>0. n \in Nat  BY FieldTypes
<1> HIDE DEF n
<1>1. [x EXCEPT !.cmd = n, !.launched = n, !.status = "starting"] \in Instance
  <2>1. [x EXCEPT !.cmd = n, !.launched = n] \in Instance  BY <1>0 DEF Instance
  <2>2. ASSUME NEW y \in Instance PROVE [y EXCEPT !.status = "starting"] \in Instance
    BY StatusNames DEF Instance
  <2> QED  BY <2>1, <2>2
<1>2. ASSUME NEW y \in Instance
      PROVE  [y EXCEPT !.scheduled = FALSE, !.exitIP = FALSE, !.startedAt = t] \in Instance
  <2>1. [y EXCEPT !.scheduled = FALSE] \in Instance  BY FlagTypes
  <2>2. ASSUME NEW z \in Instance PROVE [z EXCEPT !.exitIP = FALSE] \in Instance
    BY FlagTypes
  <2>3. ASSUME NEW z \in Instance PROVE [z EXCEPT !.startedAt = t] \in Instance
    BY DEF Instance
  <2> QED  BY <2>1, <2>2, <2>3
<1>3. ASSUME NEW y \in Instance
      PROVE  [y EXCEPT !.stopping = FALSE, !.torrc = x.fp] \in Instance
  <2>1. [y EXCEPT !.stopping = FALSE] \in Instance  BY FlagTypes
  <2>2. ASSUME NEW z \in Instance PROVE [z EXCEPT !.torrc = x.fp] \in Instance
    BY FieldTypes DEF Instance
  <2> QED  BY <2>1, <2>2
<1>4. ASSUME NEW y \in Instance PROVE [y EXCEPT !.failed = FALSE] \in Instance  BY FlagTypes
<1> QED  BY <1>1, <1>2, <1>3, <1>4 DEF Launched, Torrc, n

(***************************************************************************)
(* So does startDetached.                                                  *)
(***************************************************************************)
LEMMA DetachedType == ASSUME NEW x \in Instance, NEW t \in Nat PROVE Detached(x, t) \in Instance
<1> DEFINE n == x.launched + 1
<1>0. n \in Nat  BY FieldTypes
<1> HIDE DEF n
<1>1. [x EXCEPT !.cmd = n, !.launched = n, !.status = "starting"] \in Instance
  <2>1. [x EXCEPT !.cmd = n, !.launched = n] \in Instance  BY <1>0 DEF Instance
  <2>2. ASSUME NEW y \in Instance PROVE [y EXCEPT !.status = "starting"] \in Instance
    BY StatusNames DEF Instance
  <2> QED  BY <2>1, <2>2
<1>2. ASSUME NEW y \in Instance
      PROVE  [y EXCEPT !.startedAt = t, !.torrc = x.fp] \in Instance
  BY FieldTypes DEF Instance
<1>3. ASSUME NEW y \in Instance PROVE [y EXCEPT !.failed = FALSE] \in Instance  BY FlagTypes
<1> QED  BY <1>1, <1>2, <1>3 DEF Detached, Torrc, n

(***************************************************************************)
(* So does failInstance.                                                   *)
(***************************************************************************)
LEMMA FailInstanceType == ASSUME NEW x \in Instance PROVE FailInstance(x) \in Instance
<1>1. [x EXCEPT !.status = "error"] \in Instance  BY StatusNames DEF Instance
<1>2. ASSUME NEW y \in Instance PROVE [y EXCEPT !.failed = TRUE] \in Instance  BY FlagTypes
<1> QED  BY <1>1, <1>2 DEF FailInstance

(***************************************************************************)
(* So does watch's first critical section.                                 *)
(***************************************************************************)
LEMMA ExitedType == ASSUME NEW x \in Instance PROVE Exited(x) \in Instance
<1> DEFINE s == IF x.stopping THEN "stopped" ELSE "error"
<1>1. s \in Status  BY StatusNames
<1> HIDE DEF s
<1>2. [x EXCEPT !.cmd = 0] \in Instance  BY DEF Instance
<1>3. ASSUME NEW y \in Instance PROVE [y EXCEPT !.stopping = FALSE] \in Instance
  BY FlagTypes
<1>4. ASSUME NEW y \in Instance PROVE [y EXCEPT !.status = s] \in Instance  BY <1>1 DEF Instance
<1>5. ASSUME NEW y \in Instance PROVE [y EXCEPT !.failed = FALSE] \in Instance  BY FlagTypes
<1> QED  BY <1>2, <1>3, <1>4, <1>5 DEF Exited, s

(***************************************************************************)
(* So does stop.                                                           *)
(***************************************************************************)
LEMMA StopRecordType == ASSUME NEW x \in Instance PROVE StopRecord(x) \in Instance
<1> DEFINE y == [x EXCEPT !.pending = None, !.prev = None]
<1>1. y \in Instance  BY DEF Instance
<1> HIDE DEF y
<1>r. ASSUME NEW z \in Instance
      PROVE  [z EXCEPT !.scheduled = FALSE, !.attempts = 0] \in Instance
  <2>1. [z EXCEPT !.scheduled = FALSE] \in Instance  BY FlagTypes
  <2>2. ASSUME NEW w \in Instance PROVE [w EXCEPT !.attempts = 0] \in Instance
    BY DEF Instance
  <2> QED  BY <2>1, <2>2
<1>2. [y EXCEPT !.status = "stopped", !.scheduled = FALSE, !.attempts = 0] \in Instance
  <2>1. [y EXCEPT !.status = "stopped"] \in Instance  BY <1>1, StatusNames DEF Instance
  <2> QED  BY <1>r, <2>1
<1>3. [y EXCEPT !.status = "draining", !.draining = TRUE, !.scheduled = FALSE, !.attempts = 0]
        \in Instance
  <2>1. [y EXCEPT !.status = "draining"] \in Instance  BY <1>1, StatusNames DEF Instance
  <2>2. ASSUME NEW z \in Instance PROVE [z EXCEPT !.draining = TRUE] \in Instance
    BY FlagTypes
  <2> QED  BY <1>r, <2>1, <2>2
<1> QED  BY <1>1, <1>2, <1>3 DEF StopRecord, y

(***************************************************************************)
(* So does restoreAfterReplacementLocked.                                  *)
(***************************************************************************)
LEMMA RestoreRecordType == ASSUME NEW x \in Instance PROVE RestoreRecord(x) \in Instance
<1>1. x.prev \in Status \cup {None} /\ x.status \in Status  BY DEF Instance
<1>2. RestoredStatus(x) \in Status  BY <1>1, StatusNames DEF RestoredStatus
<1> QED  BY <1>2 DEF RestoreRecord, Instance

(***************************************************************************)
(* So does replaceNode, of the Instance it replaces.                       *)
(***************************************************************************)
LEMMA SwitchingToType ==
    ASSUME NEW x \in Instance, NEW r \in Inst PROVE SwitchingTo(x, r) \in Instance
<1> DEFINE p == IF x.pending = None THEN x.status ELSE x.prev
<1>1. p \in Status \cup {None}  BY DEF Instance
<1> HIDE DEF p
<1>2. [x EXCEPT !.prev = p, !.status = "switching", !.pending = r] \in Instance
  BY <1>1, StatusNames DEF Instance
<1> QED  BY <1>2 DEF SwitchingTo, p

(***************************************************************************)
(* So does scheduleAutoRestartLocked.                                      *)
(***************************************************************************)
LEMMA ScheduledType == ASSUME NEW x \in Instance PROVE Scheduled(x) \in Instance
<1> DEFINE n == x.attempts + 1
<1>0. n \in Nat  BY FieldTypes
<1> HIDE DEF n
<1>1. [x EXCEPT !.attempts = n, !.scheduled = TRUE] \in Instance  BY <1>0 DEF Instance
<1> QED  BY <1>1 DEF Scheduled, n
(***************************************************************************)
(* So do the assignments of single fields in the handlers.                 *)
(***************************************************************************)
LEMMA UpdateTypes ==
    ASSUME NEW x \in Instance, NEW s \in Status, NEW n \in Node \cup {None}
    PROVE  /\ [x EXCEPT !.status = s] \in Instance
           /\ [x EXCEPT !.scheduled = FALSE] \in Instance
           /\ [x EXCEPT !.fp = n] \in Instance
           /\ [x EXCEPT !.status = s, !.exitIP = TRUE, !.attempts = 0, !.scheduled = FALSE]
                \in Instance
           /\ [x EXCEPT !.pending = None, !.prev = None, !.draining = TRUE, !.status = s]
                \in Instance
<1>1. [x EXCEPT !.status = s] \in Instance  BY DEF Instance
<1>2. [x EXCEPT !.scheduled = FALSE] \in Instance  BY FlagTypes
<1>3. [x EXCEPT !.fp = n] \in Instance  BY DEF Instance
<1>4. [x EXCEPT !.status = s, !.exitIP = TRUE, !.attempts = 0, !.scheduled = FALSE] \in Instance
  <2>1. ASSUME NEW y \in Instance PROVE [y EXCEPT !.attempts = 0] \in Instance
    BY DEF Instance
  <2> QED  BY <1>1, <2>1, FlagTypes
<1>5. [x EXCEPT !.pending = None, !.prev = None, !.draining = TRUE, !.status = s] \in Instance
  BY DEF Instance
<1> QED  BY <1>1, <1>2, <1>3, <1>4, <1>5

(***************************************************************************)
(* A goroutine that is started is a task.                                  *)
(***************************************************************************)
LEMMA GoTaskType ==
    ASSUME NEW fn \in {"awaitReady", "awaitBootstrap", "watchClean", "watchSettle", "timer", "drain"},
           NEW i \in Inst, NEW p \in Nat, NEW k \in Inst \cup {None}
    PROVE  GoTask(fn, i, p, k) \in Task
  BY DEF GoTask, Task

(***************************************************************************)
(* A handler that goes on later is a call.                                 *)
(***************************************************************************)
LEMMA GoCallType ==
    ASSUME NEW at \in {"adopt", "replace", "assign", "start", "activate", "restart", "restartFailed"},
           NEW i \in Inst, NEW n \in Node \cup {None}, NEW act \in BOOLEAN
    PROVE  GoCall(at, i, n, act) \in Call
  BY DEF GoCall, Call

(***************************************************************************)
(* A Start that fails reports to at most one restart.                      *)
(***************************************************************************)
LEMMA FailedCallType == ASSUME NEW i \in Inst \cup {None} PROVE FailedCall(i) \subseteq Call
  BY GoCallType DEF FailedCall

(***************************************************************************)
(* Nobody holding startMu is one of the values of op.                      *)
(***************************************************************************)
LEMMA IdleType == Idle \in Op  BY DEF Idle, Op

(***************************************************************************)
(* resumeAfterReplacement starts only well formed tasks.                   *)
(***************************************************************************)
LEMMA ResumeTasksType ==
    ASSUME TypeOK, NEW i \in Inst, NEW r \in Inst PROVE ResumeTasks(i, r) \subseteq Task
<1>1. inst[i].cmd \in Nat  BY FieldTypes DEF TypeOK
<1> QED  BY <1>1, GoTaskType DEF ResumeTasks

(***************************************************************************)
(* What the holder of startMu works on exists.                             *)
(***************************************************************************)
OpOK ==
    /\ op.at \in {"evict", "launch"} => op.c \in Country /\ instances[op.c] \in Inst
    /\ op.at = "detach" => op.i \in Inst /\ op.rep \in Inst
    /\ \A c \in op.todo : instances[c] \in Inst

(***************************************************************************)
(* Releasing startMu keeps OpOK.                                           *)
(***************************************************************************)
LEMMA IdleOK == op' = Idle => OpOK'  BY DEF Idle, OpOK

(***************************************************************************)
(* Start up to makeRoom's decision keeps the types, whoever calls it.      *)
(***************************************************************************)
LEMMA StartEnterType ==
    ASSUME TypeOK, OpOK, NEW c \in Country, NEW act \in BOOLEAN, NEW by \in Inst \cup {None},
           NEW rest, rest \subseteq Call, StartEnter(c, act, by, rest), requests' \in Nat
    PROVE  TypeOK' /\ OpOK'
<1>1. instances[c] \in Inst  BY DEF StartEnter, TypeOK
<1>2. CASE calls' = rest \cup FailedCall(by) /\ UNCHANGED op
  <2>1. calls' \subseteq Call  BY <1>2, FailedCallType
  <2> QED  BY <1>2, <2>1 DEF StartEnter, TypeOK, OpOK, mgr, world
<1>3. CASE op' = [Idle EXCEPT !.at = "launch", !.c = c, !.i = by, !.act = act] /\ calls' = rest
  <2>1. op' \in Op  BY <1>3 DEF Idle, Op
  <2>2. OpOK'  BY <1>1, <1>3 DEF Idle, OpOK, StartEnter
  <2> QED  BY <1>3, <2>1, <2>2 DEF StartEnter, TypeOK, mgr, world
<1>4. ASSUME NEW d \in Oldest(Online \ {active}), calls' = rest,
             op' = [Idle EXCEPT !.at = "evict", !.c = c, !.i = by, !.act = act, !.todo = {d}]
      PROVE  TypeOK' /\ OpOK'
  <2>1. d \in Country /\ instances[d] \in Inst  BY DEF Oldest, Online, TypeOK
  <2>2. op' \in Op  BY <1>4, <2>1 DEF Idle, Op
  <2>3. OpOK'  BY <1>1, <1>4, <2>1 DEF Idle, OpOK, StartEnter
  <2> QED  BY <1>4, <2>2, <2>3 DEF StartEnter, TypeOK, mgr, world
<1> QED  BY <1>2, <1>3, <1>4 DEF StartEnter

(***************************************************************************)
(* stop keeps the types.                                                   *)
(***************************************************************************)
LEMMA StopCountryType ==
    ASSUME TypeOK, NEW c \in Country, instances[c] \in Inst, StopCountry(c)
    PROVE  /\ inst' \in [Inst -> Instance] /\ resumeNodes' \subseteq Country
           /\ active' \in Country \cup {None} /\ tasks' \subseteq Task
<1>1. inst[instances[c]] \in Instance  BY DEF TypeOK
<1>2. inst' \in [Inst -> Instance]
  BY <1>1, StopRecordType, StopInstanceType DEF StopCountry, TypeOK
<1>3. GoTask("drain", instances[c], 0, None) \in Task  BY GoTaskType
<1> QED  BY <1>2, <1>3 DEF StopCountry, TypeOK

(***************************************************************************)
(* Giving a replacement up keeps the types.                                *)
(***************************************************************************)
LEMMA GiveUpType ==
    ASSUME TypeOK, NEW i \in Inst, NEW r \in Inst, GiveUp(i, r)
    PROVE  inst' \in [Inst -> Instance] /\ tasks' \subseteq Task
<1>1. inst[i] \in Instance /\ inst[r] \in Instance  BY DEF TypeOK
<1>2. [inst EXCEPT ![i] = RestoreRecord(@)] \in [Inst -> Instance]
  BY <1>1, RestoreRecordType DEF TypeOK
<1>3. inst' \in [Inst -> Instance]
  BY <1>2, StopInstanceType DEF GiveUp
<1> QED  BY <1>3, ResumeTasksType DEF GiveUp, TypeOK

(***************************************************************************)
(* Every step of Next, action by action, keeps the types and OpOK.         *)
(***************************************************************************)
LEMMA TypeStep == ASSUME TypeOK, OpOK, [Next]_vars PROVE TypeOK' /\ OpOK'
<1> USE DEF mgr, world
<1>0. ASSUME NEW i \in Inst
      PROVE  inst[i] \in Instance /\ Home(i) \in Country /\ Original(Home(i)) \in Inst
  BY HomeType, OriginalType DEF TypeOK
<1>1. ASSUME NEW i \in Inst, NEW v \in Instance, inst' = [inst EXCEPT ![i] = v]
      PROVE  inst' \in [Inst -> Instance]
  BY <1>1 DEF TypeOK
<1>2. ASSUME NEW k, Request(k) PROVE requests' \in Nat  BY <1>2 DEF Request, TypeOK
<1>a1. ASSUME NEW c \in Country, NEW act \in BOOLEAN, Start(c, act) PROVE TypeOK' /\ OpOK'
  BY <1>2, <1>a1, StartEnterType DEF Start, TypeOK
<1>a2. ASSUME NEW c \in Country, NEW node \in Node, NEW act \in BOOLEAN, StartNode(c, node, act)
       PROVE  TypeOK' /\ OpOK'
  <2> DEFINE i == IF instances[c] = None THEN Original(c) ELSE instances[c]
             at == IF inst[i].fp = node /\ inst[i].status = "running" THEN "adopt"
                   ELSE IF inst[i].cmd # 0 THEN "replace" ELSE "assign"
  <2>1. i \in Inst  BY OriginalType DEF TypeOK
  <2>2. GoCall(at, i, node, act) \in Call  BY <2>1, GoCallType
  <2>3. /\ instances' = [instances EXCEPT ![c] = i] /\ allInstances' \subseteq Inst
        /\ calls' \subseteq Call
    BY <1>a2, <2>1, <2>2 DEF StartNode, TypeOK
  <2> HIDE DEF i, at
  <2>4. instances' \in [Country -> Inst \cup {None}]  BY <2>1, <2>3 DEF TypeOK
  <2>5. \A d \in Country : instances[d] \in Inst => instances'[d] \in Inst
    BY <2>1, <2>3 DEF TypeOK
  <2>6. op' = op /\ op \in Op  BY <1>a2 DEF StartNode, TypeOK
  <2>7. OpOK'  BY <2>5, <2>6 DEF OpOK, Op
  <2> QED  BY <1>2, <1>a2, <2>3, <2>4, <2>7 DEF StartNode, TypeOK
<1>a3. ASSUME NEW c \in Country, Stop(c) PROVE TypeOK' /\ OpOK'
  <2>1. instances[c] \in Inst  BY <1>a3 DEF Stop, TypeOK
  <2> QED  BY <1>2, <1>a3, <2>1, StopCountryType DEF Stop, TypeOK, OpOK
<1>a4. ASSUME NEW c \in Country, CancelReplacement(c) PROVE TypeOK' /\ OpOK'
  <2>1. instances[c] \in Inst  BY <1>a4 DEF CancelReplacement, TypeOK
  <2>2. inst[instances[c]].pending \in Inst
    BY <1>0, <1>a4, <2>1, FieldTypes DEF CancelReplacement
  <2> QED  BY <1>2, <1>a4, <2>1, <2>2, GiveUpType DEF CancelReplacement, TypeOK, OpOK
<1>a5. ASSUME NEW c \in Country, UpstreamRetry(c) PROVE TypeOK' /\ OpOK'
  <2> DEFINE i == instances[c]
  <2>1. i \in Inst  BY <1>a5 DEF UpstreamRetry, TypeOK
  <2>2. [inst[i] EXCEPT !.status = "connecting"] \in Instance
    BY <1>0, <2>1, StatusNames DEF Instance
  <2>3. inst' \in [Inst -> Instance]  BY <1>a5, <2>1, <2>2 DEF UpstreamRetry, TypeOK
  <2>4. GoTask("awaitBootstrap", i, inst[i].cmd, i) \in Task
    BY <1>0, <2>1, FieldTypes, GoTaskType
  <2> QED  BY <1>2, <1>a5, <2>3, <2>4 DEF UpstreamRetry, TypeOK, OpOK
<1>a6. ASSUME NEW limit \in Limits, UpdateMaxRunning(limit) PROVE TypeOK' /\ OpOK'
  <2>1. op'.at = "trim" /\ op' \in Op /\ op'.todo \subseteq Online
    BY <1>a6 DEF UpdateMaxRunning, Idle, Op, Online
  <2>2. OpOK'  BY <1>a6, <2>1 DEF UpdateMaxRunning, OpOK, Online, TypeOK
  <2>3. maxRunning' \in Nat  BY <1>a6, ManagerAssumption DEF UpdateMaxRunning
  <2> QED  BY <1>2, <1>a6, <2>1, <2>2, <2>3 DEF UpdateMaxRunning, TypeOK
<1>a7. CASE ShutdownBegin
  BY <1>2, <1>a7 DEF ShutdownBegin, TypeOK, OpOK
<1>b1. CASE Evict
  <2>1. PICK d \in op.todo : StopCountry(d)  BY <1>b1 DEF Evict
  <2>2. d \in Country /\ instances[d] \in Inst  BY DEF OpOK, TypeOK, Op
  <2>3. op' \in Op /\ op'.todo = {} /\ op'.at = "launch" /\ op'.c = op.c
    BY <1>b1 DEF Evict, TypeOK, Op
  <2>4. OpOK'  BY <1>b1, <2>3 DEF Evict, OpOK
  <2> QED  BY <1>b1, <2>1, <2>2, <2>3, <2>4, StopCountryType DEF Evict, TypeOK
<1>3. ASSUME op.at = "launch", StartReturns PROVE calls' \subseteq Call /\ op' \in Op /\ OpOK'
  BY <1>3, GoCallType, IdleType, IdleOK DEF StartReturns, TypeOK, OpOK
<1>4. ASSUME op.at = "launch", StartFails PROVE calls' \subseteq Call /\ op' \in Op /\ OpOK'
  <2>1. op.i \in Inst \cup {None}  BY DEF TypeOK, Op
  <2> QED  BY <1>4, <2>1, FailedCallType, IdleType, IdleOK DEF StartFails, TypeOK
<1>b2. CASE StartAlready
  BY <1>3, <1>b2 DEF StartAlready, TypeOK
<1>b3. CASE StartBusy
  BY <1>4, <1>b3 DEF StartBusy, TypeOK
<1>b4. CASE StartError
  <2> DEFINE i == instances[op.c]
  <2>1. i \in Inst  BY <1>b4 DEF StartError, OpOK
  <2>2. PICK s \in {inst[i].status, "error"} : inst' = [inst EXCEPT ![i].status = s]
    BY <1>b4 DEF StartError
  <2>3. s \in Status  BY <1>0, <2>1, FieldTypes, StatusNames
  <2>4. [inst[i] EXCEPT !.status = s] \in Instance  BY <1>0, <2>1, <2>3 DEF Instance
  <2>5. inst' \in [Inst -> Instance]  BY <2>1, <2>2, <2>4 DEF TypeOK
  <2> QED  BY <1>4, <1>b4, <2>5 DEF StartError, RemoveInstanceDir, TypeOK
<1>b5. CASE StartLaunch
  <2> DEFINE i == instances[op.c]
  <2>1. i \in Inst /\ op.c \in Country  BY <1>b5 DEF StartLaunch, OpOK
  <2>2. Launched(inst[i], clock) \in Instance  BY <1>0, <2>1, LaunchedType DEF TypeOK
  <2>3. inst' \in [Inst -> Instance]  BY <1>1, <1>b5, <2>1, <2>2 DEF StartLaunch
  <2>4. GoTask("awaitReady", i, inst[i].launched + 1, None) \in Task
    <3>1. inst[i].launched \in Nat  BY <1>0, <2>1, FieldTypes
    <3>2. inst[i].launched + 1 \in Nat  BY <3>1
    <3> QED  BY <2>1, <3>2, GoTaskType
  <2>5. Original(op.c) \in Inst  BY <2>1, OriginalType
  <2> QED  BY <1>3, <1>b5, <2>1, <2>3, <2>4, <2>5 DEF StartLaunch, TypeOK
<1>b6. CASE TrimOne
  <2>1. PICK d \in op.todo : StopCountry(d) /\ op' = [op EXCEPT !.todo = @ \ {d}]
    BY <1>b6 DEF TrimOne
  <2>2. d \in Country /\ instances[d] \in Inst  BY DEF OpOK, TypeOK, Op
  <2>3. op' \in Op /\ op'.todo \subseteq op.todo /\ op'.at = "trim"
    BY <1>b6, <2>1 DEF TrimOne, TypeOK, Op
  <2>4. OpOK'  BY <1>b6, <2>3 DEF TrimOne, OpOK
  <2> QED  BY <1>b6, <2>1, <2>2, <2>3, <2>4, StopCountryType DEF TrimOne, TypeOK
<1>b7. CASE TrimDone
  BY <1>b7, IdleType, IdleOK DEF TrimDone, TypeOK
<1>b8. CASE DetachStarts
  <2>1. op.rep \in Inst /\ op.i \in Inst /\ op.act \in BOOLEAN
    BY <1>b8 DEF DetachStarts, OpOK, TypeOK, Op
  <2>2. Detached(inst[op.rep], clock) \in Instance  BY <1>0, <2>1, DetachedType DEF TypeOK
  <2>3. inst' \in [Inst -> Instance]  BY <1>1, <1>b8, <2>1, <2>2 DEF DetachStarts
  <2>4. GoTask("awaitReady", op.rep, 1, None) \in Task  BY <2>1, GoTaskType
  <2>5. [at |-> "poll", cur |-> op.i, rep |-> op.rep, act |-> op.act] \in Switch
    BY <2>1 DEF Switch
  <2> QED  BY <1>b8, <2>1, <2>3, <2>4, <2>5, IdleType, IdleOK DEF DetachStarts, TypeOK
<1>b9. CASE DetachFails
  <2>1. op.rep \in Inst /\ op.i \in Inst  BY <1>b9 DEF DetachFails, OpOK
  <2>2. RestoreRecord(inst[op.i]) \in Instance  BY <1>0, <2>1, RestoreRecordType
  <2>3. inst' \in [Inst -> Instance]
    <3>1. CASE inst[op.i].pending = op.rep  BY <1>1, <1>b9, <2>1, <2>2, <3>1 DEF DetachFails
    <3>2. CASE inst[op.i].pending # op.rep  BY <1>b9, <3>2 DEF DetachFails, TypeOK
    <3> QED  BY <3>1, <3>2
  <2>4. tasks' \subseteq Task  BY <1>b9, <2>1, ResumeTasksType DEF DetachFails, TypeOK
  <2> QED  BY <1>b9, <2>3, <2>4, IdleType, IdleOK DEF DetachFails, ReleaseInstancePorts, TypeOK
<1>5. ASSUME NEW call \in calls
      PROVE  /\ call.i \in Inst /\ call.node \in Node \cup {None} /\ call.act \in BOOLEAN
             /\ [call EXCEPT !.at = "start"] \in Call
  BY DEF TypeOK, Call
<1>c1. ASSUME NEW call \in calls, StartAssigned(call) PROVE TypeOK' /\ OpOK'
  <2>1. StartEnter(Home(call.i), call.act, None, calls \ {call}) /\ requests' \in Nat
    BY <1>c1 DEF StartAssigned, TypeOK
  <2>2. calls \ {call} \subseteq Call  BY DEF TypeOK
  <2>3. Home(call.i) \in Country /\ call.i \in Inst /\ call.act \in BOOLEAN  BY <1>0, <1>5
  <2> QED  BY <2>1, <2>2, <2>3, StartEnterType
<1>c2. ASSUME NEW call \in calls, StartRestart(call) PROVE TypeOK' /\ OpOK'
  <2>1. StartEnter(Home(call.i), FALSE, call.i, calls \ {call}) /\ requests' \in Nat
    BY <1>c2 DEF StartRestart, TypeOK
  <2>2. calls \ {call} \subseteq Call  BY DEF TypeOK
  <2>3. Home(call.i) \in Country /\ call.i \in Inst /\ call.act \in BOOLEAN  BY <1>0, <1>5
  <2> QED  BY <2>1, <2>2, <2>3, StartEnterType
<1>c3. ASSUME NEW call \in calls, Activate(call) PROVE TypeOK' /\ OpOK'
  BY <1>0, <1>5, <1>c3 DEF Activate, TypeOK, OpOK
<1>c4. ASSUME NEW call \in calls, Adopt(call) PROVE TypeOK' /\ OpOK'
  BY <1>0, <1>5, <1>c4 DEF Adopt, TypeOK, OpOK
<1>c5. ASSUME NEW call \in calls, Assign(call) PROVE TypeOK' /\ OpOK'
  <2>1. [inst[call.i] EXCEPT !.fp = call.node] \in Instance  BY <1>0, <1>5, StatusNames, UpdateTypes
  <2>2. inst' \in [Inst -> Instance]  BY <1>5, <1>c5, <2>1 DEF Assign, TypeOK
  <2> QED  BY <1>5, <1>c5, <2>2 DEF Assign, TypeOK, OpOK
<1>c6. ASSUME NEW call \in calls, ReplaceRefused(call) PROVE TypeOK' /\ OpOK'
  BY <1>c6 DEF ReplaceRefused, TypeOK, OpOK
<1>c7. ASSUME NEW call \in calls, ReplaceBegin(call) PROVE TypeOK' /\ OpOK'
  <2> DEFINE c == Home(call.i)
  <2>0. c \in Country /\ call.i \in Inst  BY <1>0, <1>5
  <2>1. PICK rep \in NextReplacement(c), port \in Port \ reservedPorts :
          /\ reservedPorts' = reservedPorts \cup {port}
          /\ inst' = [j \in Inst |-> IF j = call.i THEN SwitchingTo(inst[j], rep)
                                     ELSE IF j = rep THEN Fresh(call.node, port)
                                     ELSE IF j = inst[call.i].pending THEN StopInstance(inst[j])
                                     ELSE inst[j]]
          /\ op' = [Idle EXCEPT !.at = "detach", !.c = Home(call.i), !.i = call.i,
                                !.rep = rep, !.act = call.act]
    BY <1>c7 DEF ReplaceBegin, FreePorts
  <2>2. rep \in Inst
    <3>1. PICK n \in 1..MaxSwitch : rep = <<c, n>>  BY DEF NextReplacement
    <3>2. n \in 0..MaxSwitch  BY ManagerAssumption
    <3> QED  BY <2>0, <3>1, <3>2 DEF Inst
  <2>3. inst' \in [Inst -> Instance]
    BY <1>0, <1>5, <2>1, <2>2, SwitchingToType, FreshType, StopInstanceType
  <2>4. op' \in Op  BY <1>5, <2>0, <2>1, <2>2 DEF Idle, Op
  <2>5. OpOK'  BY <2>0, <2>1, <2>2 DEF Idle, OpOK
  <2> QED  BY <1>c7, <2>1, <2>3, <2>4, <2>5 DEF ReplaceBegin, TypeOK
<1>6. ASSUME NEW i \in Inst, ScheduleRestart(i)
      PROVE  /\ inst' \in [Inst -> Instance] /\ active' = active
             /\ GoTask("timer", i, inst[i].attempts + 1, None) \in Task
  <2>1. Scheduled(inst[i]) \in Instance  BY <1>0, ScheduledType
  <2>2. inst[i].attempts + 1 \in Nat  BY <1>0, FieldTypes
  <2> QED  BY <1>1, <1>6, <2>1, <2>2, GoTaskType DEF ScheduleRestart
<1>c8. ASSUME NEW call \in calls, RestartFailed(call) PROVE TypeOK' /\ OpOK'
  <2>1. CASE ScheduleRestart(call.i) /\ tasks' = tasks \cup {GoTask("timer", call.i, inst[call.i].attempts + 1, None)}
    BY <1>5, <1>6, <1>c8, <2>1 DEF RestartFailed, TypeOK, OpOK
  <2>2. CASE ~Schedules(call.i) /\ UNCHANGED <<inst, tasks>> /\ active' \in {None, active}
    BY <1>c8, <2>2 DEF RestartFailed, TypeOK, OpOK
  <2> QED  BY <1>c8, <2>1, <2>2 DEF RestartFailed
<1>c9. ASSUME NEW i \in Inst, ShutdownStops(i) PROVE TypeOK' /\ OpOK'
  BY <1>0, <1>1, <1>c9, StopInstanceType DEF ShutdownStops, TypeOK, OpOK
<1>c10. CASE ShutdownReturns  BY <1>c10 DEF ShutdownReturns, TypeOK, OpOK
<1>c11. CASE ShutdownTimesOut  BY <1>c11 DEF ShutdownTimesOut, TypeOK, OpOK
<1>7. ASSUME NEW s \in switches
      PROVE  /\ s.cur \in Inst /\ s.rep \in Inst
             /\ [s EXCEPT !.at = "cut"] \in Switch /\ [s EXCEPT !.at = "remember"] \in Switch
  BY DEF TypeOK, Switch
<1>d1. ASSUME NEW s \in switches, SwitchPoll(s) PROVE TypeOK' /\ OpOK'
  BY <1>7, <1>d1 DEF SwitchPoll, TypeOK, OpOK
<1>d2. ASSUME NEW s \in switches, SwitchCut(s) PROVE TypeOK' /\ OpOK'
  <2> DEFINE c == Home(s.cur)
  <2>0. c \in Country /\ s.cur \in Inst /\ s.rep \in Inst  BY <1>0, <1>7
  <2>1. [inst[s.cur] EXCEPT !.pending = None, !.prev = None, !.draining = TRUE,
                            !.status = "draining"] \in Instance
    BY <1>0, <2>0, StatusNames, UpdateTypes
  <2>2. inst' \in [Inst -> Instance]  BY <1>d2, <2>0, <2>1 DEF SwitchCut, TypeOK
  <2>3. instances' \in [Country -> Inst \cup {None}]  BY <1>d2, <2>0 DEF SwitchCut, TypeOK
  <2>4. \A d \in Country : instances[d] \in Inst => instances'[d] \in Inst
    BY <1>d2, <2>0 DEF SwitchCut, TypeOK
  <2>5. OpOK'  BY <1>d2, <2>4 DEF SwitchCut, OpOK, TypeOK, Op
  <2>6. active' \in Country \cup {None} /\ switches' \subseteq Switch
    BY <1>7, <1>d2, <2>0 DEF SwitchCut, TypeOK
  <2>7. UNCHANGED <<resumeNodes, mgr, world, tasks, calls, op, requests>>  BY <1>d2 DEF SwitchCut
  <2> QED  BY <2>2, <2>3, <2>5, <2>6, <2>7 DEF TypeOK
<1>d3. ASSUME NEW s \in switches, SwitchRemember(s) PROVE TypeOK' /\ OpOK'
  <2>1. GoTask("drain", s.cur, 0, None) \in Task  BY <1>7, GoTaskType
  <2>2. Home(s.cur) \in Country  BY <1>0, <1>7
  <2> QED  BY <1>d3, <2>1, <2>2 DEF SwitchRemember, TypeOK, OpOK
<1>d4. ASSUME NEW s \in switches, SwitchUnwanted(s) PROVE TypeOK' /\ OpOK'
  <2>1. inst' \in [Inst -> Instance]
    BY <1>0, <1>1, <1>7, <1>d4, StopInstanceType DEF SwitchUnwanted
  <2> QED  BY <1>d4, <2>1 DEF SwitchUnwanted, TypeOK, OpOK
<1>d5. ASSUME NEW s \in switches, SwitchGivesUp(s) PROVE TypeOK' /\ OpOK'
  BY <1>7, <1>d5, GiveUpType DEF SwitchGivesUp, TypeOK, OpOK
<1>8. ASSUME NEW t \in tasks
      PROVE  /\ t.i \in Inst /\ t.p \in Nat
             /\ [t EXCEPT !.fn = "watchSettle"] \in Task /\ [t EXCEPT !.fn = "awaitBootstrap"] \in Task
  BY DEF TypeOK, Task
<1>e1. ASSUME NEW t \in tasks, Drained(t) PROVE TypeOK' /\ OpOK'
  <2>1. inst' \in [Inst -> Instance]
    BY <1>0, <1>1, <1>8, <1>e1, StopInstanceType DEF Drained
  <2> QED  BY <1>e1, <2>1 DEF Drained, TypeOK, OpOK
<1>e2. ASSUME NEW t \in tasks, WatchClean(t) PROVE TypeOK' /\ OpOK'
  BY <1>8, <1>e2 DEF WatchClean, ReleaseInstancePorts, RemoveInstanceDir, TypeOK, OpOK
<1>e3. ASSUME NEW t \in tasks, WatchSettle(t) PROVE TypeOK' /\ OpOK'
  <2>1. CASE /\ ScheduleRestart(t.i)
             /\ tasks' = (tasks \ {t}) \cup {GoTask("timer", t.i, inst[t.i].attempts + 1, None)}
    BY <1>6, <1>8, <1>e3, <2>1 DEF WatchSettle, TypeOK, OpOK
  <2>2. CASE active' \in {None, active} /\ tasks' = tasks \ {t} /\ UNCHANGED inst
    BY <1>e3, <2>2 DEF WatchSettle, TypeOK, OpOK
  <2> QED  BY <1>e3, <2>1, <2>2 DEF WatchSettle
<1>e4. ASSUME NEW t \in tasks, TimerFires(t) PROVE TypeOK' /\ OpOK'
  <2>1. [inst[t.i] EXCEPT !.scheduled = FALSE] \in Instance  BY <1>0, <1>8, StatusNames, UpdateTypes
  <2>2. inst' \in [Inst -> Instance]  BY <1>8, <1>e4, <2>1 DEF TimerFires, TypeOK
  <2>3. GoCall("restart", t.i, None, FALSE) \in Call  BY <1>8, GoCallType
  <2>4. calls' \subseteq Call  BY <1>e4, <2>3 DEF TimerFires, TypeOK
  <2> QED  BY <1>e4, <2>2, <2>4 DEF TimerFires, TypeOK, OpOK
<1>e5. ASSUME NEW t \in tasks, PortOpens(t) PROVE TypeOK' /\ OpOK'
  <2>1. [inst[t.i] EXCEPT !.status = "connecting"] \in Instance
    BY <1>0, <1>8, StatusNames, UpdateTypes
  <2>2. inst' \in [Inst -> Instance]  BY <1>8, <1>e5, <2>1 DEF PortOpens, TypeOK
  <2> QED  BY <1>8, <1>e5, <2>2 DEF PortOpens, TypeOK, OpOK
<1>e6. ASSUME NEW t \in tasks, ExitVerified(t) PROVE TypeOK' /\ OpOK'
  <2>1. [inst[t.i] EXCEPT !.status = "running", !.exitIP = TRUE, !.attempts = 0,
                          !.scheduled = FALSE] \in Instance
    BY <1>0, <1>8, StatusNames, UpdateTypes
  <2>2. inst' \in [Inst -> Instance]  BY <1>8, <1>e6, <2>1 DEF ExitVerified, TypeOK
  <2> QED  BY <1>e6, <2>2 DEF ExitVerified, TypeOK, OpOK
<1>e7. ASSUME NEW t \in tasks, WaiterQuits(t) PROVE TypeOK' /\ OpOK'
  BY <1>e7 DEF WaiterQuits, TypeOK, OpOK
<1>e8. ASSUME NEW t \in tasks, WaiterFails(t) PROVE TypeOK' /\ OpOK'
  <2>1. FailInstance(inst[t.i]) \in Instance  BY <1>0, <1>8, FailInstanceType
  <2>2. inst' \in [Inst -> Instance]  BY <1>8, <1>e8, <2>1 DEF WaiterFails, TypeOK
  <2> QED  BY <1>e8, <2>2 DEF WaiterFails, TypeOK, OpOK
<1>f1. ASSUME NEW i \in Inst, WatchExit(i) PROVE TypeOK' /\ OpOK'
  <2>1. inst' \in [Inst -> Instance]  BY <1>0, <1>1, <1>f1, ExitedType DEF WatchExit
  <2>2. GoTask("watchClean", i, inst[i].cmd, None) \in Task  BY <1>0, FieldTypes, GoTaskType
  <2> QED  BY <1>f1, <2>1, <2>2 DEF WatchExit, TypeOK, OpOK
<1>g1. CASE UNCHANGED vars  BY <1>g1 DEF vars, TypeOK, OpOK
<1>h1. ASSUME ClientNext PROVE TypeOK' /\ OpOK'
  BY <1>h1, <1>a1, <1>a2, <1>a3, <1>a4, <1>a5, <1>a6, <1>a7 DEF ClientNext
<1>h2. ASSUME HandlerNext PROVE TypeOK' /\ OpOK'
  BY <1>h2, <1>b1, <1>b2, <1>b3, <1>b4, <1>b5, <1>b6, <1>b7, <1>b8, <1>b9, <1>c1, <1>c2, <1>c3,
     <1>c4, <1>c5, <1>c6, <1>c7, <1>c8, <1>c9, <1>c10, <1>c11 DEF HandlerNext
<1>h3. ASSUME BackgroundNext PROVE TypeOK' /\ OpOK'
  BY <1>h3, <1>d1, <1>d2, <1>d3, <1>d4, <1>d5, <1>e1, <1>e2, <1>e3, <1>e4, <1>e5, <1>e6, <1>e7,
     <1>e8 DEF BackgroundNext
<1> QED  BY <1>f1, <1>g1, <1>h1, <1>h2, <1>h3 DEF Next, ProcessNext

(***************************************************************************)
(* The types hold when the manager is made.                                *)
(***************************************************************************)
LEMMA TypeInit == Init => TypeOK /\ OpOK
<1> SUFFICES ASSUME Init PROVE TypeOK /\ OpOK  OBVIOUS
<1>1. instances \in [Country -> Inst \cup {None}] /\ allInstances \subseteq Inst
  BY OriginalType, ManagerAssumption DEF Init
<1>2. inst \in [Inst -> Instance]  BY FreshType DEF Init
<1>3. maxRunning \in Nat  BY ManagerAssumption DEF Init
<1>4. op \in Op /\ OpOK  BY IdleType DEF Init, OpOK, Idle
<1> QED  BY <1>1, <1>2, <1>3, <1>4 DEF Init, TypeOK

(***************************************************************************)
(* The manager's state is well formed in every behaviour, for any number   *)
(* of countries, nodes, switches, launches and requests, and what the      *)
(* holder of startMu works on exists.                                      *)
(***************************************************************************)
THEOREM TypeCorrect == Spec => [](TypeOK /\ OpOK)
<1>1. Init => TypeOK /\ OpOK  BY TypeInit
<1>2. TypeOK /\ OpOK /\ [Next]_vars => (TypeOK /\ OpOK)'  BY TypeStep
<1> QED  BY <1>1, <1>2, PTL DEF Spec

(***************************************************************************)
(* Processes.  Every helper keeps cmd and launched except the two launches *)
(* and the exit, and none leaves an online status without a process.       *)
(***************************************************************************)
Sane(x) == x.status \in Counted => x.cmd # 0

Kept(x, y) == y.cmd = x.cmd /\ y.launched = x.launched /\ Sane(y)

(***************************************************************************)
(* stopInstance changes no process and leaves no online status without     *)
(* one.                                                                    *)
(***************************************************************************)
LEMMA StopInstanceKeeps == ASSUME NEW x \in Instance, Sane(x) PROVE Kept(x, StopInstance(x))
  BY DEF Instance, StopInstance, Sane, Kept, Counted

(***************************************************************************)
(* Neither does stop.                                                      *)
(***************************************************************************)
LEMMA StopRecordKeeps == ASSUME NEW x \in Instance, Sane(x) PROVE Kept(x, StopRecord(x))
  BY DEF Instance, StopRecord, Sane, Kept, Counted

(***************************************************************************)
(* Neither does restoreAfterReplacementLocked: it looks at cmd before it   *)
(* restores an online status.                                              *)
(***************************************************************************)
LEMMA RestoreRecordKeeps == ASSUME NEW x \in Instance, Sane(x) PROVE Kept(x, RestoreRecord(x))
<1>1. CASE Resumes(x)  BY <1>1 DEF Instance, RestoreRecord, Sane, Kept, Resumes
<1>2. CASE ~Resumes(x)
  <2>1. RestoredStatus(x) \notin Counted  BY <1>2 DEF RestoredStatus, Counted
  <2> QED  BY <2>1 DEF Instance, RestoreRecord, Sane, Kept
<1> QED  BY <1>1, <1>2

(***************************************************************************)
(* Neither does scheduling a restart.                                      *)
(***************************************************************************)
LEMMA ScheduledKeeps == ASSUME NEW x \in Instance, Sane(x) PROVE Kept(x, Scheduled(x))
  BY DEF Instance, Scheduled, Sane, Kept

(***************************************************************************)
(* A launched Instance has a process.                                      *)
(***************************************************************************)
LEMMA LaunchedSane == ASSUME NEW x \in Instance, NEW t \in Nat PROVE Sane(Launched(x, t))
  BY FieldTypes DEF Instance, Launched, Torrc, Sane

(***************************************************************************)
(* So has a launched replacement.                                          *)
(***************************************************************************)
LEMMA DetachedSane == ASSUME NEW x \in Instance, NEW t \in Nat PROVE Sane(Detached(x, t))
  BY FieldTypes DEF Instance, Detached, Torrc, Sane

(***************************************************************************)
(* An Instance whose process exited is not online.                         *)
(***************************************************************************)
LEMMA ExitedSane == ASSUME NEW x \in Instance PROVE Sane(Exited(x)) /\ Exited(x).cmd = 0
                                                    /\ Exited(x).launched = x.launched
  BY DEF Instance, Exited, Sane, Counted

(***************************************************************************)
(* Steady: the step neither launches nor ends a process.  Quiet: it        *)
(* launches none.                                                          *)
(***************************************************************************)
Steady == \A i \in Inst : Kept(inst[i], inst'[i])

Quiet == \A i \in Inst : /\ inst'[i].cmd # 0 => inst[i].cmd # 0
                         /\ inst'[i].launched = inst[i].launched

ProcessInv == CountedHasProcess /\ ProcessTracked

(***************************************************************************)
(* A step that changes no process keeps ProcessInv.                        *)
(***************************************************************************)
LEMMA SteadyStep ==
    ASSUME ProcessInv, Steady, allInstances \subseteq allInstances'
    PROVE  ProcessInv' /\ Quiet
  BY DEF ProcessInv, CountedHasProcess, ProcessTracked, Steady, Kept, Sane, Quiet

(***************************************************************************)
(* An update of one record that changes no process is steady.              *)
(***************************************************************************)
LEMMA UpdateSteady ==
    ASSUME TypeOK, CountedHasProcess, NEW i, NEW v, inst' = [inst EXCEPT ![i] = v],
           i \in Inst => Kept(inst[i], v)
    PROVE  Steady
  BY DEF TypeOK, CountedHasProcess, Steady, Kept, Sane

(***************************************************************************)
(* stop is steady: the process goes on until watch sees it exit.           *)
(***************************************************************************)
LEMMA StopCountrySteady ==
    ASSUME TypeOK, CountedHasProcess, NEW c \in Country, instances[c] \in Inst, StopCountry(c)
    PROVE  Steady
<1>1. \A j \in Inst : inst[j] \in Instance /\ Sane(inst[j])
  BY DEF TypeOK, CountedHasProcess, Sane
<1>2. \A j \in Inst : /\ Kept(inst[j], StopInstance(inst[j])) /\ Kept(inst[j], inst[j])
                      /\ Kept(inst[j], StopRecord(inst[j]))
  BY <1>1, StopInstanceKeeps, StopRecordKeeps DEF Kept
<1> QED  BY <1>2 DEF StopCountry, Steady

(***************************************************************************)
(* So is giving a replacement up.                                          *)
(***************************************************************************)
LEMMA GiveUpSteady ==
    ASSUME TypeOK, CountedHasProcess, NEW i \in Inst, NEW r \in Inst, GiveUp(i, r)
    PROVE  Steady
<1>1. \A j \in Inst : inst[j] \in Instance /\ Sane(inst[j])
  BY DEF TypeOK, CountedHasProcess, Sane
<1>2. \A j \in Inst : /\ Kept(inst[j], StopInstance(inst[j])) /\ Kept(inst[j], inst[j])
                      /\ Kept(inst[j], RestoreRecord(inst[j]))
  BY <1>1, StopInstanceKeeps, RestoreRecordKeeps DEF Kept
<1>3. RestoreRecord(inst[i]) \in Instance /\ Sane(RestoreRecord(inst[i]))
  BY <1>1, <1>2, RestoreRecordType DEF Kept
<1>4. Kept(RestoreRecord(inst[i]), StopInstance(RestoreRecord(inst[i])))
  BY <1>3, StopInstanceKeeps
<1>5. Kept(inst[i], StopInstance(RestoreRecord(inst[i])))  BY <1>2, <1>4 DEF Kept
<1> QED  BY <1>2, <1>5 DEF GiveUp, Steady, TypeOK

(***************************************************************************)
(* Every step keeps ProcessInv, and only StartLaunch and DetachStarts      *)
(* launch a process.                                                       *)
(***************************************************************************)
LEMMA ProcessStep ==
    ASSUME TypeOK, OpOK, ProcessInv, [Next]_vars
    PROVE  ProcessInv' /\ (op.at \in {"launch", "detach"} \/ ~shuttingDown \/ Quiet)
<1> USE DEF mgr, world
<1> DEFINE Goal == ProcessInv' /\ (op.at \in {"launch", "detach"} \/ ~shuttingDown \/ Quiet)
<1>0. \A i \in Inst : inst[i] \in Instance /\ Sane(inst[i]) /\ Kept(inst[i], inst[i])
  BY DEF TypeOK, ProcessInv, CountedHasProcess, Sane, Kept
<1>1. CountedHasProcess  BY DEF ProcessInv
<1>2. ASSUME inst' = inst, allInstances \subseteq allInstances' PROVE Goal
  BY <1>0, <1>2, SteadyStep DEF Steady
<1>3. ASSUME Steady, allInstances' = allInstances PROVE Goal  BY <1>3, SteadyStep
<1>4. \A t \in tasks : t.i \in Inst  BY DEF TypeOK, Task
<1>5. \A call \in calls : call.i \in Inst  BY DEF TypeOK, Call
<1>6. \A s \in switches : s.cur \in Inst /\ s.rep \in Inst  BY DEF TypeOK, Switch
<1>a1. ASSUME NEW c \in Country, NEW act \in BOOLEAN, Start(c, act) PROVE Goal
  BY <1>2, <1>a1 DEF Start, StartEnter
<1>a2. ASSUME NEW c \in Country, NEW node \in Node, NEW act \in BOOLEAN, StartNode(c, node, act)
       PROVE  Goal
  <2>1. inst' = inst /\ allInstances \subseteq allInstances'  BY <1>a2 DEF StartNode
  <2> QED  BY <1>2, <2>1
<1>a3. ASSUME NEW c \in Country, Stop(c) PROVE Goal
  <2>1. instances[c] \in Inst  BY <1>a3 DEF Stop, TypeOK
  <2> QED  BY <1>1, <1>3, <1>a3, <2>1, StopCountrySteady DEF Stop
<1>a4. ASSUME NEW c \in Country, CancelReplacement(c) PROVE Goal
  <2>1. instances[c] \in Inst  BY <1>a4 DEF CancelReplacement, TypeOK
  <2>2. inst[instances[c]].pending \in Inst
    BY <1>0, <1>a4, <2>1, FieldTypes DEF CancelReplacement
  <2> QED  BY <1>1, <1>3, <1>a4, <2>1, <2>2, GiveUpSteady DEF CancelReplacement
<1>a5. ASSUME NEW c \in Country, UpstreamRetry(c) PROVE Goal
  <2> DEFINE i == instances[c]
  <2>1. i \in Inst /\ inst[i].cmd # 0  BY <1>a5 DEF UpstreamRetry, TypeOK
  <2>2. Kept(inst[i], [inst[i] EXCEPT !.status = "connecting"])
    BY <1>0, <2>1 DEF Kept, Sane, Instance
  <2>3. inst' = [inst EXCEPT ![i] = [inst[i] EXCEPT !.status = "connecting"]]
    BY <1>a5, <2>1 DEF UpstreamRetry
  <2>4. Steady  BY <1>1, <2>2, <2>3, UpdateSteady
  <2> QED  BY <1>3, <1>a5, <2>4 DEF UpstreamRetry
<1>a6. ASSUME NEW limit \in Limits, UpdateMaxRunning(limit) PROVE Goal
  BY <1>2, <1>a6 DEF UpdateMaxRunning
<1>a7. CASE ShutdownBegin  BY <1>2, <1>a7 DEF ShutdownBegin
<1>b1. CASE Evict
  <2>1. PICK d \in op.todo : StopCountry(d)  BY <1>b1 DEF Evict
  <2>2. d \in Country /\ instances[d] \in Inst  BY DEF OpOK, TypeOK, Op
  <2> QED  BY <1>1, <1>3, <1>b1, <2>1, <2>2, StopCountrySteady DEF Evict
<1>b2. CASE StartAlready  BY <1>2, <1>b2 DEF StartAlready
<1>b3. CASE StartBusy  BY <1>2, <1>b3 DEF StartBusy
<1>b4. CASE StartError
  <2> DEFINE i == instances[op.c]
  <2>1. i \in Inst /\ CanLaunch(i)  BY <1>b4 DEF StartError, OpOK
  <2>2. PICK s \in {inst[i].status, "error"} : inst' = [inst EXCEPT ![i].status = s]
    BY <1>b4 DEF StartError
  <2>3. Kept(inst[i], [inst[i] EXCEPT !.status = s])
    BY <1>0, <2>1 DEF Kept, Sane, Instance, CanLaunch, Counted
  <2>4. inst' = [inst EXCEPT ![i] = [inst[i] EXCEPT !.status = s]]  BY <2>2
  <2>5. Steady  BY <1>1, <2>3, <2>4, UpdateSteady
  <2> QED  BY <1>3, <1>b4, <2>5 DEF StartError
<1>b5. CASE StartLaunch
  <2> DEFINE i == instances[op.c]
  <2>1. i \in Inst /\ clock \in Nat  BY <1>b5 DEF StartLaunch, OpOK, TypeOK
  <2>2. inst' = [inst EXCEPT ![i] = Launched(inst[i], clock)] /\ allInstances' = allInstances \cup {i}
    BY <1>b5 DEF StartLaunch
  <2>3. Sane(Launched(inst[i], clock))  BY <1>0, <2>1, LaunchedSane
  <2>4. ProcessInv'
    BY <2>1, <2>2, <2>3 DEF ProcessInv, CountedHasProcess, ProcessTracked, Sane, TypeOK
  <2> QED  BY <1>b5, <2>4 DEF StartLaunch
<1>b6. CASE TrimOne
  <2>1. PICK d \in op.todo : StopCountry(d)  BY <1>b6 DEF TrimOne
  <2>2. d \in Country /\ instances[d] \in Inst  BY DEF OpOK, TypeOK, Op
  <2> QED  BY <1>1, <1>3, <1>b6, <2>1, <2>2, StopCountrySteady DEF TrimOne
<1>b7. CASE TrimDone  BY <1>2, <1>b7 DEF TrimDone
<1>b8. CASE DetachStarts
  <2>1. op.rep \in Inst /\ clock \in Nat  BY <1>b8 DEF DetachStarts, OpOK, TypeOK
  <2>2. /\ inst' = [inst EXCEPT ![op.rep] = Detached(inst[op.rep], clock)]
        /\ allInstances' = allInstances \cup {op.rep}
    BY <1>b8 DEF DetachStarts
  <2>3. Sane(Detached(inst[op.rep], clock))  BY <1>0, <2>1, DetachedSane
  <2>4. ProcessInv'
    BY <2>1, <2>2, <2>3 DEF ProcessInv, CountedHasProcess, ProcessTracked, Sane, TypeOK
  <2> QED  BY <1>b8, <2>4 DEF DetachStarts
<1>b9. CASE DetachFails
  <2>1. op.i \in Inst  BY <1>b9 DEF DetachFails, OpOK
  <2>2. Kept(inst[op.i], RestoreRecord(inst[op.i]))  BY <1>0, <2>1, RestoreRecordKeeps
  <2>3. CASE inst[op.i].pending = op.rep
    <3>1. inst' = [inst EXCEPT ![op.i] = RestoreRecord(inst[op.i])]
      BY <1>b9, <2>3 DEF DetachFails
    <3>2. Steady  BY <1>1, <2>2, <3>1, UpdateSteady
    <3> QED  BY <1>3, <1>b9, <3>2 DEF DetachFails
  <2>4. CASE inst[op.i].pending # op.rep  BY <1>2, <1>b9, <2>4 DEF DetachFails
  <2> QED  BY <2>3, <2>4
<1>c1. ASSUME NEW call \in calls, StartAssigned(call) PROVE Goal
  BY <1>2, <1>c1 DEF StartAssigned, StartEnter
<1>c2. ASSUME NEW call \in calls, StartRestart(call) PROVE Goal
  BY <1>2, <1>c2 DEF StartRestart, StartEnter
<1>c3. ASSUME NEW call \in calls, Activate(call) PROVE Goal  BY <1>2, <1>c3 DEF Activate
<1>c4. ASSUME NEW call \in calls, Adopt(call) PROVE Goal  BY <1>2, <1>c4 DEF Adopt
<1>c5. ASSUME NEW call \in calls, Assign(call) PROVE Goal
  <2>1. Kept(inst[call.i], [inst[call.i] EXCEPT !.fp = call.node])
    BY <1>0, <1>5 DEF Kept, Sane, Instance
  <2>2. inst' = [inst EXCEPT ![call.i] = [inst[call.i] EXCEPT !.fp = call.node]]
    BY <1>c5 DEF Assign
  <2>3. Steady  BY <1>1, <2>1, <2>2, UpdateSteady
  <2> QED  BY <1>3, <1>c5, <2>3 DEF Assign
<1>c6. ASSUME NEW call \in calls, ReplaceRefused(call) PROVE Goal
  BY <1>2, <1>c6 DEF ReplaceRefused
<1>c7. ASSUME NEW call \in calls, ReplaceBegin(call) PROVE Goal
  <2>1. PICK rep, port :
          inst' = [j \in Inst |-> IF j = call.i THEN SwitchingTo(inst[j], rep)
                                  ELSE IF j = rep THEN Fresh(call.node, port)
                                  ELSE IF j = inst[call.i].pending THEN StopInstance(inst[j])
                                  ELSE inst[j]]
    BY <1>c7 DEF ReplaceBegin, FreePorts
  <2>2. inst[call.i].cmd # 0 /\ ~shuttingDown /\ allInstances' = allInstances
    BY <1>c7 DEF ReplaceBegin, Replaceable
  <2>3. Kept(inst[call.i], SwitchingTo(inst[call.i], rep))
    BY <1>0, <1>5, <2>2 DEF Kept, Sane, SwitchingTo, Instance
  <2>4. Fresh(call.node, port).cmd = 0 /\ Sane(Fresh(call.node, port))
    BY DEF Fresh, Sane, Counted
  <2>5. \A j \in Inst : Kept(inst[j], StopInstance(inst[j]))  BY <1>0, StopInstanceKeeps
  <2>6. \A j \in Inst : Sane(inst'[j]) /\ (inst'[j].cmd # 0 => inst[j].cmd # 0)
    BY <1>0, <2>1, <2>3, <2>4, <2>5 DEF Kept
  <2> QED  BY <2>2, <2>6 DEF ProcessInv, CountedHasProcess, ProcessTracked, Sane
<1>7. ASSUME NEW i \in Inst, ScheduleRestart(i) PROVE Steady
  <2>1. inst' = [inst EXCEPT ![i] = Scheduled(inst[i])]  BY <1>7 DEF ScheduleRestart
  <2> QED  BY <1>0, <1>1, <2>1, ScheduledKeeps, UpdateSteady
<1>c8. ASSUME NEW call \in calls, RestartFailed(call) PROVE Goal
  BY <1>2, <1>3, <1>5, <1>7, <1>c8 DEF RestartFailed
<1>8. ASSUME NEW i \in Inst, inst' = [inst EXCEPT ![i] = StopInstance(inst[i])] PROVE Steady
  BY <1>0, <1>1, <1>8, StopInstanceKeeps, UpdateSteady
<1>c9. ASSUME NEW i \in Inst, ShutdownStops(i) PROVE Goal
  BY <1>3, <1>8, <1>c9 DEF ShutdownStops
<1>c10. CASE ShutdownReturns  BY <1>2, <1>c10 DEF ShutdownReturns
<1>c11. CASE ShutdownTimesOut  BY <1>2, <1>c11 DEF ShutdownTimesOut
<1>d1. ASSUME NEW s \in switches, SwitchPoll(s) PROVE Goal  BY <1>2, <1>d1 DEF SwitchPoll
<1>d2. ASSUME NEW s \in switches, SwitchCut(s) PROVE Goal
  <2> DEFINE v == [inst[s.cur] EXCEPT !.pending = None, !.prev = None, !.draining = TRUE,
                                      !.status = "draining"]
  <2>1. Kept(inst[s.cur], v)  BY <1>0, <1>6 DEF Kept, Sane, Instance, Counted
  <2>2. inst' = [inst EXCEPT ![s.cur] = v]  BY <1>d2 DEF SwitchCut
  <2>3. Steady  BY <1>1, <2>1, <2>2, UpdateSteady
  <2> QED  BY <1>3, <1>d2, <2>3 DEF SwitchCut
<1>d3. ASSUME NEW s \in switches, SwitchRemember(s) PROVE Goal  BY <1>2, <1>d3 DEF SwitchRemember
<1>d4. ASSUME NEW s \in switches, SwitchUnwanted(s) PROVE Goal
  BY <1>3, <1>6, <1>8, <1>d4 DEF SwitchUnwanted
<1>d5. ASSUME NEW s \in switches, SwitchGivesUp(s) PROVE Goal
  BY <1>1, <1>3, <1>6, <1>d5, GiveUpSteady DEF SwitchGivesUp
<1>e1. ASSUME NEW t \in tasks, Drained(t) PROVE Goal  BY <1>3, <1>4, <1>8, <1>e1 DEF Drained
<1>e2. ASSUME NEW t \in tasks, WatchClean(t) PROVE Goal  BY <1>2, <1>e2 DEF WatchClean
<1>e3. ASSUME NEW t \in tasks, WatchSettle(t) PROVE Goal
  BY <1>2, <1>3, <1>4, <1>7, <1>e3 DEF WatchSettle
<1>e4. ASSUME NEW t \in tasks, TimerFires(t) PROVE Goal
  <2>1. Kept(inst[t.i], [inst[t.i] EXCEPT !.scheduled = FALSE])
    BY <1>0, <1>4 DEF Kept, Sane, Instance
  <2>2. \/ inst' = inst
        \/ inst' = [inst EXCEPT ![t.i] = [inst[t.i] EXCEPT !.scheduled = FALSE]]
    BY <1>e4 DEF TimerFires
  <2>3. Steady  BY <1>0, <1>1, <2>1, <2>2, UpdateSteady DEF Steady
  <2> QED  BY <1>3, <1>e4, <2>3 DEF TimerFires
<1>e5. ASSUME NEW t \in tasks, PortOpens(t) PROVE Goal
  <2>1. inst[t.i].status = "starting"  BY <1>e5 DEF PortOpens, Waits
  <2>2. Kept(inst[t.i], [inst[t.i] EXCEPT !.status = "connecting"])
    BY <1>0, <1>4, <2>1 DEF Kept, Sane, Instance, Counted
  <2>3. inst' = [inst EXCEPT ![t.i] = [inst[t.i] EXCEPT !.status = "connecting"]]
    BY <1>e5 DEF PortOpens
  <2>4. Steady  BY <1>1, <2>2, <2>3, UpdateSteady
  <2> QED  BY <1>3, <1>e5, <2>4 DEF PortOpens
<1>e6. ASSUME NEW t \in tasks, ExitVerified(t) PROVE Goal
  <2> DEFINE v == [inst[t.i] EXCEPT !.status = "running", !.exitIP = TRUE, !.attempts = 0,
                                    !.scheduled = FALSE]
  <2>1. inst[t.i].status = "connecting"  BY <1>e6 DEF ExitVerified, Waits
  <2>2. Kept(inst[t.i], v)  BY <1>0, <1>4, <2>1 DEF Kept, Sane, Instance, Counted
  <2>3. inst' = [inst EXCEPT ![t.i] = v]  BY <1>e6 DEF ExitVerified
  <2>4. Steady  BY <1>1, <2>2, <2>3, UpdateSteady
  <2> QED  BY <1>3, <1>e6, <2>4 DEF ExitVerified
<1>e7. ASSUME NEW t \in tasks, WaiterQuits(t) PROVE Goal  BY <1>2, <1>e7 DEF WaiterQuits
<1>e8. ASSUME NEW t \in tasks, WaiterFails(t) PROVE Goal
  <2>1. Kept(inst[t.i], FailInstance(inst[t.i]))
    BY <1>0, <1>4 DEF Kept, Sane, Instance, Counted, FailInstance
  <2>2. \/ inst' = inst
        \/ inst' = [inst EXCEPT ![t.i] = FailInstance(inst[t.i])]
    BY <1>e8 DEF WaiterFails
  <2>3. Steady  BY <1>0, <1>1, <2>1, <2>2, UpdateSteady DEF Steady
  <2> QED  BY <1>3, <1>e8, <2>3 DEF WaiterFails
<1>f1. ASSUME NEW i \in Inst, WatchExit(i) PROVE Goal
  <2>1. inst' = [inst EXCEPT ![i] = Exited(inst[i])] /\ allInstances' = allInstances \ {i}
    BY <1>f1 DEF WatchExit
  <2>2. Sane(Exited(inst[i])) /\ Exited(inst[i]).cmd = 0 /\ Exited(inst[i]).launched = inst[i].launched
    BY <1>0, ExitedSane
  <2> QED
    BY <2>1, <2>2 DEF ProcessInv, CountedHasProcess, ProcessTracked, Sane, Quiet, TypeOK
<1>g1. CASE UNCHANGED vars  BY <1>2, <1>g1 DEF vars
<1>h1. ASSUME ClientNext PROVE Goal
  BY <1>h1, <1>a1, <1>a2, <1>a3, <1>a4, <1>a5, <1>a6, <1>a7 DEF ClientNext
<1>h2. ASSUME HandlerNext PROVE Goal
  BY <1>h2, <1>b1, <1>b2, <1>b3, <1>b4, <1>b5, <1>b6, <1>b7, <1>b8, <1>b9, <1>c1, <1>c2, <1>c3,
     <1>c4, <1>c5, <1>c6, <1>c7, <1>c8, <1>c9, <1>c10, <1>c11 DEF HandlerNext
<1>h3. ASSUME BackgroundNext PROVE Goal
  BY <1>h3, <1>d1, <1>d2, <1>d3, <1>d4, <1>d5, <1>e1, <1>e2, <1>e3, <1>e4, <1>e5, <1>e6, <1>e7,
     <1>e8 DEF BackgroundNext
<1> QED  BY <1>f1, <1>g1, <1>h1, <1>h2, <1>h3 DEF Next, ProcessNext

(***************************************************************************)
(* Shutdown.  The flag is set while nobody holds startMu, and whoever      *)
(* takes startMu to launch a process looks at it first.                    *)
(***************************************************************************)
Launching(o) == o.at \in {"evict", "launch", "detach"}

ShutdownInv ==
    /\ Launching(op) => ~shuttingDown
    /\ shutdown # "no" => shuttingDown
    /\ ShutdownLeavesNoProcess

\* A step that leaves the shutdown alone takes startMu to launch only when the
\* flag is down.
Ordinary ==
    /\ shuttingDown' = shuttingDown /\ shutdown' = shutdown
    /\ Launching(op') => Launching(op) \/ ~shuttingDown

(***************************************************************************)
(* Nobody holding startMu is nobody launching.                             *)
(***************************************************************************)
LEMMA IdleNotLaunching == ~Launching(Idle)  BY DEF Launching, Idle

(***************************************************************************)
(* Only a step taken while the flag is down takes startMu to launch a      *)
(* process.                                                                *)
(***************************************************************************)
LEMMA LockStep ==
    ASSUME TypeOK, [Next]_vars
    PROVE  ShutdownBegin \/ ShutdownReturns \/ ShutdownTimesOut \/ Ordinary
<1> USE DEF mgr
<1>1. ASSUME NEW c, NEW act, NEW by, NEW rest, StartEnter(c, act, by, rest) PROVE Ordinary
  BY <1>1 DEF StartEnter, Ordinary
<1>2. ASSUME op' = op, shuttingDown' = shuttingDown, shutdown' = shutdown PROVE Ordinary
  BY <1>2 DEF Ordinary
<1>3. ASSUME op' = Idle, shuttingDown' = shuttingDown, shutdown' = shutdown PROVE Ordinary
  BY <1>3, IdleNotLaunching DEF Ordinary
<1>4. ASSUME ClientNext, ~ShutdownBegin PROVE Ordinary
  <2>1. ASSUME NEW c \in Country, NEW act \in BOOLEAN, Start(c, act) PROVE Ordinary
    BY <1>1, <2>1 DEF Start
  <2>2. ASSUME NEW c \in Country, NEW node \in Node, NEW act \in BOOLEAN, StartNode(c, node, act)
        PROVE  Ordinary
    BY <1>2, <2>2 DEF StartNode
  <2>3. ASSUME NEW c \in Country, Stop(c) \/ CancelReplacement(c) \/ UpstreamRetry(c)
        PROVE  Ordinary
    BY <1>2, <2>3 DEF Stop, CancelReplacement, UpstreamRetry
  <2>4. ASSUME NEW limit \in Limits, UpdateMaxRunning(limit) PROVE Ordinary
    <3>1. op'.at = "trim"  BY <2>4 DEF UpdateMaxRunning, Idle
    <3> QED  BY <2>4, <3>1 DEF UpdateMaxRunning, Ordinary, Launching
  <2> QED  BY <1>4, <2>1, <2>2, <2>3, <2>4 DEF ClientNext
<1>5. ASSUME HandlerNext, ~ShutdownReturns, ~ShutdownTimesOut PROVE Ordinary
  <2>1. CASE Evict  BY <2>1 DEF Evict, Ordinary, Launching
  <2>2. CASE StartAlready \/ StartBusy \/ StartError \/ StartLaunch
    BY <1>3, <2>2 DEF StartAlready, StartBusy, StartError, StartLaunch, StartReturns, StartFails
  <2>3. CASE TrimOne
    <3>1. op'.at = "trim"  BY <2>3 DEF TrimOne, TypeOK, Op
    <3> QED  BY <2>3, <3>1 DEF TrimOne, Ordinary, Launching
  <2>4. CASE TrimDone \/ DetachStarts \/ DetachFails
    BY <1>3, <2>4 DEF TrimDone, DetachStarts, DetachFails
  <2>5. ASSUME NEW call \in calls, StartAssigned(call) \/ StartRestart(call) PROVE Ordinary
    BY <1>1, <2>5 DEF StartAssigned, StartRestart
  <2>6. ASSUME NEW call \in calls,
               \/ Activate(call) \/ Adopt(call) \/ Assign(call) \/ ReplaceRefused(call)
               \/ RestartFailed(call)
        PROVE  Ordinary
    BY <1>2, <2>6 DEF Activate, Adopt, Assign, ReplaceRefused, RestartFailed
  <2>7. ASSUME NEW call \in calls, ReplaceBegin(call) PROVE Ordinary
    BY <2>7 DEF ReplaceBegin, Ordinary
  <2>8. ASSUME NEW i \in Inst, ShutdownStops(i) PROVE Ordinary
    BY <1>2, <2>8 DEF ShutdownStops
  <2> QED  BY <1>5, <2>1, <2>2, <2>3, <2>4, <2>5, <2>6, <2>7, <2>8 DEF HandlerNext
<1>6. ASSUME BackgroundNext PROVE Ordinary
  <2>1. ASSUME NEW s \in switches, SwitchPoll(s) \/ SwitchCut(s) \/ SwitchRemember(s)
        PROVE  Ordinary
    BY <1>2, <2>1 DEF SwitchPoll, SwitchCut, SwitchRemember
  <2>2. ASSUME NEW s \in switches, SwitchUnwanted(s) \/ SwitchGivesUp(s) PROVE Ordinary
    BY <1>2, <2>2 DEF SwitchUnwanted, SwitchGivesUp
  <2>3. ASSUME NEW t \in tasks, Drained(t) \/ WatchClean(t) \/ WatchSettle(t) \/ TimerFires(t)
        PROVE  Ordinary
    BY <1>2, <2>3 DEF Drained, WatchClean, WatchSettle, TimerFires
  <2>4. ASSUME NEW t \in tasks,
               PortOpens(t) \/ ExitVerified(t) \/ WaiterQuits(t) \/ WaiterFails(t)
        PROVE  Ordinary
    BY <1>2, <2>4 DEF PortOpens, ExitVerified, WaiterQuits, WaiterFails
  <2> QED  BY <1>6, <2>1, <2>2, <2>3, <2>4 DEF BackgroundNext
<1>7. ASSUME ProcessNext PROVE Ordinary  BY <1>2, <1>7 DEF ProcessNext, WatchExit
<1>8. CASE UNCHANGED vars  BY <1>2, <1>8 DEF vars
<1> QED  BY <1>4, <1>5, <1>6, <1>7, <1>8 DEF Next

(***************************************************************************)
(* Every step keeps ShutdownInv.                                           *)
(***************************************************************************)
LEMMA ShutdownStep ==
    ASSUME TypeOK, OpOK, ProcessInv, ShutdownInv, [Next]_vars
    PROVE  ShutdownInv' /\ (shuttingDown => Quiet)
<1>1. shuttingDown => Quiet
  BY ProcessStep DEF ShutdownInv, Launching
<1>2. CASE ShutdownBegin
  <2>1. ~Launching(op')  BY <1>2, IdleNotLaunching DEF ShutdownBegin
  <2> QED  BY <1>1, <1>2, <2>1 DEF ShutdownBegin, ShutdownInv, ShutdownLeavesNoProcess
<1>3. CASE ShutdownReturns
  <2>1. \A i \in Inst : inst'[i].cmd = 0
    BY <1>3 DEF ShutdownReturns, ProcessInv, ProcessTracked
  <2> QED  BY <1>1, <1>3, <2>1 DEF ShutdownReturns, ShutdownInv, ShutdownLeavesNoProcess
<1>4. CASE ShutdownTimesOut
  BY <1>1, <1>4 DEF ShutdownTimesOut, ShutdownInv, ShutdownLeavesNoProcess
<1>5. CASE Ordinary
  BY <1>1, <1>5 DEF Ordinary, ShutdownInv, ShutdownLeavesNoProcess, Quiet
<1> QED  BY <1>2, <1>3, <1>4, <1>5, LockStep

IInv == TypeOK /\ OpOK /\ ProcessInv /\ ShutdownInv

(***************************************************************************)
(* A new manager has the inductive invariant.                              *)
(***************************************************************************)
LEMMA IInvInit == Init => IInv
<1> SUFFICES ASSUME Init PROVE IInv  OBVIOUS
<1>1. \A i \in Inst : inst[i].cmd = 0 /\ inst[i].status = "stopped"  BY DEF Init, Fresh
<1>2. ProcessInv  BY <1>1 DEF ProcessInv, CountedHasProcess, ProcessTracked, Counted
<1>3. ShutdownInv
  BY IdleNotLaunching DEF Init, ShutdownInv, ShutdownLeavesNoProcess
<1> QED  BY <1>2, <1>3, TypeInit DEF IInv

(***************************************************************************)
(* Every step keeps it.                                                    *)
(***************************************************************************)
LEMMA IInvStep == IInv /\ [Next]_vars => IInv'
  BY TypeStep, ProcessStep, ShutdownStep DEF IInv

(***************************************************************************)
(* It holds in every reachable state.                                      *)
(***************************************************************************)
LEMMA IInvAlways == Spec => []IInv
  BY IInvInit, IInvStep, PTL DEF Spec

(***************************************************************************)
(* In every behaviour, whatever is counted as online or handed a           *)
(* connection has a Tor process.                                           *)
(***************************************************************************)
THEOREM OnlineHasProcess == Spec => []CountedHasProcess
<1>1. IInv => CountedHasProcess  BY DEF IInv, ProcessInv
<1> QED  BY <1>1, IInvAlways, PTL

(***************************************************************************)
(* When Shutdown returns nil no Tor process is left, however many switches *)
(* and restarts were under way.                                            *)
(***************************************************************************)
THEOREM ShutdownComplete == Spec => []ShutdownLeavesNoProcess
<1>1. IInv => ShutdownLeavesNoProcess  BY DEF IInv, ShutdownInv
<1> QED  BY <1>1, IInvAlways, PTL

(***************************************************************************)
(* Once shuttingDown is set no behaviour launches a Tor process any more.  *)
(***************************************************************************)
THEOREM ShutdownIsFinal == Spec => NoLaunchAfterShutdown
<1>1. IInv /\ [Next]_vars
        => [shuttingDown => \A i \in Inst : inst'[i].launched = inst[i].launched]_vars
  BY ShutdownStep DEF IInv, Quiet
<1> QED  BY <1>1, IInvAlways, PTL DEF Spec, NoLaunchAfterShutdown

----------------------------------------------------------------------------
(* The inductive invariant of the switches. *)

\* A replacement that replaceNode has not made yet.
Unborn(i) == i # Original(Home(i)) /\ inst[i].port = None

\* A replacement that its country has not been moved to yet.
NotYet(r) == instances[Home(r)] # r /\ r # Original(Home(r))

\* An Instance never leaves its country.
Named ==
    /\ \A c \in Country : instances[c] # None => Home(instances[c]) = c
    /\ op.at = "detach" => Home(op.rep) = Home(op.i)
    /\ \A s \in switches : Home(s.rep) = Home(s.cur)

\* What replaceNode has not made yet has no state and nobody knows it.
Born ==
    /\ \A i \in Inst : Unborn(i) =>
          /\ inst[i].cmd = 0 /\ inst[i].pending = None
          /\ ~inst[i].stopping /\ ~inst[i].draining /\ ~inst[i].exitIP
    /\ \A c \in Country : instances[c] # None => ~Unborn(instances[c])
    /\ op.at = "detach" => ~Unborn(op.rep)
    /\ \A s \in switches : ~Unborn(s.rep)

\* A replacement belongs to one replaceNode or to one completeReplacement,
\* and is not its country's Instance before the cutover.
Fledgling ==
    /\ op.at = "detach" =>
          /\ NotYet(op.rep) /\ inst[op.rep].cmd = 0 /\ inst[op.rep].launched = 0
          /\ ~inst[op.rep].exitIP /\ ~inst[op.rep].draining
          /\ \A s \in switches : s.rep # op.rep
    /\ \A s, u \in switches : s.rep = u.rep => s = u
    /\ \A s \in switches : s.at # "remember" => NotYet(s.rep)

\* The poll, made before the write lock is taken, stays good enough for the
\* cutover: a replacement keeps the exit address it once had.
Verified ==
    \A s \in switches : s.at # "remember" =>
        /\ inst[s.rep].status = "running" => inst[s.rep].exitIP
        /\ s.at = "cut" => inst[s.rep].exitIP

\* A process is told to end only on an Instance that drains.
DrainInv ==
    /\ \A i \in Inst : inst[i].stopping => inst[i].draining /\ inst[i].cmd # 0
    /\ \A t \in tasks : t.fn = "drain" => inst[t.i].draining
    /\ \A s \in switches : s.at = "remember" => inst[s.cur].draining

\* Neither side of a pending switch drains, unless Shutdown stopped it.
PendingClean ==
    \A i \in Inst : inst[i].pending # None =>
        \A x \in {i, inst[i].pending} :
            inst[x].draining => shutdown # "no" /\ (inst[x].cmd # 0 => inst[x].stopping)

\* The object of a country nobody asked for is untouched.
Unadopted ==
    \A c \in Country : instances[c] = None =>
        inst[Original(c)].cmd = 0 /\ ~inst[Original(c)].draining

SwitchInv ==
    /\ Named /\ Born /\ Fledgling /\ Verified /\ DrainInv /\ PendingClean /\ Unadopted
    /\ PendingOwned /\ NoOrphan

(***************************************************************************)
(* The Instance a pending replacement hangs on is its country's, the       *)
(* replacement is not, and no other Instance waits for it.                 *)
(***************************************************************************)
LEMMA PendingFacts ==
    ASSUME IInv, SwitchInv, NEW i \in Inst, inst[i].pending # None
    PROVE  LET r == inst[i].pending
           IN  /\ r \in Inst /\ r # i /\ NotYet(r) /\ Home(r) = Home(i) /\ ~Unborn(r)
               /\ instances[Home(i)] = i
               /\ \A k \in Inst : inst[k].pending = r => k = i
<1> DEFINE r == inst[i].pending
<1>1. r \in Inst  BY FieldTypes DEF IInv, TypeOK
<1>2. ASSUME NEW k \in Inst, inst[k].pending = r
      PROVE  /\ instances[Home(k)] = k
             /\ NotYet(r) /\ Home(r) = Home(k) /\ ~Unborn(r)
  <2>1. instances[Home(k)] = k  BY <1>2 DEF SwitchInv, PendingOwned
  <2>2. CASE op.at = "detach" /\ op.i = k /\ op.rep = r
    BY <2>1, <2>2 DEF SwitchInv, Named, Fledgling, Born
  <2>3. CASE \E s \in switches : s.at # "remember" /\ s.cur = k /\ s.rep = r
    BY <2>1, <2>3 DEF SwitchInv, Named, Fledgling, Born
  <2> QED  BY <1>2, <2>1, <2>2, <2>3 DEF SwitchInv, PendingOwned
<1>3. /\ instances[Home(i)] = i
      /\ NotYet(r) /\ Home(r) = Home(i) /\ ~Unborn(r)
  BY <1>2
<1>4. \A k \in Inst : inst[k].pending = r => k = i  BY <1>2, <1>3
<1> QED  BY <1>1, <1>3, <1>4 DEF NotYet

----------------------------------------------------------------------------
(* What the helpers do to the fields a switch depends on. *)

Same(x, y) ==
    /\ y.cmd = x.cmd /\ y.launched = x.launched /\ y.stopping = x.stopping
    /\ y.draining = x.draining /\ y.exitIP = x.exitIP /\ y.port = x.port
    /\ y.pending = x.pending
    /\ y.status = "running" => x.status = "running"
    /\ y.failed <=> x.failed \/ (y.failed /\ x.cmd # 0 /\ ~x.draining)

\* stopInstance: the process, if there is one, is told to end.
Halted(x, y) ==
    /\ y.cmd = x.cmd /\ y.launched = x.launched /\ y.exitIP = x.exitIP /\ y.port = x.port
    /\ y.pending = x.pending /\ y.failed = x.failed
    /\ y.stopping <=> x.cmd # 0
    /\ y.draining <=> x.draining \/ x.cmd # 0
    /\ y.status = "running" => x.status = "running"

\* stop: the process, if there is one, drains.
Withdrawn(x, y) ==
    /\ y.cmd = x.cmd /\ y.launched = x.launched /\ y.exitIP = x.exitIP /\ y.port = x.port
    /\ y.pending = None /\ y.stopping = x.stopping /\ y.failed = x.failed
    /\ y.draining <=> x.draining \/ x.cmd # 0

\* restoreAfterReplacementLocked.
Restored(x, y) ==
    /\ y.cmd = x.cmd /\ y.launched = x.launched /\ y.exitIP = x.exitIP /\ y.port = x.port
    /\ y.pending = None /\ y.stopping = x.stopping /\ y.draining = x.draining
    /\ y.failed = x.failed

(***************************************************************************)
(* stopInstance halts, given that what is stopping drains and has a        *)
(* process.                                                                *)
(***************************************************************************)
LEMMA StopInstanceHalts ==
    ASSUME NEW x \in Instance, x.stopping => x.draining /\ x.cmd # 0
    PROVE  Halted(x, StopInstance(x))
<1>1. CASE x.stopping  BY <1>1 DEF StopInstance, Halted
<1>2. CASE ~x.stopping /\ x.cmd = 0
  <2>1. StopInstance(x) = [x EXCEPT !.status = "stopped"]  BY <1>2 DEF StopInstance
  <2> QED  BY <1>2, <2>1 DEF Instance, Halted
<1>3. CASE ~x.stopping /\ x.cmd # 0
  <2>1. StopInstance(x) = [x EXCEPT !.stopping = TRUE, !.draining = TRUE, !.status = "stopping"]
    BY <1>3 DEF StopInstance
  <2> QED  BY <1>3, <2>1 DEF Instance, Halted
<1> QED  BY <1>1, <1>2, <1>3

(***************************************************************************)
(* stop withdraws.                                                         *)
(***************************************************************************)
LEMMA StopRecordWithdraws == ASSUME NEW x \in Instance PROVE Withdrawn(x, StopRecord(x))
<1> DEFINE y == [x EXCEPT !.pending = None, !.prev = None]
<1>0. /\ y \in Instance /\ y.pending = None
      /\ y.cmd = x.cmd /\ y.launched = x.launched /\ y.exitIP = x.exitIP /\ y.port = x.port
      /\ y.stopping = x.stopping /\ y.draining = x.draining /\ y.failed = x.failed
  BY DEF Instance
<1> HIDE DEF y
<1>1. CASE x.cmd = 0
  <2>1. StopRecord(x) = [y EXCEPT !.status = "stopped", !.scheduled = FALSE, !.attempts = 0]
    BY <1>1 DEF StopRecord, y
  <2> QED  BY <1>0, <1>1, <2>1 DEF Instance, Withdrawn
<1>2. CASE x.cmd # 0 /\ x.draining
  <2>1. StopRecord(x) = y  BY <1>2 DEF StopRecord, y
  <2> QED  BY <1>0, <1>2, <2>1 DEF Withdrawn
<1>3. CASE x.cmd # 0 /\ ~x.draining
  <2>1. StopRecord(x) = [y EXCEPT !.status = "draining", !.draining = TRUE,
                                  !.scheduled = FALSE, !.attempts = 0]
    BY <1>3 DEF StopRecord, y
  <2> QED  BY <1>0, <1>3, <2>1 DEF Instance, Withdrawn
<1> QED  BY <1>1, <1>2, <1>3

(***************************************************************************)
(* restoreAfterReplacementLocked restores.                                 *)
(***************************************************************************)
LEMMA RestoreRestores == ASSUME NEW x \in Instance PROVE Restored(x, RestoreRecord(x))
  BY DEF Instance, RestoreRecord, Restored

----------------------------------------------------------------------------
(* The two kinds of steps. *)

SameDetach == op' = op \/ (op.at # "detach" /\ op'.at # "detach")

SameDrains == \A t : t.fn = "drain" => (t \in tasks <=> t \in tasks')

\* The step leaves every switch, and what it depends on, alone.
Still ==
    /\ instances' = instances /\ switches' = switches
    /\ SameDetach /\ SameDrains
    /\ \A i \in Inst : Same(inst[i], inst'[i])
    /\ shutdown # "no" => shutdown' # "no"

\* The handlers that touch a switch, a process or a drain.
Moves ==
    \/ \E c \in Country, node \in Node, act \in BOOLEAN :
          instances[c] = None /\ StartNode(c, node, act)
    \/ \E c \in Country : Stop(c) \/ CancelReplacement(c)
    \/ Evict \/ TrimOne \/ StartLaunch \/ DetachStarts \/ DetachFails
    \/ \E call \in calls : ReplaceBegin(call)
    \/ \E i \in Inst : ShutdownStops(i) \/ WatchExit(i)
    \/ \E s \in switches :
          SwitchPoll(s) \/ SwitchCut(s) \/ SwitchRemember(s) \/ SwitchUnwanted(s) \/ SwitchGivesUp(s)
    \/ \E t \in tasks : Drained(t) \/ ExitVerified(t)

(***************************************************************************)
(* Every other handler leaves the switches alone.                          *)
(***************************************************************************)
LEMMA StillOrMoves == ASSUME IInv, [Next]_vars PROVE Still \/ Moves
<1> USE DEF mgr, world
<1>0. \A i \in Inst : inst[i] \in Instance /\ Same(inst[i], inst[i])  BY DEF IInv, TypeOK, Same
<1>1. ASSUME instances' = instances, switches' = switches, SameDetach, tasks' = tasks, inst' = inst,
             shutdown' = shutdown \/ shutdown' # "no"
      PROVE  Still
  BY <1>0, <1>1 DEF Still, SameDrains
<1>2. ASSUME NEW i \in Inst, NEW v, inst' = [inst EXCEPT ![i] = v], Same(inst[i], v)
      PROVE  \A j \in Inst : Same(inst[j], inst'[j])
  BY <1>0, <1>2 DEF IInv, TypeOK
<1>3. \A t \in tasks : t.i \in Inst /\ t \in Task  BY DEF IInv, TypeOK, Task
<1>4. \A call \in calls : call.i \in Inst  BY DEF IInv, TypeOK, Call
<1>5. ASSUME NEW c, NEW act, NEW by, NEW rest, StartEnter(c, act, by, rest) PROVE Still
  <2>1. SameDetach  BY <1>5 DEF StartEnter, Idle, SameDetach
  <2> QED  BY <1>1, <1>5, <2>1 DEF StartEnter
<1>6. ASSUME op' = op PROVE SameDetach  BY <1>6 DEF SameDetach
<1>7. ASSUME op.at # "detach", op' = Idle PROVE SameDetach  BY <1>7 DEF SameDetach, Idle
<1>8. ASSUME NEW i \in Inst, NEW st, inst' = [inst EXCEPT ![i].status = st], st # "running"
      PROVE  \A j \in Inst : Same(inst[j], inst'[j])
  <2>1. inst' = [inst EXCEPT ![i] = [inst[i] EXCEPT !.status = st]]  BY <1>8
  <2>2. Same(inst[i], [inst[i] EXCEPT !.status = st])  BY <1>0, <1>8 DEF Same, Instance
  <2> QED  BY <1>2, <2>1, <2>2
<1>9. ASSUME NEW i \in Inst, ScheduleRestart(i)
      PROVE  /\ \A j \in Inst : Same(inst[j], inst'[j])
             /\ GoTask("timer", i, inst[i].attempts + 1, None).fn = "timer"
  <2>1. inst' = [inst EXCEPT ![i] = Scheduled(inst[i])]  BY <1>9 DEF ScheduleRestart
  <2>2. Same(inst[i], Scheduled(inst[i]))  BY <1>0 DEF Same, Scheduled, Instance
  <2> QED  BY <1>2, <2>1, <2>2 DEF GoTask
<1>a1. ASSUME NEW c \in Country, NEW act \in BOOLEAN, Start(c, act) PROVE Still
  BY <1>5, <1>a1 DEF Start
<1>a2. ASSUME NEW c \in Country, NEW node \in Node, NEW act \in BOOLEAN, StartNode(c, node, act)
       PROVE  Still \/ Moves
  <2>1. CASE instances[c] = None  BY <1>a2, <2>1 DEF Moves
  <2>2. CASE instances[c] # None
    <3>1. instances' = [instances EXCEPT ![c] = instances[c]]  BY <1>a2, <2>2 DEF StartNode
    <3>2. instances' = instances  BY <3>1 DEF IInv, TypeOK
    <3>3. UNCHANGED <<inst, tasks, switches, op, shutdown>>  BY <1>a2 DEF StartNode
    <3> QED  BY <1>1, <1>6, <3>2, <3>3
  <2> QED  BY <2>1, <2>2
<1>a5. ASSUME NEW c \in Country, UpstreamRetry(c) PROVE Still
  <2> DEFINE i == instances[c]
  <2>1. i \in Inst  BY <1>a5 DEF UpstreamRetry, IInv, TypeOK
  <2>2. \A j \in Inst : Same(inst[j], inst'[j])  BY <1>8, <1>a5, <2>1 DEF UpstreamRetry
  <2>3. SameDrains  BY <1>a5 DEF UpstreamRetry, SameDrains, GoTask
  <2> QED  BY <1>6, <1>a5, <2>2, <2>3 DEF UpstreamRetry, Still
<1>a6. ASSUME NEW limit \in Limits, UpdateMaxRunning(limit) PROVE Still
  <2>1. op.at # "detach" /\ op'.at = "trim"  BY <1>a6 DEF UpdateMaxRunning, Idle
  <2> QED  BY <1>1, <1>a6, <2>1 DEF UpdateMaxRunning, SameDetach
<1>a7. CASE ShutdownBegin  BY <1>1, <1>6, <1>a7 DEF ShutdownBegin
<1>b2. CASE StartAlready  BY <1>1, <1>7, <1>b2 DEF StartAlready, StartReturns
<1>b3. CASE StartBusy  BY <1>1, <1>7, <1>b3 DEF StartBusy, StartFails
<1>b4. CASE StartError
  <2> DEFINE i == instances[op.c]
  <2>1. i \in Inst /\ CanLaunch(i)  BY <1>b4 DEF StartError, IInv, OpOK
  <2>2. PICK st \in {inst[i].status, "error"} : inst' = [inst EXCEPT ![i].status = st]
    BY <1>b4 DEF StartError
  <2>3. st # "running"  BY <2>1 DEF CanLaunch, Counted
  <2>4. \A j \in Inst : Same(inst[j], inst'[j])  BY <1>8, <2>1, <2>2, <2>3
  <2>5. SameDetach /\ SameDrains  BY <1>7, <1>b4 DEF StartError, StartFails, SameDrains
  <2> QED  BY <1>b4, <2>4, <2>5 DEF StartError, Still
<1>b7. CASE TrimDone  BY <1>1, <1>7, <1>b7 DEF TrimDone
<1>c1. ASSUME NEW call \in calls, StartAssigned(call) \/ StartRestart(call) PROVE Still
  BY <1>5, <1>c1 DEF StartAssigned, StartRestart
<1>c3. ASSUME NEW call \in calls, Activate(call) \/ Adopt(call) \/ ReplaceRefused(call) PROVE Still
  BY <1>1, <1>6, <1>c3 DEF Activate, Adopt, ReplaceRefused
<1>c5. ASSUME NEW call \in calls, Assign(call) PROVE Still
  <2>1. inst' = [inst EXCEPT ![call.i] = [inst[call.i] EXCEPT !.fp = call.node]]
    BY <1>c5 DEF Assign
  <2>2. Same(inst[call.i], [inst[call.i] EXCEPT !.fp = call.node])
    BY <1>0, <1>4 DEF Same, Instance
  <2>3. \A j \in Inst : Same(inst[j], inst'[j])  BY <1>2, <1>4, <2>1, <2>2
  <2> QED  BY <1>6, <1>c5, <2>3 DEF Assign, Still, SameDrains
<1>c8. ASSUME NEW call \in calls, RestartFailed(call) PROVE Still
  <2>1. CASE /\ ScheduleRestart(call.i)
             /\ tasks' = tasks \cup {GoTask("timer", call.i, inst[call.i].attempts + 1, None)}
    BY <1>4, <1>6, <1>9, <1>c8, <2>1 DEF RestartFailed, Still, SameDrains
  <2>2. CASE UNCHANGED <<inst, tasks>>
    BY <1>1, <1>6, <1>c8, <2>2 DEF RestartFailed
  <2> QED  BY <1>c8, <2>1, <2>2 DEF RestartFailed
<1>c10. CASE ShutdownReturns \/ ShutdownTimesOut
  BY <1>1, <1>6, <1>c10 DEF ShutdownReturns, ShutdownTimesOut
<1>e2. ASSUME NEW t \in tasks, WatchClean(t) PROVE Still
  <2>1. t.fn # "drain" /\ [t EXCEPT !.fn = "watchSettle"].fn # "drain"
    BY <1>3, <1>e2 DEF WatchClean, Task
  <2>2. SameDrains  BY <1>e2, <2>1 DEF WatchClean, SameDrains
  <2> QED  BY <1>0, <1>6, <1>e2, <2>2 DEF WatchClean, Still
<1>e3. ASSUME NEW t \in tasks, WatchSettle(t) PROVE Still
  <2>1. CASE /\ ScheduleRestart(t.i)
             /\ tasks' = (tasks \ {t}) \cup {GoTask("timer", t.i, inst[t.i].attempts + 1, None)}
    <3>1. SameDrains  BY <1>3, <1>9, <1>e3, <2>1 DEF WatchSettle, SameDrains
    <3> QED  BY <1>3, <1>6, <1>9, <1>e3, <2>1, <3>1 DEF WatchSettle, Still
  <2>2. CASE tasks' = tasks \ {t} /\ UNCHANGED inst
    BY <1>0, <1>6, <1>e3, <2>2 DEF WatchSettle, Still, SameDrains
  <2> QED  BY <1>e3, <2>1, <2>2 DEF WatchSettle
<1>e4. ASSUME NEW t \in tasks, TimerFires(t) PROVE Still
  <2>1. \/ inst' = inst
        \/ inst' = [inst EXCEPT ![t.i] = [inst[t.i] EXCEPT !.scheduled = FALSE]]
    BY <1>e4 DEF TimerFires
  <2>2. Same(inst[t.i], [inst[t.i] EXCEPT !.scheduled = FALSE])
    BY <1>0, <1>3 DEF Same, Instance
  <2>3. \A j \in Inst : Same(inst[j], inst'[j])  BY <1>0, <1>2, <1>3, <2>1, <2>2
  <2> QED  BY <1>6, <1>e4, <2>3 DEF TimerFires, Still, SameDrains
<1>e5. ASSUME NEW t \in tasks, PortOpens(t) PROVE Still
  <2>1. \A j \in Inst : Same(inst[j], inst'[j])  BY <1>3, <1>8, <1>e5 DEF PortOpens
  <2>2. t.fn # "drain" /\ [t EXCEPT !.fn = "awaitBootstrap"].fn # "drain"
    BY <1>3, <1>e5 DEF PortOpens, Task
  <2>3. SameDrains  BY <1>e5, <2>2 DEF PortOpens, SameDrains
  <2> QED  BY <1>6, <1>e5, <2>1, <2>3 DEF PortOpens, Still
<1>e7. ASSUME NEW t \in tasks, WaiterQuits(t) PROVE Still
  BY <1>0, <1>6, <1>e7 DEF WaiterQuits, Still, SameDrains
<1>e8. ASSUME NEW t \in tasks, WaiterFails(t) PROVE Still
  <2>1. \/ inst' = inst
        \/ /\ inst' = [inst EXCEPT ![t.i] = FailInstance(inst[t.i])]
           /\ inst[t.i].cmd # 0 /\ ~inst[t.i].draining
    BY <1>e8 DEF WaiterFails
  <2>s. inst[t.i].cmd # 0 /\ ~inst[t.i].draining => Same(inst[t.i], FailInstance(inst[t.i]))
    BY <1>0, <1>3 DEF Same, Instance, FailInstance
  <2>2. \A j \in Inst : Same(inst[j], inst'[j])  BY <1>0, <1>2, <1>3, <2>1, <2>s
  <2> QED  BY <1>6, <1>e8, <2>2 DEF WaiterFails, Still, SameDrains
<1>g1. CASE UNCHANGED vars  BY <1>1, <1>6, <1>g1 DEF vars
<1>h1. ASSUME ClientNext PROVE Still \/ Moves
  BY <1>h1, <1>a1, <1>a2, <1>a5, <1>a6, <1>a7 DEF ClientNext, Moves
<1>h2. ASSUME HandlerNext PROVE Still \/ Moves
  BY <1>h2, <1>b2, <1>b3, <1>b4, <1>b7, <1>c1, <1>c3, <1>c5, <1>c8, <1>c10 DEF HandlerNext, Moves
<1>h3. ASSUME BackgroundNext PROVE Still \/ Moves
  BY <1>h3, <1>e2, <1>e3, <1>e4, <1>e5, <1>e7, <1>e8 DEF BackgroundNext, Moves
<1> QED  BY <1>g1, <1>h1, <1>h2, <1>h3 DEF Next, ProcessNext, Moves

----------------------------------------------------------------------------
(* SwitchInv, for the steps that leave the switches alone and then for     *)
(* every handler in Moves.                                                 *)

(***************************************************************************)
(* The types the following proofs need.                                    *)
(***************************************************************************)
LEMMA SwitchTypes ==
    ASSUME IInv
    PROVE  /\ \A i \in Inst : /\ inst[i] \in Instance /\ Home(i) \in Country
                              /\ inst[i].pending \in Inst \cup {None}
           /\ \A c \in Country : /\ instances[c] \in Inst \cup {None} /\ Original(c) \in Inst
                                 /\ Home(Original(c)) = c
           /\ \A s \in switches : s.cur \in Inst /\ s.rep \in Inst
           /\ \A t \in tasks : t.i \in Inst
           /\ op.at = "detach" => op.i \in Inst /\ op.rep \in Inst
           /\ None \notin Inst
<1>1. \A i \in Inst : inst[i] \in Instance  BY DEF IInv, TypeOK
<1>2. \A i \in Inst : inst[i].pending \in Inst \cup {None}  BY <1>1, FieldTypes
<1>3. \A c \in Country : instances[c] \in Inst \cup {None}  BY DEF IInv, TypeOK
<1>4. \A s \in switches : s.cur \in Inst /\ s.rep \in Inst  BY DEF IInv, TypeOK, Switch
<1>5. \A t \in tasks : t.i \in Inst  BY DEF IInv, TypeOK, Task
<1> QED
  BY <1>1, <1>2, <1>3, <1>4, <1>5, HomeType, OriginalType, ManagerAssumption DEF IInv, OpOK

(***************************************************************************)
(* A step that leaves the switches alone keeps SwitchInv.                  *)
(***************************************************************************)
LEMMA StillKeeps == ASSUME IInv, SwitchInv, Still PROVE SwitchInv'
<1> USE SwitchTypes DEF SwitchInv, Still, SameDetach
<1>1. \A i \in Inst : Unborn(i)' <=> Unborn(i)  BY DEF Same, Unborn
<1>2. \A i \in Inst : NotYet(i)' <=> NotYet(i)  BY DEF NotYet
<1>3. Named'  BY DEF Named
<1>4. Born'  BY <1>1 DEF Born, Same
<1>5. Fledgling'  BY <1>2 DEF Fledgling, Same
<1>6. Verified'  BY DEF Verified, Same
<1>7. DrainInv'  BY DEF DrainInv, Same, SameDrains
<1>8. PendingClean'
  <2> SUFFICES ASSUME NEW i \in Inst, inst'[i].pending # None, NEW x \in {i, inst'[i].pending},
                      inst'[x].draining
               PROVE  shutdown' # "no" /\ (inst'[x].cmd # 0 => inst'[x].stopping)
    BY DEF PendingClean
  <2>1. inst[i].pending = inst'[i].pending /\ x \in Inst  BY DEF Same
  <2> QED  BY <2>1 DEF PendingClean, Same
<1>9. Unadopted'  BY DEF Unadopted, Same
<1>10. PendingOwned'  BY DEF PendingOwned, Same
<1>11. NoOrphan'  BY DEF NoOrphan, Same, SameDrains
<1> QED  BY <1>3, <1>4, <1>5, <1>6, <1>7, <1>8, <1>9, <1>10, <1>11

(***************************************************************************)
(* So does ensureCountry, which adopts an untouched Instance.              *)
(***************************************************************************)
LEMMA AdoptKeeps ==
    ASSUME IInv, SwitchInv, NEW c \in Country, NEW node, NEW act, instances[c] = None,
           StartNode(c, node, act)
    PROVE  SwitchInv'
<1> USE SwitchTypes DEF SwitchInv
<1>1. instances' = [instances EXCEPT ![c] = Original(c)]  BY DEF StartNode
<1>2. inst' = inst /\ tasks' = tasks /\ switches' = switches /\ op' = op /\ shutdown' = shutdown
  BY DEF StartNode, mgr
<1>3. instances'[c] = Original(c) /\ \A d \in Country : d # c => instances'[d] = instances[d]
  BY <1>1 DEF IInv, TypeOK
<1>4. \A i \in Inst : (Unborn(i)' <=> Unborn(i)) /\ (NotYet(i) => NotYet(i)')
  BY <1>2, <1>3 DEF Unborn, NotYet
<1>5. ~Unborn(Original(c))  BY DEF Unborn
<1>6. Named'  BY <1>2, <1>3 DEF Named
<1>7. Born'  BY <1>2, <1>3, <1>4, <1>5 DEF Born
<1>8. Fledgling'  BY <1>2, <1>4 DEF Fledgling
<1>9. Verified' /\ DrainInv' /\ PendingClean'  BY <1>2 DEF Verified, DrainInv, PendingClean
<1>10. Unadopted'  BY <1>2, <1>3 DEF Unadopted
<1>11. PendingOwned'  BY <1>2, <1>3 DEF PendingOwned
<1>12. NoOrphan'  BY <1>2, <1>3 DEF NoOrphan
<1> QED  BY <1>6, <1>7, <1>8, <1>9, <1>10, <1>11, <1>12

(***************************************************************************)
(* So does stop: the replacement it takes along is nobody else's.          *)
(***************************************************************************)
LEMMA StopEffect ==
    ASSUME IInv, SwitchInv, NEW c \in Country, instances[c] \in Inst, StopCountry(c)
    PROVE  /\ Withdrawn(inst[instances[c]], inst'[instances[c]])
           /\ \A j \in Inst : j # instances[c] =>
                 IF j = inst[instances[c]].pending THEN Halted(inst[j], inst'[j])
                 ELSE inst'[j] = inst[j]
           /\ \A t \in tasks' : t \in tasks \/ (t.i = instances[c] /\ inst[instances[c]].cmd # 0)
           /\ tasks \subseteq tasks'
<1> DEFINE i == instances[c]
<1>1. \A j \in Inst : Halted(inst[j], StopInstance(inst[j]))
  BY StopInstanceHalts, SwitchTypes DEF SwitchInv, DrainInv
<1>2. Withdrawn(inst[i], StopRecord(inst[i]))  BY StopRecordWithdraws, SwitchTypes
<1>3. \A j \in Inst : inst'[j] = IF j = i THEN StopRecord(inst[i])
                                 ELSE IF j = inst[i].pending THEN StopInstance(inst[j]) ELSE inst[j]
  BY DEF StopCountry
<1>4. tasks \subseteq tasks' /\ \A t \in tasks' : t \in tasks \/ (t.i = i /\ inst[i].cmd # 0)
  BY DEF StopCountry, GoTask
<1> QED  BY <1>1, <1>2, <1>3, <1>4

(***************************************************************************)
(* The step of whoever calls it.                                           *)
(***************************************************************************)
LEMMA StopKeeps ==
    ASSUME IInv, SwitchInv, NEW c \in Country, instances[c] \in Inst, StopCountry(c),
           op.at # "detach", op'.at # "detach",
           instances' = instances, switches' = switches, shutdown' = shutdown
    PROVE  SwitchInv'
<1> DEFINE i == instances[c]
           r == inst[i].pending
<1> USE SwitchTypes DEF SwitchInv
<1>1. Home(i) = c  BY DEF Named
<1>2. Withdrawn(inst[i], inst'[i])  BY StopEffect
<1>3. \A j \in Inst : j # i => \/ j = r /\ Halted(inst[j], inst'[j])
                               \/ inst'[j] = inst[j]
  BY StopEffect
<1>4. \A t \in tasks' : t \in tasks \/ (t.i = i /\ inst[i].cmd # 0)  BY StopEffect
<1>5. tasks \subseteq tasks'  BY StopEffect
<1>6. r # None => /\ r \in Inst /\ r # i /\ NotYet(r)
                  /\ \A k \in Inst : inst[k].pending = r => k = i
  BY PendingFacts
<1>7. \A j \in Inst : /\ inst'[j].cmd = inst[j].cmd /\ inst'[j].launched = inst[j].launched
                      /\ inst'[j].exitIP = inst[j].exitIP /\ inst'[j].port = inst[j].port
                      /\ inst'[j].pending \in {inst[j].pending, None}
                      /\ inst[j].draining => inst'[j].draining
                      /\ inst'[j].draining => inst[j].draining \/ inst[j].cmd # 0
                      /\ inst[j].stopping => inst'[j].stopping
                      /\ inst'[j].stopping => inst'[j].draining /\ inst[j].cmd # 0
  BY <1>2, <1>3 DEF Withdrawn, Halted, DrainInv
<1> HIDE DEF i, r
<1>8. \A j \in Inst : (Unborn(j)' <=> Unborn(j)) /\ (NotYet(j)' <=> NotYet(j))
  BY <1>7 DEF Unborn, NotYet
<1>9. Named'  BY DEF Named
<1>10. Born'  BY <1>7, <1>8 DEF Born
<1>11. Fledgling'  BY <1>8 DEF Fledgling
<1>12. Verified'
  <2>1. \A s \in switches : s.at # "remember" => s.rep # i
    BY <1>1 DEF Fledgling, NotYet, i
  <2>2. \A j \in Inst : j # i => (inst'[j].status = "running" => inst[j].status = "running")
    BY <1>3 DEF Halted
  <2> QED  BY <1>7, <2>1, <2>2 DEF Verified
<1>13. DrainInv'
  <2>1. \A t \in tasks' : t.fn = "drain" => inst'[t.i].draining
    <3>1. inst[i].cmd # 0 => inst'[i].draining  BY <1>2 DEF Withdrawn
    <3> QED  BY <1>4, <1>7, <3>1 DEF DrainInv
  <2> QED  BY <1>7, <2>1 DEF DrainInv
<1>14. PendingClean'
  <2> SUFFICES ASSUME NEW k \in Inst, inst'[k].pending # None, NEW x \in {k, inst'[k].pending},
                      inst'[x].draining
               PROVE  shutdown' # "no" /\ (inst'[x].cmd # 0 => inst'[x].stopping)
    BY DEF PendingClean
  <2>1. inst'[i].pending = None  BY <1>2 DEF Withdrawn
  <2>2. k # i /\ inst'[k].pending = inst[k].pending  BY <1>7, <2>1
  <2>3. instances[Home(k)] = k /\ NotYet(inst[k].pending) /\ inst[k].pending # r
        /\ inst[k].pending \in Inst
    BY <1>6, <2>2, PendingFacts
  <2>4. x # i /\ x # r /\ x \in Inst
    BY <1>1, <1>6, <2>2, <2>3 DEF NotYet, i
  <2>5. inst'[x] = inst[x]  BY <1>3, <2>4
  <2> QED  BY <2>2, <2>5 DEF PendingClean
<1>15. Unadopted'  BY <1>7 DEF Unadopted
<1>16. PendingOwned'  BY <1>7 DEF PendingOwned
<1>17. NoOrphan'  BY <1>5, <1>7 DEF NoOrphan
<1> QED  BY <1>9, <1>10, <1>11, <1>12, <1>13, <1>14, <1>15, <1>16, <1>17

(***************************************************************************)
(* What giving a pending replacement up does to the two Instances.         *)
(***************************************************************************)
LEMMA GiveUpEffect ==
    ASSUME IInv, SwitchInv, NEW i \in Inst, inst[i].pending # None, GiveUp(i, inst[i].pending)
    PROVE  /\ Restored(inst[i], inst'[i])
           /\ Halted(inst[inst[i].pending], inst'[inst[i].pending])
           /\ \A j \in Inst : j # i /\ j # inst[i].pending => inst'[j] = inst[j]
           /\ \A t : t.fn = "drain" => (t \in tasks' <=> t \in tasks)
<1> DEFINE r == inst[i].pending
<1>1. r \in Inst /\ r # i  BY PendingFacts
<1>2. inst' = [inst EXCEPT ![i] = RestoreRecord(inst[i]), ![r] = StopInstance(inst[r])]
  BY <1>1 DEF GiveUp, IInv, TypeOK
<1>3. inst'[i] = RestoreRecord(inst[i]) /\ inst'[r] = StopInstance(inst[r])
  BY <1>1, <1>2 DEF IInv, TypeOK
<1>4. Halted(inst[r], StopInstance(inst[r]))
  BY <1>1, StopInstanceHalts, SwitchTypes DEF SwitchInv, DrainInv
<1>5. Restored(inst[i], RestoreRecord(inst[i]))  BY RestoreRestores, SwitchTypes
<1>6. \A j \in Inst : j # i /\ j # r => inst'[j] = inst[j]  BY <1>1, <1>2 DEF IInv, TypeOK
<1>7. \A t \in ResumeTasks(i, r) : t.fn # "drain"  BY DEF ResumeTasks, GoTask
<1>8. \A t : t.fn = "drain" => (t \in tasks' <=> t \in tasks)  BY <1>7 DEF GiveUp
<1> QED  BY <1>3, <1>4, <1>5, <1>6, <1>8

(***************************************************************************)
(* Giving a replacement up, by CancelReplacement or by the goroutine that  *)
(* waited for it, keeps SwitchInv.                                         *)
(***************************************************************************)
LEMMA GiveUpKeeps ==
    ASSUME IInv, SwitchInv, NEW i \in Inst, inst[i].pending # None, GiveUp(i, inst[i].pending),
           switches' \subseteq switches,
           \A s \in switches \ switches' :
               s.at # "remember" /\ s.cur = i /\ s.rep = inst[i].pending,
           op' = op, instances' = instances, shutdown' = shutdown
    PROVE  SwitchInv'
<1>r. PICK r : r = inst[i].pending  OBVIOUS
<1> USE SwitchTypes DEF SwitchInv
<1>1. /\ r \in Inst /\ r # i /\ NotYet(r) /\ instances[Home(i)] = i
      /\ \A k \in Inst : inst[k].pending = r => k = i
  BY <1>r, PendingFacts
<1>2. Restored(inst[i], inst'[i])  BY GiveUpEffect
<1>3. Halted(inst[r], inst'[r])  BY <1>r, GiveUpEffect
<1>4. \A j \in Inst : j # i /\ j # r => inst'[j] = inst[j]  BY <1>r, GiveUpEffect
<1>5. \A t : t.fn = "drain" => (t \in tasks' <=> t \in tasks)  BY GiveUpEffect
<1>6. \A s \in switches \ switches' : s.at # "remember" /\ s.cur = i /\ s.rep = r  BY <1>r
<1>7. \A j \in Inst : /\ inst'[j].cmd = inst[j].cmd /\ inst'[j].launched = inst[j].launched
                      /\ inst'[j].exitIP = inst[j].exitIP /\ inst'[j].port = inst[j].port
                      /\ inst'[j].pending \in {inst[j].pending, None}
                      /\ inst[j].draining => inst'[j].draining
                      /\ inst'[j].draining => inst[j].draining \/ inst[j].cmd # 0
                      /\ inst[j].stopping => inst'[j].stopping
                      /\ inst'[j].stopping => inst'[j].draining /\ inst[j].cmd # 0
  BY <1>2, <1>3, <1>4 DEF Restored, Halted, DrainInv
<1>8. \A j \in Inst : (Unborn(j)' <=> Unborn(j)) /\ (NotYet(j)' <=> NotYet(j))
  BY <1>7 DEF Unborn, NotYet
<1>9. Named'  BY DEF Named
<1>10. Born'  BY <1>7, <1>8 DEF Born
<1>11. Fledgling'  BY <1>7, <1>8 DEF Fledgling
<1>12. Verified'
  <2>1. \A s \in switches : s.at # "remember" => s.rep # i  BY <1>1 DEF Fledgling, NotYet
  <2>2. \A j \in Inst : j # i => (inst'[j].status = "running" => inst[j].status = "running")
    BY <1>3, <1>4 DEF Halted
  <2> QED  BY <1>7, <2>1, <2>2 DEF Verified
<1>13. DrainInv'  BY <1>5, <1>7 DEF DrainInv
<1>14. PendingClean'
  <2> SUFFICES ASSUME NEW k \in Inst, inst'[k].pending # None, NEW x \in {k, inst'[k].pending},
                      inst'[x].draining
               PROVE  shutdown' # "no" /\ (inst'[x].cmd # 0 => inst'[x].stopping)
    BY DEF PendingClean
  <2>1. inst'[i].pending = None  BY <1>2 DEF Restored
  <2>2. k # i /\ inst'[k].pending = inst[k].pending  BY <1>7, <2>1
  <2>3. /\ instances[Home(k)] = k /\ NotYet(inst[k].pending) /\ inst[k].pending # r
        /\ inst[k].pending \in Inst
    BY <1>1, <2>2, PendingFacts
  <2>4. x # i /\ x # r /\ x \in Inst  BY <1>1, <2>2, <2>3 DEF NotYet
  <2>5. inst'[x] = inst[x]  BY <1>4, <2>4
  <2> QED  BY <2>2, <2>5 DEF PendingClean
<1>15. Unadopted'  BY <1>7 DEF Unadopted
<1>16. PendingOwned'
  <2> SUFFICES ASSUME NEW k \in Inst, inst'[k].pending # None
               PROVE  /\ instances'[Home(k)] = k
                      /\ \/ op'.at = "detach" /\ op'.i = k /\ op'.rep = inst'[k].pending
                         \/ \E s \in switches' : /\ s.at # "remember" /\ s.cur = k
                                                 /\ s.rep = inst'[k].pending
    BY DEF PendingOwned
  <2>1. k # i /\ inst'[k].pending = inst[k].pending  BY <1>2, <1>7 DEF Restored
  <2> QED  BY <1>6, <2>1 DEF PendingOwned
<1>17. NoOrphan'
  <2> SUFFICES ASSUME NEW j \in Inst, inst'[j].cmd # 0
               PROVE  \/ instances'[Home(j)] = j
                      \/ inst'[j].stopping
                      \/ \E t \in tasks' : t.fn = "drain" /\ t.i = j
                      \/ \E s \in switches' : IF s.at = "remember" THEN s.cur = j ELSE s.rep = j
    BY DEF NoOrphan
  <2>1. CASE j = r  BY <1>3, <2>1 DEF Halted
  <2>2. CASE j # r  BY <1>5, <1>6, <1>7, <2>2 DEF NoOrphan
  <2> QED  BY <2>1, <2>2
<1> QED  BY <1>9, <1>10, <1>11, <1>12, <1>13, <1>14, <1>15, <1>16, <1>17

(***************************************************************************)
(* One process told to end: by Shutdown, by the goroutine of a switch that *)
(* is no longer wanted, or by the end of a drain.                          *)
(***************************************************************************)
LEMMA HaltKeeps ==
    ASSUME IInv, SwitchInv, NEW i \in Inst, inst' = [inst EXCEPT ![i] = StopInstance(inst[i])],
           switches' \subseteq switches, tasks' \subseteq tasks,
           \A s \in switches \ switches' : s.at # "remember" /\ s.rep = i /\ ~Wanted(s),
           \A t \in tasks \ tasks' : t.i = i,
           \/ inst[i].draining \/ shutdown # "no"
           \/ \A k \in Inst : inst[k].pending # None => i \notin {k, inst[k].pending},
           op' = op, instances' = instances, shutdown' = shutdown
    PROVE  SwitchInv'
<1> USE SwitchTypes DEF SwitchInv
<1>1. Halted(inst[i], StopInstance(inst[i]))  BY StopInstanceHalts DEF DrainInv
<1>2. Halted(inst[i], inst'[i]) /\ \A j \in Inst : j # i => inst'[j] = inst[j]
  BY <1>1 DEF IInv, TypeOK
<1>3. \A j \in Inst : /\ inst'[j].cmd = inst[j].cmd /\ inst'[j].launched = inst[j].launched
                      /\ inst'[j].exitIP = inst[j].exitIP /\ inst'[j].port = inst[j].port
                      /\ inst'[j].pending = inst[j].pending
                      /\ inst[j].draining => inst'[j].draining
                      /\ inst'[j].draining => inst[j].draining \/ inst[j].cmd # 0
                      /\ inst[j].stopping => inst'[j].stopping
                      /\ inst'[j].stopping => inst'[j].draining /\ inst[j].cmd # 0
                      /\ inst'[j].status = "running" => inst[j].status = "running"
  BY <1>2 DEF Halted, DrainInv
<1>4. \A j \in Inst : (Unborn(j)' <=> Unborn(j)) /\ (NotYet(j)' <=> NotYet(j))
  BY <1>3 DEF Unborn, NotYet
<1>5. Named'  BY DEF Named
<1>6. Born'  BY <1>3, <1>4 DEF Born
<1>7. Fledgling'  BY <1>3, <1>4 DEF Fledgling
<1>8. Verified'  BY <1>3 DEF Verified
<1>9. DrainInv'  BY <1>3 DEF DrainInv
<1>10. PendingClean'
  <2> SUFFICES ASSUME NEW k \in Inst, inst'[k].pending # None, NEW x \in {k, inst'[k].pending},
                      inst'[x].draining
               PROVE  shutdown' # "no" /\ (inst'[x].cmd # 0 => inst'[x].stopping)
    BY DEF PendingClean
  <2>1. inst'[k].pending = inst[k].pending /\ x \in Inst  BY <1>3
  <2>2. CASE x # i  BY <1>2, <2>1, <2>2 DEF PendingClean
  <2>3. CASE x = i
    <3>1. inst[x].draining => shutdown # "no"  BY <2>1 DEF PendingClean
    <3>2. shutdown # "no"  BY <2>1, <2>3, <3>1
    <3> QED  BY <1>2, <2>3, <3>2 DEF Halted
  <2> QED  BY <2>2, <2>3
<1>11. Unadopted'  BY <1>3 DEF Unadopted
<1>12. PendingOwned'  BY <1>3 DEF PendingOwned, Wanted
<1>13. NoOrphan'
  <2> SUFFICES ASSUME NEW j \in Inst, inst'[j].cmd # 0
               PROVE  \/ instances'[Home(j)] = j
                      \/ inst'[j].stopping
                      \/ \E t \in tasks' : t.fn = "drain" /\ t.i = j
                      \/ \E s \in switches' : IF s.at = "remember" THEN s.cur = j ELSE s.rep = j
    BY DEF NoOrphan
  <2>1. CASE j = i  BY <1>2, <2>1 DEF Halted
  <2>2. CASE j # i  BY <1>3, <2>2 DEF NoOrphan
  <2> QED  BY <2>1, <2>2
<1> QED  BY <1>5, <1>6, <1>7, <1>8, <1>9, <1>10, <1>11, <1>12, <1>13

(***************************************************************************)
(* An update of the record of i is one of inst'[i] alone.                  *)
(***************************************************************************)
LEMMA OneRecord ==
    ASSUME TypeOK, NEW i \in Inst, NEW v, inst' = [inst EXCEPT ![i] = v]
    PROVE  inst'[i] = v /\ \A j \in Inst : j # i => inst'[j] = inst[j]
  BY DEF TypeOK

(***************************************************************************)
(* A successful Start launches the country's Instance, which is not a      *)
(* replacement that still has to be verified.                              *)
(***************************************************************************)
LEMMA LaunchKeeps == ASSUME IInv, SwitchInv, StartLaunch PROVE SwitchInv'
<1> USE SwitchTypes DEF SwitchInv
<1>i. PICK i : i = instances[op.c]  OBVIOUS
<1>1. /\ i \in Inst /\ op.c \in Country /\ Home(i) = op.c /\ instances[Home(i)] = i
      /\ inst[i].cmd = 0 /\ op.at # "detach"
  BY <1>i DEF StartLaunch, CanLaunch, IInv, OpOK, Named
<1>2. inst' = [inst EXCEPT ![i] = Launched(inst[i], clock)]  BY <1>i DEF StartLaunch
<1>3. /\ instances' = instances /\ switches' = switches /\ shutdown' = shutdown
      /\ op'.at # "detach" /\ \A t : t.fn = "drain" => (t \in tasks' <=> t \in tasks)
  BY DEF StartLaunch, StartReturns, mgr, Idle, GoTask
<1>4. inst'[i] = Launched(inst[i], clock) /\ \A j \in Inst : j # i => inst'[j] = inst[j]
  BY <1>1, <1>2, OneRecord DEF IInv
<1>5. LET y == Launched(inst[i], clock)
      IN  /\ y.cmd # 0 /\ ~y.stopping /\ y.draining = inst[i].draining
          /\ y.pending = inst[i].pending /\ y.port = inst[i].port
  <2>1. inst[i] \in Instance /\ inst[i].launched \in Nat  BY <1>1, FieldTypes
  <2> QED  BY <2>1 DEF Launched, Instance
<1>6. \A j \in Inst : (Unborn(j)' <=> Unborn(j)) /\ (NotYet(j)' <=> NotYet(j))
  BY <1>3, <1>4, <1>5 DEF Unborn, NotYet
<1>7. ~Unborn(i) /\ \A s \in switches : s.at # "remember" => s.rep # i
  BY <1>1 DEF Born, Fledgling, NotYet
<1>8. Named'  BY <1>1, <1>3 DEF Named
<1>9. Born'  BY <1>3, <1>4, <1>6, <1>7 DEF Born
<1>10. Fledgling'  BY <1>3, <1>6 DEF Fledgling
<1>11. Verified'  BY <1>3, <1>4, <1>7 DEF Verified
<1>12. DrainInv'  BY <1>3, <1>4, <1>5 DEF DrainInv
<1>13. PendingClean'
  <2> SUFFICES ASSUME NEW k \in Inst, inst'[k].pending # None, NEW x \in {k, inst'[k].pending},
                      inst'[x].draining
               PROVE  shutdown' # "no" /\ (inst'[x].cmd # 0 => inst'[x].stopping)
    BY DEF PendingClean
  <2>1. inst'[k].pending = inst[k].pending /\ x \in Inst /\ inst[x].draining  BY <1>4, <1>5
  <2>2. shutdown = "no"  BY DEF StartLaunch, IInv, ShutdownInv, Launching
  <2> QED  BY <2>1, <2>2 DEF PendingClean
<1>14. Unadopted'  BY <1>1, <1>3, <1>4 DEF Unadopted
<1>15. PendingOwned'  BY <1>1, <1>3, <1>4, <1>5 DEF PendingOwned
<1>16. NoOrphan'  BY <1>1, <1>3, <1>4 DEF NoOrphan
<1> QED  BY <1>8, <1>9, <1>10, <1>11, <1>12, <1>13, <1>14, <1>15, <1>16

(***************************************************************************)
(* startDetached launches a replacement and hands it to the goroutine that *)
(* completes the switch.                                                   *)
(***************************************************************************)
LEMMA DetachStartsKeeps == ASSUME IInv, SwitchInv, DetachStarts PROVE SwitchInv'
<1> USE SwitchTypes DEF SwitchInv
<1>i. PICK i, r, w : /\ i = op.i /\ r = op.rep
                     /\ w = [at |-> "poll", cur |-> op.i, rep |-> op.rep, act |-> op.act]
  OBVIOUS
<1>1. i \in Inst /\ r \in Inst /\ op.at = "detach" /\ w.at = "poll" /\ w.cur = i /\ w.rep = r
  BY <1>i DEF DetachStarts
<1>2. inst' = [inst EXCEPT ![r] = Detached(inst[r], clock)]  BY <1>i DEF DetachStarts
<1>3. /\ instances' = instances /\ switches' = switches \cup {w} /\ shutdown' = shutdown
      /\ op'.at # "detach" /\ \A t : t.fn = "drain" => (t \in tasks' <=> t \in tasks)
  BY <1>i DEF DetachStarts, mgr, Idle, GoTask
<1>4. inst'[r] = Detached(inst[r], clock) /\ \A j \in Inst : j # r => inst'[j] = inst[j]
  BY <1>1, <1>2, OneRecord DEF IInv
<1>5. LET y == Detached(inst[r], clock)
      IN  /\ y.cmd # 0 /\ y.stopping = inst[r].stopping /\ y.draining = inst[r].draining
          /\ y.pending = inst[r].pending /\ y.port = inst[r].port /\ y.status = "starting"
          /\ y.exitIP = inst[r].exitIP
  <2>1. inst[r] \in Instance /\ inst[r].launched \in Nat  BY <1>1, FieldTypes
  <2> QED  BY <2>1 DEF Detached, Instance
<1>6. \A j \in Inst : (Unborn(j)' <=> Unborn(j)) /\ (NotYet(j)' <=> NotYet(j))
  BY <1>3, <1>4, <1>5 DEF Unborn, NotYet
<1>7. /\ NotYet(r) /\ ~Unborn(r) /\ Home(r) = Home(i) /\ ~inst[r].draining /\ ~inst[r].stopping
      /\ \A s \in switches : s.rep # r
  BY <1>i, <1>1 DEF Fledgling, Born, Named, DrainInv
<1>8. Named'  BY <1>1, <1>3, <1>7 DEF Named
<1>9. Born'  BY <1>1, <1>3, <1>4, <1>6, <1>7 DEF Born
<1>10. Fledgling'  BY <1>1, <1>3, <1>6, <1>7 DEF Fledgling
<1>11. Verified'  BY <1>1, <1>3, <1>4, <1>5, <1>7 DEF Verified
<1>12. DrainInv'  BY <1>1, <1>3, <1>4, <1>5, <1>7 DEF DrainInv
<1>13. PendingClean'
  <2> SUFFICES ASSUME NEW k \in Inst, inst'[k].pending # None, NEW x \in {k, inst'[k].pending},
                      inst'[x].draining
               PROVE  shutdown' # "no" /\ (inst'[x].cmd # 0 => inst'[x].stopping)
    BY DEF PendingClean
  <2>1. inst'[k].pending = inst[k].pending /\ x \in Inst /\ inst[x].draining  BY <1>4, <1>5
  <2>2. x # r  BY <1>7, <2>1
  <2> QED  BY <1>3, <1>4, <2>1, <2>2 DEF PendingClean
<1>14. Unadopted'
  <2>1. \A c \in Country : Original(c) # r  BY <1>7 DEF NotYet
  <2> QED  BY <1>3, <1>4, <2>1 DEF Unadopted
<1>15. PendingOwned'  BY <1>i, <1>1, <1>3, <1>4, <1>5 DEF PendingOwned
<1>16. NoOrphan'  BY <1>1, <1>3, <1>4 DEF NoOrphan
<1> QED  BY <1>8, <1>9, <1>10, <1>11, <1>12, <1>13, <1>14, <1>15, <1>16

(***************************************************************************)
(* When startDetached fails the replacement is nobody's and has no         *)
(* process.                                                                *)
(***************************************************************************)
LEMMA DetachFailsKeeps == ASSUME IInv, SwitchInv, DetachFails PROVE SwitchInv'
<1> USE SwitchTypes DEF SwitchInv
<1>i. PICK i, r : i = op.i /\ r = op.rep  OBVIOUS
<1>1. i \in Inst /\ r \in Inst /\ op.at = "detach" /\ r # None  BY <1>i DEF DetachFails
<1>2. inst[i].pending = r => instances[Home(i)] = i  BY <1>1 DEF PendingOwned
<1>3. /\ inst[i].pending = r => Restored(inst[i], inst'[i])
      /\ inst[i].pending # r => inst'[i] = inst[i]
      /\ \A j \in Inst : j # i => inst'[j] = inst[j]
  <2>1. CASE inst[i].pending = r
    <3>1. inst' = [inst EXCEPT ![i] = RestoreRecord(inst[i])]  BY <1>i, <2>1 DEF DetachFails
    <3>2. inst'[i] = RestoreRecord(inst[i]) /\ \A j \in Inst : j # i => inst'[j] = inst[j]
      BY <1>1, <3>1, OneRecord DEF IInv
    <3> QED  BY <1>1, <2>1, <3>2, RestoreRestores
  <2>2. CASE inst[i].pending # r  BY <1>i, <2>2 DEF DetachFails
  <2> QED  BY <2>1, <2>2
<1>4. /\ instances' = instances /\ switches' = switches /\ shutdown' = shutdown
      /\ op'.at # "detach"
  BY DEF DetachFails, mgr, Idle
<1>5. \A t : t.fn = "drain" => (t \in tasks' <=> t \in tasks)
  <2>1. \A t \in ResumeTasks(op.i, op.rep) : t.fn # "drain"  BY DEF ResumeTasks, GoTask
  <2>2. tasks' = tasks \/ tasks' = tasks \cup ResumeTasks(op.i, op.rep)  BY DEF DetachFails
  <2> QED  BY <2>1, <2>2
<1>6. \A j \in Inst : /\ inst'[j].cmd = inst[j].cmd /\ inst'[j].launched = inst[j].launched
                      /\ inst'[j].exitIP = inst[j].exitIP /\ inst'[j].port = inst[j].port
                      /\ inst'[j].draining = inst[j].draining
                      /\ inst'[j].stopping = inst[j].stopping
                      /\ inst'[j].pending \in {inst[j].pending, None}
  BY <1>3 DEF Restored
<1>7. \A j \in Inst : (Unborn(j)' <=> Unborn(j)) /\ (NotYet(j)' <=> NotYet(j))
  BY <1>4, <1>6 DEF Unborn, NotYet
<1>8. Named'  BY <1>4 DEF Named
<1>9. Born'  BY <1>4, <1>6, <1>7 DEF Born
<1>10. Fledgling'  BY <1>4, <1>7 DEF Fledgling
<1>11. Verified'
  <2>1. \A s \in switches : s.at # "remember" => inst'[s.rep] = inst[s.rep]
    BY <1>1, <1>2, <1>3 DEF Fledgling, NotYet
  <2> QED  BY <1>4, <2>1 DEF Verified
<1>12. DrainInv'  BY <1>4, <1>5, <1>6 DEF DrainInv
<1>13. PendingClean'
  <2> SUFFICES ASSUME NEW k \in Inst, inst'[k].pending # None, NEW x \in {k, inst'[k].pending},
                      inst'[x].draining
               PROVE  shutdown' # "no" /\ (inst'[x].cmd # 0 => inst'[x].stopping)
    BY DEF PendingClean
  <2>1. inst'[k].pending = inst[k].pending /\ x \in Inst /\ inst[x].draining  BY <1>6
  <2> QED  BY <1>4, <1>6, <2>1 DEF PendingClean
<1>14. Unadopted'  BY <1>4, <1>6 DEF Unadopted
<1>15. PendingOwned'
  <2> SUFFICES ASSUME NEW k \in Inst, inst'[k].pending # None
               PROVE  /\ instances'[Home(k)] = k
                      /\ \E s \in switches' : /\ s.at # "remember" /\ s.cur = k
                                              /\ s.rep = inst'[k].pending
    BY DEF PendingOwned
  <2>1. inst'[k].pending = inst[k].pending  BY <1>6
  <2>2. ~(i = k /\ r = inst[k].pending)  BY <1>3 DEF Restored
  <2> QED  BY <1>i, <1>4, <2>1, <2>2 DEF PendingOwned
<1>16. NoOrphan'  BY <1>4, <1>5, <1>6 DEF NoOrphan
<1> QED  BY <1>8, <1>9, <1>10, <1>11, <1>12, <1>13, <1>14, <1>15, <1>16

(***************************************************************************)
(* What replaceNode does: the new object r was unborn, the Instance i is   *)
(* the country's and keeps its process, and a superseded replacement is    *)
(* told to end.                                                            *)
(***************************************************************************)
LEMMA ReplaceEffect ==
    ASSUME IInv, SwitchInv, NEW call \in calls, ReplaceBegin(call)
    PROVE  \E i, r \in Inst :
              /\ instances[Home(i)] = i /\ ~inst[i].stopping /\ ~inst[i].draining
              /\ inst[i].cmd # 0 /\ Unborn(r) /\ Home(r) = Home(i) /\ r # i
              /\ LET y == inst'[i] x == inst[i]
                 IN  /\ y.cmd = x.cmd /\ y.launched = x.launched /\ y.stopping = x.stopping
                     /\ y.draining = x.draining /\ y.exitIP = x.exitIP /\ y.port = x.port
                     /\ y.pending = r /\ y.failed = x.failed
              /\ LET y == inst'[r]
                 IN  /\ y.cmd = 0 /\ y.launched = 0 /\ ~y.stopping /\ ~y.draining /\ ~y.exitIP
                     /\ y.pending = None /\ y.port # None /\ y.status # "running"
              /\ \A j \in Inst : j # i /\ j # r =>
                    IF j = inst[i].pending THEN Halted(inst[j], inst'[j])
                    ELSE inst'[j] = inst[j]
              /\ op.at # "detach" /\ op'.at = "detach" /\ op'.i = i /\ op'.rep = r
<1> USE SwitchTypes
<1> DEFINE i == call.i
<1>0. i \in Inst  BY DEF IInv, TypeOK, Call
<1>1. PICK r \in NextReplacement(Home(i)), port \in Port \ reservedPorts :
          /\ inst' = [j \in Inst |-> IF j = i THEN SwitchingTo(inst[j], r)
                                     ELSE IF j = r THEN Fresh(call.node, port)
                                     ELSE IF j = inst[i].pending THEN StopInstance(inst[j])
                                     ELSE inst[j]]
          /\ op' = [Idle EXCEPT !.at = "detach", !.c = Home(i), !.i = i,
                                !.rep = r, !.act = call.act]
  BY DEF ReplaceBegin, FreePorts
<1>2. /\ i \in Inst /\ instances[Home(i)] = i /\ ~inst[i].stopping /\ ~inst[i].draining
      /\ inst[i].cmd # 0 /\ op.at # "detach"
  BY <1>0 DEF ReplaceBegin, Replaceable, Idle
<1> HIDE DEF i
<1>3. r \in Inst /\ Home(r) = Home(i) /\ Unborn(r)
  <2>1. PICK n \in 1..MaxSwitch : r = <<Home(i), n>> /\ inst[<<Home(i), n>>].port = None
    BY DEF NextReplacement
  <2>2. n \in 0..MaxSwitch /\ n # 0  BY ManagerAssumption
  <2>3. r \in Inst /\ Home(r) = Home(i)  BY <1>2, <2>1, <2>2 DEF Inst, Home
  <2>4. r # Original(Home(r))  BY <2>1, <2>2 DEF Original
  <2> QED  BY <2>1, <2>3, <2>4 DEF Unborn
<1>4. r # i  BY <1>2, <1>3 DEF SwitchInv, Born
<1>5. op'.at = "detach" /\ op'.i = i /\ op'.rep = r  BY <1>1 DEF Idle
<1>6. LET y == inst'[i] x == inst[i]
      IN  /\ y.cmd = x.cmd /\ y.launched = x.launched /\ y.stopping = x.stopping
          /\ y.draining = x.draining /\ y.exitIP = x.exitIP /\ y.port = x.port
          /\ y.pending = r /\ y.failed = x.failed
  <2>1. inst'[i] = SwitchingTo(inst[i], r) /\ inst[i] \in Instance  BY <1>1, <1>2
  <2> QED  BY <2>1 DEF SwitchingTo, Instance
<1>7. LET y == inst'[r]
      IN  /\ y.cmd = 0 /\ y.launched = 0 /\ ~y.stopping /\ ~y.draining /\ ~y.exitIP
          /\ y.pending = None /\ y.port # None /\ y.status # "running"
  <2>1. inst'[r] = Fresh(call.node, port)  BY <1>1, <1>3, <1>4
  <2>2. port # None  BY ManagerAssumption
  <2> QED  BY <2>1, <2>2 DEF Fresh
<1>8. \A j \in Inst : j # i /\ j # r =>
          IF j = inst[i].pending THEN Halted(inst[j], inst'[j])
          ELSE inst'[j] = inst[j]
  <2>1. \A j \in Inst : Halted(inst[j], StopInstance(inst[j]))
    BY StopInstanceHalts DEF SwitchInv, DrainInv
  <2> QED  BY <1>1, <2>1
<1> QED  BY <1>2, <1>3, <1>4, <1>5, <1>6, <1>7, <1>8

(***************************************************************************)
(* replaceNode keeps SwitchInv.                                            *)
(***************************************************************************)
LEMMA ReplaceKeeps ==
    ASSUME IInv, SwitchInv, NEW call \in calls, ReplaceBegin(call) PROVE SwitchInv'
<1> USE SwitchTypes DEF SwitchInv
<1>i. PICK i, r \in Inst :
          /\ instances[Home(i)] = i /\ ~inst[i].stopping /\ ~inst[i].draining
          /\ inst[i].cmd # 0 /\ Unborn(r) /\ Home(r) = Home(i) /\ r # i
          /\ LET y == inst'[i] x == inst[i]
             IN  /\ y.cmd = x.cmd /\ y.launched = x.launched /\ y.stopping = x.stopping
                 /\ y.draining = x.draining /\ y.exitIP = x.exitIP /\ y.port = x.port
                 /\ y.pending = r
          /\ LET y == inst'[r]
             IN  /\ y.cmd = 0 /\ y.launched = 0 /\ ~y.stopping /\ ~y.draining /\ ~y.exitIP
                 /\ y.pending = None /\ y.port # None /\ y.status # "running"
          /\ \A j \in Inst : j # i /\ j # r =>
                IF j = inst[i].pending THEN Halted(inst[j], inst'[j])
                ELSE inst'[j] = inst[j]
          /\ op.at # "detach" /\ op'.at = "detach" /\ op'.i = i /\ op'.rep = r
  BY ReplaceEffect
<1>1. instances' = instances /\ switches' = switches /\ shutdown' = shutdown /\ tasks' = tasks
  BY DEF ReplaceBegin, mgr
<1>2. \A j \in Inst : /\ inst'[j].cmd = inst[j].cmd
                      /\ j # i => inst'[j].pending = inst[j].pending
                      /\ inst[j].draining => inst'[j].draining
                      /\ inst'[j].draining => inst[j].draining \/ inst[j].cmd # 0
                      /\ inst[j].stopping => inst'[j].stopping
                      /\ inst'[j].stopping => inst'[j].draining /\ inst[j].cmd # 0
                      /\ j # r => inst'[j].exitIP = inst[j].exitIP /\ inst'[j].port = inst[j].port
  BY <1>i DEF Halted, DrainInv, Born
<1>3. \A j \in Inst : /\ Unborn(j)' <=> (Unborn(j) /\ j # r)
                      /\ NotYet(j)' <=> NotYet(j)
  BY <1>i, <1>1, <1>2 DEF Unborn, NotYet
<1>4. /\ NotYet(r) /\ \A s \in switches : s.rep # r
      /\ \A c \in Country : instances[c] # r
  BY <1>i DEF Born, NotYet, Unborn
<1>5. Named'  BY <1>i, <1>1 DEF Named
<1>6. Born'  BY <1>i, <1>1, <1>2, <1>3, <1>4 DEF Born
<1>7. Fledgling'  BY <1>i, <1>1, <1>3, <1>4 DEF Fledgling
<1>8. Verified'
  <2>1. \A s \in switches : s.at # "remember" => s.rep # i /\ s.rep # r
    BY <1>i, <1>4 DEF Fledgling, NotYet
  <2>2. \A j \in Inst : j # i /\ j # r => /\ inst'[j].status = "running" => inst[j].status = "running"
                                          /\ inst'[j].exitIP = inst[j].exitIP
    BY <1>i DEF Halted
  <2> QED  BY <1>1, <2>1, <2>2 DEF Verified
<1>9. DrainInv'  BY <1>1, <1>2 DEF DrainInv
<1>10. PendingClean'
  <2> SUFFICES ASSUME NEW k \in Inst, inst'[k].pending # None, NEW x \in {k, inst'[k].pending},
                      inst'[x].draining
               PROVE  shutdown' # "no" /\ (inst'[x].cmd # 0 => inst'[x].stopping)
    BY DEF PendingClean
  <2>1. x # i /\ x # r  BY <1>i
  <2>2. k # i  BY <1>i, <2>1
  <2>3. inst'[k].pending = inst[k].pending  BY <1>2, <2>2
  <2>4. /\ instances[Home(k)] = k /\ NotYet(inst[k].pending) /\ inst[k].pending \in Inst
        /\ \A j \in Inst : inst[j].pending = inst[k].pending => j = k
    BY <2>3, PendingFacts
  <2>5. inst[i].pending # None => NotYet(inst[i].pending)  BY PendingFacts
  <2>6. x # inst[i].pending /\ x \in Inst  BY <2>2, <2>3, <2>4, <2>5 DEF NotYet
  <2>7. inst'[x] = inst[x]  BY <1>i, <2>1, <2>6
  <2> QED  BY <1>1, <2>3, <2>7 DEF PendingClean
<1>11. Unadopted'  BY <1>1, <1>2 DEF Unadopted
<1>12. PendingOwned'  BY <1>i, <1>1, <1>2 DEF PendingOwned
<1>13. NoOrphan'  BY <1>1, <1>2 DEF NoOrphan
<1> QED  BY <1>5, <1>6, <1>7, <1>8, <1>9, <1>10, <1>11, <1>12, <1>13

(***************************************************************************)
(* The poll that finds the replacement running finds it verified.          *)
(***************************************************************************)
LEMMA PollKeeps ==
    ASSUME IInv, SwitchInv, NEW s \in switches, SwitchPoll(s) PROVE SwitchInv'
<1> USE SwitchTypes DEF SwitchInv
<1>w. PICK w : w = [s EXCEPT !.at = "cut"]  OBVIOUS
<1>1. w.at = "cut" /\ w.cur = s.cur /\ w.rep = s.rep /\ s.at = "poll"
  BY <1>w DEF SwitchPoll, IInv, TypeOK, Switch
<1>2. /\ switches' = (switches \ {s}) \cup {w}
      /\ instances' = instances /\ inst' = inst /\ tasks' = tasks /\ op' = op /\ shutdown' = shutdown
  BY <1>w DEF SwitchPoll, mgr
<1>3. inst[s.rep].exitIP  BY <1>1 DEF SwitchPoll, Ready, Verified
<1>4. \A j \in Inst : (Unborn(j)' <=> Unborn(j)) /\ (NotYet(j)' <=> NotYet(j))
  BY <1>2 DEF Unborn, NotYet
<1>5. Named'  BY <1>1, <1>2 DEF Named
<1>6. Born'  BY <1>1, <1>2, <1>4 DEF Born
<1>7. Fledgling'  BY <1>1, <1>2, <1>4 DEF Fledgling
<1>8. Verified'  BY <1>1, <1>2, <1>3 DEF Verified
<1>9. DrainInv' /\ PendingClean' /\ Unadopted'
  BY <1>1, <1>2 DEF DrainInv, PendingClean, Unadopted
<1>10. PendingOwned'  BY <1>1, <1>2 DEF PendingOwned
<1>11. NoOrphan'  BY <1>1, <1>2 DEF NoOrphan
<1> QED  BY <1>5, <1>6, <1>7, <1>8, <1>9, <1>10, <1>11

(***************************************************************************)
(* The cutover: the country's Instance changes and the old one drains.     *)
(***************************************************************************)
LEMMA CutKeeps ==
    ASSUME IInv, SwitchInv, NEW s \in switches, SwitchCut(s) PROVE SwitchInv'
<1> USE SwitchTypes DEF SwitchInv
<1>w. PICK w, i, r, c : /\ w = [s EXCEPT !.at = "remember"]
                        /\ i = s.cur /\ r = s.rep /\ c = Home(s.cur)
  OBVIOUS
<1>1. w.at = "remember" /\ w.cur = i /\ w.rep = r /\ s.at = "cut" /\ s.cur = i /\ s.rep = r
  BY <1>w DEF SwitchCut, IInv, TypeOK, Switch
<1>2. /\ i \in Inst /\ r \in Inst /\ c \in Country /\ Home(i) = c /\ Home(r) = c
      /\ inst[i].pending = r /\ instances[c] = i /\ r # i
  BY <1>w, <1>1 DEF SwitchCut, Installable, Wanted, Named, Fledgling, NotYet
<1>3. /\ switches' = (switches \ {s}) \cup {w}
      /\ instances' = [instances EXCEPT ![c] = r]
      /\ tasks' = tasks /\ op' = op /\ shutdown' = shutdown
  BY <1>w DEF SwitchCut, mgr
<1>4. instances'[c] = r /\ \A d \in Country : d # c => instances'[d] = instances[d]
  BY <1>2, <1>3 DEF IInv, TypeOK
<1>5. \A j \in Inst : /\ inst'[j].cmd = inst[j].cmd /\ inst'[j].launched = inst[j].launched
                      /\ inst'[j].exitIP = inst[j].exitIP /\ inst'[j].port = inst[j].port
                      /\ inst'[j].stopping = inst[j].stopping
                      /\ IF j = i THEN /\ inst'[j].pending = None /\ inst'[j].draining
                                       /\ inst'[j].status = "draining"
                         ELSE inst'[j] = inst[j]
  <2>1. inst' = [inst EXCEPT ![i] = [inst[i] EXCEPT !.pending = None, !.prev = None,
                                                    !.draining = TRUE, !.status = "draining"]]
    BY <1>w DEF SwitchCut
  <2>2. /\ inst'[i] = [inst[i] EXCEPT !.pending = None, !.prev = None,
                                      !.draining = TRUE, !.status = "draining"]
        /\ \A j \in Inst : j # i => inst'[j] = inst[j]
    BY <1>2, <2>1, OneRecord DEF IInv
  <2>3. inst[i] \in Instance  BY <1>2
  <2>4. /\ inst'[i].cmd = inst[i].cmd /\ inst'[i].launched = inst[i].launched
        /\ inst'[i].exitIP = inst[i].exitIP /\ inst'[i].port = inst[i].port
        /\ inst'[i].stopping = inst[i].stopping
        /\ inst'[i].pending = None /\ inst'[i].draining /\ inst'[i].status = "draining"
    BY <2>2, <2>3 DEF Instance
  <2> QED  BY <2>2, <2>4
<1>6. \A j \in Inst : (Unborn(j)' <=> Unborn(j)) /\ (NotYet(j) /\ j # r => NotYet(j)')
  BY <1>2, <1>4, <1>5 DEF Unborn, NotYet
<1>7. ~Unborn(i) /\ ~Unborn(r) /\ \A u \in switches : u.rep = r => u = s
  BY <1>1, <1>2 DEF Born, Fledgling
<1>8. Named'  BY <1>1, <1>2, <1>3, <1>4 DEF Named
<1>9. Born'  BY <1>1, <1>3, <1>4, <1>5, <1>6, <1>7 DEF Born
<1>10. Fledgling'
  <2>1. op.at = "detach" => op.rep # r  BY <1>1 DEF Fledgling
  <2>2. op.at = "detach" => op.rep # i  BY <1>2 DEF Fledgling, NotYet
  <2>3. op.at = "detach" => /\ instances'[Home(op.rep)] # op.rep /\ op.rep # Original(Home(op.rep))
                            /\ inst'[op.rep] = inst[op.rep]
    BY <1>5, <1>6, <2>1, <2>2 DEF Fledgling, NotYet
  <2>4. \A u \in switches' : u.at # "remember" => NotYet(u.rep)'
    BY <1>1, <1>3, <1>6, <1>7 DEF Fledgling
  <2>5. \A u, v \in switches' : u.rep = v.rep => u = v  BY <1>1, <1>3, <1>7 DEF Fledgling
  <2>6. op.at = "detach" => NotYet(op.rep)'  BY <1>3, <2>3 DEF NotYet
  <2>7. op.at = "detach" => \A u \in switches' : u.rep # op.rep
    BY <1>1, <1>3, <2>1 DEF Fledgling
  <2> QED  BY <1>3, <2>3, <2>4, <2>5, <2>6, <2>7 DEF Fledgling
<1>11. Verified'  BY <1>1, <1>3, <1>5 DEF Verified
<1>12. DrainInv'  BY <1>1, <1>3, <1>5 DEF DrainInv
<1>13. PendingClean'
  <2> SUFFICES ASSUME NEW k \in Inst, inst'[k].pending # None, NEW x \in {k, inst'[k].pending},
                      inst'[x].draining
               PROVE  shutdown' # "no" /\ (inst'[x].cmd # 0 => inst'[x].stopping)
    BY DEF PendingClean
  <2>1. k # i /\ inst'[k].pending = inst[k].pending  BY <1>5
  <2>2. NotYet(inst[k].pending) /\ inst[k].pending \in Inst  BY <2>1, PendingFacts
  <2>3. x # i /\ x \in Inst  BY <1>2, <2>1, <2>2 DEF NotYet
  <2> QED  BY <1>3, <1>5, <2>1, <2>3 DEF PendingClean
<1>14. Unadopted'
  <2>1. \A d \in Country : d # c => Original(d) # i  BY <1>2
  <2> QED  BY <1>2, <1>4, <1>5, <2>1 DEF Unadopted
<1>15. PendingOwned'
  <2> SUFFICES ASSUME NEW k \in Inst, inst'[k].pending # None
               PROVE  /\ instances'[Home(k)] = k
                      /\ \/ op'.at = "detach" /\ op'.i = k /\ op'.rep = inst'[k].pending
                         \/ \E u \in switches' : /\ u.at # "remember" /\ u.cur = k
                                                 /\ u.rep = inst'[k].pending
    BY DEF PendingOwned
  <2>1. k # i /\ inst'[k].pending = inst[k].pending  BY <1>5
  <2>2. instances[Home(k)] = k  BY <2>1 DEF PendingOwned
  <2>3. instances'[Home(k)] = k  BY <1>2, <1>4, <2>1, <2>2
  <2> QED  BY <1>1, <1>3, <2>1, <2>3 DEF PendingOwned
<1>16. NoOrphan'
  <2> SUFFICES ASSUME NEW j \in Inst, inst'[j].cmd # 0
               PROVE  \/ instances'[Home(j)] = j
                      \/ inst'[j].stopping
                      \/ \E t \in tasks' : t.fn = "drain" /\ t.i = j
                      \/ \E u \in switches' : IF u.at = "remember" THEN u.cur = j ELSE u.rep = j
    BY DEF NoOrphan
  <2>1. CASE j = i  BY <1>1, <1>3, <2>1
  <2>2. CASE j = r  BY <1>2, <1>4, <2>2
  <2>3. CASE j # i /\ j # r
    <3>1. instances[Home(j)] = j => instances'[Home(j)] = j  BY <1>2, <1>4, <2>3
    <3>2. inst[j].cmd # 0 /\ inst'[j].stopping = inst[j].stopping  BY <1>5
    <3> QED  BY <1>1, <1>3, <2>3, <3>1, <3>2 DEF NoOrphan
  <2> QED  BY <2>1, <2>2, <2>3
<1> QED  BY <1>8, <1>9, <1>10, <1>11, <1>12, <1>13, <1>14, <1>15, <1>16

(***************************************************************************)
(* rememberInstance hands the old Instance to the goroutine that drains    *)
(* it.                                                                     *)
(***************************************************************************)
LEMMA RememberKeeps ==
    ASSUME IInv, SwitchInv, NEW s \in switches, SwitchRemember(s) PROVE SwitchInv'
<1> USE SwitchTypes DEF SwitchInv
<1>t. PICK t : t = GoTask("drain", s.cur, 0, None)  OBVIOUS
<1>1. t.fn = "drain" /\ t.i = s.cur  BY <1>t DEF GoTask
<1>2. /\ switches' = switches \ {s} /\ s.at = "remember" /\ tasks' = tasks \cup {t}
      /\ instances' = instances /\ inst' = inst /\ op' = op /\ shutdown' = shutdown
  BY <1>t DEF SwitchRemember, mgr
<1>3. \A j \in Inst : (Unborn(j)' <=> Unborn(j)) /\ (NotYet(j)' <=> NotYet(j))
  BY <1>2 DEF Unborn, NotYet
<1>4. Named'  BY <1>2 DEF Named
<1>5. Born'  BY <1>2, <1>3 DEF Born
<1>6. Fledgling'  BY <1>2, <1>3 DEF Fledgling
<1>7. Verified' /\ PendingClean' /\ Unadopted'  BY <1>2 DEF Verified, PendingClean, Unadopted
<1>8. DrainInv'  BY <1>1, <1>2 DEF DrainInv
<1>9. PendingOwned'  BY <1>2 DEF PendingOwned
<1>10. NoOrphan'  BY <1>1, <1>2 DEF NoOrphan
<1> QED  BY <1>4, <1>5, <1>6, <1>7, <1>8, <1>9, <1>10

(***************************************************************************)
(* markInstanceRunning: only its Instance changes, and it is verified.     *)
(***************************************************************************)
LEMMA VerifiedKeeps ==
    ASSUME IInv, SwitchInv, NEW t \in tasks, ExitVerified(t) PROVE SwitchInv'
<1> USE SwitchTypes DEF SwitchInv
<1>i. PICK i : i = t.i  OBVIOUS
<1>1. i \in Inst /\ inst[i].status = "connecting" /\ t.fn # "drain"
  BY <1>i DEF ExitVerified, Waits
<1>2. /\ inst' = [inst EXCEPT ![i] = [inst[i] EXCEPT !.status = "running", !.exitIP = TRUE,
                                                     !.attempts = 0, !.scheduled = FALSE]]
      /\ tasks' = tasks \ {t}
      /\ instances' = instances /\ switches' = switches /\ op' = op /\ shutdown' = shutdown
  BY <1>i DEF ExitVerified, mgr
<1>3. \A j \in Inst : /\ inst'[j].cmd = inst[j].cmd /\ inst'[j].launched = inst[j].launched
                      /\ inst'[j].stopping = inst[j].stopping /\ inst'[j].port = inst[j].port
                      /\ inst'[j].draining = inst[j].draining /\ inst'[j].pending = inst[j].pending
                      /\ IF j = i THEN inst'[j].exitIP ELSE inst'[j] = inst[j]
  <2>1. /\ inst'[i] = [inst[i] EXCEPT !.status = "running", !.exitIP = TRUE,
                                      !.attempts = 0, !.scheduled = FALSE]
        /\ \A j \in Inst : j # i => inst'[j] = inst[j]
    BY <1>1, <1>2, OneRecord DEF IInv
  <2>2. inst[i] \in Instance  BY <1>1
  <2>3. /\ inst'[i].cmd = inst[i].cmd /\ inst'[i].launched = inst[i].launched
        /\ inst'[i].stopping = inst[i].stopping /\ inst'[i].port = inst[i].port
        /\ inst'[i].draining = inst[i].draining /\ inst'[i].pending = inst[i].pending
        /\ inst'[i].exitIP
    BY <2>1, <2>2 DEF Instance
  <2> QED  BY <2>1, <2>3
<1>4. \A j \in Inst : (Unborn(j)' <=> Unborn(j)) /\ (NotYet(j)' <=> NotYet(j))
  BY <1>2, <1>3 DEF Unborn, NotYet
<1>5. inst[i].cmd # 0
  BY <1>1 DEF IInv, ProcessInv, CountedHasProcess, Counted
<1>6. ~Unborn(i) /\ (op.at = "detach" => op.rep # i)  BY <1>1, <1>5 DEF Born, Fledgling
<1>7. Named'  BY <1>2 DEF Named
<1>8. Born'  BY <1>2, <1>3, <1>4, <1>6 DEF Born
<1>9. Fledgling'  BY <1>2, <1>3, <1>4, <1>6 DEF Fledgling
<1>10. Verified'  BY <1>2, <1>3 DEF Verified
<1>11. DrainInv'  BY <1>2, <1>3 DEF DrainInv
<1>12. PendingClean'
  <2> SUFFICES ASSUME NEW k \in Inst, inst'[k].pending # None, NEW x \in {k, inst'[k].pending},
                      inst'[x].draining
               PROVE  shutdown' # "no" /\ (inst'[x].cmd # 0 => inst'[x].stopping)
    BY DEF PendingClean
  <2>1. inst'[k].pending = inst[k].pending /\ x \in Inst  BY <1>3
  <2> QED  BY <1>2, <1>3, <2>1 DEF PendingClean
<1>13. Unadopted'  BY <1>2, <1>3 DEF Unadopted
<1>14. PendingOwned'  BY <1>2, <1>3 DEF PendingOwned
<1>15. NoOrphan'  BY <1>1, <1>2, <1>3 DEF NoOrphan
<1> QED  BY <1>7, <1>8, <1>9, <1>10, <1>11, <1>12, <1>13, <1>14, <1>15

(***************************************************************************)
(* The exit of a process: what it drained and whom it belonged to stays.   *)
(***************************************************************************)
LEMMA ExitKeeps ==
    ASSUME IInv, SwitchInv, NEW i \in Inst, WatchExit(i) PROVE SwitchInv'
<1> USE SwitchTypes DEF SwitchInv
<1>1. /\ inst' = [inst EXCEPT ![i] = Exited(inst[i])] /\ inst[i].cmd # 0
      /\ instances' = instances /\ switches' = switches /\ op' = op /\ shutdown' = shutdown
  BY DEF WatchExit, mgr
<1>2. \A t : t.fn = "drain" => (t \in tasks' <=> t \in tasks)  BY DEF WatchExit, GoTask
<1>3. \A j \in Inst : /\ inst'[j].launched = inst[j].launched /\ inst'[j].exitIP = inst[j].exitIP
                      /\ inst'[j].draining = inst[j].draining /\ inst'[j].pending = inst[j].pending
                      /\ inst'[j].port = inst[j].port
                      /\ inst'[j].status = "running" => inst[j].status = "running"
                      /\ IF j = i THEN inst'[j].cmd = 0 /\ ~inst'[j].stopping
                         ELSE inst'[j] = inst[j]
  <2>1. inst'[i] = Exited(inst[i]) /\ \A j \in Inst : j # i => inst'[j] = inst[j]
    BY <1>1, OneRecord DEF IInv
  <2>2. inst[i] \in Instance  OBVIOUS
  <2>3. /\ inst'[i].launched = inst[i].launched /\ inst'[i].exitIP = inst[i].exitIP
        /\ inst'[i].draining = inst[i].draining /\ inst'[i].pending = inst[i].pending
        /\ inst'[i].port = inst[i].port /\ inst'[i].status # "running"
        /\ inst'[i].cmd = 0 /\ ~inst'[i].stopping
    BY <2>1, <2>2 DEF Exited, Instance
  <2> QED  BY <2>1, <2>3
<1>4. \A j \in Inst : (Unborn(j)' <=> Unborn(j)) /\ (NotYet(j)' <=> NotYet(j))
  BY <1>1, <1>3 DEF Unborn, NotYet
<1>5. Named'  BY <1>1 DEF Named
<1>6. Born'  BY <1>1, <1>3, <1>4 DEF Born
<1>7. Fledgling'  BY <1>1, <1>3, <1>4 DEF Fledgling
<1>8. Verified'  BY <1>1, <1>3 DEF Verified
<1>9. DrainInv'  BY <1>1, <1>2, <1>3 DEF DrainInv
<1>10. PendingClean'
  <2> SUFFICES ASSUME NEW k \in Inst, inst'[k].pending # None, NEW x \in {k, inst'[k].pending},
                      inst'[x].draining
               PROVE  shutdown' # "no" /\ (inst'[x].cmd # 0 => inst'[x].stopping)
    BY DEF PendingClean
  <2>1. inst'[k].pending = inst[k].pending /\ x \in Inst  BY <1>3
  <2> QED  BY <1>1, <1>3, <2>1 DEF PendingClean
<1>11. Unadopted'  BY <1>1, <1>3 DEF Unadopted
<1>12. PendingOwned'  BY <1>1, <1>3 DEF PendingOwned
<1>13. NoOrphan'  BY <1>1, <1>2, <1>3 DEF NoOrphan
<1> QED  BY <1>5, <1>6, <1>7, <1>8, <1>9, <1>10, <1>11, <1>12, <1>13

(***************************************************************************)
(* A replacement that its own goroutine no longer finds pending is pending *)
(* nowhere.                                                                *)
(***************************************************************************)
LEMMA UnwantedAlone ==
    ASSUME IInv, SwitchInv, NEW s \in switches, SwitchUnwanted(s)
    PROVE  /\ ~Wanted(s) /\ NotYet(s.rep) /\ s.at # "remember"
           /\ \A k \in Inst : inst[k].pending # None => s.rep \notin {k, inst[k].pending}
<1> USE SwitchTypes DEF SwitchInv
<1>1. s.at \in {"poll", "cut"} /\ (~Wanted(s) \/ ~Installable(s))  BY DEF SwitchUnwanted
<1>2. ~Wanted(s)
  <2>1. Wanted(s) => instances[Home(s.cur)] = s.cur  BY DEF Wanted, PendingOwned
  <2> QED  BY <1>1, <2>1 DEF Installable
<1>3. NotYet(s.rep)  BY <1>1 DEF Fledgling
<1>4. ASSUME NEW k \in Inst, inst[k].pending # None PROVE s.rep \notin {k, inst[k].pending}
  <2>1. s.rep # k  BY <1>3, <1>4 DEF PendingOwned, NotYet
  <2>2. ASSUME inst[k].pending = s.rep PROVE FALSE
    <3>1. ~(op.at = "detach" /\ op.i = k /\ op.rep = s.rep)  BY DEF Fledgling
    <3>2. PICK u \in switches : u.cur = k /\ u.rep = s.rep  BY <1>4, <2>2, <3>1 DEF PendingOwned
    <3>3. u = s  BY <3>2 DEF Fledgling
    <3> QED  BY <1>2, <2>2, <3>2, <3>3 DEF Wanted
  <2> QED  BY <2>1, <2>2
<1> QED  BY <1>1, <1>2, <1>3, <1>4

(***************************************************************************)
(* Every step keeps SwitchInv.                                             *)
(***************************************************************************)
LEMMA SwitchStep == ASSUME IInv, SwitchInv, [Next]_vars PROVE SwitchInv'
<1> USE SwitchTypes DEF mgr
<1>1. ASSUME NEW c \in Country, NEW node \in Node, NEW act \in BOOLEAN, instances[c] = None,
             StartNode(c, node, act)
      PROVE  SwitchInv'
  BY <1>1, AdoptKeeps
<1>2. ASSUME NEW c \in Country, Stop(c) PROVE SwitchInv'
  <2>1. StopCountry(c) /\ instances[c] \in Inst /\ op.at # "detach" /\ op' = op
    BY <1>2 DEF Stop, Idle
  <2>2. instances' = instances /\ switches' = switches /\ shutdown' = shutdown
    BY <1>2 DEF Stop
  <2> QED  BY <2>1, <2>2, StopKeeps
<1>3. ASSUME NEW c \in Country, CancelReplacement(c) PROVE SwitchInv'
  <2>i. PICK i : i = instances[c]  OBVIOUS
  <2>1. /\ i \in Inst /\ inst[i].pending # None /\ GiveUp(i, inst[i].pending)
        /\ switches' = switches /\ op' = op /\ instances' = instances /\ shutdown' = shutdown
    BY <1>3, <2>i DEF CancelReplacement
  <2> QED  BY <2>1, GiveUpKeeps
<1>4. ASSUME Evict \/ TrimOne PROVE SwitchInv'
  <2>1. PICK d \in op.todo : StopCountry(d)  BY <1>4 DEF Evict, TrimOne
  <2>2. d \in Country /\ instances[d] \in Inst  BY DEF IInv, OpOK, TypeOK, Op
  <2>3. op.at # "detach" /\ op'.at # "detach"  BY <1>4 DEF Evict, TrimOne, IInv, TypeOK, Op
  <2>4. instances' = instances /\ switches' = switches /\ shutdown' = shutdown
    BY <1>4 DEF Evict, TrimOne
  <2> QED  BY <2>1, <2>2, <2>3, <2>4, StopKeeps
<1>5. CASE StartLaunch  BY <1>5, LaunchKeeps
<1>6. CASE DetachStarts  BY <1>6, DetachStartsKeeps
<1>7. CASE DetachFails  BY <1>7, DetachFailsKeeps
<1>8. ASSUME NEW call \in calls, ReplaceBegin(call) PROVE SwitchInv'  BY <1>8, ReplaceKeeps
<1>9. ASSUME NEW i \in Inst, ShutdownStops(i) PROVE SwitchInv'
  <2>1. inst' = [inst EXCEPT ![i] = StopInstance(inst[i])] /\ shutdown # "no"
    BY <1>9 DEF ShutdownStops
  <2>2. UNCHANGED <<switches, tasks, op, instances, shutdown>>  BY <1>9 DEF ShutdownStops
  <2> QED  BY <2>1, <2>2, HaltKeeps
<1>10. ASSUME NEW i \in Inst, WatchExit(i) PROVE SwitchInv'  BY <1>10, ExitKeeps
<1>11. ASSUME NEW s \in switches, SwitchPoll(s) PROVE SwitchInv'  BY <1>11, PollKeeps
<1>12. ASSUME NEW s \in switches, SwitchCut(s) PROVE SwitchInv'  BY <1>12, CutKeeps
<1>13. ASSUME NEW s \in switches, SwitchRemember(s) PROVE SwitchInv'  BY <1>13, RememberKeeps
<1>14. ASSUME NEW s \in switches, SwitchUnwanted(s) PROVE SwitchInv'
  <2>i. PICK i : i = s.rep  OBVIOUS
  <2>1. /\ inst' = [inst EXCEPT ![i] = StopInstance(inst[i])] /\ switches' = switches \ {s}
        /\ tasks' = tasks /\ op' = op /\ instances' = instances /\ shutdown' = shutdown
    BY <1>14, <2>i DEF SwitchUnwanted
  <2>2. /\ i \in Inst /\ ~Wanted(s) /\ s.at # "remember"
        /\ \A k \in Inst : inst[k].pending # None => i \notin {k, inst[k].pending}
    BY <1>14, <2>i, UnwantedAlone
  <2>3. \A u \in switches \ switches' : u.at # "remember" /\ u.rep = i /\ ~Wanted(u)
    BY <2>i, <2>1, <2>2
  <2>4. tasks' \subseteq tasks /\ switches' \subseteq switches /\ \A t \in tasks \ tasks' : t.i = i
    BY <2>1
  <2> QED  BY <2>1, <2>2, <2>3, <2>4, HaltKeeps
<1>15. ASSUME NEW s \in switches, SwitchGivesUp(s) PROVE SwitchInv'
  <2>i. PICK i : i = s.cur  OBVIOUS
  <2>1. /\ i \in Inst /\ inst[i].pending = s.rep /\ s.rep \in Inst /\ s.at = "poll"
        /\ GiveUp(i, s.rep) /\ switches' = switches \ {s}
        /\ op' = op /\ instances' = instances /\ shutdown' = shutdown
    BY <1>15, <2>i DEF SwitchGivesUp, Wanted
  <2>2. GiveUp(i, inst[i].pending) /\ inst[i].pending # None  BY <2>1
  <2>3. \A u \in switches \ switches' :
          u.at # "remember" /\ u.cur = i /\ u.rep = inst[i].pending
    BY <2>i, <2>1
  <2> QED  BY <2>1, <2>2, <2>3, GiveUpKeeps
<1>16. ASSUME NEW t \in tasks, Drained(t) PROVE SwitchInv'
  <2>i. PICK i : i = t.i  OBVIOUS
  <2>1. /\ inst' = [inst EXCEPT ![i] = StopInstance(inst[i])] /\ tasks' = tasks \ {t}
        /\ switches' = switches /\ op' = op /\ instances' = instances /\ shutdown' = shutdown
    BY <1>16, <2>i DEF Drained
  <2>2. i \in Inst /\ inst[i].draining  BY <1>16, <2>i DEF Drained, SwitchInv, DrainInv
  <2> QED  BY <2>i, <2>1, <2>2, HaltKeeps
<1>17. ASSUME NEW t \in tasks, ExitVerified(t) PROVE SwitchInv'  BY <1>17, VerifiedKeeps
<1>18. ASSUME Moves PROVE SwitchInv'
  BY <1>18, <1>1, <1>2, <1>3, <1>4, <1>5, <1>6, <1>7, <1>8, <1>9, <1>10, <1>11, <1>12, <1>13,
     <1>14, <1>15, <1>16, <1>17 DEF Moves
<1> QED  BY <1>18, StillOrMoves, StillKeeps

(***************************************************************************)
(* A new manager has no switch, and all its Instances are untouched.       *)
(***************************************************************************)
LEMMA SwitchInit == Init => SwitchInv
<1> SUFFICES ASSUME Init PROVE SwitchInv  OBVIOUS
<1>1. \A i \in Inst : /\ inst[i].cmd = 0 /\ inst[i].pending = None /\ ~inst[i].stopping
                      /\ ~inst[i].draining /\ ~inst[i].exitIP
  BY DEF Init, Fresh
<1>2. switches = {} /\ tasks = {} /\ op.at # "detach"  BY DEF Init, Idle
<1>3. \A c \in Country : /\ Original(c) \in Inst /\ Home(Original(c)) = c
                         /\ instances[c] # None => instances[c] = Original(c)
  BY OriginalType DEF Init
<1>4. Named  BY <1>2, <1>3 DEF Named
<1>5. Born  BY <1>1, <1>2, <1>3 DEF Born, Unborn
<1>6. Fledgling /\ Verified  BY <1>2 DEF Fledgling, Verified
<1>7. DrainInv /\ PendingClean /\ Unadopted  BY <1>1, <1>2, <1>3 DEF DrainInv, PendingClean, Unadopted
<1>8. PendingOwned /\ NoOrphan  BY <1>1 DEF PendingOwned, NoOrphan
<1> QED  BY <1>4, <1>5, <1>6, <1>7, <1>8 DEF SwitchInv

(***************************************************************************)
(* SwitchInv holds in every reachable state.                               *)
(***************************************************************************)
LEMMA SwitchAlways == Spec => [](IInv /\ SwitchInv)
<1>1. Init => IInv /\ SwitchInv  BY IInvInit, SwitchInit
<1>2. IInv /\ SwitchInv /\ [Next]_vars => (IInv /\ SwitchInv)'  BY IInvStep, SwitchStep
<1> QED  BY <1>1, <1>2, PTL DEF Spec

(***************************************************************************)
(* In every behaviour a pending replacement has an owner that will resolve *)
(* it, however switches are superseded, cancelled, stopped or shut down.   *)
(***************************************************************************)
THEOREM SwitchesOwned == Spec => []PendingOwned
<1>1. SwitchInv => PendingOwned  BY DEF SwitchInv
<1> QED  BY <1>1, SwitchAlways, PTL

(***************************************************************************)
(* In every behaviour each Tor process is somebody's: its country's, being *)
(* stopped, draining or watched by a switch.                               *)
(***************************************************************************)
THEOREM ProcessesOwned == Spec => []NoOrphan
<1>1. SwitchInv => NoOrphan  BY DEF SwitchInv
<1> QED  BY <1>1, SwitchAlways, PTL

(***************************************************************************)
(* In every behaviour connections only ever move to an Instance that has   *)
(* obtained an exit address.                                               *)
(***************************************************************************)
THEOREM CutoversVerified == Spec => CutoverVerified
<1> DEFINE Move == \A c \in Country : (instances[c] # None /\ instances'[c] # instances[c])
                                        => inst[instances'[c]].exitIP
<1>1. ASSUME IInv, SwitchInv, [Next]_vars PROVE Move
  <2>1. ASSUME instances' = instances PROVE Move  BY <2>1
  <2>2. ASSUME NEW c \in Country, NEW node \in Node, NEW act \in BOOLEAN, instances[c] = None,
               StartNode(c, node, act)
        PROVE  Move
    <3>1. instances' = [instances EXCEPT ![c] = Original(c)]  BY <2>2 DEF StartNode
    <3> QED  BY <1>1, <2>2, <3>1 DEF IInv, TypeOK
  <2>3. ASSUME NEW s \in switches, SwitchCut(s) PROVE Move
    <3>1. instances' = [instances EXCEPT ![Home(s.cur)] = s.rep] /\ s.at = "cut"
      BY <2>3 DEF SwitchCut
    <3>2. inst[s.rep].exitIP  BY <1>1, <3>1 DEF SwitchInv, Verified
    <3>3. \A c \in Country : instances'[c] = s.rep \/ instances'[c] = instances[c]
      BY <1>1, <3>1 DEF IInv, TypeOK
    <3> QED  BY <3>2, <3>3
  <2>4. CASE Still  BY <2>1, <2>4 DEF Still
  <2>5. CASE Moves
    <3>1. ASSUME NEW c \in Country, Stop(c) \/ CancelReplacement(c) PROVE Move
      BY <2>1, <3>1 DEF Stop, CancelReplacement
    <3>2. CASE Evict \/ TrimOne \/ StartLaunch \/ DetachStarts \/ DetachFails
      BY <2>1, <3>2 DEF Evict, TrimOne, StartLaunch, DetachStarts, DetachFails
    <3>3. ASSUME NEW call \in calls, ReplaceBegin(call) PROVE Move
      BY <2>1, <3>3 DEF ReplaceBegin
    <3>4. ASSUME NEW i \in Inst, ShutdownStops(i) \/ WatchExit(i) PROVE Move
      BY <2>1, <3>4 DEF ShutdownStops, WatchExit
    <3>5. ASSUME NEW s \in switches,
                 SwitchPoll(s) \/ SwitchRemember(s) \/ SwitchUnwanted(s) \/ SwitchGivesUp(s)
          PROVE  Move
      BY <2>1, <3>5 DEF SwitchPoll, SwitchRemember, SwitchUnwanted, SwitchGivesUp
    <3>6. ASSUME NEW t \in tasks, Drained(t) \/ ExitVerified(t) PROVE Move
      BY <2>1, <3>6 DEF Drained, ExitVerified
    <3> HIDE DEF Move
    <3> QED  BY <2>2, <2>3, <2>5, <3>1, <3>2, <3>3, <3>4, <3>5, <3>6 DEF Moves
  <2> QED  BY <1>1, <2>4, <2>5, StillOrMoves
<1>2. IInv /\ SwitchInv /\ [Next]_vars => [Move]_vars  BY <1>1
<1> QED  BY <1>2, SwitchAlways, PTL DEF Spec, CutoverVerified

----------------------------------------------------------------------------
(* The manager implements Fleet. *)

Phase == CASE shutdown = "no" -> "open" [] shutdown = "loop" -> "closing"
           [] shutdown = "done" -> "closed" [] OTHER -> "abandoned"

\* The processes failInstance told to end.
Failing == {i \in Inst : inst[i].cmd # 0 /\ inst[i].failed /\ ~inst[i].stopping}

(***************************************************************************)
(* The phase of the fleet, by the state of the Shutdown call.              *)
(***************************************************************************)
LEMMA PhaseIs ==
    /\ shutdown = "no" => Phase = "open"
    /\ shutdown = "loop" => Phase = "closing"
    /\ shutdown = "done" => Phase = "closed"
    /\ shutdown = "timeout" => Phase = "abandoned"
    /\ shutdown \in {"loop", "done", "timeout"} => Phase # "open"
<1>1. shutdown = "no" => Phase = "open"  BY DEF Phase
<1>2. shutdown = "loop" => Phase = "closing"  BY DEF Phase
<1>3. shutdown = "done" => Phase = "closed"  BY DEF Phase
<1>4. shutdown = "timeout" => Phase = "abandoned"  BY DEF Phase
<1> QED  BY <1>1, <1>2, <1>3, <1>4

(***************************************************************************)
(* Whatever is ready after a step has a process.                           *)
(***************************************************************************)
LEMMA ReadyAlive ==
    ASSUME IInv'
    PROVE  {i \in Inst : inst'[i].status \in {"running", "switching"}}
             \in SUBSET {i \in Inst : inst'[i].cmd # 0}
  BY DEF IInv, ProcessInv, CountedHasProcess, Counted

(***************************************************************************)
(* An Instance is current exactly when its own country says so.            *)
(***************************************************************************)
LEMMA CurrentIs ==
    ASSUME IInv, SwitchInv, NEW i \in Inst
    PROVE  Abstract!IsCurrent(i) <=> instances[Home(i)] = i
<1>1. \A c \in Country : instances[c] = i => Home(i) = c
  BY ManagerAssumption DEF SwitchInv, Named
<1> QED  BY <1>1, SwitchTypes DEF Abstract!IsCurrent

(***************************************************************************)
(* A step that only drains and stops Instances is a withdrawal.            *)
(***************************************************************************)
LEMMA FleetWithdraws ==
    ASSUME IInv, SwitchInv, IInv', instances' = instances, shutdown' = shutdown,
           NEW D \in SUBSET Inst, NEW S \in SUBSET Inst,
           \A i \in D : inst[i].cmd # 0,
           \A i \in S : /\ inst[i].cmd # 0
                        /\ inst[i].draining \/ instances[Home(i)] # i \/ shutdown # "no",
           \A i \in Inst : /\ inst'[i].cmd # 0 <=> inst[i].cmd # 0
                           /\ inst'[i].exitIP <=> inst[i].exitIP
                           /\ inst'[i].draining <=> inst[i].draining \/ i \in D \/ i \in S
                           /\ inst'[i].stopping <=> inst[i].stopping \/ i \in S
                           /\ inst[i].cmd # 0 => (inst'[i].failed <=> inst[i].failed)
    PROVE  Abstract!Next
<1>1. \A i \in S : Abstract!Stoppable(i)
  <2> SUFFICES ASSUME NEW i \in S PROVE Abstract!Stoppable(i)  OBVIOUS
  <2>1. shutdown # "no" => Phase # "open"  BY PhaseIs DEF IInv, TypeOK
  <2>2. Abstract!IsCurrent(i) <=> instances[Home(i)] = i  BY CurrentIs
  <2> QED  BY <2>1, <2>2 DEF Abstract!Stoppable, Phase
<1>2. {i \in Inst : inst'[i].draining} = {i \in Inst : inst[i].draining} \cup D \cup S
  OBVIOUS
<1>3. {i \in Inst : inst'[i].stopping} = {i \in Inst : inst[i].stopping} \cup S
  OBVIOUS
<1>4. /\ {i \in Inst : inst'[i].cmd # 0} = {i \in Inst : inst[i].cmd # 0}
      /\ {i \in Inst : inst'[i].exitIP} = {i \in Inst : inst[i].exitIP}
  OBVIOUS
<1>5. D \subseteq {i \in Inst : inst[i].cmd # 0}  OBVIOUS
<1>f. Failing' = Failing \ S  BY DEF Failing
<1>6. Abstract!Withdraw(D, S)
  BY <1>1, <1>2, <1>3, <1>4, <1>5, <1>f DEF Failing, Abstract!Withdraw
<1>7. Abstract!FleetNext  BY <1>6 DEF Abstract!FleetNext
<1> QED  BY <1>7, ReadyAlive DEF Abstract!Next

(***************************************************************************)
(* The launches, the exit, the verification, the adoption, the cutover and *)
(* the two ends of Shutdown, each as the action of Fleet it is.            *)
(***************************************************************************)
LEMMA FleetLaunches ==
    ASSUME IInv, SwitchInv, IInv', instances' = instances, shutdown = "no", shutdown' = shutdown,
           NEW i \in Inst, inst[i].cmd = 0, inst'[i].cmd # 0, ~inst'[i].exitIP,
           ~inst'[i].failed, inst'[i].draining <=> inst[i].draining, inst'[i].stopping <=> inst[i].stopping,
           \A j \in Inst : j # i => inst'[j] = inst[j]
    PROVE  Abstract!Next
<1>1. {j \in Inst : inst'[j].cmd # 0} = {j \in Inst : inst[j].cmd # 0} \cup {i}  OBVIOUS
<1>2. {j \in Inst : inst'[j].exitIP} = {j \in Inst : inst[j].exitIP} \ {i}  OBVIOUS
<1>3. {j \in Inst : inst'[j].draining} = {j \in Inst : inst[j].draining}  OBVIOUS
<1>4. {j \in Inst : inst'[j].stopping} = {j \in Inst : inst[j].stopping}  OBVIOUS
<1>5. i \notin {j \in Inst : inst[j].cmd # 0}  OBVIOUS
<1>f. Failing' = Failing  BY DEF Failing
<1>6. Abstract!Launch(i)
  BY <1>1, <1>2, <1>3, <1>4, <1>5, <1>f, PhaseIs DEF Abstract!Launch, Phase, Failing
<1>7. Abstract!FleetNext  BY <1>6 DEF Abstract!FleetNext
<1> QED  BY <1>7, ReadyAlive DEF Abstract!Next

(***************************************************************************)
(* watch's first critical section.                                         *)
(***************************************************************************)
LEMMA FleetExits ==
    ASSUME IInv, SwitchInv, IInv', NEW i \in Inst, WatchExit(i) PROVE Abstract!Next
<1> USE SwitchTypes
<1>1. /\ inst' = [inst EXCEPT ![i] = Exited(inst[i])] /\ inst[i].cmd # 0
      /\ instances' = instances /\ shutdown' = shutdown
  BY DEF WatchExit, mgr
<1>2. inst'[i] = Exited(inst[i]) /\ \A j \in Inst : j # i => inst'[j] = inst[j]
  BY <1>1, OneRecord DEF IInv
<1>3. /\ inst'[i].exitIP = inst[i].exitIP /\ inst'[i].draining = inst[i].draining
      /\ inst'[i].cmd = 0 /\ ~inst'[i].stopping
  BY <1>2 DEF Exited, Instance
<1>4. {j \in Inst : inst'[j].cmd # 0} = {j \in Inst : inst[j].cmd # 0} \ {i}  BY <1>2, <1>3
<1>5. {j \in Inst : inst'[j].stopping} = {j \in Inst : inst[j].stopping} \ {i}  BY <1>2, <1>3
<1>6. {j \in Inst : inst'[j].draining} = {j \in Inst : inst[j].draining}  BY <1>2, <1>3
<1>7. {j \in Inst : inst'[j].exitIP} = {j \in Inst : inst[j].exitIP}  BY <1>2, <1>3
<1>f. Failing' = Failing \ {i}  BY <1>2, <1>3 DEF Failing
<1>8. Abstract!Exit(i)  BY <1>1, <1>4, <1>5, <1>6, <1>7, <1>f DEF Abstract!Exit, Failing
<1>9. Abstract!FleetNext  BY <1>8 DEF Abstract!FleetNext
<1> QED  BY <1>9, ReadyAlive DEF Abstract!Next

(***************************************************************************)
(* markInstanceRunning: the Instance still has its process.                *)
(***************************************************************************)
LEMMA FleetVerifies ==
    ASSUME IInv, SwitchInv, IInv', NEW t \in tasks, ExitVerified(t) PROVE Abstract!Next
<1> USE SwitchTypes
<1>i. PICK i : i = t.i  OBVIOUS
<1>1. /\ inst' = [inst EXCEPT ![i] = [inst[i] EXCEPT !.status = "running", !.exitIP = TRUE,
                                                     !.attempts = 0, !.scheduled = FALSE]]
      /\ instances' = instances /\ shutdown' = shutdown /\ i \in Inst
      /\ inst[i].status = "connecting"
  BY <1>i DEF ExitVerified, Waits, mgr
<1>2. /\ inst'[i] = [inst[i] EXCEPT !.status = "running", !.exitIP = TRUE,
                                    !.attempts = 0, !.scheduled = FALSE]
      /\ \A j \in Inst : j # i => inst'[j] = inst[j]
  BY <1>1, OneRecord DEF IInv
<1>3. inst[i] \in Instance /\ inst[i].cmd # 0
  BY <1>1 DEF IInv, ProcessInv, CountedHasProcess, Counted
<1>4. /\ inst'[i].cmd = inst[i].cmd /\ inst'[i].draining = inst[i].draining
      /\ inst'[i].stopping = inst[i].stopping /\ inst'[i].exitIP
      /\ inst'[i].failed = inst[i].failed
  BY <1>2, <1>3 DEF Instance
<1>5. {j \in Inst : inst'[j].cmd # 0} = {j \in Inst : inst[j].cmd # 0}
  <2>1. \A j \in Inst : inst'[j].cmd = inst[j].cmd  BY <1>2, <1>4
  <2> QED  BY <2>1
<1>6. {j \in Inst : inst'[j].stopping} = {j \in Inst : inst[j].stopping}
  <2>1. \A j \in Inst : inst'[j].stopping = inst[j].stopping  BY <1>2, <1>4
  <2> QED  BY <2>1
<1>7. {j \in Inst : inst'[j].draining} = {j \in Inst : inst[j].draining}
  <2>1. \A j \in Inst : inst'[j].draining = inst[j].draining  BY <1>2, <1>4
  <2> QED  BY <2>1
<1>8. {j \in Inst : inst'[j].exitIP} = {j \in Inst : inst[j].exitIP} \cup {i}
  BY <1>1, <1>2, <1>4
<1>f. Failing' = Failing  BY <1>2, <1>4 DEF Failing
<1>9. Abstract!Verify(i)
  BY <1>1, <1>3, <1>5, <1>6, <1>7, <1>8, <1>f DEF Abstract!Verify, Failing
<1>10. Abstract!FleetNext  BY <1>1, <1>9 DEF Abstract!FleetNext
<1> QED  BY <1>10, ReadyAlive DEF Abstract!Next

(***************************************************************************)
(* ensureCountry.                                                          *)
(***************************************************************************)
LEMMA FleetAdopts ==
    ASSUME IInv, SwitchInv, IInv', NEW c \in Country, NEW node, NEW act, instances[c] = None,
           StartNode(c, node, act)
    PROVE  Abstract!Next
<1> USE SwitchTypes
<1>1. /\ instances' = [instances EXCEPT ![c] = Original(c)]
      /\ inst' = inst /\ shutdown' = shutdown
  BY DEF StartNode, mgr
<1>2. /\ Original(c) \in Inst /\ inst[Original(c)].cmd = 0 /\ ~inst[Original(c)].draining
  BY DEF SwitchInv, Unadopted
<1>3. ~Abstract!IsCurrent(Original(c))  BY <1>2, CurrentIs
<1>4. Abstract!Adopt(c, Original(c))  BY <1>1, <1>2, <1>3 DEF Abstract!Adopt
<1>5. Abstract!FleetNext  BY <1>2, <1>4 DEF Abstract!FleetNext
<1> QED  BY <1>5, ReadyAlive DEF Abstract!Next

(***************************************************************************)
(* The cutover: neither side drains, unless Shutdown told it to end.       *)
(***************************************************************************)
LEMMA FleetCuts ==
    ASSUME IInv, SwitchInv, IInv', NEW s \in switches, SwitchCut(s) PROVE Abstract!Next
<1> USE SwitchTypes
<1>w. PICK i, r, c : i = s.cur /\ r = s.rep /\ c = Home(s.cur)  OBVIOUS
<1>1. /\ i \in Inst /\ r \in Inst /\ c \in Country /\ Home(i) = c
      /\ inst[i].pending = r /\ instances[c] = i /\ inst[r].exitIP /\ NotYet(r)
  BY <1>w DEF SwitchCut, Installable, Wanted, SwitchInv, Fledgling, Verified
<1>2. /\ instances' = [instances EXCEPT ![c] = r] /\ shutdown' = shutdown
      /\ inst' = [inst EXCEPT ![i] = [inst[i] EXCEPT !.pending = None, !.prev = None,
                                                     !.draining = TRUE, !.status = "draining"]]
  BY <1>w DEF SwitchCut, mgr
<1>3. /\ inst'[i] = [inst[i] EXCEPT !.pending = None, !.prev = None,
                                    !.draining = TRUE, !.status = "draining"]
      /\ \A j \in Inst : j # i => inst'[j] = inst[j]
  BY <1>1, <1>2, OneRecord DEF IInv
<1>4. inst[i] \in Instance  BY <1>1
<1>5. /\ inst'[i].cmd = inst[i].cmd /\ inst'[i].exitIP = inst[i].exitIP
      /\ inst'[i].stopping = inst[i].stopping /\ inst'[i].draining
      /\ inst'[i].failed = inst[i].failed
  BY <1>3, <1>4 DEF Instance
<1>f. Failing' = Failing  BY <1>3, <1>5 DEF Failing
<1>6. {j \in Inst : inst'[j].cmd # 0} = {j \in Inst : inst[j].cmd # 0}
  <2>1. \A j \in Inst : inst'[j].cmd = inst[j].cmd  BY <1>3, <1>5
  <2> QED  BY <2>1
<1>7. {j \in Inst : inst'[j].stopping} = {j \in Inst : inst[j].stopping}
  <2>1. \A j \in Inst : inst'[j].stopping = inst[j].stopping  BY <1>3, <1>5
  <2> QED  BY <2>1
<1>8. {j \in Inst : inst'[j].exitIP} = {j \in Inst : inst[j].exitIP}
  <2>1. \A j \in Inst : inst'[j].exitIP = inst[j].exitIP  BY <1>3, <1>5
  <2> QED  BY <2>1
<1>9. {j \in Inst : inst'[j].draining} = {j \in Inst : inst[j].draining} \cup {instances[c]}
  BY <1>1, <1>3, <1>5
<1>10. \A x \in {instances[c], r} :
          inst[x].draining => shutdown # "no" /\ (inst[x].cmd # 0 => inst[x].stopping)
  BY <1>1 DEF SwitchInv, PendingClean
<1>11. Phase = "open" => shutdown = "no"
  BY PhaseIs DEF IInv, TypeOK
<1>12. /\ Phase = "open" => {instances[c], r} \cap {j \in Inst : inst[j].draining} = {}
       /\ {instances[c], r} \cap {j \in Inst : inst[j].draining} \cap {j \in Inst : inst[j].cmd # 0}
             \subseteq {j \in Inst : inst[j].stopping}
  BY <1>10, <1>11
<1>13. ~Abstract!IsCurrent(r) /\ instances[c] # None /\ r \in {j \in Inst : inst[j].exitIP}
  BY <1>1, CurrentIs DEF NotYet
<1>14. Abstract!Cutover(c, r)
  BY <1>2, <1>6, <1>7, <1>8, <1>9, <1>12, <1>13, <1>f DEF Abstract!Cutover, Phase, Failing
<1>15. Abstract!FleetNext  BY <1>1, <1>14 DEF Abstract!FleetNext
<1> QED  BY <1>15, ReadyAlive DEF Abstract!Next

(***************************************************************************)
(* Shutdown begins, returns nil or gives up.                               *)
(***************************************************************************)
LEMMA FleetCloses ==
    ASSUME IInv, SwitchInv, IInv', ShutdownBegin \/ ShutdownReturns \/ ShutdownTimesOut
    PROVE  Abstract!Next
<1> SUFFICES Abstract!FleetNext  BY ReadyAlive DEF Abstract!Next
<1>1. inst' = inst /\ instances' = instances
  BY DEF ShutdownBegin, ShutdownReturns, ShutdownTimesOut
<1>2. \A i \in Inst : inst[i].cmd # 0 => i \in allInstances
  BY DEF IInv, ProcessInv, ProcessTracked
<1>3. /\ shutdown' = "loop" => Phase' = "closing"
      /\ shutdown' = "done" => Phase' = "closed"
      /\ shutdown' = "timeout" => Phase' = "abandoned"
  BY DEF Phase
<1>4. CASE ShutdownBegin
  <2>1. Phase = "open" /\ Phase' = "closing"  BY <1>3, <1>4, PhaseIs DEF ShutdownBegin
  <2>2. Abstract!Close  BY <1>1, <2>1 DEF Abstract!Close, Phase
  <2> QED  BY <2>2 DEF Abstract!FleetNext
<1>5. CASE ShutdownReturns
  <2>1. Phase = "closing" /\ Phase' = "closed"  BY <1>3, <1>5, PhaseIs DEF ShutdownReturns
  <2>2. {i \in Inst : inst[i].cmd # 0} = {}  BY <1>2, <1>5 DEF ShutdownReturns
  <2>3. Abstract!Closed  BY <1>1, <2>1, <2>2 DEF Abstract!Closed, Phase
  <2> QED  BY <2>3 DEF Abstract!FleetNext
<1>6. CASE ShutdownTimesOut
  <2>1. Phase = "closing" /\ Phase' = "abandoned"  BY <1>3, <1>6, PhaseIs DEF ShutdownTimesOut
  <2>2. /\ {i \in Inst : inst[i].cmd # 0} # {}
        /\ {i \in Inst : inst[i].cmd # 0} \subseteq {i \in Inst : inst[i].stopping}
    BY <1>2, <1>6 DEF ShutdownTimesOut, IInv, TypeOK
  <2>3. Abstract!Closed  BY <1>1, <2>1, <2>2 DEF Abstract!Closed, Phase
  <2> QED  BY <2>3 DEF Abstract!FleetNext
<1> QED  BY <1>4, <1>5, <1>6

(***************************************************************************)
(* Among the steps that leave the switches alone, only failInstance tells  *)
(* a process to end.                                                       *)
(***************************************************************************)
LEMMA FleetFails ==
    ASSUME IInv, IInv', Still, shutdown' = shutdown PROVE Abstract!Next
<1>F. PICK F : F = {i \in Failing' : i \notin Failing}  OBVIOUS
<1>1. /\ instances' = instances
      /\ \A i \in Inst : /\ inst'[i].cmd = inst[i].cmd /\ inst'[i].exitIP = inst[i].exitIP
                         /\ inst'[i].draining = inst[i].draining
                         /\ inst'[i].stopping = inst[i].stopping
                         /\ inst[i].failed => inst'[i].failed
                         /\ inst'[i].failed => inst[i].failed \/ (inst[i].cmd # 0 /\ ~inst[i].draining)
  BY DEF Still, Same
<1>2. {i \in Inst : inst'[i].cmd # 0} = {i \in Inst : inst[i].cmd # 0}  BY <1>1
<1>3. {i \in Inst : inst'[i].exitIP} = {i \in Inst : inst[i].exitIP}  BY <1>1
<1>4. {i \in Inst : inst'[i].draining} = {i \in Inst : inst[i].draining}  BY <1>1
<1>5. {i \in Inst : inst'[i].stopping} = {i \in Inst : inst[i].stopping}  BY <1>1
<1>6. /\ F \in SUBSET Inst /\ F \subseteq {i \in Inst : inst[i].cmd # 0}
      /\ F \cap {i \in Inst : inst[i].draining} = {}
  BY <1>1, <1>F DEF Failing
<1>7. Failing' = Failing \cup F  BY <1>1, <1>F DEF Failing
<1>8. Abstract!Fail(F)
  BY <1>1, <1>2, <1>3, <1>4, <1>5, <1>6, <1>7 DEF Abstract!Fail, Failing, Phase
<1>9. Abstract!FleetNext  BY <1>6, <1>8 DEF Abstract!FleetNext
<1> QED  BY <1>9, ReadyAlive DEF Abstract!Next

(***************************************************************************)
(* Every step of the manager is a step of Fleet.                           *)
(***************************************************************************)
LEMMA FleetStep == ASSUME IInv, SwitchInv, [Next]_vars PROVE Abstract!Next
<1> USE SwitchTypes DEF mgr
<1>0. IInv'  BY IInvStep
<1>a. ASSUME NEW c \in Country, instances[c] \in Inst, StopCountry(c), instances' = instances,
             shutdown' = shutdown
      PROVE  Abstract!Next
  <2>i. PICK i, r : i = instances[c] /\ r = inst[i].pending  OBVIOUS
  <2>r. r # None => r \in Inst /\ r # i /\ NotYet(r)  BY <1>a, <2>i, PendingFacts
  <2>1. Withdrawn(inst[i], inst'[i])  BY <1>a, <2>i, StopEffect
  <2>2. \A j \in Inst : j # i => IF j = r THEN Halted(inst[j], inst'[j]) ELSE inst'[j] = inst[j]
    BY <1>a, <2>i, StopEffect
  <2> DEFINE D == {j \in {i} : inst[j].cmd # 0}
             S == {j \in {r} : j \in Inst /\ inst[j].cmd # 0}
  <2>3. i \in Inst /\ D \in SUBSET Inst /\ S \in SUBSET Inst  BY <1>a, <2>i
  <2>4. \A j \in S : /\ inst[j].cmd # 0
                     /\ inst[j].draining \/ instances[Home(j)] # j \/ shutdown # "no"
    BY <2>r DEF NotYet
  <2>5. \A j \in Inst : /\ inst'[j].cmd # 0 <=> inst[j].cmd # 0
                        /\ inst'[j].exitIP <=> inst[j].exitIP
                        /\ inst'[j].draining <=> inst[j].draining \/ j \in D \/ j \in S
                        /\ inst'[j].stopping <=> inst[j].stopping \/ j \in S
                        /\ inst[j].cmd # 0 => (inst'[j].failed <=> inst[j].failed)
    <3> SUFFICES ASSUME NEW j \in Inst
                 PROVE  /\ inst'[j].cmd # 0 <=> inst[j].cmd # 0
                        /\ inst'[j].exitIP <=> inst[j].exitIP
                        /\ inst'[j].draining <=> inst[j].draining \/ j \in D \/ j \in S
                        /\ inst'[j].stopping <=> inst[j].stopping \/ j \in S
                        /\ inst[j].cmd # 0 => (inst'[j].failed <=> inst[j].failed)
      OBVIOUS
    <3>1. CASE j = i
      <4>1. j \notin S  BY <2>r, <3>1
      <4> QED  BY <2>1, <3>1, <4>1 DEF Withdrawn
    <3>2. CASE j # i /\ j = r
      <4>1. inst[j].stopping => inst[j].cmd # 0  BY DEF SwitchInv, DrainInv
      <4> QED  BY <2>2, <3>2, <4>1 DEF Halted
    <3>3. CASE j # i /\ j # r  BY <2>2, <3>3
    <3> QED  BY <3>1, <3>2, <3>3
  <2>6. \A j \in D : inst[j].cmd # 0  OBVIOUS
  <2> HIDE DEF D, S
  <2> QED  BY <1>0, <1>a, <2>3, <2>4, <2>5, <2>6, FleetWithdraws
<1>b. ASSUME NEW i \in Inst, inst[i].pending # None, GiveUp(i, inst[i].pending),
             instances' = instances, shutdown' = shutdown
      PROVE  Abstract!Next
  <2>r. PICK r : r = inst[i].pending  OBVIOUS
  <2>1. r \in Inst /\ r # i /\ NotYet(r)  BY <1>b, <2>r, PendingFacts
  <2>2. /\ Restored(inst[i], inst'[i]) /\ Halted(inst[r], inst'[r])
        /\ \A j \in Inst : j # i /\ j # r => inst'[j] = inst[j]
    BY <1>b, <2>r, GiveUpEffect
  <2> DEFINE D == {j \in Inst : FALSE}
             S == {j \in {r} : inst[j].cmd # 0}
  <2>3. D \in SUBSET Inst /\ S \in SUBSET Inst /\ \A j \in D : inst[j].cmd # 0  BY <2>1
  <2>4. \A j \in S : /\ inst[j].cmd # 0
                     /\ inst[j].draining \/ instances[Home(j)] # j \/ shutdown # "no"
    BY <2>1 DEF NotYet
  <2>5. inst[r].stopping => inst[r].cmd # 0  BY <2>1 DEF SwitchInv, DrainInv
  <2>6. \A j \in Inst : /\ inst'[j].cmd # 0 <=> inst[j].cmd # 0
                        /\ inst'[j].exitIP <=> inst[j].exitIP
                        /\ inst'[j].draining <=> inst[j].draining \/ j \in D \/ j \in S
                        /\ inst'[j].stopping <=> inst[j].stopping \/ j \in S
                        /\ inst[j].cmd # 0 => (inst'[j].failed <=> inst[j].failed)
    BY <2>1, <2>2, <2>5 DEF Restored, Halted
  <2> HIDE DEF D, S
  <2> QED  BY <1>0, <1>b, <2>3, <2>4, <2>6, FleetWithdraws
<1>c. ASSUME NEW i \in Inst, inst' = [inst EXCEPT ![i] = StopInstance(inst[i])],
             inst[i].draining \/ instances[Home(i)] # i \/ shutdown # "no",
             instances' = instances, shutdown' = shutdown
      PROVE  Abstract!Next
  <2>1. Halted(inst[i], StopInstance(inst[i])) /\ (inst[i].stopping => inst[i].cmd # 0)
    BY StopInstanceHalts DEF SwitchInv, DrainInv
  <2>2. Halted(inst[i], inst'[i]) /\ \A j \in Inst : j # i => inst'[j] = inst[j]
    BY <1>c, <2>1, OneRecord DEF IInv
  <2> DEFINE D == {j \in Inst : FALSE}
             S == {j \in {i} : inst[j].cmd # 0}
  <2>3. D \in SUBSET Inst /\ S \in SUBSET Inst /\ \A j \in D : inst[j].cmd # 0  OBVIOUS
  <2>4. \A j \in S : /\ inst[j].cmd # 0
                     /\ inst[j].draining \/ instances[Home(j)] # j \/ shutdown # "no"
    BY <1>c
  <2>5. \A j \in Inst : /\ inst'[j].cmd # 0 <=> inst[j].cmd # 0
                        /\ inst'[j].exitIP <=> inst[j].exitIP
                        /\ inst'[j].draining <=> inst[j].draining \/ j \in D \/ j \in S
                        /\ inst'[j].stopping <=> inst[j].stopping \/ j \in S
                        /\ inst[j].cmd # 0 => (inst'[j].failed <=> inst[j].failed)
    BY <2>1, <2>2 DEF Halted
  <2> HIDE DEF D, S
  <2> QED  BY <1>0, <1>c, <2>3, <2>4, <2>5, FleetWithdraws
<1>d. ASSUME instances' = instances, shutdown' = shutdown,
             \A j \in Inst : /\ inst'[j].cmd # 0 <=> inst[j].cmd # 0
                             /\ inst'[j].exitIP <=> inst[j].exitIP
                             /\ inst'[j].draining <=> inst[j].draining
                             /\ inst'[j].stopping <=> inst[j].stopping
                             /\ inst'[j].failed <=> inst[j].failed
      PROVE  Abstract!Next
  <2> DEFINE D == {j \in Inst : FALSE}
  <2>1. D \in SUBSET Inst /\ \A j \in Inst : j \notin D  OBVIOUS
  <2>2. /\ \A j \in D : inst[j].cmd # 0
        /\ \A j \in D : inst[j].cmd # 0 /\ (inst[j].draining \/ instances[Home(j)] # j \/ shutdown # "no")
    OBVIOUS
  <2> HIDE DEF D
  <2>3. \A j \in Inst : /\ inst'[j].cmd # 0 <=> inst[j].cmd # 0
                        /\ inst'[j].exitIP <=> inst[j].exitIP
                        /\ inst'[j].draining <=> inst[j].draining \/ j \in D \/ j \in D
                        /\ inst'[j].stopping <=> inst[j].stopping \/ j \in D
                        /\ inst[j].cmd # 0 => (inst'[j].failed <=> inst[j].failed)
    BY <1>d, <2>1
  <2> QED  BY <1>0, <1>d, <2>1, <2>2, <2>3, FleetWithdraws
<1>1. ASSUME NEW c \in Country, NEW node \in Node, NEW act \in BOOLEAN, instances[c] = None,
             StartNode(c, node, act)
      PROVE  Abstract!Next
  BY <1>0, <1>1, FleetAdopts
<1>2. ASSUME NEW c \in Country, Stop(c) PROVE Abstract!Next
  BY <1>2, <1>a DEF Stop
<1>3. ASSUME NEW c \in Country, CancelReplacement(c) PROVE Abstract!Next
  <2>i. PICK i : i = instances[c]  OBVIOUS
  <2>1. /\ i \in Inst /\ inst[i].pending # None /\ GiveUp(i, inst[i].pending)
        /\ instances' = instances /\ shutdown' = shutdown
    BY <1>3, <2>i DEF CancelReplacement
  <2> QED  BY <1>b, <2>1
<1>4. ASSUME Evict \/ TrimOne PROVE Abstract!Next
  <2>1. PICK d \in op.todo : StopCountry(d)  BY <1>4 DEF Evict, TrimOne
  <2>2. d \in Country /\ instances[d] \in Inst  BY DEF IInv, OpOK, TypeOK, Op
  <2>3. instances' = instances /\ shutdown' = shutdown  BY <1>4 DEF Evict, TrimOne
  <2> QED  BY <1>a, <2>1, <2>2, <2>3
<1>5. ASSUME StartLaunch PROVE Abstract!Next
  <2>i. PICK i : i = instances[op.c]  OBVIOUS
  <2>1. i \in Inst /\ inst[i].cmd = 0 /\ inst[i] \in Instance /\ inst[i].launched \in Nat
    BY <1>5, <2>i, FieldTypes DEF StartLaunch, CanLaunch, IInv, OpOK
  <2>2. /\ inst' = [inst EXCEPT ![i] = Launched(inst[i], clock)]
        /\ instances' = instances /\ shutdown' = shutdown
    BY <1>5, <2>i DEF StartLaunch
  <2>3. shutdown = "no"  BY <1>5 DEF StartLaunch, IInv, ShutdownInv, Launching
  <2>4. inst'[i] = Launched(inst[i], clock) /\ \A j \in Inst : j # i => inst'[j] = inst[j]
    BY <2>1, <2>2, OneRecord DEF IInv
  <2>5. /\ inst'[i].cmd # 0 /\ ~inst'[i].stopping /\ ~inst'[i].exitIP
        /\ inst'[i].draining = inst[i].draining /\ ~inst'[i].failed
    BY <2>1, <2>4 DEF Launched, Instance
  <2>6. ~inst[i].stopping  BY <2>1 DEF SwitchInv, DrainInv
  <2> QED  BY <1>0, <2>1, <2>2, <2>3, <2>4, <2>5, <2>6, FleetLaunches
<1>6. ASSUME DetachStarts PROVE Abstract!Next
  <2>i. PICK i : i = op.rep  OBVIOUS
  <2>1. /\ i \in Inst /\ inst[i].cmd = 0 /\ ~inst[i].exitIP
        /\ inst[i] \in Instance /\ inst[i].launched \in Nat
    BY <1>6, <2>i, FieldTypes DEF DetachStarts, SwitchInv, Fledgling
  <2>2. /\ inst' = [inst EXCEPT ![i] = Detached(inst[i], clock)]
        /\ instances' = instances /\ shutdown' = shutdown
    BY <1>6, <2>i DEF DetachStarts
  <2>3. shutdown = "no"  BY <1>6 DEF DetachStarts, IInv, ShutdownInv, Launching
  <2>4. inst'[i] = Detached(inst[i], clock) /\ \A j \in Inst : j # i => inst'[j] = inst[j]
    BY <2>1, <2>2, OneRecord DEF IInv
  <2>5. /\ inst'[i].cmd # 0 /\ inst'[i].stopping = inst[i].stopping
        /\ inst'[i].exitIP = inst[i].exitIP /\ inst'[i].draining = inst[i].draining
        /\ ~inst'[i].failed
    BY <2>1, <2>4 DEF Detached, Instance
  <2> QED  BY <1>0, <2>1, <2>2, <2>3, <2>4, <2>5, FleetLaunches
<1>7. ASSUME DetachFails PROVE Abstract!Next
  <2>i. PICK i : i = op.i  OBVIOUS
  <2>1. i \in Inst  BY <1>7, <2>i DEF DetachFails
  <2>2. Restored(inst[i], RestoreRecord(inst[i]))  BY <2>1, RestoreRestores
  <2>3. inst' = inst \/ inst' = [inst EXCEPT ![i] = RestoreRecord(inst[i])]
    BY <1>7, <2>i DEF DetachFails
  <2>4. \A j \in Inst : inst'[j] = inst[j] \/ Restored(inst[j], inst'[j])
    <3>1. CASE inst' = inst  BY <3>1
    <3>2. CASE inst' = [inst EXCEPT ![i] = RestoreRecord(inst[i])]
      <4>1. inst'[i] = RestoreRecord(inst[i]) /\ \A j \in Inst : j # i => inst'[j] = inst[j]
        BY <2>1, <3>2, OneRecord DEF IInv
      <4> QED  BY <2>2, <4>1
    <3> QED  BY <2>3, <3>1, <3>2
  <2>5. instances' = instances /\ shutdown' = shutdown  BY <1>7 DEF DetachFails
  <2> QED  BY <1>d, <2>4, <2>5 DEF Restored
<1>8. ASSUME NEW call \in calls, ReplaceBegin(call) PROVE Abstract!Next
  <2>i. PICK i, r \in Inst :
          /\ instances[Home(i)] = i /\ Unborn(r) /\ r # i
          /\ LET y == inst'[i] x == inst[i]
             IN  /\ y.cmd = x.cmd /\ y.stopping = x.stopping
                 /\ y.draining = x.draining /\ y.exitIP = x.exitIP /\ y.failed = x.failed
          /\ LET y == inst'[r]
             IN  y.cmd = 0 /\ ~y.stopping /\ ~y.draining /\ ~y.exitIP
          /\ \A j \in Inst : j # i /\ j # r =>
                IF j = inst[i].pending THEN Halted(inst[j], inst'[j])
                ELSE inst'[j] = inst[j]
    BY <1>8, ReplaceEffect
  <2>1. instances' = instances /\ shutdown' = shutdown  BY <1>8 DEF ReplaceBegin
  <2>2. /\ inst[r].cmd = 0 /\ ~inst[r].stopping /\ ~inst[r].draining /\ ~inst[r].exitIP
    BY <2>i DEF SwitchInv, Born
  <2> DEFINE D == {j \in Inst : FALSE}
             S == {j \in Inst : j = inst[i].pending /\ inst[j].cmd # 0}
  <2>3. D \in SUBSET Inst /\ S \in SUBSET Inst /\ \A j \in D : inst[j].cmd # 0  OBVIOUS
  <2>4. \A j \in S : /\ inst[j].cmd # 0
                     /\ inst[j].draining \/ instances[Home(j)] # j \/ shutdown # "no"
    <3>1. inst[i].pending # None => NotYet(inst[i].pending)  BY <2>i, PendingFacts
    <3> QED  BY <3>1 DEF NotYet
  <2>5. \A j \in Inst : inst[j].stopping => inst[j].cmd # 0 /\ inst[j].draining
    BY DEF SwitchInv, DrainInv
  <2>6. inst[i].pending # i /\ inst[i].pending # r  BY PendingFacts, <2>i
  <2>7. \A j \in Inst : /\ inst'[j].cmd # 0 <=> inst[j].cmd # 0
                        /\ inst'[j].exitIP <=> inst[j].exitIP
                        /\ inst'[j].draining <=> inst[j].draining \/ j \in D \/ j \in S
                        /\ inst'[j].stopping <=> inst[j].stopping \/ j \in S
                        /\ inst[j].cmd # 0 => (inst'[j].failed <=> inst[j].failed)
    BY <2>i, <2>2, <2>5, <2>6 DEF Halted
  <2> HIDE DEF D, S
  <2> QED  BY <1>0, <2>1, <2>3, <2>4, <2>7, FleetWithdraws
<1>9. ASSUME NEW i \in Inst, ShutdownStops(i) PROVE Abstract!Next
  <2>1. inst' = [inst EXCEPT ![i] = StopInstance(inst[i])] /\ shutdown # "no"
    BY <1>9 DEF ShutdownStops
  <2> QED  BY <1>9, <1>c, <2>1 DEF ShutdownStops
<1>10. ASSUME NEW i \in Inst, WatchExit(i) PROVE Abstract!Next  BY <1>0, <1>10, FleetExits
<1>11. ASSUME NEW s \in switches, SwitchPoll(s) \/ SwitchRemember(s) PROVE Abstract!Next
  BY <1>11, <1>d DEF SwitchPoll, SwitchRemember
<1>12. ASSUME NEW s \in switches, SwitchCut(s) PROVE Abstract!Next  BY <1>0, <1>12, FleetCuts
<1>13. ASSUME NEW s \in switches, SwitchUnwanted(s) PROVE Abstract!Next
  <2>1. NotYet(s.rep) /\ s.rep \in Inst  BY <1>13, UnwantedAlone
  <2>2. /\ inst' = [inst EXCEPT ![s.rep] = StopInstance(inst[s.rep])]
        /\ instances' = instances /\ shutdown' = shutdown
    BY <1>13 DEF SwitchUnwanted
  <2> QED  BY <1>c, <2>1, <2>2 DEF NotYet
<1>14. ASSUME NEW s \in switches, SwitchGivesUp(s) PROVE Abstract!Next
  <2>i. PICK i : i = s.cur  OBVIOUS
  <2>1. /\ i \in Inst /\ inst[i].pending = s.rep /\ s.rep \in Inst
        /\ GiveUp(i, s.rep) /\ instances' = instances /\ shutdown' = shutdown
    BY <1>14, <2>i DEF SwitchGivesUp, Wanted
  <2>2. GiveUp(i, inst[i].pending) /\ inst[i].pending # None  BY <2>1
  <2> QED  BY <1>b, <2>1, <2>2
<1>15. ASSUME NEW t \in tasks, Drained(t) PROVE Abstract!Next
  <2>1. t.i \in Inst /\ inst[t.i].draining  BY <1>15 DEF Drained, SwitchInv, DrainInv
  <2>2. /\ inst' = [inst EXCEPT ![t.i] = StopInstance(inst[t.i])]
        /\ instances' = instances /\ shutdown' = shutdown
    BY <1>15 DEF Drained
  <2> QED  BY <1>c, <2>1, <2>2
<1>16. ASSUME NEW t \in tasks, ExitVerified(t) PROVE Abstract!Next  BY <1>0, <1>16, FleetVerifies
<1>17. ASSUME Moves PROVE Abstract!Next
  BY <1>17, <1>1, <1>2, <1>3, <1>4, <1>5, <1>6, <1>7, <1>8, <1>9, <1>10, <1>11, <1>12, <1>13,
     <1>14, <1>15, <1>16 DEF Moves
<1>18. ASSUME Still PROVE Abstract!Next
  <2>1. CASE ShutdownBegin \/ ShutdownReturns \/ ShutdownTimesOut  BY <1>0, <2>1, FleetCloses
  <2>2. CASE Ordinary
    <3>1. instances' = instances /\ shutdown' = shutdown  BY <1>18, <2>2 DEF Still, Ordinary
    <3> QED  BY <1>0, <1>18, <3>1, FleetFails
  <2> QED  BY <2>1, <2>2, LockStep DEF IInv
<1> QED  BY <1>17, <1>18, StillOrMoves

(***************************************************************************)
(* A new manager is a new fleet.                                           *)
(***************************************************************************)
LEMMA FleetInit == Init => Abstract!Init
<1> SUFFICES ASSUME Init PROVE Abstract!Init  OBVIOUS
<1>1. \A i \in Inst : /\ inst[i].cmd = 0 /\ ~inst[i].stopping /\ ~inst[i].draining
                      /\ ~inst[i].exitIP /\ inst[i].status = "stopped"
  BY DEF Init, Fresh
<1>2. instances \in [Country -> Inst \cup {None}]  BY TypeInit DEF TypeOK
<1>3. \A c, d \in Country : instances[c] = instances[d] => c = d \/ instances[c] = None
  <2>1. \A c \in Country : instances[c] # None => instances[c] = Original(c)  BY DEF Init
  <2> QED  BY <2>1, OriginalType
<1>4. Phase = "open"  BY PhaseIs DEF Init
<1>5. /\ {i \in Inst : inst[i].cmd # 0} = {} /\ {i \in Inst : inst[i].stopping} = {}
      /\ {i \in Inst : inst[i].cmd # 0 /\ inst[i].failed /\ ~inst[i].stopping} = {}
      /\ {i \in Inst : inst[i].draining} = {} /\ {i \in Inst : inst[i].exitIP} = {}
      /\ {i \in Inst : inst[i].status \in {"running", "switching"}} = {}
  BY <1>1
<1> QED  BY <1>2, <1>3, <1>4, <1>5 DEF Abstract!Init, Phase

(***************************************************************************)
(* The manager implements Fleet in every behaviour: launches only while it *)
(* is open, a drain before a stop, cutovers only to verified Instances,    *)
(* and a Shutdown that reports what is true.                               *)
(***************************************************************************)
THEOREM ManagerImplementsFleet == Spec => ImplementsFleet
<1>1. Init => Abstract!Init  BY FleetInit
<1>2. IInv /\ SwitchInv /\ [Next]_vars => [Abstract!Next]_(Abstract!fleet)  BY FleetStep
<1> QED  BY <1>1, <1>2, SwitchAlways, PTL DEF Spec, ImplementsFleet, Abstract!Spec

----------------------------------------------------------------------------
(* Waiters and restart timers. *)

\* A scheduled restart is that of a country whose Instance failed and that
\* nobody stopped, switched or started since.
ScheduledSound(i) ==
    inst[i].scheduled =>
        /\ instances[Home(i)] = i /\ inst[i].status = "error" /\ inst[i].cmd = 0
        /\ ~inst[i].stopping /\ ~inst[i].draining /\ inst[i].pending = None

\* RestartNotLost and WaiterExists, for one Instance.
RestartKept(i) == inst[i].scheduled /\ inst[i].attempts < autoRestartLimit => HasTimer(i)

WaiterKept(i) ==
    ~inst[i].draining =>
        /\ inst[i].status = "starting" => HasWaiter(i, "awaitReady")
        /\ inst[i].status = "connecting" => HasWaiter(i, "awaitBootstrap")

Timed(i) == ScheduledSound(i) /\ (~shuttingDown => RestartKept(i)) /\ WaiterKept(i)

TimedInv == \A i \in Inst : Timed(i)

\* Nothing is due for x: no restart is scheduled and nobody has to wait for it.
Undue(x) == ~x.scheduled /\ (x.draining \/ x.status \notin {"starting", "connecting"})

\* The step leaves i, and the goroutines that wait for i, alone.
Spared(i) ==
    /\ inst'[i].status = inst[i].status /\ inst'[i].cmd = inst[i].cmd
    /\ inst'[i].stopping = inst[i].stopping /\ inst'[i].draining = inst[i].draining
    /\ inst'[i].pending = inst[i].pending /\ inst'[i].scheduled = inst[i].scheduled
    /\ inst'[i].attempts = inst[i].attempts
    /\ instances[Home(i)] = i => instances'[Home(i)] = i
    /\ \A t \in tasks : t.i = i /\ t.fn \in {"awaitReady", "awaitBootstrap", "timer"} => t \in tasks'

(***************************************************************************)
(* What is left alone stays timed.                                         *)
(***************************************************************************)
LEMMA SparedTimed ==
    ASSUME NEW i \in Inst, Timed(i), Spared(i), ~shuttingDown' => ~shuttingDown PROVE Timed(i)'
  BY DEF Timed, Spared, ScheduledSound, RestartKept, WaiterKept, HasTimer, HasWaiter

(***************************************************************************)
(* An Instance of which nothing is due needs no goroutine and no timer.    *)
(***************************************************************************)
LEMMA UndueTimed == ASSUME NEW i \in Inst, Undue(inst'[i]) PROVE Timed(i)'
  BY DEF Undue, Timed, ScheduledSound, RestartKept, WaiterKept

(***************************************************************************)
(* stopInstance leaves nothing due.                                        *)
(***************************************************************************)
LEMMA StopInstanceUndue ==
    ASSUME NEW x \in Instance, x.stopping => x.draining, ~x.scheduled PROVE Undue(StopInstance(x))
<1>1. CASE x.stopping  BY <1>1 DEF StopInstance, Undue
<1>2. CASE ~x.stopping /\ x.cmd = 0
  <2>1. StopInstance(x) = [x EXCEPT !.status = "stopped"]  BY <1>2 DEF StopInstance
  <2> QED  BY <2>1 DEF Instance, Undue
<1>3. CASE ~x.stopping /\ x.cmd # 0
  <2>1. StopInstance(x) = [x EXCEPT !.stopping = TRUE, !.draining = TRUE, !.status = "stopping"]
    BY <1>3 DEF StopInstance
  <2> QED  BY <2>1 DEF Instance, Undue
<1> QED  BY <1>1, <1>2, <1>3

(***************************************************************************)
(* Neither does stop, which also takes a scheduled restart back.           *)
(***************************************************************************)
LEMMA StopRecordUndue ==
    ASSUME NEW x \in Instance, x.scheduled => ~x.draining PROVE Undue(StopRecord(x))
<1> DEFINE y == [x EXCEPT !.pending = None, !.prev = None]
<1>0. y \in Instance /\ y.draining = x.draining /\ y.scheduled = x.scheduled  BY DEF Instance
<1> HIDE DEF y
<1>1. CASE x.cmd = 0
  <2>1. StopRecord(x) = [y EXCEPT !.status = "stopped", !.scheduled = FALSE, !.attempts = 0]
    BY <1>1 DEF StopRecord, y
  <2> QED  BY <1>0, <2>1 DEF Instance, Undue
<1>2. CASE x.cmd # 0 /\ x.draining
  <2>1. StopRecord(x) = y  BY <1>2 DEF StopRecord, y
  <2> QED  BY <1>0, <1>2, <2>1 DEF Undue
<1>3. CASE x.cmd # 0 /\ ~x.draining
  <2>1. StopRecord(x) = [y EXCEPT !.status = "draining", !.draining = TRUE,
                                  !.scheduled = FALSE, !.attempts = 0]
    BY <1>3 DEF StopRecord, y
  <2> QED  BY <1>0, <2>1 DEF Instance, Undue
<1> QED  BY <1>1, <1>2, <1>3

(***************************************************************************)
(* Restoring the Instance of a given-up switch, with the waiters           *)
(* resumeAfterReplacement starts, leaves it timed: what was starting or    *)
(* connecting before the switch is waited for again.                       *)
(***************************************************************************)
LEMMA RestoredTimed ==
    ASSUME IInv, NEW i \in Inst, NEW r, ~inst[i].scheduled, inst'[i] = RestoreRecord(inst[i]),
           ResumeTasks(i, r) \subseteq tasks'
    PROVE  Timed(i)'
<1>1. inst[i] \in Instance  BY SwitchTypes
<1>2. /\ inst'[i].status = RestoredStatus(inst[i]) /\ inst'[i].cmd = inst[i].cmd
      /\ inst'[i].draining = inst[i].draining /\ ~inst'[i].scheduled
  BY <1>1 DEF RestoreRecord, Instance
<1>3. CASE Resumes(inst[i]) /\ inst[i].prev = "starting"
  <2>1. GoTask("awaitReady", i, inst[i].cmd, r) \in tasks'  BY <1>3 DEF ResumeTasks
  <2>2. HasWaiter(i, "awaitReady")'  BY <1>2, <2>1 DEF HasWaiter, GoTask
  <2>3. inst'[i].status \in {"starting", "running"}  BY <1>2, <1>3 DEF RestoredStatus
  <2> QED  BY <1>2, <2>2, <2>3 DEF Timed, ScheduledSound, RestartKept, WaiterKept
<1>4. CASE Resumes(inst[i]) /\ inst[i].prev = "connecting"
  <2>1. GoTask("awaitBootstrap", i, inst[i].cmd, r) \in tasks'  BY <1>4 DEF ResumeTasks
  <2>2. HasWaiter(i, "awaitBootstrap")'  BY <1>2, <2>1 DEF HasWaiter, GoTask
  <2>3. inst'[i].status \in {"connecting", "running"}  BY <1>2, <1>4 DEF RestoredStatus
  <2> QED  BY <1>2, <2>2, <2>3 DEF Timed, ScheduledSound, RestartKept, WaiterKept
<1>5. CASE Resumes(inst[i]) /\ inst[i].prev \notin {"starting", "connecting"}
  <2>1. inst'[i].status \notin {"starting", "connecting"}  BY <1>2, <1>5 DEF RestoredStatus
  <2> QED  BY <1>2, <2>1, UndueTimed DEF Undue
<1>6. CASE ~Resumes(inst[i])
  <2>1. inst'[i].status \notin {"starting", "connecting"}  BY <1>2, <1>6 DEF RestoredStatus
  <2> QED  BY <1>2, <2>1, UndueTimed DEF Undue
<1> QED  BY <1>3, <1>4, <1>5, <1>6

(***************************************************************************)
(* Every step keeps TimedInv.                                              *)
(***************************************************************************)
LEMMA TimedStep == ASSUME IInv, SwitchInv, TimedInv, [Next]_vars PROVE TimedInv'
<1> USE SwitchTypes DEF mgr
<1>1. ~shuttingDown' => ~shuttingDown
  BY LockStep DEF Ordinary, ShutdownBegin, ShutdownReturns, ShutdownTimesOut, IInv
<1>2. \A i \in Inst : /\ inst[i].stopping => inst[i].draining
                      /\ inst[i].scheduled => /\ instances[Home(i)] = i /\ inst[i].cmd = 0
                                              /\ ~inst[i].draining /\ inst[i].pending = None
                                              /\ inst[i].status = "error"
  BY DEF SwitchInv, DrainInv, TimedInv, Timed, ScheduledSound
<1>3. \A i \in Inst : Spared(i) => Timed(i)'  BY <1>1, SparedTimed DEF TimedInv
<1> DEFINE Held(i) == \A t \in tasks : t.i # i /\ t.fn \in {"awaitReady", "awaitBootstrap", "timer"}
                                         => t \in tasks'
           AllHeld == \A t \in tasks : t.fn \in {"awaitReady", "awaitBootstrap", "timer"} => t \in tasks'
<1>4. ASSUME inst' = inst, AllHeld, \A c \in Country : instances'[c] = instances[c] \/ instances[c] = None
      PROVE  TimedInv'
  BY <1>3, <1>4 DEF TimedInv, Spared
<1>5. ASSUME NEW i \in Inst, NEW v, inst' = [inst EXCEPT ![i] = v], Held(i), instances' = instances,
             Timed(i)'
      PROVE  TimedInv'
  <2>1. \A j \in Inst : j # i => inst'[j] = inst[j]  BY <1>5 DEF IInv, TypeOK
  <2>2. \A j \in Inst : j # i => Spared(j)  BY <1>5, <2>1 DEF Spared
  <2> QED  BY <1>3, <1>5, <2>2 DEF TimedInv
<1>6. ASSUME NEW i \in Inst, NEW v, inst' = [inst EXCEPT ![i] = v], Held(i), instances' = instances,
             Undue(v)
      PROVE  TimedInv'
  <2>1. inst'[i] = v  BY <1>6, OneRecord DEF IInv
  <2> QED  BY <1>5, <1>6, <2>1, UndueTimed
<1>7. ASSUME NEW i \in Inst, inst' = [inst EXCEPT ![i] = StopInstance(inst[i])], Held(i),
             instances' = instances, ~inst[i].scheduled
      PROVE  TimedInv'
  <2>1. Undue(StopInstance(inst[i]))  BY <1>2, <1>7, StopInstanceUndue
  <2> QED  BY <1>6, <1>7, <2>1
<1>8. ASSUME NEW c \in Country, instances[c] \in Inst, StopCountry(c), instances' = instances
      PROVE  TimedInv'
  <2>i. PICK i, r : i = instances[c] /\ r = inst[i].pending  OBVIOUS
  <2>1. r # None => r \in Inst /\ r # i /\ NotYet(r)  BY <1>8, <2>i, PendingFacts
  <2>2. \A j \in Inst : inst'[j] = IF j = i THEN StopRecord(inst[i])
                                   ELSE IF j = r THEN StopInstance(inst[j]) ELSE inst[j]
    BY <1>8, <2>i DEF StopCountry
  <2>3. AllHeld  BY <1>8 DEF StopCountry
  <2>4. \A j \in Inst : j # i /\ j # r => Spared(j)  BY <1>8, <2>2, <2>3 DEF Spared
  <2>5. i \in Inst /\ Undue(inst'[i])
    BY <1>2, <1>8, <2>i, <2>2, StopRecordUndue
  <2>6. r \in Inst => Undue(inst'[r])
    <3> SUFFICES ASSUME r \in Inst PROVE Undue(inst'[r])  OBVIOUS
    <3>1. r # i /\ ~inst[r].scheduled  BY <1>2, <2>1 DEF NotYet
    <3>2. inst'[r] = StopInstance(inst[r])  BY <2>2, <3>1
    <3> QED  BY <1>2, <3>1, <3>2, StopInstanceUndue
  <2> QED  BY <1>3, <2>4, <2>5, <2>6, UndueTimed DEF TimedInv
<1>9. ASSUME NEW i \in Inst, inst[i].pending # None, GiveUp(i, inst[i].pending),
             instances' = instances
      PROVE  TimedInv'
  <2>r. PICK r : r = inst[i].pending  OBVIOUS
  <2>1. r \in Inst /\ r # i /\ NotYet(r)  BY <1>9, <2>r, PendingFacts
  <2>2. inst' = [inst EXCEPT ![i] = RestoreRecord(inst[i]), ![r] = StopInstance(inst[r])]
    BY <1>9, <2>r, <2>1 DEF GiveUp, IInv, TypeOK
  <2>3. /\ inst'[i] = RestoreRecord(inst[i]) /\ inst'[r] = StopInstance(inst[r])
        /\ \A j \in Inst : j # i /\ j # r => inst'[j] = inst[j]
    BY <2>1, <2>2 DEF IInv, TypeOK
  <2>4. AllHeld /\ ResumeTasks(i, r) \subseteq tasks'  BY <1>9, <2>r DEF GiveUp
  <2>5. \A j \in Inst : j # i /\ j # r => Spared(j)  BY <1>9, <2>3, <2>4 DEF Spared
  <2>6. ~inst[i].scheduled /\ ~inst[r].scheduled  BY <1>2, <1>9, <2>1 DEF NotYet
  <2>7. Timed(i)'  BY <2>3, <2>4, <2>6, RestoredTimed
  <2>8. Undue(inst'[r])  BY <1>2, <2>1, <2>3, <2>6, StopInstanceUndue
  <2> QED  BY <1>3, <2>1, <2>5, <2>7, <2>8, UndueTimed DEF TimedInv
<1>10. ASSUME NEW i \in Inst, ScheduleRestart(i), instances' = instances, shuttingDown' = shuttingDown,
              Held(i), GoTask("timer", i, inst[i].attempts + 1, None) \in tasks'
       PROVE  TimedInv'
  <2>1. inst' = [inst EXCEPT ![i] = Scheduled(inst[i])] /\ Eligible(i)
    BY <1>10 DEF ScheduleRestart, Schedules
  <2>2. inst'[i] = Scheduled(inst[i])  BY <2>1, OneRecord DEF IInv
  <2>3. /\ inst'[i].attempts = inst[i].attempts + 1 /\ inst'[i].status = inst[i].status
        /\ inst'[i].cmd = inst[i].cmd /\ inst'[i].stopping = inst[i].stopping
        /\ inst'[i].draining = inst[i].draining /\ inst'[i].pending = inst[i].pending
    BY <2>2 DEF Scheduled, Instance
  <2>4. ScheduledSound(i)' /\ WaiterKept(i)'
    BY <1>10, <2>1, <2>3 DEF Eligible, ScheduledSound, WaiterKept
  <2>5. HasTimer(i)'
    <3>1. PICK t \in tasks' : t.fn = "timer" /\ t.i = i /\ t.p = inst[i].attempts + 1
      BY <1>10 DEF GoTask
    <3> QED  BY <2>3, <3>1 DEF HasTimer
  <2>6. Timed(i)'  BY <2>4, <2>5 DEF Timed, RestartKept
  <2> QED  BY <1>5, <1>10, <2>1, <2>6
<1>11. \A t \in tasks : t \in Task  BY DEF IInv, TypeOK
<1>a1. ASSUME NEW c, NEW act, NEW by, NEW rest, StartEnter(c, act, by, rest) PROVE TimedInv'
  BY <1>4, <1>a1 DEF StartEnter
<1>a2. ASSUME NEW c \in Country, NEW node \in Node, NEW act \in BOOLEAN, StartNode(c, node, act)
       PROVE  TimedInv'
  <2>1. inst' = inst /\ tasks' = tasks  BY <1>a2 DEF StartNode
  <2>2. \A d \in Country : instances'[d] = instances[d] \/ instances[d] = None
    BY <1>a2 DEF StartNode, IInv, TypeOK
  <2> QED  BY <1>4, <2>1, <2>2
<1>a3. ASSUME NEW c \in Country, Stop(c) PROVE TimedInv'  BY <1>8, <1>a3 DEF Stop
<1>a4. ASSUME NEW c \in Country, CancelReplacement(c) PROVE TimedInv'
  <2>i. PICK i : i = instances[c]  OBVIOUS
  <2>1. /\ i \in Inst /\ inst[i].pending # None /\ GiveUp(i, inst[i].pending)
        /\ instances' = instances
    BY <1>a4, <2>i DEF CancelReplacement
  <2> QED  BY <1>9, <2>1
<1>a5. ASSUME NEW c \in Country, UpstreamRetry(c) PROVE TimedInv'
  <2>i. PICK i : i = instances[c]  OBVIOUS
  <2>1. /\ i \in Inst /\ inst' = [inst EXCEPT ![i] = [inst[i] EXCEPT !.status = "connecting"]]
        /\ instances' = instances /\ inst[i].cmd # 0
        /\ tasks' = tasks \cup {GoTask("awaitBootstrap", i, inst[i].cmd, i)}
    BY <1>a5, <2>i DEF UpstreamRetry
  <2>2. inst'[i] = [inst[i] EXCEPT !.status = "connecting"]  BY <2>1, OneRecord DEF IInv
  <2>3. /\ inst'[i].status = "connecting" /\ inst'[i].cmd = inst[i].cmd /\ ~inst'[i].scheduled
    BY <1>2, <2>1, <2>2 DEF Instance
  <2>4. HasWaiter(i, "awaitBootstrap")'
    <3>1. GoTask("awaitBootstrap", i, inst[i].cmd, i) \in tasks'  BY <2>1
    <3> QED  BY <2>3, <3>1 DEF HasWaiter, GoTask
  <2>5. Timed(i)'  BY <2>3, <2>4 DEF Timed, ScheduledSound, RestartKept, WaiterKept
  <2> QED  BY <1>5, <2>1, <2>5
<1>a6. ASSUME NEW limit \in Limits, UpdateMaxRunning(limit) PROVE TimedInv'
  BY <1>4, <1>a6 DEF UpdateMaxRunning
<1>a7. CASE ShutdownBegin  BY <1>4, <1>a7 DEF ShutdownBegin
<1>b1. CASE Evict \/ TrimOne
  <2>1. PICK d \in op.todo : StopCountry(d)  BY <1>b1 DEF Evict, TrimOne
  <2>2. d \in Country /\ instances[d] \in Inst  BY DEF IInv, OpOK, TypeOK, Op
  <2>3. instances' = instances  BY <1>b1 DEF Evict, TrimOne
  <2> QED  BY <1>8, <2>1, <2>2, <2>3
<1>b2. CASE StartAlready \/ StartBusy \/ TrimDone
  BY <1>4, <1>b2 DEF StartAlready, StartBusy, TrimDone
<1>b4. CASE StartError
  <2>i. PICK i : i = instances[op.c]  OBVIOUS
  <2>1. i \in Inst /\ CanLaunch(i)  BY <1>b4, <2>i DEF StartError, IInv, OpOK
  <2>2. PICK st \in {inst[i].status, "error"} : inst' = [inst EXCEPT ![i].status = st]
    BY <1>b4, <2>i DEF StartError
  <2>3. inst' = [inst EXCEPT ![i] = [inst[i] EXCEPT !.status = st]] /\ instances' = instances
        /\ tasks' = tasks
    BY <1>b4, <2>2 DEF StartError
  <2>4. inst'[i] = [inst[i] EXCEPT !.status = st]  BY <2>1, <2>3, OneRecord DEF IInv
  <2>5. CASE inst[i].scheduled
    <3>1. inst[i].status = "error" /\ st = "error"  BY <1>2, <2>1, <2>5
    <3>2. inst'[i] = inst[i]  BY <2>1, <2>4, <3>1 DEF Instance
    <3>3. Spared(i)  BY <2>3, <3>2 DEF Spared
    <3> QED  BY <1>3, <1>5, <2>1, <2>3, <3>3
  <2>6. CASE ~inst[i].scheduled
    <3>1. st \notin {"starting", "connecting"}  BY <2>1 DEF CanLaunch, Counted
    <3>2. Undue([inst[i] EXCEPT !.status = st])  BY <2>1, <2>6, <3>1 DEF Undue, Instance
    <3> QED  BY <1>6, <2>1, <2>3, <3>2
  <2> QED  BY <2>5, <2>6
<1>b5. CASE StartLaunch
  <2>i. PICK i : i = instances[op.c]  OBVIOUS
  <2>1. i \in Inst /\ inst[i] \in Instance  BY <1>b5, <2>i DEF StartLaunch, IInv, OpOK
  <2>2. /\ inst' = [inst EXCEPT ![i] = Launched(inst[i], clock)] /\ instances' = instances
        /\ tasks' = tasks \cup {GoTask("awaitReady", i, inst[i].launched + 1, None)}
    BY <1>b5, <2>i DEF StartLaunch
  <2>3. inst'[i] = Launched(inst[i], clock)  BY <2>1, <2>2, OneRecord DEF IInv
  <2>4. /\ inst'[i].cmd = inst[i].launched + 1 /\ inst'[i].status = "starting"
        /\ ~inst'[i].scheduled
    BY <2>1, <2>3 DEF Launched, Instance
  <2>5. HasWaiter(i, "awaitReady")'
    <3>1. GoTask("awaitReady", i, inst[i].launched + 1, None) \in tasks'  BY <2>2
    <3> QED  BY <2>4, <3>1 DEF HasWaiter, GoTask
  <2>6. Timed(i)'  BY <2>4, <2>5 DEF Timed, ScheduledSound, RestartKept, WaiterKept
  <2> QED  BY <1>5, <2>1, <2>2, <2>6
<1>b8. CASE DetachStarts
  <2>i. PICK i : i = op.rep  OBVIOUS
  <2>1. i \in Inst /\ inst[i] \in Instance /\ inst[i].launched = 0 /\ ~inst[i].scheduled
    BY <1>2, <1>b8, <2>i DEF DetachStarts, SwitchInv, Fledgling, NotYet
  <2>2. /\ inst' = [inst EXCEPT ![i] = Detached(inst[i], clock)] /\ instances' = instances
        /\ tasks' = tasks \cup {GoTask("awaitReady", i, 1, None)}
    BY <1>b8, <2>i DEF DetachStarts
  <2>3. inst'[i] = Detached(inst[i], clock)  BY <2>1, <2>2, OneRecord DEF IInv
  <2>4. /\ inst'[i].cmd = 1 /\ inst'[i].status = "starting" /\ ~inst'[i].scheduled
    BY <2>1, <2>3 DEF Detached, Instance
  <2>5. HasWaiter(i, "awaitReady")'
    <3>1. GoTask("awaitReady", i, 1, None) \in tasks'  BY <2>2
    <3> QED  BY <2>4, <3>1 DEF HasWaiter, GoTask
  <2>6. Timed(i)'  BY <2>4, <2>5 DEF Timed, ScheduledSound, RestartKept, WaiterKept
  <2> QED  BY <1>5, <2>1, <2>2, <2>6
<1>b9. CASE DetachFails
  <2>i. PICK i, r : i = op.i /\ r = op.rep  OBVIOUS
  <2>1. i \in Inst /\ r \in Inst /\ instances' = instances  BY <1>b9, <2>i DEF DetachFails
  <2>2. CASE inst[i].pending = r
    <3>1. /\ inst' = [inst EXCEPT ![i] = RestoreRecord(inst[i])]
          /\ tasks' = tasks \cup ResumeTasks(i, r)
      BY <1>b9, <2>i, <2>2 DEF DetachFails
    <3>2. inst'[i] = RestoreRecord(inst[i])  BY <2>1, <3>1, OneRecord DEF IInv
    <3>3. ~inst[i].scheduled  BY <1>2, <2>1, <2>2
    <3>4. Timed(i)'  BY <2>1, <3>1, <3>2, <3>3, RestoredTimed
    <3> QED  BY <1>5, <2>1, <3>1, <3>4
  <2>3. CASE inst[i].pending # r
    <3>1. inst' = inst /\ tasks' = tasks  BY <1>b9, <2>i, <2>3 DEF DetachFails
    <3> QED  BY <1>4, <2>1, <3>1
  <2> QED  BY <2>2, <2>3
<1>c1. ASSUME NEW call \in calls, StartAssigned(call) \/ StartRestart(call) PROVE TimedInv'
  BY <1>a1, <1>c1 DEF StartAssigned, StartRestart
<1>c3. ASSUME NEW call \in calls, Activate(call) \/ Adopt(call) \/ ReplaceRefused(call)
       PROVE  TimedInv'
  BY <1>4, <1>c3 DEF Activate, Adopt, ReplaceRefused
<1>12. ASSUME NEW i \in Inst, NEW v, inst' = [inst EXCEPT ![i] = v], instances' = instances, AllHeld,
              v.status = inst[i].status, v.cmd = inst[i].cmd, v.stopping = inst[i].stopping,
              v.draining = inst[i].draining, v.pending = inst[i].pending,
              v.scheduled = inst[i].scheduled, v.attempts = inst[i].attempts
       PROVE  TimedInv'
  <2>1. inst'[i] = v  BY <1>12, OneRecord DEF IInv
  <2>2. Spared(i)  BY <1>12, <2>1 DEF Spared
  <2> QED  BY <1>3, <1>5, <1>12, <2>2
<1>c5. ASSUME NEW call \in calls, Assign(call) PROVE TimedInv'
  <2>i. PICK i, v : i = call.i /\ v = [inst[i] EXCEPT !.fp = call.node]  OBVIOUS
  <2>1. i \in Inst /\ inst[i] \in Instance  BY <2>i DEF IInv, TypeOK, Call
  <2>2. inst' = [inst EXCEPT ![i] = v] /\ instances' = instances /\ tasks' = tasks
    BY <1>c5, <2>i DEF Assign
  <2>3. /\ v.status = inst[i].status /\ v.cmd = inst[i].cmd /\ v.stopping = inst[i].stopping
        /\ v.draining = inst[i].draining /\ v.pending = inst[i].pending
        /\ v.scheduled = inst[i].scheduled /\ v.attempts = inst[i].attempts
    BY <2>i, <2>1 DEF Instance
  <2> QED  BY <1>12, <2>1, <2>2, <2>3
<1>c7. ASSUME NEW call \in calls, ReplaceBegin(call) PROVE TimedInv'
  <2>i. PICK i : i = call.i  OBVIOUS
  <2>0. i \in Inst /\ inst[i].cmd # 0 /\ instances' = instances /\ tasks' = tasks
    BY <1>c7, <2>i DEF ReplaceBegin, Replaceable, IInv, TypeOK, Call
  <2>1. PICK r \in NextReplacement(Home(call.i)), port \in Port \ reservedPorts :
          inst' = [j \in Inst |-> IF j = call.i THEN SwitchingTo(inst[j], r)
                                  ELSE IF j = r THEN Fresh(call.node, port)
                                  ELSE IF j = inst[call.i].pending THEN StopInstance(inst[j])
                                  ELSE inst[j]]
    BY <1>c7 DEF ReplaceBegin, FreePorts
  <2>2. \A j \in Inst : inst'[j] = IF j = i THEN SwitchingTo(inst[j], r)
                                   ELSE IF j = r THEN Fresh(call.node, port)
                                   ELSE IF j = inst[i].pending THEN StopInstance(inst[j])
                                   ELSE inst[j]
    BY <2>i, <2>1
  <2>3. Undue(SwitchingTo(inst[i], r))
    BY <1>2, <2>0 DEF Undue, SwitchingTo, Instance
  <2>4. Undue(Fresh(call.node, port))  BY DEF Undue, Fresh
  <2>5. ASSUME NEW j \in Inst, j = inst[i].pending PROVE Undue(StopInstance(inst[j]))
    <3>1. NotYet(j)  BY <2>0, <2>5, PendingFacts
    <3>2. ~inst[j].scheduled  BY <1>2, <3>1 DEF NotYet
    <3> QED  BY <1>2, <3>2, StopInstanceUndue
  <2>6. \A j \in Inst : inst'[j] = inst[j] => Spared(j)  BY <2>0 DEF Spared
  <2>7. \A j \in Inst : Undue(inst'[j]) \/ Spared(j)
    BY <2>2, <2>3, <2>4, <2>5, <2>6
  <2> QED  BY <1>3, <2>7, UndueTimed DEF TimedInv
<1>c8. ASSUME NEW call \in calls, RestartFailed(call) PROVE TimedInv'
  <2>1. call.i \in Inst  BY DEF IInv, TypeOK, Call
  <2>2. CASE /\ ScheduleRestart(call.i)
             /\ tasks' = tasks \cup {GoTask("timer", call.i, inst[call.i].attempts + 1, None)}
    BY <1>10, <1>c8, <2>1, <2>2 DEF RestartFailed
  <2>3. CASE UNCHANGED <<inst, tasks>>  BY <1>4, <1>c8, <2>3 DEF RestartFailed
  <2> QED  BY <1>c8, <2>2, <2>3 DEF RestartFailed
<1>c9. ASSUME NEW i \in Inst, ShutdownStops(i) PROVE TimedInv'
  <2>1. /\ inst' = [inst EXCEPT ![i] = StopInstance(inst[i])] /\ ~inst[i].scheduled
        /\ instances' = instances /\ tasks' = tasks
    BY <1>2, <1>c9 DEF ShutdownStops
  <2> QED  BY <1>7, <2>1
<1>c10. CASE ShutdownReturns \/ ShutdownTimesOut
  BY <1>4, <1>c10 DEF ShutdownReturns, ShutdownTimesOut
<1>d1. ASSUME NEW s \in switches, SwitchPoll(s) \/ SwitchRemember(s) PROVE TimedInv'
  BY <1>4, <1>d1 DEF SwitchPoll, SwitchRemember
<1>d2. ASSUME NEW s \in switches, SwitchCut(s) PROVE TimedInv'
  <2>w. PICK i, r, c : i = s.cur /\ r = s.rep /\ c = Home(s.cur)  OBVIOUS
  <2>1. i \in Inst /\ r \in Inst /\ c \in Country /\ inst[i].pending = r /\ instances[c] = i
        /\ Home(i) = c
    BY <1>d2, <2>w DEF SwitchCut, Installable, Wanted
  <2>2. /\ instances' = [instances EXCEPT ![c] = r] /\ tasks' = tasks
        /\ inst' = [inst EXCEPT ![i] = [inst[i] EXCEPT !.pending = None, !.prev = None,
                                                       !.draining = TRUE, !.status = "draining"]]
    BY <1>d2, <2>w DEF SwitchCut
  <2>3. /\ inst'[i] = [inst[i] EXCEPT !.pending = None, !.prev = None,
                                      !.draining = TRUE, !.status = "draining"]
        /\ \A j \in Inst : j # i => inst'[j] = inst[j]
    BY <2>1, <2>2, OneRecord DEF IInv
  <2>4. ~inst[i].scheduled /\ inst[i] \in Instance  BY <1>2, <2>1
  <2>5. Undue(inst'[i])  BY <2>3, <2>4 DEF Undue, Instance
  <2>6. \A j \in Inst : j # i => (instances[Home(j)] = j => instances'[Home(j)] = j)
    BY <2>1, <2>2 DEF IInv, TypeOK
  <2>7. \A j \in Inst : j # i => Spared(j)  BY <2>2, <2>3, <2>6 DEF Spared
  <2> QED  BY <1>3, <2>1, <2>5, <2>7, UndueTimed DEF TimedInv
<1>d4. ASSUME NEW s \in switches, SwitchUnwanted(s) PROVE TimedInv'
  <2>i. PICK i : i = s.rep  OBVIOUS
  <2>1. i \in Inst /\ ~inst[i].scheduled  BY <1>2, <1>d4, <2>i, UnwantedAlone DEF NotYet
  <2>2. /\ inst' = [inst EXCEPT ![i] = StopInstance(inst[i])]
        /\ instances' = instances /\ tasks' = tasks
    BY <1>d4, <2>i DEF SwitchUnwanted
  <2> QED  BY <1>7, <2>1, <2>2
<1>d5. ASSUME NEW s \in switches, SwitchGivesUp(s) PROVE TimedInv'
  <2>i. PICK i : i = s.cur  OBVIOUS
  <2>1. /\ i \in Inst /\ inst[i].pending = s.rep /\ s.rep \in Inst
        /\ GiveUp(i, s.rep) /\ instances' = instances
    BY <1>d5, <2>i DEF SwitchGivesUp, Wanted
  <2>2. GiveUp(i, inst[i].pending) /\ inst[i].pending # None  BY <2>1
  <2> QED  BY <1>9, <2>1, <2>2
<1>e1. ASSUME NEW t \in tasks, Drained(t) PROVE TimedInv'
  <2>i. PICK i : i = t.i  OBVIOUS
  <2>1. /\ inst' = [inst EXCEPT ![i] = StopInstance(inst[i])]
        /\ instances' = instances /\ tasks' = tasks \ {t} /\ t.fn = "drain"
    BY <1>e1, <2>i DEF Drained
  <2>2. i \in Inst /\ ~inst[i].scheduled  BY <1>2, <2>i, <2>1 DEF SwitchInv, DrainInv
  <2> QED  BY <1>7, <2>1, <2>2
<1>e2. ASSUME NEW t \in tasks, WatchClean(t) PROVE TimedInv'
  BY <1>4, <1>e2 DEF WatchClean
<1>e3. ASSUME NEW t \in tasks, WatchSettle(t) PROVE TimedInv'
  <2>1. CASE /\ ScheduleRestart(t.i)
             /\ tasks' = (tasks \ {t}) \cup {GoTask("timer", t.i, inst[t.i].attempts + 1, None)}
    <3>1. instances' = instances /\ shuttingDown' = shuttingDown  BY <1>e3 DEF WatchSettle
    <3> QED  BY <1>10, <2>1, <3>1
  <2>2. CASE tasks' = tasks \ {t} /\ UNCHANGED inst  BY <1>4, <1>e3, <2>2 DEF WatchSettle
  <2> QED  BY <1>e3, <2>1, <2>2 DEF WatchSettle
<1>e4. ASSUME NEW t \in tasks, TimerFires(t) PROVE TimedInv'
  <2>i. PICK i : i = t.i  OBVIOUS
  <2>0. /\ i \in Inst /\ t.fn = "timer" /\ tasks' = tasks \ {t} /\ instances' = instances
        /\ shuttingDown' = shuttingDown
    BY <1>e4, <2>i DEF TimerFires
  <2>1. CASE inst[i].scheduled /\ inst[i].attempts = t.p /\ Eligible(i)
    <3>1. inst' = [inst EXCEPT ![i] = [inst[i] EXCEPT !.scheduled = FALSE]]
      BY <1>e4, <2>i, <2>1 DEF TimerFires
    <3>2. Undue([inst[i] EXCEPT !.scheduled = FALSE])
      BY <2>0, <2>1 DEF Eligible, Undue, Instance
    <3> QED  BY <1>6, <2>0, <2>i, <3>1, <3>2
  <2>2. CASE ~(inst[i].scheduled /\ inst[i].attempts = t.p /\ Eligible(i))
    <3>1. inst' = inst  BY <1>e4, <2>i, <2>2 DEF TimerFires
    <3>2. \A j \in Inst : j # i => Spared(j)  BY <2>i, <2>0, <3>1 DEF Spared
    <3>3. Timed(i)  BY <2>0 DEF TimedInv
    <3>4. ScheduledSound(i)' /\ WaiterKept(i)'
      BY <2>0, <3>1, <3>3 DEF Timed, ScheduledSound, WaiterKept, HasWaiter
    <3>5. ~shuttingDown => RestartKept(i)'
      <4> SUFFICES ASSUME ~shuttingDown, inst[i].scheduled, inst[i].attempts < autoRestartLimit
                   PROVE  HasTimer(i)'
        BY <3>1 DEF RestartKept
      <4>1. Eligible(i)  BY <3>3 DEF Timed, ScheduledSound, Eligible
      <4>2. inst[i].attempts # t.p  BY <2>2, <4>1
      <4>3. PICK u \in tasks : u.fn = "timer" /\ u.i = i /\ u.p = inst[i].attempts
        BY <3>3 DEF Timed, RestartKept, HasTimer
      <4> QED  BY <2>0, <3>1, <4>2, <4>3 DEF HasTimer
    <3> QED  BY <1>3, <2>0, <3>2, <3>4, <3>5 DEF TimedInv, Timed
  <2> QED  BY <2>1, <2>2
<1>e5. ASSUME NEW t \in tasks, PortOpens(t) PROVE TimedInv'
  <2>i. PICK i, u : i = t.i /\ u = [t EXCEPT !.fn = "awaitBootstrap"]  OBVIOUS
  <2>1. /\ i \in Inst /\ inst[i].status = "starting" /\ inst[i].cmd = t.p
        /\ inst' = [inst EXCEPT ![i] = [inst[i] EXCEPT !.status = "connecting"]]
        /\ instances' = instances /\ tasks' = (tasks \ {t}) \cup {u}
    BY <1>e5, <2>i DEF PortOpens, Waits
  <2>2. u.fn = "awaitBootstrap" /\ u.i = i /\ u.p = t.p  BY <1>11, <2>i DEF Task
  <2>3. inst'[i] = [inst[i] EXCEPT !.status = "connecting"]  BY <2>1, OneRecord DEF IInv
  <2>4. inst'[i].status = "connecting" /\ inst'[i].cmd = inst[i].cmd /\ ~inst'[i].scheduled
    BY <1>2, <2>1, <2>3 DEF Instance
  <2>5. HasWaiter(i, "awaitBootstrap")'  BY <2>1, <2>2, <2>4 DEF HasWaiter
  <2>6. Timed(i)'  BY <2>4, <2>5 DEF Timed, ScheduledSound, RestartKept, WaiterKept
  <2> QED  BY <1>5, <2>i, <2>1, <2>6
<1>e6. ASSUME NEW t \in tasks, ExitVerified(t) PROVE TimedInv'
  <2>i. PICK i, v : /\ i = t.i
                    /\ v = [inst[i] EXCEPT !.status = "running", !.exitIP = TRUE, !.attempts = 0,
                                           !.scheduled = FALSE]
    OBVIOUS
  <2>1. /\ i \in Inst /\ inst' = [inst EXCEPT ![i] = v] /\ instances' = instances
        /\ tasks' = tasks \ {t}
    BY <1>e6, <2>i DEF ExitVerified
  <2>2. Undue(v)  BY <2>i, <2>1 DEF Undue, Instance
  <2> QED  BY <1>6, <2>i, <2>1, <2>2
<1>e7. ASSUME NEW t \in tasks, WaiterQuits(t) PROVE TimedInv'
  <2>i. PICK i : i = t.i  OBVIOUS
  <2>1. /\ i \in Inst /\ tasks' = tasks \ {t} /\ instances' = instances /\ inst' = inst
        /\ shuttingDown' = shuttingDown
        /\ \/ t.fn = "awaitReady" /\ ~(inst[i].cmd = t.p /\ inst[i].status = "starting")
           \/ t.fn = "awaitBootstrap" /\ ~(inst[i].cmd = t.p /\ inst[i].status = "connecting")
    BY <1>e7, <2>i DEF WaiterQuits, Waits
  <2>2. \A j \in Inst : j # i => Spared(j)  BY <2>i, <2>1 DEF Spared
  <2>3. Timed(i)  BY <2>1 DEF TimedInv
  <2>4. ScheduledSound(i)' /\ (~shuttingDown => RestartKept(i)')
    BY <2>1, <2>3 DEF Timed, ScheduledSound, RestartKept, HasTimer
  <2>5. WaiterKept(i)'  BY <2>1, <2>3 DEF Timed, WaiterKept, HasWaiter
  <2> QED  BY <1>3, <2>1, <2>2, <2>4, <2>5 DEF TimedInv, Timed
<1>e8. ASSUME NEW t \in tasks, WaiterFails(t) PROVE TimedInv'
  <2>i. PICK i : i = t.i  OBVIOUS
  <2>0. /\ i \in Inst /\ tasks' = tasks \ {t} /\ instances' = instances
        /\ shuttingDown' = shuttingDown /\ t.fn # "timer"
    BY <1>e8, <2>i DEF WaiterFails
  <2>1. CASE inst[i].cmd # 0 /\ inst[i].cmd = t.p /\ ~inst[i].stopping /\ ~inst[i].draining
    <3>1. inst' = [inst EXCEPT ![i] = FailInstance(inst[i])]
      BY <1>e8, <2>i, <2>1 DEF WaiterFails
    <3>2. inst'[i] = FailInstance(inst[i])  BY <2>0, <3>1, OneRecord DEF IInv
    <3>3. /\ inst'[i].status = "error" /\ inst'[i].cmd = inst[i].cmd
          /\ inst'[i].stopping = inst[i].stopping /\ inst'[i].draining = inst[i].draining
          /\ inst'[i].pending = inst[i].pending /\ inst'[i].scheduled = inst[i].scheduled
          /\ inst'[i].attempts = inst[i].attempts
      BY <2>0, <3>2 DEF Instance, FailInstance
    <3>4. Timed(i)  BY <2>0 DEF TimedInv
    <3>5. Timed(i)'
      BY <2>0, <3>3, <3>4 DEF Timed, ScheduledSound, RestartKept, WaiterKept, HasTimer
    <3> QED  BY <1>5, <2>i, <2>0, <3>1, <3>5
  <2>2. CASE ~(inst[i].cmd # 0 /\ inst[i].cmd = t.p /\ ~inst[i].stopping /\ ~inst[i].draining)
    <3>1. inst' = inst  BY <1>e8, <2>i, <2>2 DEF WaiterFails
    <3>2. \A j \in Inst : j # i => Spared(j)  BY <2>i, <2>0, <3>1 DEF Spared
    <3>3. Timed(i)  BY <2>0 DEF TimedInv
    <3>4. ScheduledSound(i)' /\ (~shuttingDown => RestartKept(i)')
      BY <2>0, <3>1, <3>3 DEF Timed, ScheduledSound, RestartKept, HasTimer
    <3>5. inst[i].draining \/ inst[i].cmd # t.p \/ inst[i].status \notin {"starting", "connecting"}
      BY <1>2, <2>0, <2>2 DEF IInv, ProcessInv, CountedHasProcess, Counted
    <3>6. WaiterKept(i)'  BY <2>0, <3>1, <3>3, <3>5 DEF Timed, WaiterKept, HasWaiter
    <3> QED  BY <1>3, <2>0, <3>2, <3>4, <3>6 DEF TimedInv, Timed
  <2> QED  BY <2>1, <2>2
<1>f1. ASSUME NEW i \in Inst, WatchExit(i) PROVE TimedInv'
  <2>1. /\ inst' = [inst EXCEPT ![i] = Exited(inst[i])] /\ inst[i].cmd # 0
        /\ instances' = instances
    BY <1>f1 DEF WatchExit
  <2>2. \A t \in tasks : t.i # i => t \in tasks'  BY <1>f1 DEF WatchExit
  <2>3. Undue(Exited(inst[i]))  BY <1>2, <2>1 DEF Undue, Exited, Instance
  <2> QED  BY <1>6, <2>1, <2>2, <2>3
<1>g1. CASE UNCHANGED vars  BY <1>4, <1>g1 DEF vars
<1> HIDE DEF Held, AllHeld
<1>h1. ASSUME ClientNext PROVE TimedInv'
  BY <1>h1, <1>a1, <1>a2, <1>a3, <1>a4, <1>a5, <1>a6, <1>a7 DEF ClientNext, Start
<1>h2. ASSUME HandlerNext PROVE TimedInv'
  BY <1>h2, <1>b1, <1>b2, <1>b4, <1>b5, <1>b8, <1>b9, <1>c1, <1>c3, <1>c5, <1>c7, <1>c8, <1>c9,
     <1>c10 DEF HandlerNext
<1>h3. ASSUME BackgroundNext PROVE TimedInv'
  BY <1>h3, <1>d1, <1>d2, <1>d4, <1>d5, <1>e1, <1>e2, <1>e3, <1>e4, <1>e5, <1>e6, <1>e7,
     <1>e8 DEF BackgroundNext
<1> QED  BY <1>f1, <1>g1, <1>h1, <1>h2, <1>h3 DEF Next, ProcessNext

(***************************************************************************)
(* In a new manager nothing is due, and so TimedInv holds in every         *)
(* reachable state.                                                        *)
(***************************************************************************)
LEMMA TimedAlways == Spec => []TimedInv
<1>1. Init => TimedInv
  <2> SUFFICES ASSUME Init, NEW i \in Inst PROVE Timed(i)  BY DEF TimedInv
  <2>1. ~inst[i].scheduled /\ inst[i].status = "stopped"  BY DEF Init, Fresh
  <2> QED  BY <2>1 DEF Timed, ScheduledSound, RestartKept, WaiterKept
<1>2. IInv /\ SwitchInv /\ TimedInv /\ [Next]_vars => TimedInv'  BY TimedStep
<1> QED  BY <1>1, <1>2, SwitchAlways, PTL DEF Spec

(***************************************************************************)
(* In every behaviour a country that is starting or connecting has a       *)
(* goroutine that waits for exactly its process, also after a switch was   *)
(* given up.                                                               *)
(***************************************************************************)
THEOREM WaitersExist == Spec => []WaiterExists
<1>1. TimedInv => WaiterExists  BY DEF TimedInv, Timed, WaiterKept, WaiterExists
<1> QED  BY <1>1, TimedAlways, PTL

(***************************************************************************)
(* In every behaviour a scheduled restart, unless it is the last, has its  *)
(* timer.                                                                  *)
(***************************************************************************)
THEOREM RestartsKept == Spec => []RestartNotLost
<1>1. TimedInv => RestartNotLost  BY DEF TimedInv, Timed, RestartKept, RestartNotLost
<1> QED  BY <1>1, TimedAlways, PTL

----------------------------------------------------------------------------
(* The limit on countries. *)

\* The limit, with what whoever holds startMu may still rely on: makeRoom has
\* found or is making room, UpdateMaxRunning has chosen enough countries.
RoomInv ==
    /\ op.at # "detach" /\ switches = {}
    /\ op.at \notin {"trim", "detach"} => Cardinality(Online) <= maxRunning
    /\ op.at = "launch" => Cardinality(Online \ {op.c}) < maxRunning
    /\ op.at = "evict" => /\ \E d \in Country : op.todo = {d}
                          /\ Cardinality(Online \ op.todo) < maxRunning
    /\ op.at = "trim" => Cardinality(Online \ op.todo) <= maxRunning

(***************************************************************************)
(* A part of a finite set is finite and no larger.                         *)
(***************************************************************************)
LEMMA NoLarger ==
    ASSUME NEW T, IsFiniteSet(T), NEW S, S \subseteq T
    PROVE  /\ IsFiniteSet(S) /\ Cardinality(S) \in Nat /\ Cardinality(T) \in Nat
           /\ Cardinality(S) <= Cardinality(T)
<1>1. S \in SUBSET T  OBVIOUS
<1> QED  BY <1>1, FS_Subset, FS_CardinalityType

(***************************************************************************)
(* Finitely many countries are online.                                     *)
(***************************************************************************)
LEMMA OnlineFinite == IsFiniteSet(Online) /\ Cardinality(Online) \in Nat
<1>1. Online \subseteq Country  BY DEF Online
<1>2. IsFiniteSet(Country)  BY ManagerAssumption
<1> QED  BY <1>1, <1>2, NoLarger

(***************************************************************************)
(* A non-empty set of naturals has a least element.                        *)
(***************************************************************************)
LEMMA Least == ASSUME NEW T \in SUBSET Nat, T # {} PROVE \E m \in T : \A n \in T : m <= n
<1> DEFINE R == OpToRel(<, Nat)
<1>1. IsWellFoundedOn(R, Nat)  BY NatLessThanWellFounded
<1>2. \A m, n \in Nat : n < m => <<n, m>> \in R  BY DEF OpToRel
<1> HIDE DEF R
<1>3. PICK m \in T : \A n \in T : ~(<<n, m>> \in R)  BY <1>1, WFMin
<1>4. \A n \in T : ~(n < m)  BY <1>2, <1>3
<1>5. \A n \in T : n \in Nat /\ m \in Nat  OBVIOUS
<1> QED  BY <1>4, <1>5

(***************************************************************************)
(* UpdateMaxRunning chooses enough countries: those it leaves besides the  *)
(* active one are no older than the chosen, so if any is left at least     *)
(* excess countries were chosen; if none is, one at most stays online.     *)
(***************************************************************************)
LEMMA TrimEnough ==
    ASSUME IInv, NEW limit \in Nat \ {0}, NEW others, others = Online \ {active}, NEW todo,
           todo = {c \in others : Cardinality({d \in others : StartedAt(d) < StartedAt(c)})
                                    < Cardinality(Online) - limit}
    PROVE  Cardinality(Online \ todo) <= limit
<1> DEFINE left == others \ todo
           older(c) == {d \in others : StartedAt(d) < StartedAt(c)}
<1>1. \A c \in Online : StartedAt(c) \in Nat
  <2> SUFFICES ASSUME NEW c \in Online PROVE StartedAt(c) \in Nat  OBVIOUS
  <2>1. instances[c] \in Inst  BY DEF Online, IInv, TypeOK
  <2>2. inst[instances[c]] \in Instance  BY <2>1 DEF IInv, TypeOK
  <2> QED  BY <2>2, FieldTypes DEF StartedAt
<1>2. CASE left = {}
  <2>1. Online \ todo \subseteq {active}  BY <1>2
  <2>2. IsFiniteSet({active}) /\ Cardinality({active}) = 1  BY FS_Singleton
  <2>3. /\ Cardinality(Online \ todo) \in Nat /\ Cardinality({active}) \in Nat
        /\ Cardinality(Online \ todo) <= Cardinality({active})
    BY <2>1, <2>2, NoLarger
  <2> QED  BY <2>2, <2>3
<1>3. CASE left # {}
  <2> DEFINE T == {StartedAt(c) : c \in left}
  <2>1. T \in SUBSET Nat /\ T # {}
    <3>1. \A c \in left : StartedAt(c) \in Nat  BY <1>1
    <3>2. T \subseteq Nat  BY <3>1
    <3>3. T # {}  BY <1>3
    <3> QED  BY <3>2, <3>3
  <2>2. PICK m \in T : \A n \in T : m <= n  BY <2>1, Least
  <2>3. PICK c \in left : StartedAt(c) = m  BY <2>2
  <2>4. \A d \in left : StartedAt(c) <= StartedAt(d)  BY <2>2, <2>3
  <2>5. older(c) \subseteq todo
    <3> SUFFICES ASSUME NEW d \in older(c), d \notin todo PROVE FALSE  OBVIOUS
    <3>1. d \in left /\ StartedAt(d) < StartedAt(c)  OBVIOUS
    <3>2. StartedAt(d) \in Nat /\ StartedAt(c) \in Nat  BY <1>1
    <3> QED  BY <2>4, <3>1, <3>2
  <2>6. ~(Cardinality(older(c)) < Cardinality(Online) - limit)  BY <2>3
  <2>7. todo \subseteq Online  OBVIOUS
  <2>8. IsFiniteSet(todo) /\ Cardinality(todo) \in Nat  BY <2>7, OnlineFinite, NoLarger
  <2> HIDE DEF older
  <2>9. Cardinality(older(c)) \in Nat /\ Cardinality(older(c)) <= Cardinality(todo)
    BY <2>5, <2>8, NoLarger
  <2>10. Cardinality(Online \ todo) = Cardinality(Online) - Cardinality(todo)
    <3>1. Online \cap todo = todo  BY <2>7
    <3>2. Cardinality(Online \ todo) = Cardinality(Online) - Cardinality(Online \cap todo)
      BY OnlineFinite, FS_Difference
    <3> QED  BY <3>1, <3>2
  <2> QED  BY <2>6, <2>8, <2>9, <2>10, OnlineFinite
<1> QED  BY <1>2, <1>3

(***************************************************************************)
(* Statuses that do not become counted bring nobody online.                *)
(***************************************************************************)
LEMMA FewerOnline ==
    ASSUME IInv, instances' = instances,
           \A i \in Inst : inst'[i].status \in Counted => inst[i].status \in Counted
    PROVE  Online' \subseteq Online
<1> SUFFICES ASSUME NEW c \in Online' PROVE c \in Online  OBVIOUS
<1>1. c \in Country /\ instances[c] # None /\ inst'[instances[c]].status \in Counted  BY DEF Online
<1>2. instances[c] \in Inst  BY <1>1, SwitchTypes
<1> QED  BY <1>1, <1>2 DEF Online

(***************************************************************************)
(* The same for a step that changes one record.                            *)
(***************************************************************************)
LEMMA OneFewer ==
    ASSUME IInv, instances' = instances, NEW i \in Inst, NEW v, inst' = [inst EXCEPT ![i] = v],
           v.status \in Counted => inst[i].status \in Counted
    PROVE  Online' \subseteq Online
<1>1. TypeOK  BY DEF IInv
<1>2. \A j \in Inst : inst'[j].status \in Counted => inst[j].status \in Counted
  BY <1>1, OneRecord
<1> QED  BY <1>2, FewerOnline

(***************************************************************************)
(* An undisturbed stop takes its country, and no other, off the list.      *)
(***************************************************************************)
LEMMA StopOffline ==
    ASSUME IInv, SwitchInv, Undisturbed, NEW c \in Country, instances[c] \in Inst, StopCountry(c),
           instances' = instances
    PROVE  Online' \subseteq Online \ {c}
<1>0. PICK i \in Inst : i = instances[c]  OBVIOUS
<1>1. PICK x \in Instance : x = inst[i]  BY SwitchTypes
<1>2. x.pending = None /\ (x.draining => x.status \notin Counted)  BY <1>1 DEF Undisturbed
<1>3. \A j \in Inst : j # None  BY SwitchTypes
<1>4. \A j \in Inst : inst'[j] = IF j = i THEN StopRecord(x)
                                 ELSE IF j = x.pending THEN StopInstance(inst[j]) ELSE inst[j]
  BY <1>0, <1>1 DEF StopCountry
<1>5. \A j \in Inst : inst'[j] = IF j = i THEN StopRecord(x) ELSE inst[j]  BY <1>2, <1>3, <1>4
<1>6. StopRecord(x).status \notin Counted
  <2> DEFINE y == [x EXCEPT !.pending = None, !.prev = None]
  <2>0. y \in Instance /\ y.status = x.status  BY DEF Instance
  <2> HIDE DEF y
  <2>1. CASE x.cmd = 0
    <3>1. StopRecord(x) = [y EXCEPT !.status = "stopped", !.scheduled = FALSE, !.attempts = 0]
      BY <2>1 DEF StopRecord, y
    <3>2. StopRecord(x).status = "stopped"  BY <2>0, <3>1 DEF Instance
    <3> QED  BY <3>2 DEF Counted
  <2>2. CASE x.cmd # 0 /\ x.draining
    <3>1. StopRecord(x) = y  BY <2>2 DEF StopRecord, y
    <3> QED  BY <1>2, <2>0, <2>2, <3>1
  <2>3. CASE x.cmd # 0 /\ ~x.draining
    <3>1. StopRecord(x) = [y EXCEPT !.status = "draining", !.draining = TRUE,
                                    !.scheduled = FALSE, !.attempts = 0]
      BY <2>3 DEF StopRecord, y
    <3>2. StopRecord(x).status = "draining"  BY <2>0, <3>1 DEF Instance
    <3> QED  BY <3>2 DEF Counted
  <2> QED  BY <2>1, <2>2, <2>3
<1>7. Online' \subseteq Online  BY <1>5, <1>6, FewerOnline
<1>8. c \notin Online'  BY <1>0, <1>5, <1>6 DEF Online
<1> QED  BY <1>7, <1>8

\* The step brings nobody online and leaves the limit and the switches alone.
Calm == Online' \subseteq Online /\ maxRunning' = maxRunning /\ switches' = switches

(***************************************************************************)
(* In an undisturbed system, what the steps that do not decide about room  *)
(* do to it: nothing.                                                      *)
(***************************************************************************)
LEMMA RoomCases ==
    ASSUME IInv, SwitchInv, Undisturbed, Undisturbed', "upstream" \notin Kinds,
           op.at # "detach", switches = {}, [Next]_vars
    PROVE  \/ Evict \/ StartLaunch \/ TrimOne
           \/ \E limit \in Limits : UpdateMaxRunning(limit)
           \/ \E c \in Country : \E act, by, rest : StartEnter(c, act, by, rest)
           \/ Calm /\ (op' = op \/ (op.at = "launch" /\ op' = Idle) \/ TrimDone)
<1> USE DEF mgr
<1> DEFINE Settled == Calm /\ (op' = op \/ (op.at = "launch" /\ op' = Idle) \/ TrimDone)
           Enters == \E c \in Country : \E act, by, rest : StartEnter(c, act, by, rest)
<1>0. /\ \A i \in Inst : inst[i] \in Instance /\ inst[i].pending = None
      /\ \A c \in Country : instances[c] \in Inst \cup {None}
      /\ \A call \in calls : call.i \in Inst /\ Home(call.i) \in Country
      /\ \A t \in tasks : t.i \in Inst
  BY SwitchTypes DEF Undisturbed, IInv, TypeOK, Call
<1>1. ASSUME instances' = instances, inst' = inst PROVE Online' \subseteq Online
  BY <1>1 DEF Online
<1>2. ASSUME NEW i \in Inst, inst' = [inst EXCEPT ![i] = StopInstance(inst[i])],
             instances' = instances
      PROVE  Online' \subseteq Online
  <2>1. PICK x \in Instance : x = inst[i]  BY <1>0
  <2>2. StopInstance(x).status \in {x.status, "stopped", "stopping"}
    BY DEF StopInstance, Instance
  <2>3. StopInstance(x).status \in Counted => x.status \in Counted  BY <2>2 DEF Counted
  <2> QED  BY <1>2, <2>1, <2>3, OneFewer
<1>3. ASSUME NEW i \in Inst, ScheduleRestart(i), instances' = instances
      PROVE  Online' \subseteq Online
  <2>1. Scheduled(inst[i]).status = inst[i].status  BY <1>0 DEF Scheduled, Instance
  <2>2. inst' = [inst EXCEPT ![i] = Scheduled(inst[i])]  BY <1>3 DEF ScheduleRestart
  <2> QED  BY <1>3, <2>1, <2>2, OneFewer
<1>4. ASSUME NEW i \in Inst, NEW s, inst' = [inst EXCEPT ![i].status = s], instances' = instances,
             s \in Counted => inst[i].status \in Counted
      PROVE  Online' \subseteq Online
  <2>1. inst' = [inst EXCEPT ![i] = [inst[i] EXCEPT !.status = s]]  BY <1>4
  <2>2. [inst[i] EXCEPT !.status = s].status = s  BY <1>0 DEF Instance
  <2> QED  BY <1>4, <2>1, <2>2, OneFewer
<1>a1. ASSUME NEW c \in Country, NEW act \in BOOLEAN, Start(c, act) PROVE Enters
  BY <1>a1 DEF Start
<1>a2. ASSUME NEW c \in Country, NEW node \in Node, NEW act \in BOOLEAN, StartNode(c, node, act)
       PROVE  Settled
  <2>1. PICK i \in Inst : i = IF instances[c] = None THEN Original(c) ELSE instances[c]
    BY <1>0, SwitchTypes
  <2>2. inst' = inst /\ op' = op /\ switches' = switches /\ maxRunning' = maxRunning
        /\ instances' = [instances EXCEPT ![c] = i]
    BY <1>a2, <2>1 DEF StartNode
  <2>3. instances'[c] = i /\ \A d \in Country : d # c => instances'[d] = instances[d]
    BY <2>2 DEF IInv, TypeOK
  <2>4. instances[c] = None => inst[i].status \notin Counted
    BY <2>1 DEF SwitchInv, Unadopted, IInv, ProcessInv, CountedHasProcess
  <2>5. Online' \subseteq Online  BY <2>1, <2>2, <2>3, <2>4 DEF Online
  <2> QED  BY <2>2, <2>5 DEF Calm
<1>a3. ASSUME NEW c \in Country, Stop(c) PROVE Settled
  <2>1. instances[c] \in Inst /\ StopCountry(c) /\ instances' = instances
    BY <1>0, <1>a3 DEF Stop
  <2>2. Online' \subseteq Online  BY <2>1, StopOffline
  <2> QED  BY <1>a3, <2>2 DEF Stop, Calm
<1>a4. ASSUME NEW c \in Country, CancelReplacement(c) \/ UpstreamRetry(c) PROVE FALSE
  BY <1>0, <1>a4 DEF CancelReplacement, UpstreamRetry, Request
<1>a5. ASSUME ShutdownBegin PROVE Settled  BY <1>1, <1>a5 DEF ShutdownBegin, Calm
<1>b1. ASSUME StartAlready \/ StartBusy PROVE Settled
  BY <1>1, <1>b1 DEF StartAlready, StartBusy, StartReturns, StartFails, Calm
<1>b2. ASSUME StartError PROVE Settled
  <2>1. PICK i \in Inst : i = instances[op.c]  BY <1>b2 DEF StartError, IInv, OpOK
  <2>2. PICK s \in {inst[i].status, "error"} : inst' = [inst EXCEPT ![i].status = s]
    BY <1>b2, <2>1 DEF StartError
  <2>3. s \in Counted => inst[i].status \in Counted  BY DEF Counted
  <2>4. instances' = instances  BY <1>b2 DEF StartError
  <2>5. Online' \subseteq Online  BY <1>4, <2>2, <2>3, <2>4
  <2> QED  BY <1>b2, <2>5 DEF StartError, StartFails, Calm
<1>b3. ASSUME TrimDone PROVE Settled  BY <1>1, <1>b3 DEF TrimDone, Calm
<1>b4. ASSUME DetachStarts \/ DetachFails PROVE FALSE  BY <1>b4 DEF DetachStarts, DetachFails
<1>c1. ASSUME NEW call \in calls, StartAssigned(call) \/ StartRestart(call) PROVE Enters
  BY <1>0, <1>c1 DEF StartAssigned, StartRestart
<1>c2. ASSUME NEW call \in calls, Activate(call) \/ Adopt(call) \/ ReplaceRefused(call)
       PROVE  Settled
  BY <1>1, <1>c2 DEF Activate, Adopt, ReplaceRefused, Calm
<1>c3. ASSUME NEW call \in calls, Assign(call) PROVE Settled
  <2>1. PICK i \in Inst : i = call.i  BY <1>0
  <2>2. inst' = [inst EXCEPT ![i] = [inst[i] EXCEPT !.fp = call.node]]
    BY <1>c3, <2>1 DEF Assign
  <2>3. [inst[i] EXCEPT !.fp = call.node].status = inst[i].status  BY <1>0 DEF Instance
  <2>4. instances' = instances  BY <1>c3 DEF Assign
  <2>5. Online' \subseteq Online  BY <2>2, <2>3, <2>4, OneFewer
  <2> QED  BY <1>c3, <2>5 DEF Assign, Calm
<1>c4. ASSUME NEW call \in calls, ReplaceBegin(call) PROVE FALSE
  <2>1. PICK i \in Inst, r \in Inst : inst'[i].pending = r  BY <1>c4, ReplaceEffect
  <2> QED  BY <2>1, ManagerAssumption DEF Undisturbed
<1>c5. ASSUME NEW call \in calls, RestartFailed(call) PROVE Settled
  <2>1. instances' = instances  BY <1>c5 DEF RestartFailed
  <2>2. ScheduleRestart(call.i) \/ inst' = inst  BY <1>c5 DEF RestartFailed
  <2>3. Online' \subseteq Online  BY <1>0, <1>1, <1>3, <2>1, <2>2
  <2> QED  BY <1>c5, <2>3 DEF RestartFailed, Calm
<1>c6. ASSUME NEW i \in Inst, ShutdownStops(i) PROVE Settled
  <2>1. Online' \subseteq Online  BY <1>2, <1>c6 DEF ShutdownStops
  <2> QED  BY <1>c6, <2>1 DEF ShutdownStops, Calm
<1>c7. ASSUME ShutdownReturns \/ ShutdownTimesOut PROVE Settled
  BY <1>1, <1>c7 DEF ShutdownReturns, ShutdownTimesOut, Calm
<1>d1. ASSUME NEW t \in tasks, Drained(t) PROVE Settled
  <2>1. Online' \subseteq Online  BY <1>0, <1>2, <1>d1 DEF Drained
  <2> QED  BY <1>d1, <2>1 DEF Drained, Calm
<1>d2. ASSUME NEW t \in tasks, WatchClean(t) \/ WaiterQuits(t) PROVE Settled
  BY <1>1, <1>d2 DEF WatchClean, WaiterQuits, Calm
<1>d3. ASSUME NEW t \in tasks, WatchSettle(t) PROVE Settled
  <2>1. instances' = instances  BY <1>d3 DEF WatchSettle
  <2>2. ScheduleRestart(t.i) \/ inst' = inst  BY <1>d3 DEF WatchSettle
  <2>3. Online' \subseteq Online  BY <1>0, <1>1, <1>3, <2>1, <2>2
  <2> QED  BY <1>d3, <2>3 DEF WatchSettle, Calm
<1>d4. ASSUME NEW t \in tasks, TimerFires(t) PROVE Settled
  <2>1. PICK i \in Inst : i = t.i  BY <1>0
  <2>2. \/ inst' = inst
        \/ inst' = [inst EXCEPT ![i] = [inst[i] EXCEPT !.scheduled = FALSE]]
    BY <1>d4, <2>1 DEF TimerFires
  <2>3. [inst[i] EXCEPT !.scheduled = FALSE].status = inst[i].status  BY <1>0 DEF Instance
  <2>4. instances' = instances  BY <1>d4 DEF TimerFires
  <2>5. Online' \subseteq Online  BY <1>1, <2>2, <2>3, <2>4, OneFewer
  <2> QED  BY <1>d4, <2>5 DEF TimerFires, Calm
<1>d5. ASSUME NEW t \in tasks, PortOpens(t) PROVE Settled
  <2>1. inst[t.i].status \in Counted  BY <1>d5 DEF PortOpens, Waits, Counted
  <2>2. Online' \subseteq Online  BY <1>0, <1>4, <1>d5, <2>1 DEF PortOpens
  <2> QED  BY <1>d5, <2>2 DEF PortOpens, Calm
<1>d6. ASSUME NEW t \in tasks, ExitVerified(t) PROVE Settled
  <2>1. PICK i \in Inst : i = t.i  BY <1>0
  <2>2. inst[i].status \in Counted  BY <1>d6, <2>1 DEF ExitVerified, Waits, Counted
  <2>3. PICK v : inst' = [inst EXCEPT ![i] = v]  BY <1>d6, <2>1 DEF ExitVerified
  <2>4. instances' = instances  BY <1>d6 DEF ExitVerified
  <2>5. Online' \subseteq Online  BY <2>2, <2>3, <2>4, OneFewer
  <2> QED  BY <1>d6, <2>5 DEF ExitVerified, Calm
<1>d7. ASSUME NEW t \in tasks, WaiterFails(t) PROVE Settled
  <2>1. "error" \notin Counted  BY DEF Counted
  <2>2. instances' = instances /\ (inst' = inst \/ inst' = [inst EXCEPT ![t.i] = FailInstance(inst[t.i])])
    BY <1>d7 DEF WaiterFails
  <2>f. FailInstance(inst[t.i]).status = "error"  BY <1>0 DEF FailInstance, Instance
  <2>3. Online' \subseteq Online  BY <1>0, <1>1, <2>1, <2>2, <2>f, OneFewer
  <2> QED  BY <1>d7, <2>3 DEF WaiterFails, Calm
<1>e1. ASSUME NEW i \in Inst, WatchExit(i) PROVE Settled
  <2>1. Exited(inst[i]).status \in {"stopped", "error"}  BY <1>0 DEF Exited, Instance
  <2>2. Exited(inst[i]).status \notin Counted  BY <2>1 DEF Counted
  <2>3. Online' \subseteq Online  BY <1>e1, <2>2, OneFewer DEF WatchExit
  <2> QED  BY <1>e1, <2>3 DEF WatchExit, Calm
<1>f1. ASSUME UNCHANGED vars PROVE Settled  BY <1>1, <1>f1 DEF vars, Calm
<1> HIDE DEF Settled, Enters
<1>f2. ASSUME ClientNext
       PROVE  Settled \/ Enters \/ \E limit \in Limits : UpdateMaxRunning(limit)
  BY <1>f2, <1>a1, <1>a2, <1>a3, <1>a4, <1>a5 DEF ClientNext
<1>f3. ASSUME HandlerNext PROVE Settled \/ Enters \/ Evict \/ StartLaunch \/ TrimOne
  BY <1>f3, <1>b1, <1>b2, <1>b3, <1>b4, <1>c1, <1>c2, <1>c3, <1>c4, <1>c5, <1>c6, <1>c7
  DEF HandlerNext
<1>f4. ASSUME BackgroundNext PROVE Settled
  BY <1>f4, <1>d1, <1>d2, <1>d3, <1>d4, <1>d5, <1>d6, <1>d7 DEF BackgroundNext
<1>f5. ASSUME ProcessNext PROVE Settled  BY <1>e1, <1>f5 DEF ProcessNext
<1> QED  BY <1>f1, <1>f2, <1>f3, <1>f4, <1>f5 DEF Next, Settled, Enters

(***************************************************************************)
(* Every step of an undisturbed system keeps RoomInv.                      *)
(***************************************************************************)
LEMMA RoomStep ==
    ASSUME IInv, SwitchInv, Undisturbed, Undisturbed', "upstream" \notin Kinds, RoomInv,
           [Next]_vars
    PROVE  RoomInv'
<1> USE DEF mgr
<1>0. op.at # "detach" /\ switches = {} /\ op \in Op /\ maxRunning \in Nat
  BY DEF RoomInv, IInv, TypeOK
<1>1. ASSUME NEW S, NEW T, Online' \ S \subseteq Online \ T
      PROVE  /\ Cardinality(Online' \ S) \in Nat /\ Cardinality(Online \ T) \in Nat
             /\ Cardinality(Online' \ S) <= Cardinality(Online \ T)
  <2>1. IsFiniteSet(Online \ T)  BY OnlineFinite, FS_Difference
  <2> QED  BY <1>1, <2>1, NoLarger
<1>2. Online \ {} = Online /\ Online' \ {} = Online'  OBVIOUS
<1>3. ASSUME Calm, op' = op PROVE RoomInv'
  <2>1. \A S : Online' \ S \subseteq Online \ S  BY <1>3 DEF Calm
  <2>2. \A S : /\ Cardinality(Online' \ S) \in Nat /\ Cardinality(Online \ S) \in Nat
               /\ Cardinality(Online' \ S) <= Cardinality(Online \ S)
    BY <1>1, <2>1
  <2>3. Cardinality(Online') \in Nat /\ Cardinality(Online) \in Nat
        /\ Cardinality(Online') <= Cardinality(Online)
    BY <1>2, <2>2
  <2>4. maxRunning' = maxRunning /\ switches' = {}  BY <1>0, <1>3 DEF Calm
  <2>5. op.at \notin {"trim", "detach"} => Cardinality(Online') <= maxRunning
    <3>1. op.at \notin {"trim", "detach"} => Cardinality(Online) <= maxRunning  BY DEF RoomInv
    <3> QED  BY <1>0, <2>3, <3>1
  <2>6. op.at = "launch" => Cardinality(Online' \ {op.c}) < maxRunning
    <3>1. op.at = "launch" => Cardinality(Online \ {op.c}) < maxRunning  BY DEF RoomInv
    <3>2. /\ Cardinality(Online' \ {op.c}) \in Nat /\ Cardinality(Online \ {op.c}) \in Nat
          /\ Cardinality(Online' \ {op.c}) <= Cardinality(Online \ {op.c})
      BY <2>2
    <3> QED  BY <1>0, <3>1, <3>2
  <2>7. op.at = "evict" => Cardinality(Online' \ op.todo) < maxRunning
    <3>1. op.at = "evict" => Cardinality(Online \ op.todo) < maxRunning  BY DEF RoomInv
    <3>2. /\ Cardinality(Online' \ op.todo) \in Nat /\ Cardinality(Online \ op.todo) \in Nat
          /\ Cardinality(Online' \ op.todo) <= Cardinality(Online \ op.todo)
      BY <2>2
    <3> QED  BY <1>0, <3>1, <3>2
  <2>8. op.at = "trim" => Cardinality(Online' \ op.todo) <= maxRunning
    <3>1. op.at = "trim" => Cardinality(Online \ op.todo) <= maxRunning  BY DEF RoomInv
    <3>2. /\ Cardinality(Online' \ op.todo) \in Nat /\ Cardinality(Online \ op.todo) \in Nat
          /\ Cardinality(Online' \ op.todo) <= Cardinality(Online \ op.todo)
      BY <2>2
    <3> QED  BY <1>0, <3>1, <3>2
  <2>9. op.at = "evict" => \E d \in Country : op.todo = {d}  BY DEF RoomInv
  <2> QED  BY <1>0, <1>3, <2>4, <2>5, <2>6, <2>7, <2>8, <2>9 DEF RoomInv
<1>4. ASSUME op' = Idle, Cardinality(Online') <= maxRunning', switches' = {} PROVE RoomInv'
  <2>1. op'.at = "idle"  BY <1>4 DEF Idle
  <2> QED  BY <1>4, <2>1 DEF RoomInv
<1>5. ASSUME Calm, op.at = "launch", op' = Idle PROVE RoomInv'
  <2>1. Online' \ {} \subseteq Online \ {}  BY <1>5 DEF Calm
  <2>2. Cardinality(Online') \in Nat /\ Cardinality(Online) \in Nat
        /\ Cardinality(Online') <= Cardinality(Online)
    BY <1>1, <1>2, <2>1
  <2>3. Cardinality(Online) <= maxRunning  BY <1>5 DEF RoomInv
  <2>4. maxRunning' = maxRunning /\ switches' = {}  BY <1>0, <1>5 DEF Calm
  <2> QED  BY <1>0, <1>4, <1>5, <2>2, <2>3, <2>4
<1>6. ASSUME Calm, TrimDone PROVE RoomInv'
  <2>1. op.at = "trim" /\ op.todo = {} /\ op' = Idle  BY <1>6 DEF TrimDone
  <2>2. Online' \ {} \subseteq Online \ {}  BY <1>6 DEF Calm
  <2>3. Cardinality(Online') \in Nat /\ Cardinality(Online) \in Nat
        /\ Cardinality(Online') <= Cardinality(Online)
    BY <1>1, <1>2, <2>2
  <2>4. Cardinality(Online) <= maxRunning  BY <1>2, <2>1 DEF RoomInv
  <2>5. maxRunning' = maxRunning /\ switches' = {}  BY <1>0, <1>6 DEF Calm
  <2> QED  BY <1>0, <1>4, <2>1, <2>3, <2>4, <2>5
<1>7. ASSUME StartLaunch PROVE RoomInv'
  <2>1. PICK i \in Inst : i = instances[op.c]  BY <1>7 DEF StartLaunch, IInv, OpOK
  <2>2. inst' = [inst EXCEPT ![i] = Launched(inst[i], clock)] /\ instances' = instances
    BY <1>7, <2>1 DEF StartLaunch
  <2>3. \A j \in Inst : j # i => inst'[j] = inst[j]  BY <2>2 DEF IInv, TypeOK
  <2>4. op.at = "launch" /\ op.c \in Country  BY <1>7 DEF StartLaunch, IInv, OpOK
  <2>5. \A d \in Country : instances[d] \in Inst => (d # op.c => instances[d] # i)
    <3>1. \A d \in Country : instances[d] # None => Home(instances[d]) = d
      BY DEF SwitchInv, Named
    <3>2. Home(i) = op.c  BY <2>1, <2>4, <3>1, SwitchTypes
    <3> QED  BY <3>1, <3>2, SwitchTypes
  <2>6. Online' \ {op.c} \subseteq Online \ {op.c}
    <3> SUFFICES ASSUME NEW d \in Online', d # op.c PROVE d \in Online  OBVIOUS
    <3>1. d \in Country /\ instances[d] # None /\ inst'[instances[d]].status \in Counted
      BY <2>2 DEF Online
    <3>2. instances[d] \in Inst  BY <3>1, SwitchTypes
    <3>3. inst'[instances[d]] = inst[instances[d]]  BY <2>3, <2>5, <3>1, <3>2
    <3> QED  BY <3>1, <3>3 DEF Online
  <2>7. Cardinality(Online' \ {op.c}) \in Nat /\ Cardinality(Online' \ {op.c}) < maxRunning
    <3>1. Cardinality(Online \ {op.c}) < maxRunning  BY <2>4 DEF RoomInv
    <3>2. /\ Cardinality(Online' \ {op.c}) \in Nat /\ Cardinality(Online \ {op.c}) \in Nat
          /\ Cardinality(Online' \ {op.c}) <= Cardinality(Online \ {op.c})
      BY <1>1, <2>6
    <3> QED  BY <1>0, <3>1, <3>2
  <2>8. Cardinality(Online') <= Cardinality(Online' \ {op.c}) + 1
    <3>1. IsFiniteSet(Online')
      <4>1. Online' \subseteq Country  BY DEF Online
      <4> QED  BY <4>1, NoLarger, ManagerAssumption
    <3>2. Cardinality(Online') \in Nat  BY <3>1, FS_CardinalityType
    <3>3. Cardinality(Online' \ {op.c})
            = IF op.c \in Online' THEN Cardinality(Online') - 1 ELSE Cardinality(Online')
      BY <3>1, FS_RemoveElement
    <3> QED  BY <3>2, <3>3
  <2>9. Cardinality(Online') \in Nat
    <3>1. Online' \subseteq Country  BY DEF Online
    <3> QED  BY <3>1, NoLarger, ManagerAssumption
  <2>10. op' = Idle /\ maxRunning' = maxRunning /\ switches' = {}
    BY <1>0, <1>7 DEF StartLaunch, StartReturns
  <2>11. Cardinality(Online') <= maxRunning'  BY <1>0, <2>7, <2>8, <2>9, <2>10
  <2> QED  BY <1>4, <2>10, <2>11
<1>8. ASSUME Evict PROVE RoomInv'
  <2>1. PICK d \in Country : op.todo = {d}  BY <1>8 DEF Evict, RoomInv
  <2>2. StopCountry(d) /\ instances' = instances /\ maxRunning' = maxRunning /\ switches' = {}
    BY <1>0, <1>8, <2>1 DEF Evict
  <2>3. instances[d] \in Inst  BY <2>1 DEF IInv, OpOK
  <2>4. Online' \subseteq Online \ {d}  BY <2>2, <2>3, StopOffline
  <2>5. Cardinality(Online \ {d}) < maxRunning  BY <1>8, <2>1 DEF Evict, RoomInv
  <2>6. op'.at = "launch"  BY <1>0, <1>8 DEF Evict, Op
  <2>7. ASSUME NEW S PROVE Cardinality(Online' \ S) \in Nat /\ Cardinality(Online' \ S) < maxRunning
    <3>1. Online' \ S \subseteq Online \ {d}  BY <2>4
    <3>2. /\ Cardinality(Online' \ S) \in Nat /\ Cardinality(Online \ {d}) \in Nat
          /\ Cardinality(Online' \ S) <= Cardinality(Online \ {d})
      BY <1>1, <3>1
    <3> QED  BY <1>0, <2>5, <3>2
  <2>8. Cardinality(Online') \in Nat /\ Cardinality(Online') < maxRunning  BY <1>2, <2>7
  <2>9. Cardinality(Online' \ {op'.c}) < maxRunning'  BY <2>2, <2>7
  <2> QED  BY <1>0, <2>2, <2>6, <2>8, <2>9 DEF RoomInv
<1>9. ASSUME TrimOne PROVE RoomInv'
  <2>1. PICK c \in op.todo : StopCountry(c) /\ op' = [op EXCEPT !.todo = @ \ {c}]
    BY <1>9 DEF TrimOne
  <2>2. instances' = instances /\ maxRunning' = maxRunning /\ switches' = {} /\ op.at = "trim"
    BY <1>0, <1>9 DEF TrimOne
  <2>3. c \in Country /\ instances[c] \in Inst  BY <1>0 DEF IInv, OpOK, Op
  <2>4. Online' \subseteq Online \ {c}  BY <2>1, <2>2, <2>3, StopOffline
  <2>5. op'.at = "trim" /\ op'.todo = op.todo \ {c}  BY <1>0, <2>1, <2>2 DEF Op
  <2>6. Online' \ op'.todo \subseteq Online \ op.todo  BY <2>4, <2>5
  <2>7. Cardinality(Online \ op.todo) <= maxRunning  BY <2>2 DEF RoomInv
  <2>8. /\ Cardinality(Online' \ op'.todo) \in Nat /\ Cardinality(Online \ op.todo) \in Nat
        /\ Cardinality(Online' \ op'.todo) <= Cardinality(Online \ op.todo)
    BY <1>1, <2>6
  <2>9. Cardinality(Online' \ op'.todo) <= maxRunning  BY <1>0, <2>7, <2>8
  <2> QED  BY <2>2, <2>5, <2>9 DEF RoomInv
<1>10. ASSUME NEW limit \in Limits, UpdateMaxRunning(limit) PROVE RoomInv'
  <2>1. limit \in Nat \ {0}  BY ManagerAssumption
  <2>2. PICK others : others = Online \ {active}  OBVIOUS
  <2>3. PICK todo : todo = {c \in others :
            Cardinality({d \in others : StartedAt(d) < StartedAt(c)}) < Cardinality(Online) - limit}
    OBVIOUS
  <2>4. op' = [Idle EXCEPT !.at = "trim", !.todo = todo]
    BY <1>10, <2>2, <2>3 DEF UpdateMaxRunning
  <2>5. op'.at = "trim" /\ op'.todo = todo  BY <2>4 DEF Idle
  <2>6. Cardinality(Online \ todo) <= limit  BY <2>1, <2>2, <2>3, TrimEnough
  <2>7. Online' = Online /\ maxRunning' = limit /\ switches' = {}
    BY <1>0, <1>10 DEF UpdateMaxRunning, Online
  <2> QED  BY <2>5, <2>6, <2>7 DEF RoomInv
<1>11. ASSUME NEW c \in Country, NEW act, NEW by, NEW rest, StartEnter(c, act, by, rest)
       PROVE  RoomInv'
  <2>1. Online' = Online /\ maxRunning' = maxRunning /\ switches' = {} /\ op = Idle
    BY <1>0, <1>11 DEF StartEnter, Online
  <2>2. Cardinality(Online) <= maxRunning  BY <2>1 DEF RoomInv, Idle
  <2>3. \A d : d \in Online => Cardinality(Online \ {d}) < maxRunning
    <3>1. \A d \in Online : Cardinality(Online \ {d}) = Cardinality(Online) - 1
      BY OnlineFinite, FS_RemoveElement
    <3> QED  BY <1>0, <2>2, <3>1, OnlineFinite
  <2>4. CASE op' = op  BY <1>4, <2>1, <2>2, <2>4
  <2>5. CASE op' = [Idle EXCEPT !.at = "launch", !.c = c, !.i = by, !.act = act] /\ HasRoom(c)
    <3>1. op'.at = "launch" /\ op'.c = c  BY <2>5 DEF Idle
    <3>2. Cardinality(Online \ {c}) < maxRunning
      <4>1. CASE c \in Online  BY <2>3, <4>1
      <4>2. CASE c \notin Online
        <5>1. Online \ {c} = Online  BY <4>2
        <5> QED  BY <2>5, <4>2, <5>1 DEF HasRoom
      <4> QED  BY <4>1, <4>2
    <3> QED  BY <2>1, <2>2, <3>1, <3>2 DEF RoomInv
  <2>6. ASSUME NEW d \in Online,
               op' = [Idle EXCEPT !.at = "evict", !.c = c, !.i = by, !.act = act, !.todo = {d}]
        PROVE  RoomInv'
    <3>1. op'.at = "evict" /\ op'.todo = {d}  BY <2>6 DEF Idle
    <3>2. d \in Country  BY DEF Online
    <3>3. Cardinality(Online \ {d}) < maxRunning  BY <2>3
    <3> QED  BY <2>1, <2>2, <3>1, <3>2, <3>3 DEF RoomInv
  <2>7. \/ op' = op
        \/ op' = [Idle EXCEPT !.at = "launch", !.c = c, !.i = by, !.act = act] /\ HasRoom(c)
        \/ \E d \in Oldest(Online \ {active}) :
              op' = [Idle EXCEPT !.at = "evict", !.c = c, !.i = by, !.act = act, !.todo = {d}]
    BY <1>11 DEF StartEnter
  <2>8. Oldest(Online \ {active}) \subseteq Online  BY DEF Oldest
  <2> QED  BY <2>4, <2>5, <2>6, <2>7, <2>8
<1> QED  BY <1>0, <1>3, <1>5, <1>6, <1>7, <1>8, <1>9, <1>10, <1>11, RoomCases

(***************************************************************************)
(* In every behaviour in which nobody switches nodes, no country is        *)
(* started again after a stop and the upstream proxy is not changed, at    *)
(* most max_running countries are online except while UpdateMaxRunning is  *)
(* still stopping some, however starts, automatic restarts, stops, changes *)
(* of the limit and Shutdown meet.                                         *)
(***************************************************************************)
THEOREM CapacityKept ==
    ASSUME "upstream" \notin Kinds
    PROVE  Spec /\ []Undisturbed => []Capacity
<1>1. Init => RoomInv
  <2> SUFFICES ASSUME Init PROVE RoomInv  OBVIOUS
  <2>1. Online = {}
    <3>1. \A c \in Configured : c \in Country /\ Original(c) \in Inst
      BY ManagerAssumption, OriginalType
    <3>2. \A c \in Country : instances[c] # None => instances[c] \in Inst
      BY <3>1 DEF Init
    <3>3. \A i \in Inst : inst[i].status = "stopped"  BY DEF Init, Fresh
    <3> QED  BY <3>2, <3>3 DEF Online, Counted
  <2>2. Cardinality(Online) = 0  BY <2>1, FS_EmptySet
  <2>3. op.at = "idle" /\ switches = {} /\ maxRunning \in Nat
    BY ManagerAssumption DEF Init, Idle
  <2> QED  BY <2>2, <2>3 DEF RoomInv
<1>2. IInv /\ SwitchInv /\ Undisturbed /\ Undisturbed' /\ RoomInv /\ [Next]_vars => RoomInv'
  BY RoomStep
<1>3. RoomInv => Capacity  BY DEF RoomInv, Capacity
<1> QED  BY <1>1, <1>2, <1>3, SwitchAlways, PTL DEF Spec
=============================================================================
