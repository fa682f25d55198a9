--------------------------- MODULE SettingsProofs ---------------------------
(***************************************************************************)
(* Theorems about Ports and Settings, for any base ports and any number of *)
(* handlers, Tor processes, settings, requests and crashes.                *)
(***************************************************************************)
EXTENDS Settings, TLAPS

Saving == {"save", "copy"}

\* What the environment overrides; an overriding proxy has both credentials or none.
EnvInv ==
    /\ env \in [key : Key \cup {None}, upstream : Upstream \cup {None}]
    /\ env.upstream # None => (env.upstream.username = None <=> env.upstream.password = None)

\* The handler that saves is the one that holds the lock, in a running program;
\* it copies only onto a mounted file.
LockInv ==
    /\ \A x \in Handler : h[x].at \in Saving <=> lock = x
    /\ \A x \in Handler : h[x].at = "copy" => mounted
    /\ lock # None => up

\* What is stored and what is in a readable file can be restarted from; they are
\* the same unless the save of what is in the file reported an error.
FileInv ==
    /\ file = Torn \/ late => mounted
    /\ up /\ file # Torn /\ ~late => file = cfg
    /\ file # Torn => Valid(Effective(file))
    /\ up => Valid(Effective(cfg))

\* c differs from what is stored at most where requests of this kind may change it.
OnlyTouches(kind, c) == \A f \in DOMAIN cfg : c[f] # cfg[f] => Touches(kind, f)

\* So does what is being saved, which can be restarted from as well.
SavingInv ==
    \A x \in Handler : lock = x =>
        /\ h[x].next \in Config
        /\ Valid(Effective(h[x].next))
        /\ OnlyTouches(h[x].kind, h[x].next)

StoreInv == LockInv /\ FileInv /\ SavingInv

\* A handler that applies something has it.
ApplyInv ==
    \A x \in Handler :
        /\ h[x].at \in {"saved", "minutes"} => h[x].next \in Config
        /\ h[x].at \in {"tor", "catalog"} => h[x].upstream \in Upstream

IInv == TypeOK /\ EnvInv /\ ApplyInv /\ StoreInv

----------------------------------------------------------------------------
(* Configurations. *)

(***************************************************************************)
(* Merging a request into a configuration gives a configuration            *)
(* (UpdateRuntime, UpdateClient, UpdateUpstream, ClearLegacyAuth).         *)
(***************************************************************************)
LEMMA MergedType ==
  ASSUME NEW c \in Config, NEW r \in Request
  PROVE  Merged(c, r) \in Config
<1>. USE SettingsAssumption
<1>1. CASE r.kind = "runtime"
  BY <1>1 DEF Merged, Request, Config
<1>2. CASE r.kind = "client"
  <2>1. MergedKey(c.key, r) \in Key \cup {None}
    BY <1>2 DEF MergedKey, Request, Config
  <2>2. r.port \in Int
    BY <1>2 DEF Request
  <2>. QED
    BY <1>2, <2>1, <2>2 DEF Merged, Config
<1>3. CASE r.kind = "upstream"
  <2>1. MergedUpstream(c.upstream, r) \in Upstream
    BY <1>3 DEF MergedUpstream, NoUpstream, Upstream, Request, Config
  <2>. QED
    BY <1>3, <2>1 DEF Merged, Config
<1>4. CASE r.kind = "legacy"
  BY <1>4 DEF Merged, Config
<1>5. r.kind \in {"runtime", "client", "upstream", "legacy"}
  BY DEF Request
<1>. QED
  BY <1>1, <1>2, <1>3, <1>4, <1>5

(***************************************************************************)
(* It changes only the settings requests of its kind are for.              *)
(***************************************************************************)
LEMMA MergedTouches ==
  ASSUME NEW c \in Config, NEW r \in Request, NEW f \in DOMAIN c, Merged(c, r)[f] # c[f]
  PROVE  Touches(r.kind, f)
<1>1. DOMAIN c = {"limit", "minutes", "port", "key", "upstream", "token"}
  BY DEF Config
<1>2. r.kind \in {"runtime", "client", "upstream", "legacy"}
  BY DEF Request
<1>3. CASE r.kind = "runtime"
  BY <1>1, <1>3 DEF Merged, Touches
<1>4. CASE r.kind = "client"
  BY <1>1, <1>4 DEF Merged, Touches
<1>5. CASE r.kind = "upstream"
  BY <1>1, <1>5 DEF Merged, Touches
<1>6. CASE r.kind = "legacy"
  BY <1>1, <1>6 DEF Merged, Touches
<1>. QED
  BY <1>2, <1>3, <1>4, <1>5, <1>6

(***************************************************************************)
(* The environment overrides nothing that makes a configuration invalid    *)
(* (loadConfig).                                                           *)
(***************************************************************************)
LEMMA EffectiveType ==
  ASSUME NEW c \in Config, EnvInv
  PROVE  Effective(c) \in Config
<1>1. OverriddenKey(c.key) \in Key \cup {None} /\ OverriddenUpstream(c.upstream) \in Upstream
  BY DEF OverriddenKey, OverriddenUpstream, EnvInv, Config
<1>. QED
  BY <1>1 DEF Effective, Config

\* So a valid configuration stays valid (loadConfig).
LEMMA EffectiveValid ==
  ASSUME NEW c \in Config, EnvInv, Valid(c)
  PROVE  Valid(Effective(c))
<1>1. /\ Effective(c).limit = c.limit /\ Effective(c).minutes = c.minutes /\ Effective(c).port = c.port
      /\ Effective(c).upstream = OverriddenUpstream(c.upstream)
  BY DEF Effective, Config
<1>2. OverriddenUpstream(c.upstream).username = None <=> OverriddenUpstream(c.upstream).password = None
  BY DEF OverriddenUpstream, EnvInv, Valid
<1>. QED
  BY <1>1, <1>2 DEF Valid

(***************************************************************************)
(* The token plays no part in validity, so clearing it needs no validation *)
(* (ClearLegacyAuth).                                                      *)
(***************************************************************************)
LEMMA TokenIrrelevant ==
  ASSUME NEW c \in Config, EnvInv, Valid(Effective(c))
  PROVE  Valid(Effective([c EXCEPT !.token = FALSE]))
<1>. DEFINE d == [c EXCEPT !.token = FALSE]
<1>1. d \in Config
  BY DEF Config
<1>2. d.limit = c.limit /\ d.minutes = c.minutes /\ d.port = c.port /\ d.upstream = c.upstream
  BY DEF Config
<1>. HIDE DEF d
<1>3. /\ Effective(c).limit = c.limit /\ Effective(c).minutes = c.minutes /\ Effective(c).port = c.port
      /\ Effective(c).upstream = OverriddenUpstream(c.upstream)
  BY DEF Effective, Config
<1>4. /\ Effective(d).limit = d.limit /\ Effective(d).minutes = d.minutes /\ Effective(d).port = d.port
      /\ Effective(d).upstream = OverriddenUpstream(d.upstream)
  BY <1>1 DEF Effective, Config
<1>5. Valid(Effective(d))
  BY <1>2, <1>3, <1>4 DEF Valid
<1>. QED
  BY <1>5 DEF d

(***************************************************************************)
(* Whatever is accepted can be restarted from.                             *)
(***************************************************************************)
LEMMA AcceptedValid ==
  ASSUME NEW c \in Config, NEW r \in Request, EnvInv, Valid(Effective(c)), Accepted(c, r)
  PROVE  Valid(Effective(Merged(c, r)))
<1>1. CASE r.kind = "legacy"
  <2>1. Merged(c, r) = [c EXCEPT !.token = FALSE]
    BY <1>1 DEF Merged
  <2>. QED
    BY <2>1, TokenIrrelevant
<1>2. CASE r.kind # "legacy"
  BY <1>2, MergedType, EffectiveValid DEF Accepted
<1>. QED
  BY <1>1, <1>2

----------------------------------------------------------------------------
(* Types. *)

\* What the running program takes over from a configuration.
LEMMA RunningType ==
  ASSUME NEW c \in Config
  PROVE  Running(c) \in [limit : Int, minutes : Int, key : Key \cup {None}, upstream : Upstream]
  BY DEF Running, Config

\* A process that does not run.
LEMMA OffType ==
  /\ Off \in TorState /\ Off.status = "off"
  /\ \A b \in BOOLEAN, u \in Upstream :
        LET v == [Off EXCEPT !.status = "starting", !.replacing = b, !.upstream = u]
        IN  v \in TorState /\ v.upstream = u /\ v.read = None
<1>1. Off \in TorState /\ Off.status = "off"
  BY DEF TorState, Off, NoUpstream, Upstream
<1>2. ASSUME NEW b \in BOOLEAN, NEW u \in Upstream
      PROVE  LET v == [Off EXCEPT !.status = "starting", !.replacing = b, !.upstream = u]
             IN  v \in TorState /\ v.upstream = u /\ v.read = None
  <2>1. PICK v : v = [Off EXCEPT !.status = "starting", !.replacing = b, !.upstream = u]
    OBVIOUS
  <2>2. v = [status |-> "starting", prev |-> None, replacing |-> b, upstream |-> u,
             due |-> FALSE, read |-> None]
    BY <2>1 DEF Off
  <2>3. v \in TorState /\ v.upstream = u /\ v.read = None
    BY <2>2 DEF TorState, InUse
  <2>. QED
    BY <2>1, <2>3
<1>. QED
  BY <1>1, <1>2

\* The types hold when the program starts.
LEMMA InitType == Init => TypeOK /\ EnvInv
<1>. SUFFICES ASSUME Init PROVE TypeOK /\ EnvInv
  OBVIOUS
<1>. USE SettingsAssumption
<1>1. file \in Config
  BY DEF Init
<1>2. env \in [key : Key \cup {None}, upstream : Upstream \cup {None}]
  BY DEF Init
<1>3. Effective(file).upstream = OverriddenUpstream(file.upstream)
  BY <1>1 DEF Effective, Config
<1>4. EnvInv
  <2>1. Effective(file).upstream.username = None <=> Effective(file).upstream.password = None
    BY DEF Init, Valid
  <2>. QED
    BY <1>2, <1>3, <2>1 DEF EnvInv, OverriddenUpstream
<1>5. Effective(file) \in Config
  BY <1>1, <1>4, EffectiveType
<1>6. m \in [limit : Int, minutes : Int, key : Key \cup {None}, upstream : Upstream] /\ catalog \in Upstream
  <2>1. Effective(file).upstream \in Upstream
    BY <1>5 DEF Config
  <2>. QED
    BY <1>5, <2>1, RunningType DEF Init
<1>7. h \in [Handler -> HandlerState]
  BY DEF Init, Idle, HandlerState
<1>8. tor \in [Inst -> TorState]
  BY OffType DEF Init
<1>. QED
  BY <1>1, <1>4, <1>6, <1>7, <1>8 DEF Init, TypeOK

\* The ways a handler's record changes.
LEMMA HandlerTypes ==
  ASSUME NEW y \in HandlerState
  PROVE  /\ Idle \in HandlerState
         /\ \A a \in {"save", "copy", "saved", "minutes", "tor", "catalog"} : [y EXCEPT !.at = a] \in HandlerState
         /\ \A S \in SUBSET Inst : [y EXCEPT !.todo = S] \in HandlerState
         /\ \A k \in Key \cup {None} : [y EXCEPT !.at = "key", !.key = k] \in HandlerState
         /\ \A u \in Upstream, S \in SUBSET Inst :
               [y EXCEPT !.at = "tor", !.upstream = u, !.todo = S] \in HandlerState
         /\ \A k \in Kind, c \in Config :
               [Idle EXCEPT !.at = "save", !.kind = k, !.next = c] \in HandlerState
  BY DEF HandlerState, Idle

\* What Update makes of the handler's record.
LEMMA SavingHandler ==
  ASSUME TypeOK, NEW x \in Handler, NEW r, Update(x, r)
  PROVE  /\ \A y \in Handler \ {x} : h'[y] = h[y]
         /\ Accepted(cfg, r) =>
               h'[x].at = "save" /\ h'[x].kind = r.kind /\ h'[x].next = Merged(cfg, r)
         /\ ~Accepted(cfg, r) => h' = h
<1>. DEFINE y == [Idle EXCEPT !.at = "save", !.kind = r.kind, !.next = Merged(cfg, r)]
<1>1. y.at = "save" /\ y.kind = r.kind /\ y.next = Merged(cfg, r)
  BY DEF Idle
<1>2. IF Accepted(cfg, r) THEN h' = [h EXCEPT ![x] = y] ELSE h' = h
  BY DEF Update
<1>. HIDE DEF y
<1>. QED
  BY <1>1, <1>2 DEF TypeOK

\* What a process or its Instance does by itself.
TorStep(i) ==
    \/ \E replacing \in BOOLEAN : Launch(i, replacing)
    \/ Connect(i) \/ ReadUpstream(i) \/ SetUpstream(i) \/ MarkRunning(i) \/ Fail(i)
    \/ BeginSwitch(i) \/ KeepOld(i) \/ Cutover(i) \/ Drain(i) \/ Exit(i)

\* The ways a process's record changes, with what becomes of its proxy.
Kept(v, w) == v.upstream = w.upstream /\ v.read = w.read /\ v.due = w.due /\ v.prev = w.prev

\* A status is set, and nothing else.
LEMMA StatusType ==
  ASSUME NEW y \in TorState, NEW s \in InUse \cup {"off", "draining"}
  PROVE  LET v == [y EXCEPT !.status = s] IN v \in TorState /\ v.status = s /\ Kept(v, y)
  BY DEF TorState, Kept

\* The status to go back to is set, and nothing else.
LEMMA PrevType ==
  ASSUME NEW y \in TorState, NEW p \in InUse \cup {None}
  PROVE  LET v == [y EXCEPT !.prev = p]
         IN  /\ v \in TorState /\ v.prev = p /\ v.status = y.status
             /\ v.upstream = y.upstream /\ v.read = y.read /\ v.due = y.due
  BY DEF TorState

\* What awaitReady is about to do is set, and nothing else.
LEMMA ReadType ==
  ASSUME NEW y \in TorState, NEW b \in BOOLEAN, NEW u \in Upstream \cup {None}
  PROVE  LET v == [y EXCEPT !.due = b, !.read = u]
         IN  /\ v \in TorState /\ v.due = b /\ v.read = u /\ v.status = y.status
             /\ v.upstream = y.upstream /\ v.prev = y.prev
  BY DEF TorState

\* The proxy is set, and nothing else.
LEMMA ProxyType ==
  ASSUME NEW y \in TorState, NEW u \in Upstream
  PROVE  LET v == [y EXCEPT !.upstream = u]
         IN  /\ v \in TorState /\ v.upstream = u /\ v.status = y.status
             /\ v.read = y.read /\ v.due = y.due /\ v.prev = y.prev
  BY DEF TorState

\* What UpdateUpstream does to a process.
LEMMA AppliedTor ==
  ASSUME TypeOK, NEW x \in Handler, NEW i \in Inst, ApplyToTor(x, i), h[x].upstream \in Upstream
  PROVE  /\ tor' \in [Inst -> TorState]
         /\ \A j \in Inst : j # i => tor'[j] = tor[j]
         /\ tor'[i].upstream = h[x].upstream /\ tor'[i].read = tor[i].read
         /\ tor'[i].due = tor[i].due /\ tor'[i].prev = tor[i].prev
         /\ tor'[i].status \in {tor[i].status, "connecting"} /\ tor[i].status # "off"
<1>1. tor[i] \in TorState
  BY DEF TypeOK
<1>2. PICK s : s = IF tor[i].status = "error" THEN "connecting" ELSE tor[i].status
  OBVIOUS
<1>3. s \in InUse \cup {"off", "draining"}
  BY <1>1, <1>2 DEF TorState, InUse
<1>4. PICK w : w = [tor[i] EXCEPT !.upstream = h[x].upstream]
  OBVIOUS
<1>5. /\ w \in TorState /\ w.upstream = h[x].upstream /\ w.status = tor[i].status
      /\ w.read = tor[i].read /\ w.due = tor[i].due /\ w.prev = tor[i].prev
  BY <1>1, <1>4, ProxyType
<1>6. PICK v : v = [w EXCEPT !.status = s]
  OBVIOUS
<1>7. v \in TorState /\ v.status = s /\ Kept(v, w)
  BY <1>3, <1>5, <1>6, StatusType
<1>8. tor' = [tor EXCEPT ![i] = v]
  BY <1>1, <1>2, <1>4, <1>6 DEF ApplyToTor, TypeOK, TorState
<1>9. tor'[i] = v
  BY <1>8 DEF TypeOK
<1>. QED
  BY <1>2, <1>5, <1>7, <1>8, <1>9 DEF TypeOK, ApplyToTor, Kept

(***************************************************************************)
(* Saving keeps the types: what is saved is a configuration.               *)
(***************************************************************************)
LEMMA SaveType ==
  ASSUME TypeOK, EnvInv, StoreInv, NEW x \in Handler,
         \/ \E r \in Requested : Update(x, r)
         \/ SaveFails(x) \/ Rename(x) \/ Truncate(x) \/ Copy(x) \/ CopyFails(x)
  PROVE  TypeOK'
<1>. USE SettingsAssumption
<1>0. h[x] \in HandlerState
  BY DEF TypeOK
<1>1. ASSUME NEW r \in Requested, Update(x, r) PROVE TypeOK'
  <2>1. r \in Request /\ r.kind \in Kind
    BY DEF Request, Kind
  <2>2. Merged(cfg, r) \in Config
    BY <2>1, MergedType DEF TypeOK
  <2>3. [Idle EXCEPT !.at = "save", !.kind = r.kind, !.next = Merged(cfg, r)] \in HandlerState
    BY <1>0, <2>1, <2>2, HandlerTypes
  <2>4. h' \in [Handler -> HandlerState]
    BY <1>1, <2>3 DEF Update, TypeOK
  <2>. QED
    BY <1>1, <2>1, <2>4 DEF Update, TypeOK
<1>2. ASSUME h[x].at \in Saving, Saved(x) PROVE TypeOK'
  <2>1. h[x].next \in Config
    BY <1>2 DEF StoreInv, LockInv, SavingInv
  <2>2. Idle \in HandlerState /\ [h[x] EXCEPT !.at = "saved"] \in HandlerState
    BY <1>0, HandlerTypes
  <2>3. h' \in [Handler -> HandlerState]
    BY <1>2, <2>2 DEF Saved, TypeOK
  <2>. QED
    BY <1>2, <2>1, <2>3 DEF Saved, TypeOK, outside, history
<1>3. ASSUME h[x].at \in Saving, GiveUp(x), UNCHANGED <<file, late>> \/ (file' = h[x].next /\ late' = TRUE)
      PROVE  TypeOK'
  <2>0. h[x].next \in Config
    BY <1>3 DEF StoreInv, LockInv, SavingInv
  <2>1. h' \in [Handler -> HandlerState]
    BY <1>0, <1>3, HandlerTypes DEF GiveUp, TypeOK
  <2>. QED
    BY <1>3, <2>0, <2>1 DEF GiveUp, TypeOK, outside, history
<1>4. ASSUME Truncate(x) PROVE TypeOK'
  <2>1. [h[x] EXCEPT !.at = "copy"] \in HandlerState
    BY <1>0, HandlerTypes
  <2>2. h' \in [Handler -> HandlerState]
    BY <1>4, <2>1 DEF Truncate, TypeOK
  <2>. QED
    BY <1>4, <2>2 DEF Truncate, TypeOK, outside, history
<1>. QED
  BY <1>1, <1>2, <1>3, <1>4 DEF SaveFails, Rename, Copy, CopyFails, Saving

(***************************************************************************)
(* So does applying.                                                       *)
(***************************************************************************)
LEMMA ApplyType ==
  ASSUME TypeOK, EnvInv, ApplyInv, NEW x \in Handler,
         \/ ApplyLimit(x) \/ ApplyMinutes(x) \/ RereadKey(x) \/ ApplyKey(x)
         \/ RereadUpstream(x) \/ ApplyUpstream(x) \/ ApplyToCatalog(x) \/ TorFails(x)
         \/ \E i \in Inst : ApplyToTor(x, i)
  PROVE  TypeOK'
<1>. USE SettingsAssumption
<1>0. h[x] \in HandlerState /\ Idle \in HandlerState
  BY HandlerTypes DEF TypeOK
<1>1. ASSUME ApplyLimit(x) PROVE TypeOK'
  <2>1. h[x].next.limit \in Int
    BY <1>1 DEF ApplyLimit, ApplyInv, Config
  <2>2. [h[x] EXCEPT !.at = "minutes"] \in HandlerState
    BY <1>0, HandlerTypes
  <2>3. h' \in [Handler -> HandlerState]
    BY <1>1, <2>2 DEF ApplyLimit, TypeOK
  <2>. QED
    BY <1>1, <2>1, <2>3 DEF ApplyLimit, TypeOK, program, store, outside, history
<1>2. ASSUME ApplyMinutes(x) PROVE TypeOK'
  <2>1. h[x].next.minutes \in Int
    BY <1>2 DEF ApplyMinutes, ApplyInv, Config
  <2>. QED
    BY <1>0, <1>2, <2>1 DEF ApplyMinutes, TypeOK, program, store, outside, history
<1>3. ASSUME RereadKey(x) PROVE TypeOK'
  <2>1. OverriddenKey(cfg.key) \in Key \cup {None}
    BY DEF OverriddenKey, EnvInv, TypeOK, Config
  <2>2. [h[x] EXCEPT !.at = "key", !.key = OverriddenKey(cfg.key)] \in HandlerState
    BY <1>0, <2>1, HandlerTypes
  <2>3. h' \in [Handler -> HandlerState]
    BY <1>3, <2>2 DEF RereadKey, TypeOK
  <2>. QED
    BY <1>3, <2>3 DEF RereadKey, TypeOK, program, store, outside, history
<1>4. ASSUME ApplyKey(x) PROVE TypeOK'
  <2>1. h[x].key \in Key \cup {None}
    BY <1>0 DEF HandlerState
  <2>. QED
    BY <1>0, <1>4, <2>1 DEF ApplyKey, TypeOK, program, store, outside, history
<1>5. ASSUME RereadUpstream(x) PROVE TypeOK'
  <2>. DEFINE S == {i \in Inst : Reached(i)}
              u == OverriddenUpstream(cfg.upstream)
  <2>1. u \in Upstream
    BY DEF OverriddenUpstream, EnvInv, TypeOK, Config
  <2>2. [h[x] EXCEPT !.at = "tor", !.upstream = u, !.todo = S] \in HandlerState
    <3>1. S \in SUBSET Inst
      OBVIOUS
    <3>. QED
      BY <1>0, <2>1, <3>1, HandlerTypes
  <2>3. h' = [h EXCEPT ![x] = [h[x] EXCEPT !.at = "tor", !.upstream = u, !.todo = S]]
    BY <1>5 DEF RereadUpstream, TypeOK
  <2>. HIDE DEF S, u
  <2>4. h' \in [Handler -> HandlerState]
    BY <2>2, <2>3 DEF TypeOK
  <2>. QED
    BY <1>5, <2>4 DEF RereadUpstream, TypeOK, store, outside
<1>6. ASSUME ApplyUpstream(x) PROVE TypeOK'
  <2>1. h[x].upstream \in Upstream
    BY <1>6 DEF ApplyUpstream, ApplyInv
  <2>2. [h[x] EXCEPT !.at = "catalog"] \in HandlerState
    BY <1>0, HandlerTypes
  <2>3. h' \in [Handler -> HandlerState]
    BY <1>6, <2>2 DEF ApplyUpstream, TypeOK
  <2>. QED
    BY <1>6, <2>1, <2>3 DEF ApplyUpstream, TypeOK, program, store, outside, history
<1>7. ASSUME ApplyToCatalog(x) PROVE TypeOK'
  BY <1>0, <1>7 DEF ApplyToCatalog, ApplyInv, TypeOK, program, store, outside, history
<1>8. ASSUME TorFails(x) PROVE TypeOK'
  BY <1>0, <1>8 DEF TorFails, TypeOK, Kind, store, outside
<1>9. ASSUME NEW i \in Inst, ApplyToTor(x, i) PROVE TypeOK'
  <2>1. [h[x] EXCEPT !.todo = @ \ {i}] \in HandlerState
    <3>1. h[x].todo \ {i} \in SUBSET Inst
      BY <1>0 DEF HandlerState
    <3>. QED
      BY <1>0, <3>1, HandlerTypes
  <2>2. h' \in [Handler -> HandlerState]
    BY <1>9, <2>1 DEF ApplyToTor, TypeOK
  <2>3. tor' \in [Inst -> TorState]
    BY <1>9, AppliedTor DEF ApplyInv, ApplyToTor
  <2>. QED
    BY <1>9, <2>2, <2>3 DEF ApplyToTor, TypeOK, program, store, outside, history
<1>. QED
  BY <1>1, <1>2, <1>3, <1>4, <1>5, <1>6, <1>7, <1>8, <1>9

\* The steps of a process by what they do to its proxy and to what awaitReady does.
Moved(i) ==
    /\ tor'[i].upstream = tor[i].upstream
    /\ \/ tor'[i].due = tor[i].due /\ tor'[i].read = tor[i].read
       \/ tor'[i].due = FALSE /\ tor'[i].read = None
    /\ tor'[i].status \in InUse \cup {"draining"}
    /\ tor'[i].status = "starting" => "starting" \in {tor[i].status, tor[i].prev}
    /\ tor'[i].prev = "starting" => "starting" \in {tor[i].status, tor[i].prev}

(***************************************************************************)
(* And the Tor processes: each step changes one of them, and only its      *)
(* proxy, its status or what awaitReady is about to do with it.            *)
(***************************************************************************)
LEMMA TorEffect ==
  ASSUME TypeOK, NEW i \in Inst, TorStep(i)
  PROVE  /\ UNCHANGED <<store, outside, up, h, m, catalog, unsure>>
         /\ tor' \in [Inst -> TorState] /\ \A j \in Inst : j # i => tor'[j] = tor[j]
         /\ \/ /\ \E replacing \in BOOLEAN : Launch(i, replacing)
               /\ tor'[i].upstream = m.upstream /\ tor'[i].read = None
            \/ /\ missed' = missed /\ tor[i].status # "off"
               /\ \/ tor'[i].status = "off"
                  \/ Moved(i)
                  \/ /\ tor[i].status = "starting"
                     /\ tor'[i].upstream = tor[i].upstream /\ tor'[i].read = tor[i].read
                  \/ /\ tor[i].due
                     /\ tor'[i].upstream = tor[i].upstream /\ tor'[i].read = m.upstream
                  \/ /\ tor[i].read # None
                     /\ tor'[i].upstream = tor[i].read /\ tor'[i].read = None
<1>0. tor[i] \in TorState /\ m.upstream \in Upstream /\ tor \in [Inst -> TorState]
  BY DEF TypeOK
<1>1. /\ UNCHANGED <<store, outside, up, h, m, catalog, unsure>>
      /\ (\E replacing \in BOOLEAN : Launch(i, replacing)) \/ (missed' = missed /\ tor[i].status # "off")
  BY DEF TorStep, Launch, Connect, ReadUpstream, SetUpstream, MarkRunning, Fail, BeginSwitch, KeepOld,
         Cutover, Drain, Exit, others, history, InUse
<1>2. ASSUME NEW v \in TorState, tor' = [tor EXCEPT ![i] = v]
      PROVE  tor' \in [Inst -> TorState] /\ tor'[i] = v /\ \A j \in Inst : j # i => tor'[j] = tor[j]
  BY <1>0, <1>2
<1>3. CASE \E replacing \in BOOLEAN : Launch(i, replacing)
  <2>1. PICK b \in BOOLEAN : Launch(i, b)
    BY <1>3
  <2>2. PICK v : v = [Off EXCEPT !.status = "starting", !.replacing = b, !.upstream = m.upstream]
    OBVIOUS
  <2>3. v \in TorState /\ v.upstream = m.upstream /\ v.read = None
    BY <1>0, <2>2, OffType
  <2>4. tor' = [tor EXCEPT ![i] = v]
    BY <2>1, <2>2 DEF Launch
  <2>. QED
    BY <1>1, <1>2, <1>3, <2>3, <2>4
<1>4. CASE Connect(i)
  <2>1. PICK w : w = [tor[i] EXCEPT !.status = "connecting"]
    OBVIOUS
  <2>2. w \in TorState /\ Kept(w, tor[i])
    BY <1>0, <2>1, StatusType DEF InUse
  <2>3. PICK v : v = [w EXCEPT !.due = TRUE]
    OBVIOUS
  <2>4. v \in TorState /\ v.upstream = w.upstream /\ v.read = w.read
    BY <2>2, <2>3 DEF TorState
  <2>5. tor' = [tor EXCEPT ![i] = v]
    BY <1>0, <1>4, <2>1, <2>3 DEF Connect, TorState
  <2>. QED
    <3>1. missed' = missed /\ tor[i].status = "starting"
      BY <1>1, <1>4 DEF Connect, Launch
    <3>. QED
      BY <1>1, <1>2, <2>2, <2>4, <2>5, <3>1 DEF Kept
<1>5. CASE ReadUpstream(i)
  <2>1. PICK v : v = [tor[i] EXCEPT !.due = FALSE, !.read = m.upstream]
    OBVIOUS
  <2>2. v \in TorState /\ v.upstream = tor[i].upstream /\ v.read = m.upstream
    BY <1>0, <2>1, ReadType
  <2>3. tor' = [tor EXCEPT ![i] = v]
    BY <1>0, <1>5, <2>1 DEF ReadUpstream
  <2>. QED
    <3>1. missed' = missed /\ tor[i].status # "off" /\ tor[i].due
      BY <1>1, <1>5 DEF ReadUpstream, Launch
    <3>. QED
      BY <1>1, <1>2, <2>2, <2>3, <3>1
<1>6. CASE SetUpstream(i)
  <2>0. tor[i].read \in Upstream /\ tor[i].read # None
    BY <1>0, <1>6 DEF SetUpstream, TorState
  <2>1. PICK w : w = [tor[i] EXCEPT !.upstream = tor[i].read]
    OBVIOUS
  <2>2. w \in TorState /\ w.upstream = tor[i].read
    BY <1>0, <2>0, <2>1, ProxyType
  <2>3. PICK v : v = [w EXCEPT !.read = None]
    OBVIOUS
  <2>4. v \in TorState /\ v.upstream = w.upstream /\ v.read = None
    BY <2>2, <2>3 DEF TorState
  <2>5. tor' = [tor EXCEPT ![i] = v]
    BY <1>0, <1>6, <2>1, <2>3 DEF SetUpstream, TorState
  <2>. QED
    <3>1. missed' = missed /\ tor[i].status # "off"
      BY <1>1, <1>6 DEF SetUpstream, Launch
    <3>. QED
      BY <1>1, <1>2, <2>0, <2>2, <2>4, <2>5, <3>1
<1>7. CASE MarkRunning(i)
  <2>1. PICK v : v = [tor[i] EXCEPT !.status = "running"]
    OBVIOUS
  <2>2. v \in TorState /\ v.status = "running" /\ Kept(v, tor[i])
    BY <1>0, <2>1, StatusType DEF InUse
  <2>3. tor' = [tor EXCEPT ![i] = v] /\ tor[i].status # "off"
    BY <1>7, <2>1 DEF MarkRunning
  <2>4. Moved(i)
    BY <1>2, <2>2, <2>3 DEF Moved, Kept, InUse
  <2>. QED
    BY <1>1, <1>2, <2>2, <2>3, <2>4 DEF Launch
<1>8. CASE Fail(i)
  <2>1. PICK w : w = [tor[i] EXCEPT !.status = "error"]
    OBVIOUS
  <2>2. w \in TorState /\ w.status = "error" /\ Kept(w, tor[i])
    BY <1>0, <2>1, StatusType DEF InUse
  <2>3. PICK v : v = [w EXCEPT !.due = FALSE, !.read = None]
    OBVIOUS
  <2>4. /\ v \in TorState /\ v.status = "error" /\ v.upstream = w.upstream /\ v.prev = w.prev
        /\ v.due = FALSE /\ v.read = None
    BY <2>2, <2>3 DEF TorState
  <2>5. tor' = [tor EXCEPT ![i] = v] /\ tor[i].status # "off"
    BY <1>0, <1>8, <2>1, <2>3 DEF Fail, TorState
  <2>6. Moved(i)
    BY <1>2, <2>2, <2>4, <2>5 DEF Moved, Kept, InUse
  <2>. QED
    BY <1>1, <1>2, <2>4, <2>5, <2>6 DEF Launch
<1>9. CASE BeginSwitch(i)
  <2>0. PICK p : p = IF tor[i].prev = None THEN tor[i].status ELSE tor[i].prev
    OBVIOUS
  <2>1. p \in InUse \cup {None} /\ p \in {tor[i].status, tor[i].prev}
    BY <1>0, <1>9, <2>0 DEF BeginSwitch, TorState
  <2>2. PICK w : w = [tor[i] EXCEPT !.status = "switching"]
    OBVIOUS
  <2>3. w \in TorState /\ w.status = "switching" /\ Kept(w, tor[i])
    BY <1>0, <2>2, StatusType DEF InUse
  <2>4. PICK v : v = [w EXCEPT !.prev = p]
    OBVIOUS
  <2>5. /\ v \in TorState /\ v.status = "switching" /\ v.prev = p
        /\ v.upstream = w.upstream /\ v.read = w.read /\ v.due = w.due
    BY <2>1, <2>3, <2>4, PrevType
  <2>6. tor' = [tor EXCEPT ![i] = v] /\ tor[i].status # "off"
    BY <1>0, <1>9, <2>0, <2>2, <2>4 DEF BeginSwitch, TorState, InUse
  <2>7. Moved(i)
    BY <1>2, <2>1, <2>3, <2>5, <2>6 DEF Moved, Kept, InUse
  <2>. QED
    BY <1>1, <1>2, <2>5, <2>6, <2>7 DEF Launch
<1>10. CASE KeepOld(i)
  <2>0. tor[i].prev \in InUse
    BY <1>0, <1>10 DEF KeepOld, TorState
  <2>1. PICK w : w = [tor[i] EXCEPT !.status = tor[i].prev]
    OBVIOUS
  <2>2. w \in TorState /\ w.status = tor[i].prev /\ Kept(w, tor[i])
    BY <1>0, <2>0, <2>1, StatusType
  <2>3. PICK v : v = [w EXCEPT !.prev = None]
    OBVIOUS
  <2>4. /\ v \in TorState /\ v.status = w.status /\ v.prev = None
        /\ v.upstream = w.upstream /\ v.read = w.read /\ v.due = w.due
    BY <2>2, <2>3, PrevType
  <2>5. tor' = [tor EXCEPT ![i] = v] /\ tor[i].status # "off"
    BY <1>0, <1>10, <2>1, <2>3 DEF KeepOld, TorState
  <2>6. None # "starting"
    BY SettingsAssumption DEF InUse
  <2>7. Moved(i)
    BY <1>2, <2>0, <2>2, <2>4, <2>5, <2>6 DEF Moved, Kept
  <2>. QED
    BY <1>1, <1>2, <2>4, <2>5, <2>7 DEF Launch
<1>11. CASE Cutover(i)
  <2>1. PICK v : v = [tor[i] EXCEPT !.replacing = FALSE]
    OBVIOUS
  <2>2. v \in TorState /\ v.status = tor[i].status /\ Kept(v, tor[i])
    BY <1>0, <2>1 DEF TorState, Kept
  <2>3. tor' = [tor EXCEPT ![i] = v] /\ tor[i].status = "running"
    BY <1>11, <2>1 DEF Cutover
  <2>4. Moved(i)
    BY <1>2, <2>2, <2>3 DEF Moved, Kept, InUse
  <2>. QED
    BY <1>1, <1>2, <2>2, <2>3, <2>4 DEF Launch
<1>12. CASE Drain(i)
  <2>1. PICK w : w = [tor[i] EXCEPT !.status = "draining"]
    OBVIOUS
  <2>2. w \in TorState /\ w.status = "draining" /\ Kept(w, tor[i])
    BY <1>0, <2>1, StatusType
  <2>3. PICK v : v = [w EXCEPT !.prev = None]
    OBVIOUS
  <2>4. /\ v \in TorState /\ v.status = "draining" /\ v.prev = None
        /\ v.upstream = w.upstream /\ v.read = w.read /\ v.due = w.due
    BY <2>2, <2>3, PrevType
  <2>5. tor' = [tor EXCEPT ![i] = v] /\ tor[i].status # "off"
    BY <1>0, <1>12, <2>1, <2>3 DEF Drain, TorState, InUse
  <2>6. Moved(i)
    BY <1>2, <2>2, <2>4, <2>5, SettingsAssumption DEF Moved, Kept, InUse
  <2>. QED
    BY <1>1, <1>2, <2>4, <2>5, <2>6 DEF Launch
<1>13. CASE Exit(i)
  <2>1. Off \in TorState /\ Off.status = "off"
    BY OffType
  <2>. QED
    BY <1>1, <1>2, <1>13, <2>1 DEF Exit, Launch
<1>. QED
  BY <1>3, <1>4, <1>5, <1>6, <1>7, <1>8, <1>9, <1>10, <1>11, <1>12, <1>13 DEF TorStep

\* Their types are kept.
LEMMA TorType ==
  ASSUME TypeOK, NEW i \in Inst, TorStep(i)
  PROVE  TypeOK'
<1>1. UNCHANGED <<store, outside, up, h, m, catalog, unsure>> /\ tor' \in [Inst -> TorState]
  BY TorEffect
<1>2. missed' \subseteq Inst
  BY TorEffect DEF TypeOK, Launch
<1>. QED
  BY <1>1, <1>2 DEF TypeOK, store, outside

\* A crash and the next start keep the types.
LEMMA CrashType ==
  ASSUME TypeOK, EnvInv, Crash \/ Restart
  PROVE  TypeOK'
<1>1. CASE Crash
  <2>1. Idle \in HandlerState /\ Off \in TorState
    BY OffType DEF Idle, HandlerState
  <2>. QED
    BY <1>1, <2>1 DEF Crash, TypeOK
<1>2. CASE Restart
  <2>1. file \in Config
    BY <1>2 DEF Restart, TypeOK
  <2>2. Effective(file) \in Config
    BY <2>1, EffectiveType
  <2>3. Effective(file).upstream \in Upstream
    BY <2>2 DEF Config
  <2>. QED
    BY <1>2, <2>1, <2>2, <2>3, RunningType DEF Restart, TypeOK, outside, history
<1>. QED
  BY <1>1, <1>2

----------------------------------------------------------------------------
(* What applying needs. *)

\* Every step leaves a handler that applies something with what it applies.
LEMMA ApplyStep ==
  ASSUME TypeOK, EnvInv, StoreInv, ApplyInv, [Next]_vars
  PROVE  ApplyInv'
<1>. USE SettingsAssumption
<1>0. \A y \in Handler : h[y] \in HandlerState
  BY DEF TypeOK
<1>1. ASSUME NEW x \in Handler, NEW r \in Requested, Update(x, r) PROVE ApplyInv'
  <2>1. h'[x] = h[x] \/ h'[x].at = "save"
    BY <1>1, SavingHandler
  <2>2. \A y \in Handler \ {x} : h'[y] = h[y]
    BY <1>1, SavingHandler
  <2>. QED
    BY <2>1, <2>2 DEF ApplyInv
<1>2. ASSUME NEW x \in Handler, h[x].at \in Saving, Saved(x) PROVE ApplyInv'
  <2>1. h[x].next \in Config
    BY <1>2 DEF StoreInv, LockInv, SavingInv
  <2>. QED
    BY <1>0, <1>2, <2>1 DEF Saved, ApplyInv, Idle, TypeOK, HandlerState
<1>3. ASSUME NEW x \in Handler, h' = [h EXCEPT ![x] = Idle] PROVE ApplyInv'
  BY <1>3 DEF ApplyInv, Idle, TypeOK
<1>4. ASSUME NEW x \in Handler, Truncate(x) PROVE ApplyInv'
  BY <1>0, <1>4 DEF Truncate, ApplyInv, TypeOK, HandlerState
<1>5. ASSUME NEW x \in Handler, ApplyLimit(x) PROVE ApplyInv'
  BY <1>0, <1>5 DEF ApplyLimit, ApplyInv, TypeOK, HandlerState
<1>6. ASSUME NEW x \in Handler, RereadKey(x) PROVE ApplyInv'
  BY <1>0, <1>6 DEF RereadKey, ApplyInv, TypeOK, HandlerState
<1>7. ASSUME NEW x \in Handler, RereadUpstream(x) PROVE ApplyInv'
  <2>1. OverriddenUpstream(cfg.upstream) \in Upstream
    BY DEF OverriddenUpstream, EnvInv, TypeOK, Config
  <2>2. h'[x].at = "tor" /\ h'[x].upstream = OverriddenUpstream(cfg.upstream)
    BY <1>0, <1>7 DEF RereadUpstream, TypeOK, HandlerState
  <2>3. \A y \in Handler \ {x} : h'[y] = h[y]
    BY <1>7 DEF RereadUpstream, TypeOK
  <2>. QED
    BY <2>1, <2>2, <2>3 DEF ApplyInv
<1>8. ASSUME NEW x \in Handler, ApplyUpstream(x) PROVE ApplyInv'
  BY <1>0, <1>8 DEF ApplyUpstream, ApplyInv, TypeOK, HandlerState
<1>9. ASSUME NEW x \in Handler, NEW i \in Inst, ApplyToTor(x, i) PROVE ApplyInv'
  BY <1>0, <1>9 DEF ApplyToTor, ApplyInv, TypeOK, HandlerState
<1>10. ASSUME UNCHANGED h PROVE ApplyInv'
  BY <1>10 DEF ApplyInv
<1>11. CASE Crash
  BY <1>11 DEF Crash, ApplyInv, Idle
<1>12. ASSUME NEW x \in Handler,
              \/ \E r \in Requested : Update(x, r)
              \/ SaveFails(x) \/ Rename(x) \/ Truncate(x) \/ Copy(x) \/ CopyFails(x)
       PROVE  ApplyInv'
  BY <1>1, <1>2, <1>3, <1>4, <1>12 DEF SaveFails, GiveUp, Rename, Copy, CopyFails, Saving
<1>13. ASSUME NEW x \in Handler,
              \/ ApplyLimit(x) \/ ApplyMinutes(x) \/ RereadKey(x) \/ ApplyKey(x)
              \/ RereadUpstream(x) \/ ApplyUpstream(x) \/ ApplyToCatalog(x) \/ TorFails(x)
              \/ \E i \in Inst : ApplyToTor(x, i)
       PROVE  ApplyInv'
  BY <1>3, <1>5, <1>6, <1>7, <1>8, <1>9, <1>13 DEF ApplyMinutes, ApplyKey, ApplyToCatalog, TorFails
<1>14. ASSUME NEW i \in Inst, TorStep(i) PROVE ApplyInv'
  BY <1>10, <1>14, TorEffect
<1>15. ASSUME Restart \/ UNCHANGED vars PROVE ApplyInv'
  BY <1>10, <1>15 DEF Restart, vars
<1>. QED
  BY <1>11, <1>12, <1>13, <1>14, <1>15 DEF Next, TorStep

----------------------------------------------------------------------------
(* The store. *)

(***************************************************************************)
(* Whoever neither holds nor takes ConfigStore's lock leaves alone what is *)
(* stored and what is being saved.                                         *)
(***************************************************************************)
LEMMA StoreKept ==
  ASSUME StoreInv, UNCHANGED <<store, mounted, env, up>>,
         \A y \in Handler : h'[y] = h[y] \/ (h[y].at \notin Saving /\ h'[y].at \notin Saving)
  PROVE  StoreInv'
<1>1. LockInv'
  BY DEF StoreInv, LockInv, store, Saving
<1>2. FileInv'
  BY DEF StoreInv, FileInv, store, Effective, OverriddenKey, OverriddenUpstream
<1>3. SavingInv'
  <2>. SUFFICES ASSUME NEW y \in Handler, lock' = y
                PROVE  (/\ h[y].next \in Config
                        /\ Valid(Effective(h[y].next))
                        /\ OnlyTouches(h[y].kind, h[y].next))'
    BY DEF SavingInv
  <2>1. lock = y /\ h'[y] = h[y]
    BY DEF StoreInv, LockInv, store
  <2>2. h[y].next \in Config /\ Valid(Effective(h[y].next)) /\ OnlyTouches(h[y].kind, h[y].next)
    BY <2>1 DEF StoreInv, SavingInv
  <2>3. Valid(Effective(h[y].next))'
    BY <2>1, <2>2 DEF Effective, OverriddenKey, OverriddenUpstream
  <2>4. OnlyTouches(h[y].kind, h[y].next)'
    BY <2>1, <2>2 DEF OnlyTouches, store
  <2>. QED
    BY <2>1, <2>2, <2>3, <2>4
<1>. QED
  BY <1>1, <1>2, <1>3 DEF StoreInv

(***************************************************************************)
(* Taking the lock: what is about to be saved was merged into what is      *)
(* stored at that moment, and is valid.                                    *)
(***************************************************************************)
LEMMA UpdateStore ==
  ASSUME TypeOK, EnvInv, StoreInv, NEW x \in Handler, NEW r \in Requested, Update(x, r)
  PROVE  StoreInv'
<1>. USE SettingsAssumption
<1>0. r \in Request /\ cfg \in Config /\ lock = None /\ up
  BY DEF Update, LockFree, TypeOK
<1>1. CASE Accepted(cfg, r)
  <2>. DEFINE c == Merged(cfg, r)
  <2>1. c \in Config
    BY <1>0, MergedType
  <2>2. Valid(Effective(c))
    BY <1>0, <1>1, AcceptedValid DEF StoreInv, FileInv
  <2>3. OnlyTouches(r.kind, c)
    BY <1>0, MergedTouches DEF OnlyTouches
  <2>4. h'[x].at = "save" /\ h'[x].kind = r.kind /\ h'[x].next = c
    BY <1>1, SavingHandler
  <2>. HIDE DEF c
  <2>5. /\ UNCHANGED <<file, late, cfg, mounted, env, up>> /\ lock' = x
        /\ \A y \in Handler \ {x} : h'[y] = h[y]
    BY <1>1 DEF Update, TypeOK
  <2>6. LockInv'
    BY <1>0, <2>4, <2>5 DEF StoreInv, LockInv, Saving
  <2>7. FileInv'
    BY <2>5 DEF StoreInv, FileInv, Effective, OverriddenKey, OverriddenUpstream
  <2>8. Valid(Effective(h[x].next))'
    BY <2>2, <2>4, <2>5 DEF Effective, OverriddenKey, OverriddenUpstream
  <2>9. OnlyTouches(h[x].kind, h[x].next)'
    BY <2>3, <2>4, <2>5 DEF OnlyTouches
  <2>10. SavingInv'
    BY <2>1, <2>4, <2>5, <2>8, <2>9 DEF SavingInv
  <2>. QED
    BY <2>6, <2>7, <2>10 DEF StoreInv
<1>2. CASE ~Accepted(cfg, r)
  BY <1>2, StoreKept DEF Update, store
<1>. QED
  BY <1>1, <1>2

(***************************************************************************)
(* Giving the lock back, with the file and the store set or left alone.    *)
(***************************************************************************)
LEMMA SavedStore ==
  ASSUME TypeOK, EnvInv, StoreInv, NEW x \in Handler, h[x].at \in Saving,
         \/ Saved(x)
         \/ GiveUp(x) /\ UNCHANGED <<file, late>>
         \/ GiveUp(x) /\ mounted /\ file' = h[x].next /\ late' = TRUE
  PROVE  StoreInv'
<1>. USE SettingsAssumption
<1>1. lock = x /\ up /\ lock' = None /\ UNCHANGED <<mounted, env, up>>
  BY DEF StoreInv, LockInv, Saved, GiveUp, outside
<1>2. h[x] \in HandlerState
  BY DEF TypeOK
<1>3. h'[x].at \notin Saving /\ \A y \in Handler \ {x} : h'[y] = h[y]
  BY <1>2 DEF Saved, GiveUp, TypeOK, Saving, Idle, HandlerState
<1>4. LockInv'
  BY <1>1, <1>3 DEF StoreInv, LockInv, Saving
<1>5. SavingInv'
  BY <1>1 DEF SavingInv
<1>6. FileInv'
  <2>1. CASE Saved(x)
    <3>1. h[x].next \in Config /\ Valid(Effective(h[x].next))
      BY <1>1 DEF StoreInv, SavingInv
    <3>2. file' = h[x].next /\ cfg' = h[x].next /\ late' = FALSE
      BY <2>1 DEF Saved
    <3>3. Valid(Effective(file))' /\ Valid(Effective(cfg))'
      BY <1>1, <3>1, <3>2 DEF Effective, OverriddenKey, OverriddenUpstream
    <3>. QED
      BY <3>1, <3>2, <3>3 DEF FileInv
  <2>2. CASE GiveUp(x) /\ UNCHANGED <<file, late>>
    BY <1>1, <2>2 DEF GiveUp, StoreInv, FileInv, Effective, OverriddenKey, OverriddenUpstream
  <2>3. CASE GiveUp(x) /\ mounted /\ file' = h[x].next /\ late' = TRUE
    <3>1. h[x].next \in Config /\ Valid(Effective(h[x].next))
      BY <1>1 DEF StoreInv, SavingInv
    <3>2. Valid(Effective(file))'
      BY <1>1, <2>3, <3>1 DEF Effective, OverriddenKey, OverriddenUpstream
    <3>3. Valid(Effective(cfg))'
      BY <1>1, <2>3 DEF GiveUp, StoreInv, FileInv, Effective, OverriddenKey, OverriddenUpstream
    <3>. QED
      BY <1>1, <2>3, <3>1, <3>2, <3>3 DEF FileInv
  <2>. QED
    BY <2>1, <2>2, <2>3
<1>. QED
  BY <1>4, <1>5, <1>6 DEF StoreInv

(***************************************************************************)
(* Truncating a mounted file tears it and nothing else.                    *)
(***************************************************************************)
LEMMA TruncateStore ==
  ASSUME TypeOK, StoreInv, NEW x \in Handler, Truncate(x)
  PROVE  StoreInv'
<1>1. /\ file' = Torn /\ late' = FALSE /\ mounted
      /\ UNCHANGED <<cfg, lock, mounted, env, up>>
  BY DEF Truncate, outside
<1>2. /\ h[x].at = "save" /\ h'[x].at = "copy" /\ h'[x].next = h[x].next /\ h'[x].kind = h[x].kind
      /\ \A y \in Handler \ {x} : h'[y] = h[y]
  BY DEF Truncate, TypeOK, HandlerState
<1>3. LockInv'
  BY <1>1, <1>2 DEF StoreInv, LockInv, Saving
<1>4. FileInv'
  BY <1>1 DEF StoreInv, FileInv, Effective, OverriddenKey, OverriddenUpstream
<1>5. SavingInv'
  <2>. SUFFICES ASSUME NEW y \in Handler, lock' = y
                PROVE  (/\ h[y].next \in Config
                        /\ Valid(Effective(h[y].next))
                        /\ OnlyTouches(h[y].kind, h[y].next))'
    BY DEF SavingInv
  <2>1. lock = y /\ h'[y].next = h[y].next /\ h'[y].kind = h[y].kind
    BY <1>1, <1>2
  <2>2. h[y].next \in Config /\ Valid(Effective(h[y].next)) /\ OnlyTouches(h[y].kind, h[y].next)
    BY <2>1 DEF StoreInv, SavingInv
  <2>3. Valid(Effective(h[y].next))'
    BY <1>1, <2>1, <2>2 DEF Effective, OverriddenKey, OverriddenUpstream
  <2>4. OnlyTouches(h[y].kind, h[y].next)'
    BY <1>1, <2>1, <2>2 DEF OnlyTouches
  <2>. QED
    BY <2>1, <2>2, <2>3, <2>4
<1>. QED
  BY <1>3, <1>4, <1>5 DEF StoreInv

\* A crash gives the lock back, and the next start reads what is in the file.
LEMMA CrashStore ==
  ASSUME TypeOK, StoreInv, Crash \/ Restart
  PROVE  StoreInv'
<1>. USE SettingsAssumption
<1>1. CASE Crash
  <2>1. ~up' /\ ~late' /\ lock' = None /\ UNCHANGED <<file, mounted, env>> /\ \A y \in Handler : h'[y].at = "idle"
    BY <1>1 DEF Crash, Idle
  <2>. QED
    BY <2>1 DEF StoreInv, LockInv, FileInv, SavingInv, Saving, Effective, OverriddenKey, OverriddenUpstream
<1>2. CASE Restart
  <2>1. lock = None
    BY <1>2 DEF Restart, StoreInv, LockInv
  <2>2. UNCHANGED <<file, late, lock, mounted, env, h>> /\ cfg' = file /\ file # Torn
    BY <1>2 DEF Restart, outside
  <2>3. LockInv' /\ SavingInv'
    BY <2>1, <2>2 DEF StoreInv, LockInv, SavingInv
  <2>4. FileInv'
    BY <2>2 DEF StoreInv, FileInv, Effective, OverriddenKey, OverriddenUpstream
  <2>. QED
    BY <2>3, <2>4 DEF StoreInv
<1>. QED
  BY <1>1, <1>2

\* Applying: the handler has given the lock back and does not take it again.
LEMMA ApplyStore ==
  ASSUME TypeOK, StoreInv, NEW x \in Handler,
         \/ ApplyLimit(x) \/ ApplyMinutes(x) \/ RereadKey(x) \/ ApplyKey(x)
         \/ RereadUpstream(x) \/ ApplyUpstream(x) \/ ApplyToCatalog(x) \/ TorFails(x)
         \/ \E i \in Inst : ApplyToTor(x, i)
  PROVE  StoreInv'
<1>0. h[x] \in HandlerState
  BY DEF TypeOK
<1>1. UNCHANGED <<store, mounted, env, up>>
  BY DEF ApplyLimit, ApplyMinutes, RereadKey, ApplyKey, RereadUpstream, ApplyUpstream, ApplyToCatalog,
         TorFails, ApplyToTor, program, outside
<1>2. h[x].at \notin Saving
  BY DEF ApplyLimit, ApplyMinutes, RereadKey, ApplyKey, RereadUpstream, ApplyUpstream, ApplyToCatalog,
         TorFails, ApplyToTor, Saving
<1>3. \A y \in Handler \ {x} : h'[y] = h[y]
  BY DEF ApplyLimit, ApplyMinutes, RereadKey, ApplyKey, RereadUpstream, ApplyUpstream, ApplyToCatalog,
         TorFails, ApplyToTor, TypeOK
<1>4. h'[x].at \notin Saving
  <2>1. CASE ApplyMinutes(x) \/ ApplyKey(x) \/ ApplyToCatalog(x) \/ TorFails(x)
    BY <2>1 DEF ApplyMinutes, ApplyKey, ApplyToCatalog, TorFails, Idle, TypeOK, Saving
  <2>2. CASE ApplyLimit(x) \/ ApplyUpstream(x)
    BY <1>0, <2>2 DEF ApplyLimit, ApplyUpstream, TypeOK, HandlerState, Saving
  <2>3. CASE RereadKey(x) \/ RereadUpstream(x)
    BY <1>0, <2>3 DEF RereadKey, RereadUpstream, TypeOK, HandlerState, Saving
  <2>4. CASE \E i \in Inst : ApplyToTor(x, i)
    BY <1>0, <1>2, <2>4 DEF ApplyToTor, TypeOK, HandlerState
  <2>. QED
    BY <2>1, <2>2, <2>3, <2>4
<1>. QED
  BY <1>1, <1>2, <1>3, <1>4, StoreKept

----------------------------------------------------------------------------
(* The invariant. *)

\* The invariant holds when the program starts.
LEMMA InitInv == Init => IInv
<1>. SUFFICES ASSUME Init PROVE IInv
  OBVIOUS
<1>. USE SettingsAssumption
<1>1. TypeOK /\ EnvInv
  BY InitType
<1>2. file \in Config
  BY DEF Init
<1>3. \A x \in Handler : h[x].at = "idle"
  BY DEF Init, Idle
<1>4. ApplyInv
  BY <1>3 DEF ApplyInv
<1>5. StoreInv
  BY <1>2, <1>3 DEF Init, StoreInv, LockInv, FileInv, SavingInv, Saving
<1>. QED
  BY <1>1, <1>4, <1>5 DEF IInv

\* Every step keeps it.
LEMMA NextInv == IInv /\ [Next]_vars => IInv'
<1>. SUFFICES ASSUME TypeOK, EnvInv, ApplyInv, StoreInv, [Next]_vars PROVE IInv'
  BY DEF IInv
<1>1. ApplyInv'
  BY ApplyStep
<1>2. TypeOK' /\ StoreInv' /\ UNCHANGED env
  <2>1. ASSUME NEW x \in Handler,
               \/ \E r \in Requested : Update(x, r)
               \/ SaveFails(x) \/ Rename(x) \/ Truncate(x) \/ Copy(x) \/ CopyFails(x)
        PROVE  TypeOK' /\ StoreInv' /\ UNCHANGED env
    <3>1. TypeOK'
      BY <2>1, SaveType
    <3>2. StoreInv'
      <4>1. h[x].at = "copy" => mounted
        BY DEF StoreInv, LockInv
      <4>. QED
        BY <2>1, <4>1, UpdateStore, SavedStore, TruncateStore DEF SaveFails, Rename, Copy, CopyFails, Saving
    <3>3. UNCHANGED env
      BY <2>1 DEF Update, SaveFails, Rename, Truncate, Copy, CopyFails, Saved, GiveUp, outside
    <3>. QED
      BY <3>1, <3>2, <3>3
  <2>2. ASSUME NEW x \in Handler,
               \/ ApplyLimit(x) \/ ApplyMinutes(x) \/ RereadKey(x) \/ ApplyKey(x)
               \/ RereadUpstream(x) \/ ApplyUpstream(x) \/ ApplyToCatalog(x) \/ TorFails(x)
               \/ \E i \in Inst : ApplyToTor(x, i)
        PROVE  TypeOK' /\ StoreInv' /\ UNCHANGED env
    <3>1. TypeOK' /\ StoreInv'
      BY <2>2, ApplyType, ApplyStore
    <3>2. UNCHANGED env
      BY <2>2 DEF ApplyLimit, ApplyMinutes, RereadKey, ApplyKey, RereadUpstream, ApplyUpstream,
                  ApplyToCatalog, TorFails, ApplyToTor, program, outside
    <3>. QED
      BY <3>1, <3>2
  <2>3. ASSUME NEW i \in Inst, TorStep(i)
        PROVE  TypeOK' /\ StoreInv' /\ UNCHANGED env
    <3>1. TypeOK'
      BY <2>3, TorType
    <3>2. UNCHANGED <<store, mounted, env, up, h>>
      BY <2>3, TorEffect DEF outside
    <3>. QED
      BY <3>1, <3>2, StoreKept
  <2>4. CASE Crash \/ Restart
    <3>1. TypeOK' /\ StoreInv'
      BY <2>4, CrashType, CrashStore
    <3>. QED
      BY <2>4, <3>1 DEF Crash, Restart, outside
  <2>5. CASE UNCHANGED vars
    <3>1. TypeOK'
      BY <2>5 DEF TypeOK, vars, store, outside, history
    <3>2. UNCHANGED <<store, mounted, env, up, h>>
      BY <2>5 DEF vars, outside
    <3>. QED
      BY <3>1, <3>2, StoreKept
  <2>. QED
    BY <2>1, <2>2, <2>3, <2>4, <2>5 DEF Next, TorStep
<1>3. EnvInv'
  BY <1>2 DEF EnvInv
<1>. QED
  BY <1>1, <1>2, <1>3 DEF IInv

\* The inductive invariant always holds.
LEMMA AlwaysIInv == Spec => []IInv
  BY InitInv, NextInv, PTL DEF Spec

----------------------------------------------------------------------------
(***************************************************************************)
(* Settings, handlers and Tor processes keep their types, whatever is      *)
(* asked for, however often, and wherever the program dies.                *)
(***************************************************************************)
THEOREM SettingsTypeCorrect == Spec => []TypeOK
<1>1. IInv => TypeOK
  BY DEF IInv
<1>. QED
  BY <1>1, AlwaysIInv, PTL

(***************************************************************************)
(* config.json and what ConfigStore answers with stay together, for any    *)
(* number of concurrent handlers, failed saves and restarts: they differ   *)
(* only while a mounted file is torn, or holds completely what rewriting   *)
(* it reported as not saved.                                               *)
(***************************************************************************)
THEOREM FileStaysCurrent == Spec => []FileCurrent
<1>1. IInv => FileCurrent
  BY DEF IInv, StoreInv, FileInv, FileCurrent
<1>. QED
  BY <1>1, AlwaysIInv, PTL

(***************************************************************************)
(* Whatever was saved, a readable config.json can be restarted from: each  *)
(* handler validates what it merged under the lock, and the environment    *)
(* cannot make that invalid.                                               *)
(***************************************************************************)
THEOREM RestartsAccepted == Spec => []RestartAccepted
<1>1. IInv => RestartAccepted
  BY DEF IInv, StoreInv, FileInv, RestartAccepted
<1>. QED
  BY <1>1, AlwaysIInv, PTL

(***************************************************************************)
(* No update undoes another: the store changes only by a save, and what is *)
(* saved still differs from what is stored only in the settings its        *)
(* request was for, because the lock was held since they were merged.      *)
(***************************************************************************)
THEOREM NoUpdateLost == Spec => NoLostUpdate
<1>1. IInv /\ [Next]_vars =>
        [up /\ cfg' # cfg =>
           \E x \in Handler : \A f \in DOMAIN cfg : cfg'[f] # cfg[f] => Touches(h[x].kind, f)]_vars
  <2>. SUFFICES ASSUME IInv, Next, up, cfg' # cfg
                PROVE  \E x \in Handler : \A f \in DOMAIN cfg : cfg'[f] # cfg[f] => Touches(h[x].kind, f)
    OBVIOUS
  <2>1. \E x \in Handler : h[x].at \in Saving /\ Saved(x)
    BY DEF Next, Update, SaveFails, GiveUp, Rename, Truncate, Copy, CopyFails, Saving, ApplyLimit, ApplyMinutes,
           RereadKey, ApplyKey, RereadUpstream, ApplyUpstream, ApplyToCatalog, TorFails, ApplyToTor, Launch,
           Connect, ReadUpstream, SetUpstream, MarkRunning, Fail, BeginSwitch, KeepOld, Cutover, Drain, Exit,
           Crash, Restart, others, program, store
  <2>2. PICK x \in Handler : h[x].at \in Saving /\ Saved(x)
    BY <2>1
  <2>3. OnlyTouches(h[x].kind, h[x].next)
    BY <2>2 DEF IInv, StoreInv, LockInv, SavingInv
  <2>4. cfg' = h[x].next
    BY <2>2 DEF Saved
  <2>. QED
    BY <2>3, <2>4 DEF OnlyTouches
<1>. QED
  BY <1>1, AlwaysIInv, PTL DEF Spec, NoLostUpdate

----------------------------------------------------------------------------
(* The ports of a stored configuration. *)

\* A code's position is determined by its two letters, and stays below 676.
LEMMA CodeNumber ==
    ASSUME NEW a \in Letter, NEW b \in Letter, NEW x \in Letter, NEW y \in Letter
    PROVE  /\ a * 26 + b \in 0..675
           /\ a * 26 + b = x * 26 + y => a = x /\ b = y
BY DEF Letter

(***************************************************************************)
(* PortsApart for every pair of base ports: what validate tests, with the  *)
(* literals 675, 3000 and 3675, is enough for every country there can be.  *)
(***************************************************************************)
THEOREM ValidConfigPortsApart ==
    ASSUME NEW base \in Int, NEW proxy \in Int
    PROVE  PortsApart(base, proxy)
<1> SUFFICES ASSUME ValidPorts(base, proxy)
             PROVE  /\ CountriesApart(proxy)
                    /\ TorsApart(base)
                    /\ ProxyAndTorApart(base, proxy)
                    /\ PortsExist(base, proxy)
  BY DEF PortsApart
<1>letters. ASSUME NEW c \in Code
            PROVE  c[1] \in Letter /\ c[2] \in Letter /\ c = <<c[1], c[2]>>
  BY DEF Code
<1>number. ASSUME NEW c \in Code
           PROVE  /\ c[1] * 26 + c[2] \in 0..675
                  /\ countryPort(proxy, c) = proxy + (c[1] * 26 + c[2])
  <2>1. c[1] \in Letter /\ c[2] \in Letter
    BY <1>letters
  <2>2. c[1] \in Int /\ c[2] \in Int
    BY <2>1 DEF Letter
  <2> QED
    BY <2>1, <2>2, CodeNumber DEF countryPort
<1>range. ASSUME NEW c \in Code
          PROVE  countryPort(proxy, c) \in proxy..(proxy + 675)
  BY <1>number
<1>1. CountriesApart(proxy)
  <2> SUFFICES ASSUME NEW c \in Code, NEW d \in Code, countryPort(proxy, c) = countryPort(proxy, d)
               PROVE  c = d
    BY DEF CountriesApart
  <2> DEFINE p == c[1] * 26 + c[2]
             q == d[1] * 26 + d[2]
  <2>p. p \in 0..675 /\ countryPort(proxy, c) = proxy + p
    BY <1>number
  <2>q. q \in 0..675 /\ countryPort(proxy, d) = proxy + q
    BY <1>number
  <2> HIDE DEF p, q
  <2>sum. proxy + p = proxy + q
    BY <2>p, <2>q, Zenon
  <2>0. p = q
    BY <2>p, <2>q, <2>sum, p \in Int, q \in Int
  <2>1. c[1] * 26 + c[2] = d[1] * 26 + d[2]
    BY <2>0 DEF p, q
  <2>2. c[1] = d[1] /\ c[2] = d[2]
    BY <1>letters, <2>1, CodeNumber
  <2> QED
    BY <1>letters, <2>2
<1>2. TorsApart(base)
  BY DEF TorsApart, Index, socksPort, controlPort
<1>3. ProxyAndTorApart(base, proxy)
  <2> SUFFICES ASSUME NEW c \in Code, NEW i \in Index
               PROVE  countryPort(proxy, c) # socksPort(base, i) /\ countryPort(proxy, c) # controlPort(base, i)
    BY DEF ProxyAndTorApart
  <2> QED
    BY <1>range DEF Index, socksPort, controlPort, ValidPorts, rangesOverlap
<1>4. PortsExist(base, proxy)
  <2>1. proxy >= 1024 /\ proxy + 675 < 65535 /\ base >= 1024 /\ base + 3675 < 65535
    BY DEF ValidPorts
  <2>2. ASSUME NEW c \in Code PROVE Exists(countryPort(proxy, c))
    BY <1>range, <2>1 DEF Exists
  <2>3. ASSUME NEW i \in Index
        PROVE  Exists(socksPort(base, i)) /\ Exists(controlPort(base, i))
    BY <2>1 DEF Index, socksPort, controlPort, Exists
  <2> QED
    BY <2>2, <2>3 DEF PortsExist
<1> QED
  BY <1>1, <1>2, <1>3, <1>4

(***************************************************************************)
(* The settings handlers keep it so: in the layout of whatever config.json *)
(* they leave for the next start no two of the countries' listeners claim  *)
(* one port, and every port exists.                                        *)
(***************************************************************************)
THEOREM StoredPortsApart ==
    Spec => [](file # Torn => /\ CountriesApart(file.port) /\ TorsApart(socks)
                              /\ ProxyAndTorApart(socks, file.port) /\ PortsExist(socks, file.port))
<1>1. IInv /\ file # Torn =>
        /\ CountriesApart(file.port) /\ TorsApart(socks)
        /\ ProxyAndTorApart(socks, file.port) /\ PortsExist(socks, file.port)
  <2>. SUFFICES ASSUME IInv, file # Torn PROVE PortsApart(socks, file.port) /\ ValidPorts(socks, file.port)
    BY DEF PortsApart
  <2>1. file \in Config /\ file.port \in Int /\ socks \in Int
    BY SettingsAssumption DEF IInv, TypeOK, Config
  <2>2. Effective(file).port = file.port
    BY <2>1 DEF Effective, Config
  <2>3. ValidPorts(socks, file.port)
    BY <2>2 DEF IInv, StoreInv, FileInv, Valid
  <2>. QED
    BY <2>1, <2>3, ValidConfigPortsApart
<1>. QED
  BY <1>1, AlwaysIInv, PTL

----------------------------------------------------------------------------
(* What is applied. *)

StoredKey == OverriddenKey(cfg.key)
StoredUpstream == OverriddenUpstream(cfg.upstream)

\* Some handler of this kind is at one of these places.
Under(kind, places) == \E x \in Handler : h[x].kind = kind /\ h[x].at \in places

\* Each place is reached by one kind of request only.
Places ==
    \A x \in Handler :
        /\ h[x].at = "minutes" => h[x].kind = "runtime"
        /\ h[x].at = "key" => h[x].kind = "client"
        /\ h[x].at \in {"tor", "catalog"} => h[x].kind = "upstream"

\* Updates that have not overlapped with another of their kind are alone.
Alone ==
    \A x, y \in Handler :
        /\ h[x].at # "idle" /\ h[y].at # "idle"
        /\ h[x].kind = h[y].kind /\ h[x].kind \notin unsure
        => x = y

\* Nothing survives the program.
Dead == ~up => (\A x \in Handler : h[x].at = "idle") /\ (\A i \in Inst : tor[i].status = "off")

\* The manager lags behind the store only while the value is on its way to it.
RuntimeInv ==
    up /\ "runtime" \notin unsure =>
        /\ \A x \in Handler : h[x].kind = "runtime" /\ h[x].at \in {"saved", "minutes"} =>
              h[x].next.limit = cfg.limit /\ h[x].next.minutes = cfg.minutes
        /\ ~Under("runtime", {"saved"}) => m.limit = cfg.limit
        /\ ~Under("runtime", {"saved", "minutes"}) => m.minutes = cfg.minutes

ClientInv ==
    up /\ "client" \notin unsure =>
        /\ \A x \in Handler : h[x].at = "key" => h[x].key = StoredKey
        /\ ~Under("client", {"saved", "key"}) => m.key = StoredKey

UpstreamInv ==
    up /\ "upstream" \notin unsure =>
        /\ \A x \in Handler : h[x].at \in {"tor", "catalog"} => h[x].upstream = StoredUpstream
        /\ ~Under("upstream", {"saved", "tor"}) => m.upstream = StoredUpstream
        /\ ~Under("upstream", {"saved", "tor", "catalog"}) => catalog = StoredUpstream

\* While the update talks to Tor processes, one that was not missed is still to be
\* told or has been; otherwise it has the stored upstream proxy, or is about to.
Told(i, x) ==
    /\ tor[i].status # "starting" /\ tor[i].prev # "starting" /\ ~tor[i].due /\ tor[i].read = None
    /\ i \in h[x].todo \/ tor[i].upstream = StoredUpstream

TorInv ==
    up /\ "upstream" \notin unsure =>
        \A i \in Inst \ missed : tor[i].status # "off" =>
            /\ \A x \in Handler : h[x].at = "tor" => Told(i, x)
            /\ ~Under("upstream", {"saved", "tor"}) =>
                  tor[i].upstream = StoredUpstream /\ tor[i].read \in {None, StoredUpstream}

FollowInv ==
    Places /\ Alone /\ Dead /\ RuntimeInv /\ ClientInv /\ UpstreamInv /\ TorInv

\* Only x has moved.
Only(x) == \A y \in Handler : y # x => h'[y] = h[y]

\* Alone is kept by everyone who does not begin something.
LEMMA AloneKept ==
  ASSUME Alone, unsure \subseteq unsure',
         \A y \in Handler : h'[y].at # "idle" => h[y].at # "idle" /\ h'[y].kind = h[y].kind
  PROVE  Alone'
  BY DEF Alone

(***************************************************************************)
(* Taking the lock, giving up and truncating: nothing is applied, and      *)
(* nothing stored yet.                                                     *)
(***************************************************************************)
LEMMA AsideFollows ==
  ASSUME FollowInv, NEW x \in Handler, Only(x), Alone', up, unsure \subseteq unsure',
         h[x].at \in {"idle", "save", "copy"}, h'[x].at \in {"idle", "save", "copy"},
         UNCHANGED <<cfg, env, up, m, catalog, tor, missed>>
  PROVE  FollowInv'
<1>1. \A y \in Handler : /\ h'[y].at \notin {"idle", "save", "copy"} => h'[y] = h[y]
                         /\ h[y].at \notin {"idle", "save", "copy"} => h'[y] = h[y]
  BY DEF Only
<1>2. StoredKey' = StoredKey /\ StoredUpstream' = StoredUpstream
  BY DEF StoredKey, StoredUpstream, OverriddenKey, OverriddenUpstream
<1>3. \A kind, S : S \cap {"idle", "save", "copy"} = {} => (Under(kind, S)' <=> Under(kind, S))
  BY <1>1 DEF Under
<1>4. Places' /\ Dead'
  BY <1>1 DEF FollowInv, Places, Dead
<1>5. RuntimeInv'
  BY <1>1, <1>3 DEF FollowInv, RuntimeInv
<1>6. ClientInv'
  BY <1>1, <1>2, <1>3 DEF FollowInv, ClientInv
<1>7. UpstreamInv'
  BY <1>1, <1>2, <1>3 DEF FollowInv, UpstreamInv
<1>8. TorInv'
  BY <1>1, <1>2, <1>3 DEF FollowInv, TorInv, Told
<1>. QED
  BY <1>4, <1>5, <1>6, <1>7, <1>8 DEF FollowInv

(***************************************************************************)
(* Storing changes only what requests of this kind are for; the program    *)
(* lags behind until this handler has applied it.                          *)
(***************************************************************************)
LEMMA SavedFollows ==
  ASSUME IInv, FollowInv, NEW x \in Handler, h[x].at \in Saving, Saved(x)
  PROVE  FollowInv'
<1>1. /\ TypeOK /\ lock = x /\ up /\ h[x] \in HandlerState /\ cfg \in Config
      /\ h[x].next \in Config /\ OnlyTouches(h[x].kind, h[x].next)
  <2>1. lock = x
    BY DEF IInv, StoreInv, LockInv
  <2>2. lock # None
    BY <2>1, SettingsAssumption
  <2>3. h[x].next \in Config /\ OnlyTouches(h[x].kind, h[x].next) /\ up
    BY <2>1, <2>2 DEF IInv, StoreInv, LockInv, SavingInv
  <2>. QED
    BY <2>1, <2>3 DEF IInv, TypeOK
<1>2. /\ cfg' = h[x].next /\ UNCHANGED <<env, up, m, catalog, tor, unsure, missed>>
      /\ h' = [h EXCEPT ![x] = IF @.kind = "legacy" THEN Idle ELSE [@ EXCEPT !.at = "saved"]]
  BY DEF Saved, outside, history
<1>3. Only(x) /\ h'[x] = IF h[x].kind = "legacy" THEN Idle ELSE [h[x] EXCEPT !.at = "saved"]
  BY <1>1, <1>2 DEF Only, TypeOK
<1>4. \/ h'[x].at = "idle" /\ h[x].kind = "legacy"
      \/ /\ h'[x].at = "saved" /\ h'[x].kind = h[x].kind /\ h'[x].next = h[x].next
         /\ h[x].kind # "legacy"
  BY <1>1, <1>3 DEF Idle, HandlerState
<1>5. /\ h[x].kind # "runtime" => cfg'.limit = cfg.limit /\ cfg'.minutes = cfg.minutes
      /\ h[x].kind # "client" => cfg'.key = cfg.key
      /\ h[x].kind # "upstream" => cfg'.upstream = cfg.upstream
  <2>1. DOMAIN cfg = {"limit", "minutes", "port", "key", "upstream", "token"}
    BY <1>1 DEF Config
  <2>2. \A f \in DOMAIN cfg : ~Touches(h[x].kind, f) => cfg'[f] = cfg[f]
    BY <1>1, <1>2 DEF OnlyTouches
  <2>. QED
    BY <2>1, <2>2 DEF Touches
<1>6. /\ h[x].kind # "client" => StoredKey' = StoredKey
      /\ h[x].kind # "upstream" => StoredUpstream' = StoredUpstream
  BY <1>2, <1>5 DEF StoredKey, StoredUpstream, OverriddenKey, OverriddenUpstream
<1>7. Alone'
  BY <1>2, <1>3, <1>4, AloneKept DEF FollowInv, Only, Saving
<1>8. Places' /\ Dead'
  BY <1>1, <1>2, <1>3, <1>4 DEF FollowInv, Places, Dead, Only
<1>9. \A kind, S : kind # h[x].kind /\ S \cap {"idle", "save", "copy"} = {} => (Under(kind, S)' <=> Under(kind, S))
  BY <1>3, <1>4 DEF Under, Only, Saving
<1>10. \A y \in Handler : h'[y].kind # h[x].kind /\ h'[y].at # "idle" => h'[y] = h[y]
  BY <1>3, <1>4 DEF Only
<1>11. \A kind \in {"runtime", "client", "upstream"} : kind = h[x].kind =>
         /\ \A S : "saved" \in S => Under(kind, S)'
         /\ kind \notin unsure' => \A y \in Handler : h'[y].at # "idle" /\ h'[y].kind = kind => y = x
  BY <1>4, <1>7 DEF Under, Alone
<1>12. RuntimeInv'
  <2>1. CASE h[x].kind = "runtime"
    BY <1>2, <1>4, <1>11, <2>1 DEF RuntimeInv
  <2>2. CASE h[x].kind # "runtime"
    BY <1>2, <1>5, <1>9, <1>10, <2>2 DEF FollowInv, RuntimeInv
  <2>. QED
    BY <2>1, <2>2
<1>13. ClientInv'
  <2>1. CASE h[x].kind = "client"
    BY <1>2, <1>4, <1>8, <1>11, <2>1 DEF ClientInv, Places
  <2>2. CASE h[x].kind # "client"
    BY <1>2, <1>6, <1>8, <1>9, <1>10, <2>2 DEF FollowInv, ClientInv, Places
  <2>. QED
    BY <2>1, <2>2
<1>14. UpstreamInv'
  <2>1. CASE h[x].kind = "upstream"
    BY <1>2, <1>4, <1>8, <1>11, <2>1 DEF UpstreamInv, Places
  <2>2. CASE h[x].kind # "upstream"
    BY <1>2, <1>6, <1>8, <1>9, <1>10, <2>2 DEF FollowInv, UpstreamInv, Places
  <2>. QED
    BY <2>1, <2>2
<1>15. TorInv'
  <2>1. CASE h[x].kind = "upstream"
    BY <1>2, <1>4, <1>8, <1>11, <2>1 DEF TorInv, Places
  <2>2. CASE h[x].kind # "upstream"
    BY <1>2, <1>6, <1>8, <1>9, <1>10, <2>2 DEF FollowInv, TorInv, Told, Places
  <2>. QED
    BY <2>1, <2>2
<1>. QED
  BY <1>7, <1>8, <1>12, <1>13, <1>14, <1>15 DEF FollowInv

(***************************************************************************)
(* PUT /api/settings/runtime reaches the manager, and nothing else does.   *)
(***************************************************************************)
LEMMA RuntimeFollows ==
  ASSUME IInv, FollowInv, NEW x \in Handler, ApplyLimit(x) \/ ApplyMinutes(x)
  PROVE  FollowInv'
<1>1. TypeOK /\ h[x] \in HandlerState /\ up
  BY DEF IInv, TypeOK, FollowInv, Dead, ApplyLimit, ApplyMinutes
<1>2. UNCHANGED <<cfg, env, up, catalog, tor, unsure, missed>> /\ m'.key = m.key /\ m'.upstream = m.upstream
  BY <1>1 DEF ApplyLimit, ApplyMinutes, program, store, outside, history, TypeOK
<1>3. /\ Only(x) /\ h[x].kind = "runtime" /\ m \in [limit : Int, minutes : Int, key : Key \cup {None}, upstream : Upstream]
      /\ \/ h[x].at = "saved" /\ h'[x] = [h[x] EXCEPT !.at = "minutes"] /\ m' = [m EXCEPT !.limit = h[x].next.limit]
         \/ h[x].at = "minutes" /\ h'[x] = Idle /\ m' = [m EXCEPT !.minutes = h[x].next.minutes]
  BY <1>1 DEF Only, FollowInv, Places, ApplyLimit, ApplyMinutes, TypeOK
<1>4. \/ /\ h[x].at = "saved" /\ h'[x].at = "minutes" /\ h'[x].kind = "runtime" /\ h'[x].next = h[x].next
         /\ m'.limit = h[x].next.limit /\ m'.minutes = m.minutes
      \/ h[x].at = "minutes" /\ h'[x].at = "idle" /\ m'.minutes = h[x].next.minutes /\ m'.limit = m.limit
  BY <1>1, <1>3 DEF Idle, HandlerState
<1>5. Alone'
  BY <1>2, <1>3, <1>4, AloneKept DEF FollowInv, Only
<1>6. Places' /\ Dead'
  BY <1>1, <1>2, <1>3, <1>4 DEF FollowInv, Places, Dead, Only
<1>7. \A kind, S : kind # "runtime" /\ "idle" \notin S => (Under(kind, S)' <=> Under(kind, S))
  BY <1>3, <1>4 DEF Under, Only
<1>8. \A y \in Handler : h'[y].kind # "runtime" /\ h'[y].at # "idle" => h'[y] = h[y]
  BY <1>3, <1>4 DEF Only
<1>9. StoredKey' = StoredKey /\ StoredUpstream' = StoredUpstream
  BY <1>2 DEF StoredKey, StoredUpstream, OverriddenKey, OverriddenUpstream
<1>10. RuntimeInv'
  <2>. SUFFICES ASSUME "runtime" \notin unsure PROVE RuntimeInv'
    BY <1>2 DEF RuntimeInv
  <2>1. h[x].next.limit = cfg.limit /\ h[x].next.minutes = cfg.minutes
    BY <1>1, <1>3 DEF FollowInv, RuntimeInv
  <2>2. \A y \in Handler : h[y].kind = "runtime" /\ h[y].at # "idle" => y = x
    BY <1>3 DEF FollowInv, Alone
  <2>3. \A y \in Handler : h'[y].kind = "runtime" /\ h'[y].at # "idle" => y = x
    BY <1>3, <2>2 DEF Only
  <2>4. CASE h[x].at = "saved"
    <3>1. Under("runtime", {"saved", "minutes"})' /\ m'.limit = cfg.limit
      BY <1>3, <1>4, <2>1, <2>4 DEF Under
    <3>. QED
      BY <1>2, <1>4, <2>1, <2>3, <2>4, <3>1 DEF RuntimeInv
  <2>5. CASE h[x].at = "minutes"
    <3>1. ~Under("runtime", {"saved"})
      BY <2>2, <2>5 DEF Under
    <3>2. m.limit = cfg.limit
      BY <1>1, <3>1 DEF FollowInv, RuntimeInv
    <3>. QED
      BY <1>2, <1>4, <2>1, <2>3, <2>5, <3>2 DEF RuntimeInv
  <2>. QED
    BY <1>3, <2>4, <2>5
<1>11. ClientInv'
  BY <1>2, <1>6, <1>7, <1>8, <1>9 DEF FollowInv, ClientInv, Places
<1>12. UpstreamInv'
  BY <1>2, <1>6, <1>7, <1>8, <1>9 DEF FollowInv, UpstreamInv, Places
<1>13. TorInv'
  BY <1>2, <1>6, <1>7, <1>8, <1>9 DEF FollowInv, TorInv, Told, Places
<1>. QED
  BY <1>5, <1>6, <1>10, <1>11, <1>12, <1>13 DEF FollowInv

(***************************************************************************)
(* So does PUT /api/settings/client.                                       *)
(***************************************************************************)
LEMMA ClientFollows ==
  ASSUME IInv, FollowInv, NEW x \in Handler, RereadKey(x) \/ ApplyKey(x)
  PROVE  FollowInv'
<1>1. TypeOK /\ h[x] \in HandlerState /\ up
  BY DEF IInv, TypeOK, FollowInv, Dead, RereadKey, ApplyKey
<1>2. /\ UNCHANGED <<cfg, env, up, catalog, tor, unsure, missed>>
      /\ m'.limit = m.limit /\ m'.minutes = m.minutes /\ m'.upstream = m.upstream
  BY <1>1 DEF RereadKey, ApplyKey, program, store, outside, history, TypeOK
<1>3. /\ Only(x) /\ h[x].kind = "client" /\ m \in [limit : Int, minutes : Int, key : Key \cup {None}, upstream : Upstream]
      /\ \/ h[x].at = "saved" /\ h'[x] = [h[x] EXCEPT !.at = "key", !.key = StoredKey] /\ m' = m
         \/ h[x].at = "key" /\ h'[x] = Idle /\ m' = [m EXCEPT !.key = h[x].key]
  BY <1>1 DEF Only, FollowInv, Places, RereadKey, ApplyKey, TypeOK, StoredKey
<1>4. \/ h[x].at = "saved" /\ h'[x].at = "key" /\ h'[x].kind = "client" /\ h'[x].key = StoredKey
      \/ h[x].at = "key" /\ h'[x].at = "idle" /\ m'.key = h[x].key
  <2>1. [h[x] EXCEPT !.at = "key", !.key = StoredKey].at = "key"
    BY <1>1 DEF HandlerState
  <2>2. [h[x] EXCEPT !.at = "key", !.key = StoredKey].kind = h[x].kind
    BY <1>1 DEF HandlerState
  <2>3. [h[x] EXCEPT !.at = "key", !.key = StoredKey].key = StoredKey
    BY <1>1 DEF HandlerState
  <2>4. Idle.at = "idle" /\ [m EXCEPT !.key = h[x].key].key = h[x].key
    BY <1>3 DEF Idle
  <2>. QED
    BY <1>3, <2>1, <2>2, <2>3, <2>4
<1>5. Alone'
  BY <1>2, <1>3, <1>4, AloneKept DEF FollowInv, Only
<1>6. Places' /\ Dead'
  BY <1>1, <1>2, <1>3, <1>4 DEF FollowInv, Places, Dead, Only
<1>7. \A kind, S : kind # "client" /\ "idle" \notin S => (Under(kind, S)' <=> Under(kind, S))
  BY <1>3, <1>4 DEF Under, Only
<1>8. \A y \in Handler : h'[y].kind # "client" /\ h'[y].at # "idle" => h'[y] = h[y]
  BY <1>3, <1>4 DEF Only
<1>9. StoredKey' = StoredKey /\ StoredUpstream' = StoredUpstream
  BY <1>2 DEF StoredKey, StoredUpstream, OverriddenKey, OverriddenUpstream
<1>10. ClientInv'
  <2>. SUFFICES ASSUME "client" \notin unsure PROVE ClientInv'
    BY <1>2 DEF ClientInv
  <2>1. \A y \in Handler : h[y].kind = "client" /\ h[y].at # "idle" => y = x
    BY <1>3 DEF FollowInv, Alone
  <2>2. \A y \in Handler : h'[y].kind = "client" /\ h'[y].at # "idle" => y = x
    BY <1>3, <2>1 DEF Only
  <2>3. CASE h[x].at = "saved"
    <3>1. Under("client", {"saved", "key"})'
      BY <1>4, <2>3 DEF Under
    <3>. QED
      BY <1>4, <1>6, <1>9, <2>2, <2>3, <3>1 DEF ClientInv, Places
  <2>4. CASE h[x].at = "key"
    <3>1. m'.key = StoredKey
      BY <1>1, <1>4, <2>4 DEF FollowInv, ClientInv
    <3>. QED
      BY <1>4, <1>6, <1>9, <2>2, <2>4, <3>1 DEF ClientInv, Places
  <2>. QED
    BY <1>3, <2>3, <2>4
<1>11. RuntimeInv'
  BY <1>2, <1>7, <1>8 DEF FollowInv, RuntimeInv
<1>12. UpstreamInv'
  BY <1>2, <1>6, <1>7, <1>8, <1>9 DEF FollowInv, UpstreamInv, Places
<1>13. TorInv'
  BY <1>2, <1>6, <1>7, <1>8, <1>9 DEF FollowInv, TorInv, Told, Places
<1>. QED
  BY <1>5, <1>6, <1>10, <1>11, <1>12, <1>13 DEF FollowInv

(***************************************************************************)
(* Every step of PUT /api/settings/upstream: Tor processes, the manager    *)
(* and the catalog are told in this order, and an Instance that is         *)
(* launched in between is launched with the old or the new upstream proxy, *)
(* depending on whether the manager knows it already.                      *)
(***************************************************************************)
LEMMA UpstreamFollows ==
  ASSUME IInv, FollowInv, NEW x \in Handler,
         \/ RereadUpstream(x) \/ ApplyUpstream(x) \/ ApplyToCatalog(x) \/ TorFails(x)
         \/ \E i \in Inst : ApplyToTor(x, i)
  PROVE  FollowInv'
<1>1. TypeOK /\ h[x] \in HandlerState /\ up
  BY DEF IInv, TypeOK, FollowInv, Dead, RereadUpstream, ApplyUpstream, ApplyToCatalog, TorFails, ApplyToTor
<1>2. /\ UNCHANGED <<cfg, env, up>> /\ unsure \subseteq unsure' /\ missed \subseteq missed'
      /\ m'.limit = m.limit /\ m'.minutes = m.minutes /\ m'.key = m.key
  <2>1. CASE RereadUpstream(x) \/ TorFails(x)
    BY <2>1 DEF RereadUpstream, TorFails, store, outside
  <2>2. CASE ApplyToCatalog(x) \/ \E i \in Inst : ApplyToTor(x, i)
    BY <2>2 DEF ApplyToCatalog, ApplyToTor, program, store, outside, history
  <2>3. CASE ApplyUpstream(x)
    BY <1>1, <2>3 DEF ApplyUpstream, program, store, outside, history, TypeOK
  <2>. QED
    BY <2>1, <2>2, <2>3
<1>3. Only(x) /\ h[x].kind = "upstream" /\ h[x].at # "idle"
  BY <1>1 DEF Only, FollowInv, Places, RereadUpstream, ApplyUpstream, ApplyToCatalog, TorFails, ApplyToTor, TypeOK
<1>4. h'[x].at # "idle" => h'[x].kind = "upstream" /\ h'[x].at \in {"tor", "catalog"}
  <2>1. CASE RereadUpstream(x)
    BY <1>1, <1>3, <2>1 DEF RereadUpstream, TypeOK, HandlerState
  <2>2. CASE ApplyUpstream(x)
    BY <1>1, <1>3, <2>2 DEF ApplyUpstream, TypeOK, HandlerState
  <2>3. CASE ApplyToCatalog(x) \/ TorFails(x)
    <3>1. h'[x] = Idle
      BY <1>1, <2>3 DEF ApplyToCatalog, TorFails, TypeOK
    <3>. QED
      BY <3>1 DEF Idle
  <2>4. ASSUME NEW i \in Inst, ApplyToTor(x, i)
        PROVE  h'[x].kind = "upstream" /\ h'[x].at = "tor"
    BY <1>1, <1>3, <2>4 DEF ApplyToTor, TypeOK, HandlerState
  <2>. QED
    BY <2>1, <2>2, <2>3, <2>4
<1>5. Alone'
  BY <1>2, <1>3, <1>4, AloneKept DEF FollowInv, Only
<1>6. Places' /\ Dead'
  BY <1>1, <1>2, <1>3, <1>4 DEF FollowInv, Places, Dead, Only
<1>7. \A kind, S : kind # "upstream" /\ "idle" \notin S => (Under(kind, S)' <=> Under(kind, S))
  BY <1>3, <1>4 DEF Under, Only
<1>8. \A y \in Handler : h'[y].kind # "upstream" /\ h'[y].at # "idle" => h'[y] = h[y]
  BY <1>3, <1>4 DEF Only
<1>9. StoredKey' = StoredKey /\ StoredUpstream' = StoredUpstream
  BY <1>2 DEF StoredKey, StoredUpstream, OverriddenKey, OverriddenUpstream
<1>10. RuntimeInv'
  BY <1>2, <1>7, <1>8 DEF FollowInv, RuntimeInv
<1>11. ClientInv'
  BY <1>2, <1>6, <1>7, <1>8, <1>9 DEF FollowInv, ClientInv, Places
<1>12. UpstreamInv' /\ TorInv'
  <2>. SUFFICES ASSUME "upstream" \notin unsure' PROVE UpstreamInv' /\ TorInv'
    BY DEF UpstreamInv, TorInv
  <2>0. "upstream" \notin unsure
    BY <1>2
  <2>1. \A y \in Handler : h[y].kind = "upstream" /\ h[y].at # "idle" => y = x
    BY <1>3, <2>0 DEF FollowInv, Alone
  <2>2. \A y \in Handler : h'[y].kind = "upstream" /\ h'[y].at # "idle" => y = x
    BY <1>3, <2>1 DEF Only
  <2>3. \A y \in Handler : h'[y].at \in {"tor", "catalog"} => y = x
    BY <1>6, <2>2 DEF Places
  <2>4. CASE RereadUpstream(x)
    <3>1. /\ h'[x].at = "tor" /\ h'[x].upstream = StoredUpstream /\ h'[x].kind = "upstream"
          /\ h'[x].todo = {i \in Inst : Reached(i)}
      BY <1>1, <1>3, <2>4 DEF RereadUpstream, TypeOK, HandlerState, StoredUpstream
    <3>2. Under("upstream", {"saved", "tor"})' /\ Under("upstream", {"saved", "tor", "catalog"})'
      BY <3>1 DEF Under
    <3>3. UpstreamInv'
      BY <1>9, <2>3, <3>1, <3>2 DEF UpstreamInv
    <3>4. ASSUME NEW i \in Inst \ missed', tor'[i].status # "off" PROVE Told(i, x)'
      <4>1. tor' = tor /\ Reached(i) /\ Settled(i)
        BY <2>4, <3>4 DEF RereadUpstream
      <4>2. tor[i].status # "starting" /\ tor[i].prev # "starting" /\ ~tor[i].due /\ tor[i].read = None
        BY <4>1, SettingsAssumption DEF Reached, Settled, InUse
      <4>. QED
        BY <3>1, <4>1, <4>2 DEF Told
    <3>. QED
      BY <2>3, <3>2, <3>3, <3>4 DEF TorInv
  <2>5. ASSUME NEW j \in Inst, ApplyToTor(x, j) PROVE UpstreamInv' /\ TorInv'
    <3>1. /\ h[x].at = "tor" /\ h'[x].at = "tor" /\ h'[x].upstream = h[x].upstream /\ h'[x].kind = "upstream"
          /\ h'[x].todo = h[x].todo \ {j} /\ h[x].upstream = StoredUpstream
      BY <1>1, <1>3, <2>0, <2>5 DEF ApplyToTor, TypeOK, HandlerState, FollowInv, UpstreamInv
    <3>2. Under("upstream", {"saved", "tor"})' /\ Under("upstream", {"saved", "tor", "catalog"})'
      BY <3>1 DEF Under
    <3>3. UpstreamInv'
      BY <1>9, <2>3, <3>1, <3>2 DEF UpstreamInv
    <3>4. /\ tor'[j].status \in {tor[j].status, "connecting"} /\ tor[j].status # "off"
          /\ tor'[j].prev = tor[j].prev /\ tor'[j].due = tor[j].due /\ tor'[j].read = tor[j].read
          /\ tor'[j].upstream = StoredUpstream /\ \A i \in Inst : i # j => tor'[i] = tor[i]
          /\ missed' = missed
      <4>1. h[x].upstream \in Upstream
        BY <3>1 DEF IInv, ApplyInv
      <4>2. missed' = missed
        BY <2>5 DEF ApplyToTor, program, history
      <4>. QED
        BY <1>1, <2>5, <3>1, <4>1, <4>2, AppliedTor
    <3>5. ASSUME NEW i \in Inst \ missed', tor'[i].status # "off" PROVE Told(i, x)'
      <4>1. Told(i, x)
        BY <1>1, <2>0, <3>1, <3>4, <3>5 DEF FollowInv, TorInv
      <4>. QED
        BY <1>9, <3>1, <3>4, <4>1 DEF Told
    <3>. QED
      BY <2>3, <3>2, <3>3, <3>5 DEF TorInv
  <2>6. CASE ApplyUpstream(x)
    <3>1. /\ h[x].at = "tor" /\ h[x].todo = {} /\ h'[x].at = "catalog" /\ h'[x].upstream = h[x].upstream
          /\ h'[x].kind = "upstream" /\ h[x].upstream = StoredUpstream
          /\ m'.upstream = h[x].upstream /\ tor' = tor /\ missed' = missed
      BY <1>1, <1>3, <2>0, <2>6
         DEF ApplyUpstream, TypeOK, HandlerState, FollowInv, UpstreamInv, program, history
    <3>2. Under("upstream", {"saved", "tor", "catalog"})'
      BY <3>1 DEF Under
    <3>3. UpstreamInv'
      BY <1>9, <2>3, <3>1, <3>2 DEF UpstreamInv
    <3>4. ASSUME NEW i \in Inst \ missed', tor'[i].status # "off"
          PROVE  tor'[i].upstream = StoredUpstream' /\ tor'[i].read = None
      <4>1. Told(i, x)
        BY <1>1, <2>0, <3>1, <3>4 DEF FollowInv, TorInv
      <4>. QED
        BY <1>9, <3>1, <4>1 DEF Told
    <3>5. \A y \in Handler : h'[y].at # "tor"
      BY <2>3, <3>1
    <3>. QED
      BY <3>3, <3>4, <3>5 DEF TorInv
  <2>7. CASE ApplyToCatalog(x)
    <3>1. /\ h[x].at = "catalog" /\ h'[x].at = "idle" /\ h[x].upstream = StoredUpstream
          /\ catalog' = h[x].upstream /\ UNCHANGED <<m, tor, missed>>
      BY <1>1, <2>0, <2>7 DEF ApplyToCatalog, TypeOK, Idle, FollowInv, UpstreamInv, program, history
    <3>2. ~Under("upstream", {"saved", "tor"})
      BY <2>1, <3>1 DEF Under
    <3>3. \A y \in Handler : h'[y].at \notin {"tor", "catalog"}
      BY <2>3, <3>1
    <3>4. UpstreamInv'
      BY <1>1, <1>9, <2>0, <3>1, <3>2, <3>3 DEF FollowInv, UpstreamInv
    <3>. QED
      BY <1>1, <1>9, <2>0, <3>1, <3>2, <3>3, <3>4 DEF FollowInv, TorInv
  <2>8. CASE TorFails(x)
    BY <2>8 DEF TorFails
  <2>. QED
    BY <2>4, <2>5, <2>6, <2>7, <2>8
<1>. QED
  BY <1>5, <1>6, <1>10, <1>11, <1>12 DEF FollowInv

(***************************************************************************)
(* A Tor process takes the manager's upstream proxy when it is launched    *)
(* and again when its port opens; nothing else changes it.                 *)
(***************************************************************************)
LEMMA TorFollowsStep ==
  ASSUME IInv, FollowInv, NEW i \in Inst, TorStep(i)
  PROVE  FollowInv'
<1>. DEFINE launched == \E replacing \in BOOLEAN : Launch(i, replacing)
<1>1. /\ UNCHANGED <<store, outside, up, h, m, catalog, unsure>> /\ \A j \in Inst : j # i => tor'[j] = tor[j]
      /\ \/ launched /\ tor'[i].upstream = m.upstream /\ tor'[i].read = None
         \/ /\ missed' = missed /\ tor[i].status # "off"
            /\ \/ tor'[i].status = "off"
               \/ Moved(i)
               \/ /\ tor[i].status = "starting"
                  /\ tor'[i].upstream = tor[i].upstream /\ tor'[i].read = tor[i].read
               \/ tor[i].due /\ tor'[i].upstream = tor[i].upstream /\ tor'[i].read = m.upstream
               \/ tor[i].read # None /\ tor'[i].upstream = tor[i].read /\ tor'[i].read = None
  BY TorEffect DEF IInv
<1>2. UNCHANGED <<cfg, env, up, h, m, catalog, unsure>>
  BY <1>1 DEF store, outside
<1>3. launched => up /\ IF \E x \in Handler : h[x].at = "tor" THEN missed' = missed \cup {i} ELSE missed' = missed \ {i}
  BY DEF Launch
<1>. HIDE DEF launched
<1>4. StoredKey' = StoredKey /\ StoredUpstream' = StoredUpstream
  BY <1>2 DEF StoredKey, StoredUpstream, OverriddenKey, OverriddenUpstream
<1>5. \A kind, S : Under(kind, S)' <=> Under(kind, S)
  BY <1>2 DEF Under
<1>6. Places' /\ Alone' /\ RuntimeInv' /\ ClientInv' /\ UpstreamInv'
  BY <1>2, <1>4, <1>5 DEF FollowInv, Places, Alone, RuntimeInv, ClientInv, UpstreamInv
<1>7. up
  BY <1>1, <1>3 DEF FollowInv, Dead
<1>8. Dead'
  BY <1>2, <1>7 DEF Dead
<1>9. TorInv'
  <2>. SUFFICES ASSUME "upstream" \notin unsure, NEW j \in Inst \ missed', tor'[j].status # "off"
                PROVE  /\ \A x \in Handler : h[x].at = "tor" => Told(j, x)'
                       /\ ~Under("upstream", {"saved", "tor"}) =>
                             tor'[j].upstream = StoredUpstream /\ tor'[j].read \in {None, StoredUpstream}
    BY <1>2, <1>4, <1>5 DEF TorInv
  <2>0. ~Under("upstream", {"saved", "tor"}) => m.upstream = StoredUpstream
    BY <1>7 DEF FollowInv, UpstreamInv
  <2>1. CASE j # i
    <3>1. tor'[j] = tor[j] /\ j \notin missed
      BY <1>1, <1>3, <2>1
    <3>. QED
      BY <1>2, <1>4, <1>7, <3>1 DEF FollowInv, TorInv, Told
  <2>2. CASE j = i /\ launched /\ tor'[i].upstream = m.upstream /\ tor'[i].read = None
    <3>1. \A x \in Handler : h[x].at # "tor"
      BY <1>3, <2>2
    <3>. QED
      BY <2>0, <2>2, <3>1
  <2>3. CASE j = i /\ missed' = missed /\ tor[i].status # "off"
    <3>1. /\ \A x \in Handler : h[x].at = "tor" => Told(i, x)
          /\ ~Under("upstream", {"saved", "tor"}) =>
                tor[i].upstream = StoredUpstream /\ tor[i].read \in {None, StoredUpstream}
      BY <1>7, <2>3 DEF FollowInv, TorInv
    <3>2. CASE Moved(i)
      BY <1>2, <1>4, <2>3, <3>1, <3>2 DEF Told, Moved
    <3>3. CASE /\ tor[i].status = "starting" \/ tor[i].due \/ tor[i].read # None
               /\ \/ tor'[i].upstream = tor[i].upstream /\ tor'[i].read \in {tor[i].read, m.upstream}
                  \/ tor[i].read # None /\ tor'[i].upstream = tor[i].read /\ tor'[i].read = None
      <4>1. \A x \in Handler : h[x].at # "tor"
        BY <3>1, <3>3 DEF Told
      <4>. QED
        BY <2>0, <2>3, <3>1, <3>3, <4>1
    <3>4. CASE launched /\ tor'[i].upstream = m.upstream /\ tor'[i].read = None
      BY <2>2, <2>3, <3>4
    <3>. QED
      BY <1>1, <2>3, <3>2, <3>3, <3>4
  <2>. QED
    BY <1>1, <2>1, <2>2, <2>3
<1>. QED
  BY <1>6, <1>8, <1>9 DEF FollowInv

(***************************************************************************)
(* Every step keeps what is applied and what is on its way together.       *)
(***************************************************************************)
LEMMA FollowStep == IInv /\ FollowInv /\ [Next]_vars => FollowInv'
<1>. SUFFICES ASSUME IInv, FollowInv, [Next]_vars PROVE FollowInv'
  OBVIOUS
<1>0. TypeOK /\ (\A x \in Handler : h[x] \in HandlerState) /\ Idle.at = "idle"
  BY DEF IInv, TypeOK, Idle
<1>1. ASSUME NEW x \in Handler, NEW r \in Requested, Update(x, r) PROVE FollowInv'
  <2>1. /\ up /\ h[x].at = "idle" /\ UNCHANGED <<cfg, env, up, m, catalog, tor, missed>>
        /\ unsure \subseteq unsure' /\ Only(x) /\ h'[x].at \in {"idle", "save"}
    BY <1>0, <1>1, SavingHandler DEF Update, Only
  <2>2. Alone'
    <3>1. CASE Accepted(cfg, r)
      <4>1. h'[x].kind = r.kind /\ (unsure' = IF Overlaps(x, r) THEN unsure \cup {r.kind} ELSE unsure)
        BY <1>0, <1>1, <3>1, SavingHandler DEF Update
      <4>2. r.kind \notin unsure' => \A y \in Handler \ {x} : h[y].kind # r.kind
        BY <4>1 DEF Overlaps
      <4>. QED
        BY <2>1, <4>1, <4>2 DEF FollowInv, Alone, Only
    <3>2. CASE ~Accepted(cfg, r)
      BY <1>0, <1>1, <3>2 DEF Update, FollowInv, Alone
    <3>. QED
      BY <3>1, <3>2
  <2>. QED
    BY <2>1, <2>2, AsideFollows
<1>2. ASSUME NEW x \in Handler, SaveFails(x) \/ CopyFails(x) \/ Truncate(x) PROVE FollowInv'
  <2>1. /\ h[x].at \in {"save", "copy"} /\ UNCHANGED <<cfg, env, up, m, catalog, tor, missed, unsure>> /\ up
    BY <1>2 DEF SaveFails, CopyFails, Truncate, GiveUp, outside, history, FollowInv, Dead
  <2>2. Only(x) /\ (h'[x] = Idle \/ h'[x] = [h[x] EXCEPT !.at = "copy"])
    BY <1>0, <1>2 DEF SaveFails, CopyFails, Truncate, GiveUp, TypeOK, Only
  <2>3. h'[x].at = "idle" \/ (h'[x].at = "copy" /\ h'[x].kind = h[x].kind)
    BY <1>0, <2>2 DEF HandlerState
  <2>4. Alone'
    BY <2>1, <2>2, <2>3, AloneKept DEF FollowInv, Only
  <2>. QED
    BY <2>1, <2>2, <2>3, <2>4, AsideFollows
<1>3. ASSUME NEW x \in Handler, Rename(x) \/ Copy(x) PROVE FollowInv'
  BY <1>3, SavedFollows DEF Rename, Copy, Saving
<1>4. CASE Crash
  <2>1. /\ ~up' /\ \A x \in Handler : h'[x].at = "idle"
        /\ \A i \in Inst : tor'[i].status = "off"
    BY <1>4, OffType DEF Crash, Idle
  <2>. QED
    BY <2>1 DEF FollowInv, Places, Alone, Dead, RuntimeInv, ClientInv, UpstreamInv, TorInv
<1>5. CASE Restart
  <2>1. /\ file \in Config /\ cfg' = file /\ m' = Running(Effective(file)) /\ catalog' = Effective(file).upstream
        /\ up' /\ UNCHANGED <<env, h, tor, unsure, missed>>
    BY <1>0, <1>5 DEF Restart, TypeOK, outside, history
  <2>2. /\ \A x \in Handler : h'[x].at = "idle"
        /\ \A i \in Inst : tor'[i].status = "off"
    BY <1>5, <2>1 DEF Restart, FollowInv, Dead
  <2>3. /\ m'.limit = file.limit /\ m'.minutes = file.minutes /\ m'.key = OverriddenKey(file.key)
        /\ m'.upstream = OverriddenUpstream(file.upstream) /\ catalog' = OverriddenUpstream(file.upstream)
    BY <2>1 DEF Running, Effective, Config
  <2>4. StoredKey' = OverriddenKey(file.key) /\ StoredUpstream' = OverriddenUpstream(file.upstream)
    BY <2>1 DEF StoredKey, StoredUpstream, OverriddenKey, OverriddenUpstream
  <2>. QED
    BY <2>1, <2>2, <2>3, <2>4 DEF FollowInv, Places, Alone, Dead, RuntimeInv, ClientInv, UpstreamInv, TorInv
<1>6. CASE UNCHANGED vars
  <2>1. UNCHANGED <<cfg, env, up, h, m, catalog, tor, unsure, missed>>
    BY <1>6 DEF vars, store, outside, history
  <2>2. StoredKey' = StoredKey /\ StoredUpstream' = StoredUpstream
    BY <2>1 DEF StoredKey, StoredUpstream, OverriddenKey, OverriddenUpstream
  <2>. QED
    BY <2>1, <2>2 DEF FollowInv, Places, Alone, Dead, RuntimeInv, ClientInv, UpstreamInv, TorInv, Told, Under
<1>. QED
  BY <1>1, <1>2, <1>3, <1>4, <1>5, <1>6, RuntimeFollows, ClientFollows, UpstreamFollows, TorFollowsStep
     DEF Next, TorStep

(***************************************************************************)
(* It holds when the program starts, and so always.                        *)
(***************************************************************************)
LEMMA AlwaysFollows == Spec => [](IInv /\ FollowInv)
<1>1. Init => FollowInv
  <2>. SUFFICES ASSUME Init PROVE FollowInv
    OBVIOUS
  <2>1. /\ \A x \in Handler : h[x].at = "idle"
        /\ \A i \in Inst : tor[i].status = "off"
    BY OffType DEF Init, Idle
  <2>2. file \in Config /\ cfg = file /\ m = Running(Effective(file)) /\ catalog = Effective(file).upstream /\ up
    BY SettingsAssumption DEF Init
  <2>3. /\ m.limit = cfg.limit /\ m.minutes = cfg.minutes /\ m.key = StoredKey
        /\ m.upstream = StoredUpstream /\ catalog = StoredUpstream
    BY <2>2 DEF Running, Effective, Config, StoredKey, StoredUpstream
  <2>. QED
    BY <2>1, <2>2, <2>3 DEF FollowInv, Places, Alone, Dead, RuntimeInv, ClientInv, UpstreamInv, TorInv
<1>. QED
  BY <1>1, InitInv, NextInv, FollowStep, PTL DEF Spec

(***************************************************************************)
(* Applied for any number of handlers and crashes: what is stored is what  *)
(* the manager and the catalog use, once the update has ended, unless two  *)
(* updates of its kind overlapped or one ended half-way.                   *)
(***************************************************************************)
THEOREM SettingsApplied == Spec => []Applied
<1>1. IInv /\ FollowInv => Applied
  <2>. SUFFICES ASSUME IInv, FollowInv, up PROVE Applied
    BY DEF Applied
  <2>1. Effective(cfg).key = StoredKey /\ Effective(cfg).upstream = StoredUpstream
    BY DEF IInv, TypeOK, Effective, Config, StoredKey, StoredUpstream
  <2>2. \A kind, S : ~Updating(kind) => ~Under(kind, S)
    BY DEF Updating, Under
  <2>. QED
    BY <2>1, <2>2 DEF FollowInv, RuntimeInv, ClientInv, UpstreamInv, Applied
<1>. QED
  BY <1>1, AlwaysFollows, PTL

(***************************************************************************)
(* TorFollows for any number of Tor processes and handlers: a running      *)
(* process that no update of the upstream proxy passed over uses the       *)
(* stored one as soon as awaitReady has told it.  Passed over are those    *)
(* that are not in m.instances yet, starting, switching or being told at   *)
(* the same time; everything UpdateUpstream does look at follows.          *)
(***************************************************************************)
THEOREM TorKeepsUp == Spec => []TorFollows
<1>1. IInv /\ FollowInv => TorFollows
  <2>. SUFFICES ASSUME IInv, FollowInv, NEW i \in Inst \ missed, tor[i].status = "running",
                       ~tor[i].due, tor[i].read = None, ~Updating("upstream"), "upstream" \notin unsure
                PROVE  tor[i].upstream = Effective(cfg).upstream
    BY DEF TorFollows
  <2>1. Effective(cfg).upstream = StoredUpstream
    BY DEF IInv, TypeOK, Effective, Config, StoredUpstream
  <2>2. ~Under("upstream", {"saved", "tor"})
    BY DEF Updating, Under
  <2>3. up
    BY DEF FollowInv, Dead
  <2>. QED
    BY <2>1, <2>2, <2>3 DEF FollowInv, TorInv
<1>. QED
  BY <1>1, AlwaysFollows, PTL
=============================================================================
