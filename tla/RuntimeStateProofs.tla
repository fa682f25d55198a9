------------------------- MODULE RuntimeStateProofs -------------------------
(***************************************************************************)
(* The properties of RuntimeState, proved for any number of countries,     *)
(* goroutines, changes and crashes.                                        *)
(***************************************************************************)
EXTENDS RuntimeState, TLAPS

\* stateMu is held by exactly the writer that is writing; a new program has no
\* writers and no active country.
LockInv ==
    /\ \A w \in Writer : at[w] = "write" <=> stateMu = w
    /\ phase = "load" => active = None /\ \A w \in Writer : at[w] = "idle"
    /\ phase # "restore" => todo = {}

\* If nobody is waiting to save, the newest list is on disk or being written,
\* unless the last write failed.
SavedInv ==
    phase # "load" /\ (\A w \in Writer : at[w] # "save") =>
        /\ stateMu = None /\ saved => disk.nodes = resumeNodes
        /\ stateMu # None => snapshot.nodes = resumeNodes

\* What Restore has still to start is in memory and in every copy of it.
PendingInv ==
    \A c \in todo : /\ resumeNodes[c] # None
                    /\ disk.nodes[c] # None
                    /\ stateMu # None => snapshot.nodes[c] # None

IInv == TypeOK /\ LockInv /\ SavedInv /\ PendingInv /\ RestoresActive

(***************************************************************************)
(* A new program has the invariant: nothing is listed anywhere.            *)
(***************************************************************************)
LEMMA InitIInv == Init => IInv
  BY RuntimeStateAssumption
  DEF Init, IInv, TypeOK, LockInv, SavedInv, PendingInv, RestoresActive, NoState, Entries, State

(***************************************************************************)
(* What rememberInstance does, whoever calls it and whatever it does to    *)
(* Restore's list, keeps the invariant.                                    *)
(***************************************************************************)
LEMMA RememberIInv ==
  ASSUME IInv, NEW w \in Writer, NEW c \in Country, NEW node \in Choice,
         Remember(w, c, node), todo' \subseteq todo, phase # "load"
  PROVE  IInv'
<1>. USE RuntimeStateAssumption DEF Remember, Change
<1>1. [node |-> node, startedAt |-> clock] \in Entry
  BY DEF Entry, IInv, TypeOK
<1>2. resumeNodes' \in Entries
  BY <1>1 DEF IInv, TypeOK, Entries
<1>3. TypeOK'
  BY <1>2 DEF IInv, TypeOK
<1>4. LockInv'
  BY DEF IInv, TypeOK, LockInv
<1>5. SavedInv'
  BY DEF IInv, TypeOK, SavedInv
<1>6. \A d \in Country : resumeNodes[d] # None => resumeNodes'[d] # None
  BY <1>1 DEF IInv, TypeOK, Entries, Entry
<1>7. PendingInv' /\ RestoresActive'
  BY <1>6 DEF IInv, TypeOK, PendingInv, RestoresActive
<1>. QED
  BY <1>3, <1>4, <1>5, <1>7 DEF IInv

(***************************************************************************)
(* Every step of the program, and every crash, keeps the invariant.        *)
(***************************************************************************)
LEMMA StepIInv == IInv /\ [Next]_vars => IInv'
<1>. SUFFICES ASSUME IInv, [Next]_vars PROVE IInv'
  OBVIOUS
<1>. USE RuntimeStateAssumption DEF IInv
<1>1. CASE Load
  <2>1. TypeOK' BY <1>1 DEF Load, Listed, TypeOK, State
  <2>2. LockInv' BY <1>1 DEF Load, LockInv
  <2>3. SavedInv' BY <1>1 DEF Load, LockInv, SavedInv, TypeOK
  <2>4. PendingInv' BY <1>1 DEF Load, Listed, PendingInv, LockInv, TypeOK
  <2>5. RestoresActive' BY <1>1 DEF Load, Listed, RestoresActive
  <2>. QED BY <2>1, <2>2, <2>3, <2>4, <2>5
<1>0. CASE LoadFails
  <2>1. TypeOK' BY <1>0 DEF LoadFails, memory, TypeOK
  <2>2. LockInv' BY <1>0 DEF LoadFails, memory, LockInv
  <2>3. SavedInv' BY <1>0 DEF LoadFails, memory, LockInv, SavedInv, TypeOK
  <2>4. PendingInv' BY <1>0 DEF LoadFails, memory, PendingInv
  <2>5. RestoresActive' BY <1>0 DEF LoadFails, memory, LockInv, RestoresActive
  <2>. QED BY <2>1, <2>2, <2>3, <2>4, <2>5
<1>2. CASE RestoreDone
  BY <1>2 DEF RestoreDone, memory, TypeOK, LockInv, SavedInv, PendingInv, RestoresActive
<1>3. CASE ActiveExits
  BY <1>3 DEF ActiveExits, TypeOK, LockInv, SavedInv, PendingInv, RestoresActive
<1>4. CASE Crash
  BY <1>4 DEF Crash, NoState, Entries, TypeOK, LockInv, SavedInv, PendingInv, RestoresActive
<1>5. ASSUME NEW c \in Country, RestoreStarts(c) PROVE IInv'
  <2>1. resumeNodes[c].node \in Choice
    BY <1>5 DEF RestoreStarts, PendingInv, TypeOK, Entries, Entry
  <2>. QED
    BY <1>5, <2>1, RememberIInv DEF RestoreStarts
<1>6. ASSUME NEW c \in Country, RestoreFails(c) PROVE IInv'
  BY <1>6 DEF RestoreFails, memory, TypeOK, LockInv, SavedInv, PendingInv, RestoresActive
<1>7. ASSUME NEW c \in Country, Activate(c) PROVE IInv'
  BY <1>7 DEF Activate, Change, Listed, TypeOK, LockInv, SavedInv, PendingInv, RestoresActive
<1>8. ASSUME NEW c \in Country, Adopt(c) PROVE IInv'
  BY <1>8 DEF Adopt, Change, TypeOK, LockInv, SavedInv, PendingInv, RestoresActive
<1>9. ASSUME NEW w \in Writer, Snapshot(w) PROVE IInv'
  <2>1. TypeOK' BY <1>9 DEF Snapshot, memory, TypeOK, State
  <2>2. LockInv' BY <1>9 DEF Snapshot, LockInv, TypeOK
  <2>3. SavedInv' BY <1>9 DEF Snapshot, memory, SavedInv, TypeOK
  <2>4. PendingInv' BY <1>9 DEF Snapshot, memory, PendingInv
  <2>5. RestoresActive' BY <1>9 DEF Snapshot, memory, RestoresActive
  <2>. QED BY <2>1, <2>2, <2>3, <2>4, <2>5
<1>10. ASSUME NEW w \in Writer, Replace(w) PROVE IInv'
  <2>. USE <1>10 DEF Replace, memory
  <2>1. TypeOK' BY DEF TypeOK
  <2>2. stateMu = w BY DEF LockInv
  <2>3. LockInv' BY <2>2 DEF LockInv, TypeOK
  <2>4. SavedInv' BY <2>2 DEF SavedInv, TypeOK
  <2>5. PendingInv' /\ RestoresActive' BY <2>2 DEF PendingInv, RestoresActive
  <2>. QED BY <2>1, <2>3, <2>4, <2>5
<1>11. ASSUME NEW w \in Writer, NEW c \in Country, Forget(w, c) PROVE IInv'
  <2>. USE <1>11 DEF Forget, Change
  <2>1. TypeOK' BY DEF TypeOK, Entries
  <2>2. LockInv' BY DEF LockInv, TypeOK
  <2>3. SavedInv' BY DEF SavedInv, TypeOK
  <2>4. todo = {} 
    BY DEF LockInv
  <2>. QED BY <2>1, <2>2, <2>3, <2>4 DEF PendingInv, RestoresActive, TypeOK, Entries
<1>12. ASSUME NEW w \in Writer, NEW c \in Country, Restarted(w, c) PROVE IInv'
  <2>1. resumeNodes[c].node \in Choice
    BY <1>12 DEF Restarted, Listed, TypeOK, Entries, Entry
  <2>. QED
    BY <1>12, <2>1, RememberIInv DEF Restarted
<1>13. ASSUME NEW w \in Writer, NEW c \in Country, NEW node \in Choice, Started(w, c, node) PROVE IInv'
  BY <1>13, RememberIInv DEF Started
<1>14. CASE UNCHANGED vars
  BY <1>14 DEF vars, memory, TypeOK, LockInv, SavedInv, PendingInv, RestoresActive
<1>. QED
  BY <1>0, <1>1, <1>2, <1>3, <1>4, <1>5, <1>6, <1>7, <1>8, <1>9, <1>10, <1>11, <1>12, <1>13,
     <1>14
  DEF Next

(***************************************************************************)
(* The inductive invariant holds in every reachable state.                 *)
(***************************************************************************)
LEMMA AlwaysIInv == Spec => []IInv
  BY InitIInv, StepIInv, PTL DEF Spec

(***************************************************************************)
(* The state of the saves, the file and Restore is always well formed.     *)
(***************************************************************************)
THEOREM StateTypeCorrect == Spec => []TypeOK
<1>1. IInv => TypeOK
  BY DEF IInv
<1>. QED
  BY <1>1, AlwaysIInv, PTL

(***************************************************************************)
(* However many goroutines remember and forget countries at once, when all *)
(* of them have saved, the file is what memory is, unless the last write   *)
(* failed or nothing was written since the file could not be loaded.       *)
(***************************************************************************)
THEOREM SavesAreNotLost == Spec => []DiskCurrent
<1>1. IInv => DiskCurrent
  BY RuntimeStateAssumption DEF IInv, TypeOK, LockInv, SavedInv, DiskCurrent
<1>. QED
  BY <1>1, AlwaysIInv, PTL

(***************************************************************************)
(* However often the program crashes while it restores, no route that was  *)
(* not started yet leaves the file.                                        *)
(***************************************************************************)
THEOREM RestoreIsCrashSafe == Spec => []RestoreKeepsPending
<1>1. IInv => RestoreKeepsPending
  BY DEF IInv, PendingInv, RestoreKeepsPending
<1>. QED
  BY <1>1, AlwaysIInv, PTL

(***************************************************************************)
(* A program that restores never makes a country active that it does not   *)
(* also start, whatever the file says.                                     *)
(***************************************************************************)
THEOREM RestoredActiveIsRestored == Spec => []RestoresActive
<1>1. IInv => RestoresActive
  BY DEF IInv
<1>. QED
  BY <1>1, AlwaysIInv, PTL
=============================================================================
