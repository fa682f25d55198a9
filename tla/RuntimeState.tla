---------------------------- MODULE RuntimeState ----------------------------
(***************************************************************************)
(* The list of countries to restore (src/manager.go, runtime-state.json):  *)
(* goroutines change m.resumeNodes under m.mu and then save it under       *)
(* stateMu; the program may crash at any moment, and the next one loads    *)
(* the file and starts what it lists, saving again after every start.      *)
(*                                                                         *)
(* The rename of the temporary file is atomic, so a crash before it leaves *)
(* the old file.  Instances are not modelled: a country is started when it *)
(* is remembered and stopped when it is forgotten.                         *)
(***************************************************************************)
EXTENDS Integers

CONSTANTS
    Country,
    Choice,         \* exit nodes, "any" (the empty fingerprint) included
    None,
    Writer,         \* goroutines that remember or forget a country
    Main,           \* the one that runs Restore
    MaxChanges,     \* bound: changes of the list, and of m.active
    MaxCrashes      \* bound

\* PersistedNode, with StartedAt as a logical time.
Entry == [node : Choice, startedAt : Nat]

ASSUME RuntimeStateAssumption ==
    /\ Main \in Writer
    /\ MaxChanges \in Nat /\ MaxCrashes \in Nat
    /\ None \notin Country /\ None \notin Writer /\ None \notin Entry

Entries == [Country -> Entry \cup {None}]

\* persistedManagerState
State == [active : Country \cup {None}, nodes : Entries]

VARIABLES
    phase,          \* "load", "restore" or "up"
    resumeNodes,    \* m.resumeNodes
    active,         \* m.active
    resumeActive,   \* m.resumeActive
    todo,           \* entries Restore has still to start
    disk,           \* runtime-state.json
    saved,          \* whether this program could load it and its last write succeeded
    at,             \* where each writer is: "idle", "save" or "write"
    stateMu,        \* the holder of stateMu
    snapshot,       \* what it is about to write
    clock, crashes

memory == <<resumeNodes, active, resumeActive>>
vars == <<phase, memory, todo, disk, saved, at, stateMu, snapshot, clock, crashes>>

NoState == [active |-> None, nodes |-> [c \in Country |-> None]]
Listed(nodes) == {c \in Country : nodes[c] # None}

TypeOK ==
    /\ phase \in {"load", "restore", "up"}
    /\ resumeNodes \in Entries
    /\ active \in Country \cup {None} /\ resumeActive \in Country \cup {None}
    /\ todo \subseteq Country
    /\ disk \in State /\ saved \in BOOLEAN
    /\ at \in [Writer -> {"idle", "save", "write"}]
    /\ stateMu \in Writer \cup {None}
    /\ snapshot \in State
    /\ clock \in Nat /\ crashes \in Nat

Init ==
    /\ phase = "load"
    /\ resumeNodes = NoState.nodes
    /\ active = None /\ resumeActive = None /\ todo = {}
    /\ disk = NoState /\ saved = TRUE
    /\ at = [w \in Writer |-> "idle"]
    /\ stateMu = None /\ snapshot = NoState
    /\ clock = 0 /\ crashes = 0

----------------------------------------------------------------------------
(* NewManager and Restore. *)

\* Mistake: the active country is taken as it is.
LoadAnyActive ==
    /\ phase = "load"
    /\ resumeNodes' = disk.nodes
    /\ todo' = Listed(disk.nodes)
    /\ resumeActive' = disk.active /\ active' = disk.active
    /\ phase' = "restore"
    /\ UNCHANGED <<disk, saved, at, stateMu, snapshot, clock, crashes>>

\* loadRuntimeState, and Restore's first lines.
Load ==
    LET act == IF disk.active \in Listed(disk.nodes) THEN disk.active ELSE None
    IN  /\ phase = "load"
        /\ resumeNodes' = disk.nodes
        /\ todo' = Listed(disk.nodes)
        /\ resumeActive' = act /\ active' = act
        /\ phase' = "restore"
        /\ UNCHANGED <<disk, saved, at, stateMu, snapshot, clock, crashes>>

\* The file cannot be read or parsed: the error is logged, the list stays empty and
\* the first save will replace the file.
LoadFails ==
    /\ phase = "load"
    /\ phase' = "restore" /\ saved' = FALSE
    /\ UNCHANGED <<memory, todo, disk, at, stateMu, snapshot, clock, crashes>>

Change == clock < MaxChanges /\ clock' = clock + 1

\* rememberInstance, up to its save.
Remember(w, c, node) ==
    /\ at[w] = "idle"
    /\ Change
    /\ resumeNodes' = [resumeNodes EXCEPT ![c] = [node |-> node, startedAt |-> clock]]
    /\ at' = [at EXCEPT ![w] = "save"]
    /\ UNCHANGED <<phase, active, resumeActive, disk, saved, stateMu, snapshot, crashes>>

\* Mistake: the entries not started yet are dropped from the list.
RestoreStartsAlone(c) ==
    /\ phase = "restore" /\ at[Main] = "idle"
    /\ c \in todo
    /\ \A d \in todo : resumeNodes[c].startedAt <= resumeNodes[d].startedAt
    /\ todo' = todo \ {c}
    /\ Change
    /\ resumeNodes' = [d \in Country |-> IF d \in todo \ {c} THEN None ELSE resumeNodes[d]]
    /\ at' = [at EXCEPT ![Main] = "save"]
    /\ UNCHANGED <<phase, active, resumeActive, disk, saved, stateMu, snapshot, crashes>>

\* Start launches the next entry, oldest first, ...
RestoreStarts(c) ==
    /\ phase = "restore" /\ at[Main] = "idle"
    /\ c \in todo
    /\ \A d \in todo : resumeNodes[c].startedAt <= resumeNodes[d].startedAt
    /\ todo' = todo \ {c}
    /\ Remember(Main, c, resumeNodes[c].node)

\* ... or fails, and the entry stays.
RestoreFails(c) ==
    /\ phase = "restore" /\ at[Main] = "idle"
    /\ c \in todo
    /\ \A d \in todo : resumeNodes[c].startedAt <= resumeNodes[d].startedAt
    /\ todo' = todo \ {c}
    /\ UNCHANGED <<phase, memory, disk, saved, at, stateMu, snapshot, clock, crashes>>

RestoreDone ==
    /\ phase = "restore" /\ todo = {} /\ at[Main] = "idle"
    /\ phase' = "up"
    /\ UNCHANGED <<memory, todo, disk, saved, at, stateMu, snapshot, clock, crashes>>

----------------------------------------------------------------------------
(* Afterwards. *)

\* Start, or completeReplacement with another node.
Started(w, c, node) ==
    /\ phase = "up"
    /\ Remember(w, c, node)
    /\ UNCHANGED todo

\* An automatic restart, which may happen while Restore is still running.
Restarted(w, c) ==
    /\ w # Main /\ phase = "restore"
    /\ c \in Listed(resumeNodes) \ todo
    /\ Remember(w, c, resumeNodes[c].node)
    /\ UNCHANGED todo

\* stop's forgetInstance, up to its save.
Forget(w, c) ==
    /\ phase = "up" /\ at[w] = "idle"
    /\ Change
    /\ resumeNodes' = [resumeNodes EXCEPT ![c] = None]
    /\ active' = IF active = c THEN None ELSE active
    /\ at' = [at EXCEPT ![w] = "save"]
    /\ UNCHANGED <<phase, resumeActive, todo, disk, saved, stateMu, snapshot, crashes>>

\* Activate saves nothing.
Activate(c) ==
    /\ phase = "up" /\ c \in Listed(resumeNodes)
    /\ Change
    /\ active' = c
    /\ UNCHANGED <<phase, resumeNodes, resumeActive, todo, disk, saved, at, stateMu, snapshot, crashes>>

\* Neither does startNode when the node runs already; it saw that before it
\* took m.mu, and the country may have been forgotten since.
Adopt(c) ==
    /\ phase = "up"
    /\ Change
    /\ active' = c
    /\ UNCHANGED <<phase, resumeNodes, resumeActive, todo, disk, saved, at, stateMu, snapshot, crashes>>

\* Neither does watch when the active country's process is gone for good.
ActiveExits ==
    /\ phase # "load" /\ active # None
    /\ active' = None
    /\ UNCHANGED <<phase, resumeNodes, resumeActive, todo, disk, saved, at, stateMu, snapshot, clock, crashes>>

----------------------------------------------------------------------------
(* saveRuntimeState. *)

\* Mistake: a save is skipped while another one is under way.
SnapshotSkipped(w) ==
    /\ at[w] = "save"
    /\ snapshot' = IF stateMu = None THEN [active |-> active, nodes |-> resumeNodes] ELSE snapshot
    /\ stateMu' = IF stateMu = None THEN w ELSE stateMu
    /\ at' = [at EXCEPT ![w] = IF stateMu = None THEN "write" ELSE "idle"]
    /\ UNCHANGED <<phase, memory, todo, disk, saved, clock, crashes>>

\* stateMu is taken first, then the list is read.
Snapshot(w) ==
    /\ at[w] = "save" /\ stateMu = None
    /\ stateMu' = w
    /\ snapshot' = [active |-> active, nodes |-> resumeNodes]
    /\ at' = [at EXCEPT ![w] = "write"]
    /\ UNCHANGED <<phase, memory, todo, disk, saved, clock, crashes>>

\* The new file is renamed over the old one, or some step of writing it fails.
Replace(w) ==
    /\ at[w] = "write"
    /\ \/ disk' = snapshot /\ saved' = TRUE
       \/ UNCHANGED disk /\ saved' = FALSE
    /\ stateMu' = None
    /\ at' = [at EXCEPT ![w] = "idle"]
    /\ UNCHANGED <<phase, memory, todo, snapshot, clock, crashes>>

\* The process dies, or is told to stop, with writers anywhere.
Crash ==
    /\ phase # "load" /\ crashes < MaxCrashes
    /\ crashes' = crashes + 1
    /\ phase' = "load"
    /\ resumeNodes' = NoState.nodes /\ active' = None /\ resumeActive' = None
    /\ todo' = {} /\ saved' = TRUE
    /\ at' = [w \in Writer |-> "idle"]
    /\ stateMu' = None
    /\ UNCHANGED <<disk, snapshot, clock>>

Next ==
    \/ Load \/ LoadFails \/ RestoreDone \/ ActiveExits \/ Crash
    \/ \E c \in Country : RestoreStarts(c) \/ RestoreFails(c) \/ Activate(c) \/ Adopt(c)
    \/ \E w \in Writer :
          \/ Snapshot(w) \/ Replace(w)
          \/ \E c \in Country : Forget(w, c) \/ Restarted(w, c)
          \/ \E c \in Country, node \in Choice : Started(w, c, node)

Spec == Init /\ [][Next]_vars

----------------------------------------------------------------------------
(***************************************************************************)
(* Saves are never lost to each other: once every goroutine that changed   *)
(* the list has returned from saveRuntimeState, the file lists exactly     *)
(* what memory does, whatever order they took stateMu in and whichever     *)
(* writes failed, unless it was the last one or the program has written    *)
(* nothing since it failed to load the file (errors are only logged).      *)
(***************************************************************************)
DiskCurrent ==
    saved /\ phase # "load" /\ (\A w \in Writer : at[w] = "idle")
        => disk.nodes = resumeNodes

(***************************************************************************)
(* A crash while Restore is running loses no route: an entry not started   *)
(* yet is still in the file, because NewManager put it into resumeNodes    *)
(* and every save in between writes the whole list.  A program that could  *)
(* not load the file restores nothing, and its first save replaces the     *)
(* list.                                                                   *)
(***************************************************************************)
RestoreKeepsPending == \A c \in todo : disk.nodes[c] # None

(***************************************************************************)
(* While a program restores, its active country is one that it restores:   *)
(* an active country that had been forgotten when the file was written     *)
(* (startNode racing stop) is not taken over by loadRuntimeState.          *)
(***************************************************************************)
RestoresActive ==
    phase = "restore" /\ active # None => resumeNodes[active] # None
=============================================================================
