----------------------------- MODULE StateFile -----------------------------
(***************************************************************************)
(* The state file (app/state_store.rs) under several processes: sessions   *)
(* (loop, once, pipe, tune), `init`, `purge` and the end of `autotune`,    *)
(* which saves without the lock.  A save is taken apart into its system    *)
(* calls; a process may be killed, or the machine lose power, between any  *)
(* two of them.  Session.tla takes a save as one step: the property        *)
(* SessionsUseRegister below is what entitles it to.                       *)
(*                                                                         *)
(* Of a snapshot, only iter and the gains are kept.  A pid is used again   *)
(* after its process has ended, as it is in a container, so that a         *)
(* temporary file may be left over under the name of a new save.           *)
(***************************************************************************)
EXTENDS Integers

CONSTANTS
    Procs,    \* pids
    Kinds,    \* the commands that run: session, init, purge, autotune
    IterMax,  \* bound standing for u64::MAX, where iter saturates
    MaxSaves, \* bound on the saves of one process: values of TEMP_FILE_COUNTER
    Absent,   \* no file of that name
    Partial,  \* content that is not a whole snapshot
    None      \* no process, no command

ASSUME StateFileAssumption ==
    /\ Kinds \subseteq {"session", "init", "purge", "autotune"}
    /\ IterMax \in Nat /\ MaxSaves \in Nat \ {0}
    /\ None \notin Procs /\ None \notin Kinds

VARIABLES
    file,     \* the state file as processes see it: Absent or a node
    durable,  \* what the directory entry names after a power loss
    temps,    \* names, pid and counter, under which temporary files exist
    node,     \* the temporary file of the save each process is in
    lock,     \* who holds flock on <state>.lock, or None
    pc,       \* where each process is, "idle" when there is none
    kind,     \* the command each process runs
    copy,     \* the snapshot each process has in memory
    counter   \* TEMP_FILE_COUNTER of each process

disk == <<file, durable, temps>>
vars == <<disk, node, lock, pc, kind, copy, counter>>

----------------------------------------------------------------------------

Snapshots == [iter : 0 .. IterMax, gains : {"cli", "tuned"}]

ASSUME MarksAssumption == Absent \notin Snapshots /\ Partial \notin Snapshots

Fresh == [iter |-> 0, gains |-> "cli"]

\* A file: its content, and whether that is on the disk.
Nodes == [data : Snapshots \cup {Partial}, synced : BOOLEAN]

\* A file that was just created, or has been lost.
Empty == [data |-> Partial, synced |-> FALSE]

ASSUME AbsentAssumption == Absent \notin Nodes

Loaded == IF file = Absent THEN Fresh ELSE file.data

\* The name of the temporary file of the save a process is in.
Temp(p) == <<p, counter[p]>>

At(p, phase) == pc[p] = phase
Goto(p, phase) == pc' = [pc EXCEPT ![p] = phase]

\* Mutant: purge does not take the lock.
TakesLockUnlessPurge(k) == k \notin {"autotune", "purge"}

\* The commands that call acquire_lock.
TakesLock(k) == k # "autotune"

----------------------------------------------------------------------------
(* The commands around a save. *)

\* A second process that wants the lock gets LockHeld and exits.
Start(p, k) ==
    /\ At(p, "idle")
    /\ IF TakesLock(k) THEN lock = None /\ lock' = p ELSE lock' = lock
    /\ kind' = [kind EXCEPT ![p] = k]
    /\ Goto(p, IF k = "init" THEN "remove" ELSE "load")
    /\ UNCHANGED <<disk, node, copy, counter>>

\* load() fails, on reading or on parsing.
LoadFails(p) ==
    /\ At(p, "load") /\ Goto(p, "end")
    /\ UNCHANGED <<disk, node, lock, kind, copy, counter>>

\* load() succeeds; purge and autotune derive what they save at once.
Load(p) ==
    /\ At(p, "load")
    /\ Loaded # Partial
    /\ kind[p] = "purge" => file # Absent
    /\ copy' = [copy EXCEPT ![p] =
           CASE kind[p] = "session"  -> Loaded
             [] kind[p] = "purge"    -> [Loaded EXCEPT !.iter = 0]
             [] kind[p] = "autotune" -> [Loaded EXCEPT !.gains = "tuned"]]
    /\ Goto(p, IF kind[p] = "session" THEN "ready" ELSE "create")
    /\ UNCHANGED <<disk, node, lock, kind, counter>>

\* init removes the file before it saves a fresh one.
Remove(p) ==
    /\ At(p, "remove")
    /\ \/ file' = Absent /\ Goto(p, "create")
          /\ copy' = [copy EXCEPT ![p] = Fresh]
       \/ file # Absent /\ Goto(p, "end") /\ UNCHANGED <<file, copy>>
    /\ UNCHANGED <<durable, temps, node, lock, kind, counter>>

Stepped(snap) ==
    [iter |-> IF snap.iter < IterMax THEN snap.iter + 1 ELSE IterMax,
     gains |-> "cli"]

\* A session works on its snapshot, and saves it or coalesces the save.
Work(p) ==
    /\ At(p, "ready")
    /\ \E snap \in {copy[p], Stepped(copy[p])}, next \in {"ready", "create"} :
           /\ next = "create" => counter[p] < MaxSaves
           /\ copy' = [copy EXCEPT ![p] = snap]
           /\ Goto(p, next)
    /\ UNCHANGED <<disk, node, lock, kind, counter>>

----------------------------------------------------------------------------
(* StateStore::save, call by call. *)

\* OpenOptions::create_new: refuses a name that exists.
Create(p) ==
    /\ At(p, "create") /\ Temp(p) \notin temps
    /\ temps' = temps \cup {Temp(p)}
    /\ node' = [node EXCEPT ![p] = Empty]
    /\ Goto(p, "write")
    /\ UNCHANGED <<file, durable, lock, kind, copy, counter>>

\* Mutant: the data is not synced before the rename.
WriteUnsynced(p) ==
    /\ At(p, "write")
    /\ node' = [node EXCEPT ![p].data = copy[p]]
    /\ Goto(p, "rename")
    /\ UNCHANGED <<disk, lock, kind, copy, counter>>

Write(p) ==
    /\ At(p, "write")
    /\ node' = [node EXCEPT ![p].data = copy[p]]
    /\ Goto(p, "sync")
    /\ UNCHANGED <<disk, lock, kind, copy, counter>>

Sync(p) ==
    /\ At(p, "sync")
    /\ node' = [node EXCEPT ![p].synced = TRUE]
    /\ Goto(p, "rename")
    /\ UNCHANGED <<disk, lock, kind, copy, counter>>

\* Any call may fail, create_new on a leftover always does; a write that
\* fails halfway leaves a partial file.
CallFails(p) ==
    /\ pc[p] \in {"create", "write", "sync", "rename"}
    /\ Goto(p, "cleanup")
    /\ UNCHANGED <<disk, node, lock, kind, copy, counter>>

\* A session goes on whether or not its save failed; the others exit.
SaveEnds(p) ==
    /\ counter' = [counter EXCEPT ![p] = @ + 1]
    /\ node' = [node EXCEPT ![p] = Empty]
    /\ Goto(p, IF kind[p] = "session" THEN "ready" ELSE "end")

Rename(p) ==
    /\ At(p, "rename")
    /\ file' = node[p]
    /\ temps' = temps \ {Temp(p)}
    /\ SaveEnds(p)
    /\ UNCHANGED <<durable, lock, kind, copy>>

\* Mutant: the cleanup of a failed save removes the state file.
CleanupOfFile(p) ==
    /\ At(p, "cleanup")
    /\ file' = Absent
    /\ SaveEnds(p)
    /\ UNCHANGED <<durable, temps, lock, kind, copy>>

\* The save failed: the temporary file is removed, if that works.
Cleanup(p) ==
    /\ At(p, "cleanup")
    /\ temps' \in {temps \ {Temp(p)}, temps}
    /\ SaveEnds(p)
    /\ UNCHANGED <<file, durable, lock, kind, copy>>

----------------------------------------------------------------------------
(* The end of a process, and the world. *)

\* The process is gone: the kernel drops its lock, temporary files stay.
Gone(p) ==
    /\ Goto(p, "idle")
    /\ lock' = IF lock = p THEN None ELSE lock
    /\ kind' = [kind EXCEPT ![p] = None]
    /\ copy' = [copy EXCEPT ![p] = Fresh]
    /\ counter' = [counter EXCEPT ![p] = 0]
    /\ node' = [node EXCEPT ![p] = Empty]
    /\ UNCHANGED disk

Exit(p) == (At(p, "end") \/ At(p, "ready")) /\ Gone(p)

Kill(p) == ~At(p, "idle") /\ Gone(p)

\* What may be left of a file after a power loss.
Survivors(f) ==
    IF f = Absent THEN {Absent}
    ELSE {[f EXCEPT !.synced = TRUE]}
         \cup IF f.synced THEN {}
              ELSE {[data |-> Partial, synced |-> TRUE]}

\* The directory entry reaches the disk some time after the rename.
FlushDirectory ==
    /\ durable # file /\ durable' = file
    /\ UNCHANGED <<file, temps, node, lock, pc, kind, copy, counter>>

PowerLoss ==
    /\ file' \in Survivors(file) \cup Survivors(durable)
    /\ durable' = file'
    /\ temps' \in SUBSET temps
    /\ node' = [p \in Procs |-> Empty]
    /\ lock' = None
    /\ pc' = [p \in Procs |-> "idle"]
    /\ kind' = [p \in Procs |-> None]
    /\ copy' = [p \in Procs |-> Fresh]
    /\ counter' = [p \in Procs |-> 0]

----------------------------------------------------------------------------

Init ==
    /\ file = Absent /\ durable = Absent
    /\ temps = {}
    /\ node = [p \in Procs |-> Empty]
    /\ lock = None
    /\ pc = [p \in Procs |-> "idle"]
    /\ kind = [p \in Procs |-> None]
    /\ copy = [p \in Procs |-> Fresh]
    /\ counter = [p \in Procs |-> 0]

SaveStep(p) ==
    Create(p) \/ Write(p) \/ Sync(p) \/ CallFails(p) \/ Rename(p) \/ Cleanup(p)

Step(p) ==
    \/ LoadFails(p) \/ Load(p) \/ Remove(p) \/ Work(p)
    \/ SaveStep(p)
    \/ Exit(p)

Next ==
    \/ \E p \in Procs :
           Step(p) \/ Kill(p) \/ \E k \in Kinds : Start(p, k)
    \/ FlushDirectory
    \/ PowerLoss

Spec == Init /\ [][Next]_vars

----------------------------------------------------------------------------
(* Properties. *)

Phases == {"idle", "load", "remove", "ready", "create", "write", "sync",
           "rename", "cleanup", "end"}

\* Every variable stays in its set, and the lock is held by a living process
\* whose command takes it, from its start to its end.
StateFileTypeOK ==
    /\ file \in Nodes \cup {Absent} /\ durable \in Nodes \cup {Absent}
    /\ temps \subseteq Procs \X (0 .. MaxSaves)
    /\ node \in [Procs -> Nodes]
    /\ lock \in Procs \cup {None}
    /\ pc \in [Procs -> Phases]
    /\ kind \in [Procs -> Kinds \cup {None}]
    /\ copy \in [Procs -> Snapshots]
    /\ counter \in [Procs -> 0 .. MaxSaves]
    /\ \A p \in Procs :
           (lock = p) <=> (~At(p, "idle") /\ kind[p] # "autotune")

\* Whoever is killed or fails at whatever call, and also after a power loss,
\* the state file is absent or a whole snapshot.
FileWhole == file # Absent => file.data # Partial

\* The lock keeps the commands that take it apart: while one of them runs, no
\* other one changes the file.
LockersExclude ==
    [][\A p, q \in Procs :
           (lock = p /\ q # p /\ kind[q] # "autotune" /\ Step(q))
               => file' = file]_vars

\* What the session that has loaded its snapshot holds, and the file, seen as
\* the register of DurableSnapshot.tla.
SessionRuns ==
    /\ lock # None
    /\ kind[lock] = "session" /\ pc[lock] \notin {"load", "end"}

LiveCopy == IF SessionRuns THEN copy[lock] ELSE Fresh

FileData == IF file = Absent THEN Absent ELSE file.data

Register == INSTANCE DurableSnapshot WITH
    Values <- Snapshots,
    running <- SessionRuns, live <- LiveCopy, saved <- FileData

\* To a session a save is one step: whatever it does, and wherever it is
\* killed, is a step of the atomic register that Session.tla implements.
SessionsUseRegister ==
    [][(\E p \in Procs : kind[p] = "session" /\ (Step(p) \/ Kill(p)))
           => Register!Next \/ UNCHANGED Register!vars]_vars
=============================================================================
