-------------------------- MODULE StateFileProofs --------------------------
(***************************************************************************)
(* Proofs about StateFile: for any number of processes and saves, with     *)
(* kills, failing calls and power losses anywhere.                         *)
(***************************************************************************)
EXTENDS StateFile, TLAPS

----------------------------------------------------------------------------
(* The inductive invariant.                                                *)

SavePhases == {"create", "write", "sync", "rename", "cleanup"}

\* Which command is in which phase.
KindsFit ==
    \A p \in Procs :
        /\ At(p, "idle") <=> kind[p] = None
        /\ At(p, "load") => kind[p] \in {"session", "purge", "autotune"}
        /\ At(p, "remove") => kind[p] = "init"
        /\ At(p, "ready") => kind[p] = "session"

\* A save begins below the bound, and a process with its first.
CountersFit ==
    \A p \in Procs :
        /\ pc[p] \in SavePhases => counter[p] < MaxSaves
        /\ pc[p] \in {"idle", "load", "remove"} => counter[p] = 0

\* What is renamed is the whole snapshot of the process, and on the disk.
NodesFit ==
    \A p \in Procs :
        /\ pc[p] \in {"sync", "rename"} => node[p].data = copy[p]
        /\ At(p, "rename") => node[p].synced

WholeNode(f) == f = Absent \/ (f.data \in Snapshots /\ f.synced)

\* The file and what a power loss leaves of it are whole and on the disk.
FilesWhole == WholeNode(file) /\ WholeNode(durable)

StateFileInv ==
    StateFileTypeOK /\ KindsFit /\ CountersFit /\ NodesFit /\ FilesWhole

\* The values that the actions compute are snapshots and nodes.
LEMMA Values ==
    /\ Fresh \in Snapshots /\ Empty \in Nodes
    /\ \A s \in Snapshots : Stepped(s) \in Snapshots
    /\ \A s \in Snapshots : [s EXCEPT !.iter = 0] \in Snapshots
    /\ \A s \in Snapshots : [s EXCEPT !.gains = "tuned"] \in Snapshots
    /\ \A f \in Nodes, s \in Snapshots : [f EXCEPT !.data = s] \in Nodes
    /\ \A f \in Nodes : [f EXCEPT !.synced = TRUE] \in Nodes
    /\ [data |-> Partial, synced |-> TRUE] \in Nodes
  <1>1. Fresh \in Snapshots /\ \A s \in Snapshots : Stepped(s) \in Snapshots
    BY StateFileAssumption DEF Fresh, Snapshots, Stepped
  <1>2. \A s \in Snapshots : [s EXCEPT !.iter = 0] \in Snapshots
    BY StateFileAssumption DEF Snapshots
  <1>3. \A s \in Snapshots : [s EXCEPT !.gains = "tuned"] \in Snapshots
    BY DEF Snapshots
  <1>4. \A f \in Nodes, s \in Snapshots : [f EXCEPT !.data = s] \in Nodes
    BY DEF Nodes
  <1>5. \A f \in Nodes : [f EXCEPT !.synced = TRUE] \in Nodes
    BY DEF Nodes
  <1>6. Empty \in Nodes /\ [data |-> Partial, synced |-> TRUE] \in Nodes
    BY DEF Empty, Nodes
  <1> QED  BY <1>1, <1>2, <1>3, <1>4, <1>5, <1>6

\* The invariant holds before the first process.
LEMMA StateFileInvInit == Init => StateFileInv
  <1> SUFFICES ASSUME Init PROVE StateFileInv
    OBVIOUS
  <1>1. StateFileTypeOK
    BY Values, StateFileAssumption DEF Init, StateFileTypeOK, Phases, At
  <1>2. KindsFit /\ CountersFit /\ NodesFit /\ FilesWhole
    BY StateFileAssumption
    DEF Init, KindsFit, CountersFit, NodesFit, FilesWhole, WholeNode, At,
        SavePhases
  <1> QED  BY <1>1, <1>2 DEF StateFileInv
\* Every step leads to a phase that its command has.
LEMMA KindsFitStep == StateFileInv /\ Next => KindsFit'
  <1> SUFFICES ASSUME StateFileInv, Next PROVE KindsFit'
    OBVIOUS
  <1> USE StateFileAssumption
    DEF Goto, At, disk, StateFileInv, StateFileTypeOK, KindsFit
  <1>1. ASSUME NEW p \in Procs, LoadFails(p) PROVE KindsFit'
    BY <1>1 DEF LoadFails
  <1>2. ASSUME NEW p \in Procs, Load(p) PROVE KindsFit'
    BY <1>2 DEF Load
  <1>3. ASSUME NEW p \in Procs, Remove(p) PROVE KindsFit'
    BY <1>3 DEF Remove
  <1>4. ASSUME NEW p \in Procs, Work(p) PROVE KindsFit'
    BY <1>4 DEF Work
  <1>5. ASSUME NEW p \in Procs, Create(p) PROVE KindsFit'
    BY <1>5 DEF Create
  <1>6. ASSUME NEW p \in Procs, Write(p) PROVE KindsFit'
    BY <1>6 DEF Write
  <1>7. ASSUME NEW p \in Procs, Sync(p) PROVE KindsFit'
    BY <1>7 DEF Sync
  <1>8. ASSUME NEW p \in Procs, CallFails(p) PROVE KindsFit'
    BY <1>8 DEF CallFails
  <1>9. ASSUME NEW p \in Procs, Rename(p) PROVE KindsFit'
    BY <1>9 DEF Rename, SaveEnds
  <1>10. ASSUME NEW p \in Procs, Cleanup(p) PROVE KindsFit'
    BY <1>10 DEF Cleanup, SaveEnds
  <1>11. ASSUME NEW p \in Procs, Exit(p) PROVE KindsFit'
    BY <1>11 DEF Exit, Gone
  <1>12. ASSUME NEW p \in Procs, Kill(p) PROVE KindsFit'
    BY <1>12 DEF Kill, Gone
  <1>13. ASSUME NEW p \in Procs, NEW k \in Kinds, Start(p, k) PROVE KindsFit'
    BY <1>13 DEF Start, TakesLock
  <1>14. CASE FlushDirectory
    BY <1>14 DEF FlushDirectory
  <1>15. CASE PowerLoss
    BY <1>15 DEF PowerLoss
  <1> QED
    BY <1>1, <1>2, <1>3, <1>4, <1>5, <1>6, <1>7, <1>8, <1>9, <1>10, <1>11,
       <1>12, <1>13, <1>14, <1>15
      DEF Next, Step, SaveStep

\* A save ends with the counter below the bound or at it.
LEMMA CountersFitStep == StateFileInv /\ Next => CountersFit'
  <1> SUFFICES ASSUME StateFileInv, Next PROVE CountersFit'
    OBVIOUS
  <1> USE StateFileAssumption
    DEF Goto, At, disk, StateFileInv, StateFileTypeOK, KindsFit, CountersFit,
        SavePhases
  <1>1. ASSUME NEW p \in Procs, LoadFails(p) PROVE CountersFit'
    BY <1>1 DEF LoadFails
  <1>2. ASSUME NEW p \in Procs, Load(p) PROVE CountersFit'
    BY <1>2 DEF Load
  <1>3. ASSUME NEW p \in Procs, Remove(p) PROVE CountersFit'
    BY <1>3 DEF Remove
  <1>4. ASSUME NEW p \in Procs, Work(p) PROVE CountersFit'
    BY <1>4 DEF Work
  <1>5. ASSUME NEW p \in Procs, Create(p) PROVE CountersFit'
    BY <1>5 DEF Create
  <1>6. ASSUME NEW p \in Procs, Write(p) PROVE CountersFit'
    BY <1>6 DEF Write
  <1>7. ASSUME NEW p \in Procs, Sync(p) PROVE CountersFit'
    BY <1>7 DEF Sync
  <1>8. ASSUME NEW p \in Procs, CallFails(p) PROVE CountersFit'
    BY <1>8 DEF CallFails
  <1>9. ASSUME NEW p \in Procs, Rename(p) PROVE CountersFit'
    BY <1>9 DEF Rename, SaveEnds
  <1>10. ASSUME NEW p \in Procs, Cleanup(p) PROVE CountersFit'
    BY <1>10 DEF Cleanup, SaveEnds
  <1>11. ASSUME NEW p \in Procs, Exit(p) PROVE CountersFit'
    BY <1>11 DEF Exit, Gone
  <1>12. ASSUME NEW p \in Procs, Kill(p) PROVE CountersFit'
    BY <1>12 DEF Kill, Gone
  <1>13. ASSUME NEW p \in Procs, NEW k \in Kinds, Start(p, k) PROVE CountersFit'
    BY <1>13 DEF Start, TakesLock
  <1>14. CASE FlushDirectory
    BY <1>14 DEF FlushDirectory
  <1>15. CASE PowerLoss
    BY <1>15 DEF PowerLoss
  <1> QED
    BY <1>1, <1>2, <1>3, <1>4, <1>5, <1>6, <1>7, <1>8, <1>9, <1>10, <1>11,
       <1>12, <1>13, <1>14, <1>15
      DEF Next, Step, SaveStep

\* A save writes the snapshot first and syncs it after that.
LEMMA NodesFitStep == StateFileInv /\ Next => NodesFit'
  <1> SUFFICES ASSUME StateFileInv, Next PROVE NodesFit'
    OBVIOUS
  <1> USE StateFileAssumption
    DEF Goto, At, disk, StateFileInv, StateFileTypeOK, NodesFit, Nodes, Empty
  <1>1. ASSUME NEW p \in Procs, LoadFails(p) PROVE NodesFit'
    BY <1>1 DEF LoadFails
  <1>2. ASSUME NEW p \in Procs, Load(p) PROVE NodesFit'
    BY <1>2 DEF Load
  <1>3. ASSUME NEW p \in Procs, Remove(p) PROVE NodesFit'
    BY <1>3 DEF Remove
  <1>4. ASSUME NEW p \in Procs, Work(p) PROVE NodesFit'
    BY <1>4 DEF Work
  <1>5. ASSUME NEW p \in Procs, Create(p) PROVE NodesFit'
    BY <1>5 DEF Create
  <1>6. ASSUME NEW p \in Procs, Write(p) PROVE NodesFit'
    BY <1>6 DEF Write
  <1>7. ASSUME NEW p \in Procs, Sync(p) PROVE NodesFit'
    BY <1>7 DEF Sync
  <1>8. ASSUME NEW p \in Procs, CallFails(p) PROVE NodesFit'
    BY <1>8 DEF CallFails
  <1>9. ASSUME NEW p \in Procs, Rename(p) PROVE NodesFit'
    BY <1>9 DEF Rename, SaveEnds
  <1>10. ASSUME NEW p \in Procs, Cleanup(p) PROVE NodesFit'
    BY <1>10 DEF Cleanup, SaveEnds
  <1>11. ASSUME NEW p \in Procs, Exit(p) PROVE NodesFit'
    BY <1>11 DEF Exit, Gone
  <1>12. ASSUME NEW p \in Procs, Kill(p) PROVE NodesFit'
    BY <1>12 DEF Kill, Gone
  <1>13. ASSUME NEW p \in Procs, NEW k \in Kinds, Start(p, k) PROVE NodesFit'
    BY <1>13 DEF Start, TakesLock
  <1>14. CASE FlushDirectory
    BY <1>14 DEF FlushDirectory
  <1>15. CASE PowerLoss
    BY <1>15 DEF PowerLoss
  <1> QED
    BY <1>1, <1>2, <1>3, <1>4, <1>5, <1>6, <1>7, <1>8, <1>9, <1>10, <1>11,
       <1>12, <1>13, <1>14, <1>15
      DEF Next, Step, SaveStep

\* Only a rename puts content into the file, and only synced content.
LEMMA FilesWholeStep == StateFileInv /\ Next => FilesWhole'
  <1> SUFFICES ASSUME StateFileInv, Next PROVE FilesWhole'
    OBVIOUS
  <1> USE StateFileAssumption
    DEF Goto, At, disk, StateFileInv, StateFileTypeOK, NodesFit, FilesWhole,
        WholeNode, Nodes
  <1>1. ASSUME NEW p \in Procs, LoadFails(p) PROVE FilesWhole'
    BY <1>1 DEF LoadFails
  <1>2. ASSUME NEW p \in Procs, Load(p) PROVE FilesWhole'
    BY <1>2 DEF Load
  <1>3. ASSUME NEW p \in Procs, Remove(p) PROVE FilesWhole'
    BY <1>3 DEF Remove
  <1>4. ASSUME NEW p \in Procs, Work(p) PROVE FilesWhole'
    BY <1>4 DEF Work
  <1>5. ASSUME NEW p \in Procs, Create(p) PROVE FilesWhole'
    BY <1>5 DEF Create
  <1>6. ASSUME NEW p \in Procs, Write(p) PROVE FilesWhole'
    BY <1>6 DEF Write
  <1>7. ASSUME NEW p \in Procs, Sync(p) PROVE FilesWhole'
    BY <1>7 DEF Sync
  <1>8. ASSUME NEW p \in Procs, CallFails(p) PROVE FilesWhole'
    BY <1>8 DEF CallFails
  <1>9. ASSUME NEW p \in Procs, Rename(p) PROVE FilesWhole'
    BY <1>9 DEF Rename, SaveEnds
  <1>10. ASSUME NEW p \in Procs, Cleanup(p) PROVE FilesWhole'
    BY <1>10 DEF Cleanup, SaveEnds
  <1>11. ASSUME NEW p \in Procs, Exit(p) PROVE FilesWhole'
    BY <1>11 DEF Exit, Gone
  <1>12. ASSUME NEW p \in Procs, Kill(p) PROVE FilesWhole'
    BY <1>12 DEF Kill, Gone
  <1>13. ASSUME NEW p \in Procs, NEW k \in Kinds, Start(p, k) PROVE FilesWhole'
    BY <1>13 DEF Start, TakesLock
  <1>14. CASE FlushDirectory
    BY <1>14 DEF FlushDirectory
  <1>15. CASE PowerLoss
    BY <1>15, AbsentAssumption DEF PowerLoss, Survivors
  <1> QED
    BY <1>1, <1>2, <1>3, <1>4, <1>5, <1>6, <1>7, <1>8, <1>9, <1>10, <1>11,
       <1>12, <1>13, <1>14, <1>15
      DEF Next, Step, SaveStep

\* Every step keeps the types, and the lock with a living process.
LEMMA TypeStep == StateFileInv /\ Next => StateFileTypeOK'
  <1> SUFFICES ASSUME StateFileInv, Next PROVE StateFileTypeOK'
    OBVIOUS
  <1> USE StateFileAssumption, Values
    DEF Goto, At, disk, StateFileInv, StateFileTypeOK, KindsFit, CountersFit,
        FilesWhole, WholeNode, SavePhases, Phases
  <1>1. ASSUME NEW p \in Procs, LoadFails(p) PROVE StateFileTypeOK'
    BY <1>1 DEF LoadFails
  <1>2. ASSUME NEW p \in Procs, Load(p) PROVE StateFileTypeOK'
    <2>1. Loaded \in Snapshots
      BY DEF Loaded
    <2>2. copy' \in [Procs -> Snapshots]
      <3>1. kind[p] \in {"session", "purge", "autotune"}
        BY <1>2 DEF Load
      <3>2. CASE kind[p] = "session"
        BY <1>2, <2>1, <3>2 DEF Load
      <3>3. CASE kind[p] = "purge"
        BY <1>2, <2>1, <3>3 DEF Load
      <3>4. CASE kind[p] = "autotune"
        BY <1>2, <2>1, <3>4 DEF Load
      <3> QED  BY <3>1, <3>2, <3>3, <3>4
    <2>3. pc' \in [Procs -> Phases] /\ pc'[p] # "idle"
      BY <1>2 DEF Load
    <2> QED  BY <1>2, <2>2, <2>3 DEF Load
  <1>3. ASSUME NEW p \in Procs, Remove(p) PROVE StateFileTypeOK'
    BY <1>3 DEF Remove
  <1>4. ASSUME NEW p \in Procs, Work(p) PROVE StateFileTypeOK'
    BY <1>4 DEF Work
  <1>5. ASSUME NEW p \in Procs, Create(p) PROVE StateFileTypeOK'
    BY <1>5 DEF Create, Temp
  <1>6. ASSUME NEW p \in Procs, Write(p) PROVE StateFileTypeOK'
    <2>1. [node[p] EXCEPT !.data = copy[p]] \in Nodes
      BY Values
    <2>2. node' \in [Procs -> Nodes]
      BY <1>6, <2>1 DEF Write
    <2> QED  BY <1>6, <2>2 DEF Write
  <1>7. ASSUME NEW p \in Procs, Sync(p) PROVE StateFileTypeOK'
    BY <1>7 DEF Sync
  <1>8. ASSUME NEW p \in Procs, CallFails(p) PROVE StateFileTypeOK'
    BY <1>8 DEF CallFails
  <1>9. ASSUME NEW p \in Procs, Rename(p) PROVE StateFileTypeOK'
    BY <1>9 DEF Rename, SaveEnds
  <1>10. ASSUME NEW p \in Procs, Cleanup(p) PROVE StateFileTypeOK'
    BY <1>10 DEF Cleanup, SaveEnds
  <1>11. ASSUME NEW p \in Procs, Exit(p) PROVE StateFileTypeOK'
    BY <1>11 DEF Exit, Gone
  <1>12. ASSUME NEW p \in Procs, Kill(p) PROVE StateFileTypeOK'
    BY <1>12 DEF Kill, Gone
  <1>13. ASSUME NEW p \in Procs, NEW k \in Kinds, Start(p, k)
         PROVE  StateFileTypeOK'
    BY <1>13 DEF Start, TakesLock
  <1>14. CASE FlushDirectory
    BY <1>14 DEF FlushDirectory
  <1>15. CASE PowerLoss
    <2>1. \A f \in {file, durable} : Survivors(f) \subseteq Nodes \cup {Absent}
      BY DEF Survivors
    <2>2. file' \in Nodes \cup {Absent} /\ durable' \in Nodes \cup {Absent}
      BY <1>15, <2>1 DEF PowerLoss
    <2> QED  BY <1>15, <2>2 DEF PowerLoss
  <1> QED
    BY <1>1, <1>2, <1>3, <1>4, <1>5, <1>6, <1>7, <1>8, <1>9, <1>10, <1>11,
       <1>12, <1>13, <1>14, <1>15
      DEF Next, Step, SaveStep

\* The invariant is inductive.
LEMMA StateFileInvStep == StateFileInv /\ [Next]_vars => StateFileInv'
  <1>1. CASE Next
    BY <1>1, TypeStep, KindsFitStep, CountersFitStep, NodesFitStep,
       FilesWholeStep
    DEF StateFileInv
  <1>2. CASE UNCHANGED vars
    BY <1>2
    DEF vars, disk, StateFileInv, StateFileTypeOK, KindsFit, CountersFit,
        NodesFit, FilesWhole, WholeNode, At
  <1> QED  BY <1>1, <1>2

\* It holds always.
LEMMA StateFileInvHolds == Spec => []StateFileInv
  BY StateFileInvInit, StateFileInvStep, PTL DEF Spec

----------------------------------------------------------------------------
(* What follows from it.                                                   *)

\* For any number of processes: the types, and a lock that is held by a living
\* process and is never left behind by a killed one.
THEOREM StateFileTypeCorrect == Spec => []StateFileTypeOK
  <1>1. StateFileInv => StateFileTypeOK
    BY DEF StateFileInv
  <1> QED  BY <1>1, StateFileInvHolds, PTL

\* The state file is absent or a whole snapshot, through failing calls, kills
\* and power losses, with and without the lock.
THEOREM FileWholeCorrect == Spec => []FileWhole
  <1>1. StateFileInv => FileWhole
    BY MarksAssumption DEF StateFileInv, FilesWhole, WholeNode, FileWhole
  <1> QED  BY <1>1, StateFileInvHolds, PTL

\* Only a process that is not idle takes steps.
LEMMA SteppingIsLive == \A p \in Procs : Step(p) => ~At(p, "idle")
  BY DEF Step, SaveStep, LoadFails, Load, Remove, Work, Create, Write, Sync,
         CallFails, Rename, Cleanup, Exit, At

\* The commands that take the lock keep each other from the file.
THEOREM LockersExcludeCorrect == Spec => LockersExclude
  <1>1. StateFileInv /\ [Next]_vars =>
          [\A p, q \in Procs :
             (lock = p /\ q # p /\ kind[q] # "autotune" /\ Step(q))
               => file' = file]_vars
    BY SteppingIsLive DEF StateFileInv, StateFileTypeOK
  <1> QED  BY <1>1, StateFileInvHolds, PTL DEF Spec, LockersExclude

\* What a session does while it holds the lock, seen through the register.
LEMMA SessionStep ==
    ASSUME StateFileInv, NEW p \in Procs, kind[p] = "session",
           Step(p) \/ Kill(p)
    PROVE  Register!Next \/ UNCHANGED Register!vars
  <1>1. lock = p /\ p # None /\ kind \in [Procs -> Kinds \cup {None}]
        /\ pc \in [Procs -> Phases] /\ copy \in [Procs -> Snapshots]
    BY SteppingIsLive, StateFileAssumption
    DEF StateFileInv, StateFileTypeOK, Kill
  <1>2. SessionRuns <=> pc[p] \notin {"load", "end"}
    BY <1>1 DEF SessionRuns
  <1>3. ASSUME lock' = lock, kind' = kind
        PROVE  SessionRuns' <=> pc'[p] \notin {"load", "end"}
    BY <1>1, <1>3 DEF SessionRuns
  <1> SessionRuns \in BOOLEAN /\ SessionRuns' \in BOOLEAN
    BY DEF SessionRuns
  <1>4. CASE LoadFails(p)
    <2>1. ~SessionRuns /\ ~SessionRuns' /\ file' = file
      BY <1>1, <1>2, <1>3, <1>4 DEF LoadFails, At, Goto, disk
    <2>2. LiveCopy' = LiveCopy /\ FileData' = FileData
      BY <2>1 DEF LiveCopy, FileData
    <2> QED  BY <2>1, <2>2 DEF Register!vars
  <1>5. CASE Load(p)
    <2>1. ~SessionRuns /\ SessionRuns' /\ file' = file
      BY <1>1, <1>2, <1>3, <1>5 DEF Load, At, Goto, disk
    <2>2. LiveCopy' = Loaded
      BY <1>1, <1>5, <2>1 DEF Load, LiveCopy
    <2>3. Loaded = IF FileData = Absent THEN Fresh ELSE FileData
      BY AbsentAssumption, MarksAssumption
      DEF Loaded, FileData, StateFileInv, FilesWhole, WholeNode
    <2>4. Register!Start
      BY <2>1, <2>2, <2>3 DEF Register!Start, FileData
    <2> QED  BY <2>4 DEF Register!Next
  <1>6. CASE Work(p)
    <2>1. SessionRuns /\ SessionRuns' /\ file' = file
      BY <1>1, <1>2, <1>3, <1>6 DEF Work, At, Goto, disk
    <2>2. LiveCopy = copy[p] /\ LiveCopy' = copy'[p]
      BY <1>1, <1>6, <2>1 DEF Work, LiveCopy
    <2>3. copy'[p] \in {copy[p], Stepped(copy[p])}
      BY <1>1, <1>6 DEF Work
    <2>4. \A s \in Snapshots : Stepped(s) \in Snapshots
                            /\ s.iter >= s.iter /\ Stepped(s).iter >= s.iter
      BY StateFileAssumption DEF Snapshots, Stepped
    <2>5. LiveCopy' \in Snapshots /\ LiveCopy'.iter >= LiveCopy.iter
      BY <1>1, <2>2, <2>3, <2>4
    <2>6. Register!Advance
      BY <2>1, <2>5 DEF Register!Advance, FileData
    <2> QED  BY <2>6 DEF Register!Next
  <1>7. CASE Create(p) \/ Write(p) \/ Sync(p) \/ CallFails(p) \/ Cleanup(p)
    <2>1. SessionRuns /\ SessionRuns' /\ file' = file /\ copy' = copy
          /\ lock' = lock
      BY <1>1, <1>2, <1>3, <1>7
      DEF Create, Write, Sync, CallFails, Cleanup, SaveEnds, At, Goto, disk
    <2> QED  BY <2>1 DEF Register!vars, LiveCopy, FileData
  <1>8. CASE Rename(p)
    <2>1. SessionRuns /\ SessionRuns' /\ copy' = copy /\ lock' = lock
      BY <1>1, <1>2, <1>3, <1>8 DEF Rename, SaveEnds, At, Goto
    <2>2. LiveCopy' = LiveCopy /\ LiveCopy = copy[p] /\ copy[p] \in Snapshots
      BY <1>1, <2>1 DEF LiveCopy
    <2>3. file' \in Nodes /\ file'.data = copy[p]
      BY <1>8
      DEF Rename, At, StateFileInv, StateFileTypeOK, NodesFit
    <2>4. FileData' = LiveCopy'
      BY <2>2, <2>3, AbsentAssumption DEF FileData
    <2>5. LiveCopy.iter >= LiveCopy.iter
      BY <2>2, StateFileAssumption DEF Snapshots
    <2>6. Register!Advance
      BY <2>1, <2>2, <2>4, <2>5 DEF Register!Advance
    <2> QED  BY <2>6 DEF Register!Next
  <1>9. CASE Gone(p)
    <2>1. ~SessionRuns' /\ file' = file
      BY <1>1, <1>9 DEF Gone, SessionRuns, disk
    <2>2. FileData' = FileData /\ LiveCopy' = Fresh
      BY <2>1 DEF FileData, LiveCopy
    <2>3. CASE SessionRuns
      BY <2>1, <2>2, <2>3 DEF Register!Next, Register!End
    <2>4. CASE ~SessionRuns
      <3>1. LiveCopy' = LiveCopy
        BY <2>2, <2>4 DEF LiveCopy
      <3> QED  BY <2>1, <2>2, <2>4, <3>1 DEF Register!vars
    <2> QED  BY <2>3, <2>4
  <1>10. ~Remove(p)
    BY DEF Remove, At, StateFileInv, KindsFit
  <1> QED
    BY <1>4, <1>5, <1>6, <1>7, <1>8, <1>9, <1>10
    DEF Step, SaveStep, Exit, Kill

\* To a session, every save is one step of the register of DurableSnapshot,
\* however its system calls fail and wherever it is killed.
THEOREM SessionsUseRegisterCorrect == Spec => SessionsUseRegister
  <1>1. StateFileInv /\ [Next]_vars =>
          [(\E p \in Procs : kind[p] = "session" /\ (Step(p) \/ Kill(p)))
             => Register!Next \/ UNCHANGED Register!vars]_vars
    BY SessionStep
  <1> QED  BY <1>1, StateFileInvHolds, PTL DEF Spec, SessionsUseRegister

=============================================================================
