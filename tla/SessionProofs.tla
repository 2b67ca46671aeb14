--------------------------- MODULE SessionProofs ---------------------------
(***************************************************************************)
(* What ControllerSession guarantees for every choice of the constants of  *)
(* Session.tla: type correctness, that the snapshot names the CV confirmed *)
(* last and mirrors the core, and that the session implements the durable  *)
(* register, so that the file never goes back.                             *)
(***************************************************************************)
EXTENDS Session, TLAPS

----------------------------------------------------------------------------
(* The operators the actions are built from. *)

\* A saturating counter stays within its bound and never goes back.
LEMMA SaturatingIncBound ==
    ASSUME NEW max \in Nat, NEW n \in 0 .. max
    PROVE  /\ SaturatingInc(n, max) \in 0 .. max
           /\ SaturatingInc(n, max) >= n
  BY DEF SaturatingInc

\* last_cv.unwrap_or(0.0) is a CV.
LEMMA AppliedType ==
    ASSUME NEW cv \in OptCVs
    PROVE  Applied(cv) \in AppliedCVs
  BY DEF Applied, OptCVs, AppliedCVs

\* A save installs the snapshot it is given or leaves the file alone.
LEMMA SaveOutcome ==
    ASSUME NEW snap, ForceSave(snap) \/ Persist(snap)
    PROVE  disk' \in {disk, snap}
  BY DEF ForceSave, Persist, Save

\* Whatever becomes of a save, the persister's variables keep their types.
LEMMA SaveType ==
    ASSUME SessionTypeOK, NEW snap \in Snapshots,
           ForceSave(snap) \/ Persist(snap)
    PROVE  /\ disk' \in Snapshots \cup {NoFile}
           /\ fail_count' \in 0 .. FailMax
           /\ flush_age' \in Ages
  <1>1. CASE UNCHANGED <<disk, flush_age, fail_count>>
    BY <1>1 DEF SessionTypeOK
  <1>2. CASE Save(snap)
    BY <1>2, SaturatingIncBound, BoundsAssumption DEF Save, SessionTypeOK, Ages
  <1> QED  BY <1>1, <1>2 DEF ForceSave, Persist

\* A write leaves a CV, or nothing known, confirmed and on the actuator.
LEMMA WriteType ==
    ASSUME SessionTypeOK, NEW cv \in AppliedCVs, NEW r, WriteCv(cv, r)
    PROVE  confirmed' \in OptCVs /\ actuator' \in OptCVs
  BY DEF WriteCv, SessionTypeOK, OptCVs

----------------------------------------------------------------------------
(* Type correctness. *)

\* One clock step keeps the age of the last flush within its bound.
LEMMA FlushAgesType ==
    ASSUME SessionTypeOK, FlushAges
    PROVE  flush_age' \in Ages
  <1>1. CASE flush_age = None
    BY <1>1 DEF FlushAges, Ages
  <1>2. CASE flush_age \in 0 .. AgeCap
    BY <1>2, SetsAssumption, BoundsAssumption, SaturatingIncBound
       DEF FlushAges, Ages
  <1> QED  BY <1>1, <1>2 DEF SessionTypeOK, Ages

\* A tick leaves a controller and a snapshot of the declared shape.
LEMMA ProcessPvType ==
    ASSUME SessionTypeOK, NEW pv \in PVs, NEW i \in IAccs, NEW cv \in CVs,
           NEW r, ProcessPv(pv, i, cv, r)
    PROVE  SessionTypeOK'
  <1>1. controller' \in Controllers
    BY DEF SessionTypeOK, ProcessPv, Controllers, OptPVs, SkipReasons
  <1>2. CvAfter(cv, r) \in AppliedCVs
    BY AppliedType DEF CvAfter, SessionTypeOK, Snapshots, AppliedCVs
  <1>3. snapshot' \in Snapshots
    BY <1>1, <1>2, SaturatingIncBound, BoundsAssumption
       DEF ProcessPv, BuildSnapshot, SessionTypeOK, Snapshots, Controllers,
           OptCVs
  <1>4. confirmed' \in OptCVs /\ actuator' \in OptCVs
    BY WriteType DEF ProcessPv, AppliedCVs
  <1>5. /\ disk' \in Snapshots \cup {NoFile}
        /\ fail_count' \in 0 .. FailMax
        /\ flush_age' \in Ages
    BY <1>3, SaveType DEF ProcessPv
  <1> QED  BY <1>1, <1>3, <1>4, <1>5 DEF SessionTypeOK, ProcessPv

\* What Init, a start and the end of a process set is of the right type.
LEMMA Defaults ==
    /\ DefaultSnapshot \in Snapshots
    /\ NoController \in Controllers
    /\ None \in Ages /\ None \in OptCVs
    /\ 0 \in 0 .. FailMax
  <1>1. DefaultSnapshot \in Snapshots
    BY SetsAssumption, BoundsAssumption
       DEF DefaultSnapshot, Snapshots, OptConfigs, OptCVs, OptPVs
  <1>2. NoController \in Controllers
    BY SetsAssumption
       DEF NoController, Controllers, OptConfigs, OptPVs, SkipReasons
  <1>3. None \in Ages /\ None \in OptCVs
    BY DEF Ages, OptCVs
  <1>4. 0 \in 0 .. FailMax
    BY BoundsAssumption
  <1> QED  BY <1>1, <1>2, <1>3, <1>4

\* A process starts from the file or from defaults.
LEMMA NewType ==
    ASSUME SessionTypeOK, NEW c \in Configs, NEW f \in FlushIntervals,
           NEW r \in BOOLEAN, New(c, f, r)
    PROVE  SessionTypeOK'
  <1>1. snapshot' \in Snapshots
    BY Defaults DEF New, Loaded, SessionTypeOK
  <1>2. controller' \in Controllers
    BY <1>1, SetsAssumption
       DEF New, Controllers, Snapshots, OptConfigs, SkipReasons
  <1> QED  BY <1>1, <1>2, Defaults, Zenon DEF New, SessionTypeOK

\* The end of a process leaves the state of no session.
LEMMA StopType ==
    ASSUME SessionTypeOK, Stop
    PROVE  SessionTypeOK'
  BY Defaults, Zenon DEF Stop, SessionTypeOK

\* A safe CV, taken by the sink or not, leaves a snapshot of its declared shape.
LEMMA WriteSafeCvType ==
    ASSUME SessionTypeOK, NEW cv \in CVs, NEW r, WriteSafeCv(cv, r)
    PROVE  SessionTypeOK'
  <1>1. snapshot' \in Snapshots
    BY DEF WriteSafeCv, SessionTypeOK, Snapshots, OptCVs, AppliedCVs
  <1>2. confirmed' \in OptCVs /\ actuator' \in OptCVs
    BY WriteType DEF WriteSafeCv, AppliedCVs
  <1>3. /\ disk' \in Snapshots \cup {NoFile}
        /\ fail_count' \in 0 .. FailMax
        /\ flush_age' \in Ages
    BY <1>1, SaveType DEF WriteSafeCv, SessionTypeOK
  <1> QED  BY <1>1, <1>2, <1>3 DEF SessionTypeOK, WriteSafeCv

\* A hold tick writes the CV that is there again, and changes no snapshot.
LEMMA HoldTickWriteType ==
    ASSUME SessionTypeOK, NEW r, HoldTickWrite(r)
    PROVE  SessionTypeOK'
  <1>1. Applied(snapshot.last_cv) \in AppliedCVs
    BY AppliedType DEF SessionTypeOK, Snapshots
  <1>2. confirmed' \in OptCVs /\ actuator' \in OptCVs
    BY <1>1, WriteType DEF HoldTickWrite
  <1>3. /\ disk' \in Snapshots \cup {NoFile}
        /\ fail_count' \in 0 .. FailMax
        /\ flush_age' \in Ages
    BY SaveType DEF HoldTickWrite, SessionTypeOK
  <1> QED  BY <1>2, <1>3 DEF SessionTypeOK, HoldTickWrite

\* The other operations, which touch at most the mirror and the file.
LEMMA OperationType ==
    ASSUME SessionTypeOK,
           \/ \E c \in Configs : SetConfig(c)
           \/ ResetIntegral
           \/ \E f \in FlushIntervals : SetFlushInterval(f)
           \/ OnDtSkipped
           \/ ForceFlush
           \/ Elapse
    PROVE  SessionTypeOK'
  <1>1. ASSUME NEW c \in Configs, SetConfig(c) PROVE SessionTypeOK'
    BY <1>1 DEF SetConfig, SessionTypeOK, persister, history, Controllers,
                Snapshots, OptConfigs
  <1>2. CASE ResetIntegral
    BY <1>2, SetsAssumption DEF ResetIntegral, SessionTypeOK, persister,
                                Controllers, Snapshots, SkipReasons
  <1>3. ASSUME NEW f \in FlushIntervals, SetFlushInterval(f)
        PROVE  SessionTypeOK'
    BY <1>3 DEF SetFlushInterval, SessionTypeOK, history
  <1>4. CASE OnDtSkipped
    <2>1. controller' \in Controllers
      BY <1>4 DEF OnDtSkipped, SessionTypeOK, Controllers, SkipReasons
    <2> QED  BY <1>4, <2>1, SaveType DEF OnDtSkipped, SessionTypeOK, history
  <1>5. CASE ForceFlush
    BY <1>5, SaveType DEF ForceFlush, SessionTypeOK, history
  <1>6. CASE Elapse
    BY <1>6, FlushAgesType DEF Elapse, SessionTypeOK, history
  <1> QED  BY <1>1, <1>2, <1>3, <1>4, <1>5, <1>6

\* Before the first process every variable is in its set.
LEMMA SessionTypeInit == SessionInit => SessionTypeOK
  BY Defaults, Zenon DEF SessionInit, SessionTypeOK

\* Each method of the session keeps every variable in its set.
LEMMA SessionTypeStep ==
    SessionTypeOK /\ [SessionNext]_sessionVars => SessionTypeOK'
  <1> SUFFICES ASSUME SessionTypeOK, [SessionNext]_sessionVars
               PROVE  SessionTypeOK'
    OBVIOUS
  <1>1. CASE SessionNext
    BY <1>1, NewType, StopType, ProcessPvType, WriteSafeCvType,
       HoldTickWriteType, OperationType DEF SessionNext
  <1>2. CASE UNCHANGED sessionVars
    BY <1>2 DEF sessionVars, persister, history, SessionTypeOK
  <1> QED  BY <1>1, <1>2

\* Every operation, in every order, keeps every variable in its set.
THEOREM SessionTypeCorrect == SessionSpec => []SessionTypeOK
  BY SessionTypeInit, SessionTypeStep, PTL DEF SessionSpec

----------------------------------------------------------------------------
(* The snapshot and the actuator.  A dry run is left out: its sink accepts *)
(* what it does not write, and last_cv is then the last computed value.    *)

\* Each method keeps last_cv equal to the confirmed CV: what moves one of the
\* two moves the other, or no CV of this process is confirmed yet.
LEMMA LastCvStep ==
    ASSUME "dry" \notin SinkResults
    PROVE  SessionTypeOK /\ LastCvConfirmed /\ [SessionNext]_sessionVars
               => LastCvConfirmed'
  <1> SUFFICES ASSUME SessionTypeOK, LastCvConfirmed, [SessionNext]_sessionVars
               PROVE  LastCvConfirmed'
    OBVIOUS
  <1>1. ASSUME NEW cv \in CVs PROVE Applied(cv) = cv
    BY SetsAssumption DEF Applied
  <1>2. ASSUME NEW c \in Configs, NEW f \in FlushIntervals, NEW r \in BOOLEAN,
               New(c, f, r)
        PROVE  LastCvConfirmed'
    BY <1>2 DEF New, LastCvConfirmed, Wrote
  <1>3. CASE Stop
    BY <1>3 DEF Stop, LastCvConfirmed
  <1>4. ASSUME NEW c \in Configs, SetConfig(c) PROVE LastCvConfirmed'
    BY <1>4 DEF SetConfig, history, LastCvConfirmed, Wrote, SessionTypeOK,
                Snapshots
  <1>5. CASE ResetIntegral
    BY <1>5 DEF ResetIntegral, LastCvConfirmed, Wrote, SessionTypeOK, Snapshots
  <1>6. ASSUME NEW pv \in PVs, NEW i \in IAccs, NEW cv \in CVs,
               NEW r \in SinkResults, ProcessPv(pv, i, cv, r)
        PROVE  LastCvConfirmed'
    <2>1. snapshot'.last_cv = CvAfter(cv, r)
      BY <1>6 DEF ProcessPv, BuildSnapshot
    <2>2. CASE r = "err"
      <3>1. snapshot'.last_cv = Applied(snapshot.last_cv)
        BY <2>1, <2>2 DEF CvAfter, Ok
      <3>2. Applied(snapshot'.last_cv) = Applied(snapshot.last_cv)
        BY <3>1, SetsAssumption DEF Applied
      <3> QED  BY <1>6, <2>2, <3>2
               DEF ProcessPv, WriteCv, LastCvConfirmed, Wrote
    <2>3. CASE r = "ok"
      BY <1>1, <1>6, <2>1, <2>3
         DEF ProcessPv, CvAfter, Ok, WriteCv, LastCvConfirmed, Wrote
    <2> QED  BY <2>2, <2>3, SwitchAssumption
  <1>7. ASSUME NEW cv \in CVs, NEW r \in SinkResults, WriteSafeCv(cv, r)
        PROVE  LastCvConfirmed'
    <2>1. CASE r = "err"
      BY <1>7, <2>1 DEF WriteSafeCv, Ok, WriteCv, LastCvConfirmed, Wrote
    <2>2. CASE r = "ok"
      BY <1>1, <1>7, <2>2
         DEF WriteSafeCv, Ok, WriteCv, LastCvConfirmed, Wrote, SessionTypeOK,
             Snapshots
    <2> QED  BY <2>1, <2>2, SwitchAssumption
  <1>8. ASSUME NEW r \in SinkResults, HoldTickWrite(r) PROVE LastCvConfirmed'
    BY <1>8 DEF HoldTickWrite, WriteCv, LastCvConfirmed, Wrote
  <1>9. CASE \/ \E f \in FlushIntervals : SetFlushInterval(f)
             \/ OnDtSkipped \/ ForceFlush \/ Elapse \/ UNCHANGED sessionVars
    BY <1>9 DEF SetFlushInterval, OnDtSkipped, ForceFlush, Elapse, sessionVars,
                history, LastCvConfirmed, Wrote
  <1> QED  BY <1>2, <1>3, <1>4, <1>5, <1>6, <1>7, <1>8, <1>9 DEF SessionNext

\* Once a process has had a CV confirmed, last_cv is the CV confirmed last, and
\* the actuator has it unless a write that failed has reached it.
THEOREM LastCvCorrect ==
    ASSUME "dry" \notin SinkResults
    PROVE  SessionSpec => []LastCvConfirmed
  <1>1. SessionInit => LastCvConfirmed
    BY DEF SessionInit, LastCvConfirmed
  <1>2. SessionTypeOK /\ LastCvConfirmed /\ [SessionNext]_sessionVars
            => LastCvConfirmed'
    BY LastCvStep
  <1> QED  BY <1>1, <1>2, SessionTypeCorrect, PTL DEF SessionSpec

----------------------------------------------------------------------------
(* The snapshot and the core. *)

\* Each method changes the controller and its mirror in the snapshot together.
LEMMA CoreMirroredStep ==
    SessionTypeOK /\ CoreMirrored /\ [SessionNext]_sessionVars => CoreMirrored'
  <1> SUFFICES ASSUME SessionTypeOK, CoreMirrored, [SessionNext]_sessionVars
               PROVE  CoreMirrored'
    OBVIOUS
  <1>1. ASSUME NEW c \in Configs, NEW f \in FlushIntervals, NEW r \in BOOLEAN,
               New(c, f, r)
        PROVE  CoreMirrored'
    BY <1>1 DEF New, CoreMirrored
  <1>2. CASE Stop
    BY <1>2 DEF Stop, CoreMirrored
  <1>3. ASSUME NEW c \in Configs, SetConfig(c) PROVE CoreMirrored'
    BY <1>3 DEF SetConfig, history, CoreMirrored, SessionTypeOK, Snapshots,
                Controllers
  <1>4. CASE ResetIntegral
    BY <1>4 DEF ResetIntegral, CoreMirrored, SessionTypeOK, Snapshots,
                Controllers
  <1>5. ASSUME NEW pv \in PVs, NEW i \in IAccs, NEW cv \in CVs,
               NEW r \in SinkResults, ProcessPv(pv, i, cv, r)
        PROVE  CoreMirrored'
    BY <1>5 DEF ProcessPv, BuildSnapshot, CoreMirrored
  <1>6. CASE OnDtSkipped
    BY <1>6 DEF OnDtSkipped, history, CoreMirrored, SessionTypeOK, Controllers
  <1>7. ASSUME NEW cv \in CVs, NEW r \in SinkResults, WriteSafeCv(cv, r)
        PROVE  CoreMirrored'
    BY <1>7 DEF WriteSafeCv, CoreMirrored, SessionTypeOK, Snapshots
  <1>8. CASE \/ \E f \in FlushIntervals : SetFlushInterval(f)
             \/ \E r \in SinkResults : HoldTickWrite(r)
             \/ ForceFlush \/ Elapse \/ UNCHANGED sessionVars
    BY <1>8 DEF SetFlushInterval, HoldTickWrite, ForceFlush, Elapse,
                sessionVars, history, CoreMirrored
  <1> QED  BY <1>1, <1>2, <1>3, <1>4, <1>5, <1>6, <1>7, <1>8 DEF SessionNext

\* The snapshot never drifts from the controller it is saved for.
THEOREM CoreMirroredCorrect == SessionSpec => []CoreMirrored
  <1>1. SessionInit => CoreMirrored
    BY DEF SessionInit, CoreMirrored
  <1> QED  BY <1>1, CoreMirroredStep, SessionTypeCorrect, PTL DEF SessionSpec

----------------------------------------------------------------------------
(* The session implements the durable register.                            *)

\* An operation that does not start or end the process moves the live
\* snapshot forward, and the file stays or takes it up.
LEMMA AdvanceStep ==
    ASSUME SessionTypeOK, up, up', snapshot' \in Snapshots,
           snapshot'.iter >= snapshot.iter, disk' \in {disk, snapshot'},
           up' \in BOOLEAN
    PROVE  Register!Advance
  BY DEF Register!Advance, SessionTypeOK

\* A method that leaves iter alone has not taken it back.
LEMMA SameIter ==
    ASSUME SessionTypeOK, snapshot'.iter = snapshot.iter
    PROVE  snapshot'.iter >= snapshot.iter
  BY BoundsAssumption DEF SessionTypeOK, Snapshots

\* Each method is a step of the abstract register: New is its Start, Stop its
\* End, every other method an Advance, and time passing a stutter.
LEMMA RegisterStep ==
    SessionTypeOK /\ SessionTypeOK' /\ [SessionNext]_sessionVars
        => [Register!Next]_Register!vars
  <1> SUFFICES ASSUME SessionTypeOK, SessionTypeOK', [SessionNext]_sessionVars
               PROVE  Register!Next \/ UNCHANGED Register!vars
    OBVIOUS
  <1> USE DEF Register!Next
  <1>1. ASSUME NEW c \in Configs, NEW f \in FlushIntervals, NEW r \in BOOLEAN,
               New(c, f, r)
        PROVE  Register!Start
    BY <1>1 DEF New, Loaded, Register!Start
  <1>2. CASE Stop
    BY <1>2 DEF Stop, Register!End
  <1>3. ASSUME NEW c \in Configs, SetConfig(c) PROVE Register!Advance
    <2>1. snapshot'.iter = snapshot.iter
      BY <1>3 DEF SetConfig, SessionTypeOK, Snapshots
    <2> QED  BY <1>3, <2>1, SameIter, AdvanceStep
             DEF SetConfig, persister, SessionTypeOK
  <1>4. CASE ResetIntegral
    <2>1. snapshot'.iter = snapshot.iter
      BY <1>4 DEF ResetIntegral, SessionTypeOK, Snapshots
    <2> QED  BY <1>4, <2>1, SameIter, AdvanceStep
             DEF ResetIntegral, persister, SessionTypeOK
  <1>5. ASSUME NEW pv \in PVs, NEW i \in IAccs, NEW cv \in CVs,
               NEW r \in SinkResults, ProcessPv(pv, i, cv, r)
        PROVE  Register!Advance
    <2>1. snapshot'.iter >= snapshot.iter
      BY <1>5, SaturatingIncBound, BoundsAssumption
         DEF ProcessPv, BuildSnapshot, SessionTypeOK, Snapshots
    <2>2. disk' \in {disk, snapshot'}
      BY <1>5, SaveOutcome DEF ProcessPv
    <2> QED  BY <1>5, <2>1, <2>2, AdvanceStep DEF ProcessPv, SessionTypeOK
  <1>6. CASE OnDtSkipped
    <2>1. disk' \in {disk, snapshot'}
      BY <1>6, SaveOutcome DEF OnDtSkipped
    <2> QED  BY <1>6, <2>1, SameIter, AdvanceStep DEF OnDtSkipped, SessionTypeOK
  <1>7. ASSUME NEW cv \in CVs, NEW r \in SinkResults, WriteSafeCv(cv, r)
        PROVE  Register!Advance
    <2>1. snapshot'.iter = snapshot.iter
      BY <1>7 DEF WriteSafeCv, SessionTypeOK, Snapshots
    <2>2. disk' \in {disk, snapshot'}
      BY <1>7, SaveOutcome DEF WriteSafeCv
    <2> QED  BY <1>7, <2>1, <2>2, SameIter, AdvanceStep
             DEF WriteSafeCv, SessionTypeOK
  <1>8. ASSUME NEW r \in SinkResults, HoldTickWrite(r) PROVE Register!Advance
    <2>1. disk' \in {disk, snapshot'}
      BY <1>8, SaveOutcome DEF HoldTickWrite
    <2> QED  BY <1>8, <2>1, SameIter, AdvanceStep
             DEF HoldTickWrite, SessionTypeOK
  <1>9. CASE ForceFlush
    <2>1. disk' \in {disk, snapshot'}
      BY <1>9, SaveOutcome DEF ForceFlush
    <2> QED  BY <1>9, <2>1, SameIter, AdvanceStep DEF ForceFlush, SessionTypeOK
  <1>10. CASE \/ \E f \in FlushIntervals : SetFlushInterval(f)
              \/ Elapse \/ UNCHANGED sessionVars
    BY <1>10 DEF SetFlushInterval, Elapse, sessionVars, persister,
                 Register!vars
  <1> QED  BY <1>1, <1>2, <1>3, <1>4, <1>5, <1>6, <1>7, <1>8, <1>9, <1>10
           DEF SessionNext

\* Over any operations, failures and crashes, the file is a register that a
\* process loads at its start and that takes up whole live snapshots.
THEOREM SessionImplementsRegister == SessionSpec => RegisterSpec
  <1>1. SessionInit => Register!Init
    BY DEF SessionInit, Register!Init
  <1> QED  BY <1>1, RegisterStep, SessionTypeCorrect, PTL
           DEF SessionSpec, RegisterSpec, Register!Spec

----------------------------------------------------------------------------
(* The file never goes back.                                               *)

\* The strengthening: the file is never ahead of the running process, whose
\* snapshot an older file would otherwise be replaced by.
FileBehind == (up /\ disk # NoFile) => disk.iter <= snapshot.iter

\* The file is never ahead of the live snapshot: it holds an earlier one.
LEMMA FileBehindStep ==
    SessionTypeOK /\ SessionTypeOK' /\ FileBehind /\ [Register!Next]_Register!vars
        => FileBehind'
  <1> SUFFICES ASSUME SessionTypeOK, SessionTypeOK', FileBehind,
                      Register!Next \/ UNCHANGED Register!vars
               PROVE  FileBehind'
    OBVIOUS
  <1>1. /\ snapshot.iter \in Nat /\ snapshot'.iter \in Nat
        /\ disk # NoFile => disk.iter \in Nat
    BY BoundsAssumption DEF SessionTypeOK, Snapshots
  <1>2. CASE Register!Start
    BY <1>1, <1>2 DEF Register!Start, FileBehind
  <1>3. CASE Register!Advance
    BY <1>1, <1>3 DEF Register!Advance, FileBehind
  <1>4. CASE Register!End
    BY <1>4 DEF Register!End, FileBehind
  <1>5. CASE UNCHANGED Register!vars
    BY <1>5 DEF Register!vars, FileBehind
  <1> QED  BY <1>2, <1>3, <1>4, <1>5 DEF Register!Next

\* A step that writes the file installs a snapshot that is not behind it.
LEMMA FileStep ==
    SessionTypeOK /\ SessionTypeOK' /\ FileBehind /\ [Register!Next]_Register!vars
        => [disk # NoFile => disk' # NoFile /\ disk'.iter >= disk.iter]_Register!vars
  <1> SUFFICES ASSUME SessionTypeOK, SessionTypeOK', FileBehind, Register!Next,
                      disk # NoFile
               PROVE  disk' # NoFile /\ disk'.iter >= disk.iter
    OBVIOUS
  <1>1. /\ snapshot.iter \in Nat /\ snapshot'.iter \in Nat
        /\ disk.iter \in Nat /\ snapshot' # NoFile
    BY BoundsAssumption, NoFileAssumption DEF SessionTypeOK, Snapshots
  <1>2. CASE Register!Start \/ Register!End
    BY <1>1, <1>2 DEF Register!Start, Register!End
  <1>3. CASE Register!Advance
    BY <1>1, <1>3 DEF Register!Advance, FileBehind
  <1> QED  BY <1>2, <1>3 DEF Register!Next

\* The iteration count in the file never goes back, whatever crashes.
THEOREM FileNeverGoesBack == SessionSpec => FileNeverRegresses
  <1>1. SessionInit => FileBehind
    BY DEF SessionInit, FileBehind
  <1> QED  BY <1>1, FileBehindStep, FileStep, RegisterStep, SessionTypeCorrect,
              PTL
           DEF SessionSpec, FileNeverRegresses, Register!NeverRegresses
=============================================================================
