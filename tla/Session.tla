------------------------------ MODULE Session ------------------------------
(***************************************************************************)
(* ControllerSession (app/mod.rs) with the parts it owns: the bookkeeping  *)
(* of PidController that survives a tick (pid-ctl-core), the in-memory     *)
(* StateSnapshot and the SnapshotPersister that coalesces writes of it to  *)
(* the state file.                                                         *)
(*                                                                         *)
(* Every public method is one action.  The caller is any program: loop,    *)
(* once, pipe and tune call the methods in their own orders, so here they  *)
(* come in every order; Loop.tla composes these actions into the order     *)
(* that `loop` uses.  What the control law computes is left open: a step   *)
(* may produce any CV and any accumulator (PidController.tla has the       *)
(* arithmetic).  A save is one step because StateStore::save commits by a  *)
(* rename: it installs the whole snapshot or leaves the file as it was.    *)
(* A crash between the actuator write and the save has the same outcome as *)
(* a failed save followed by a crash, so a tick is one action too.         *)
(***************************************************************************)
EXTENDS Integers

CONSTANTS
    CVs,            \* control values the law and --safe-cv can produce
    PVs,            \* filtered process values a step can record
    Configs,        \* settable parameter vectors: kp, ki, kd, setpoint
    IAccs,          \* values of the integral accumulator
    FlushIntervals, \* values of SnapshotPersister.flush_interval
    HasStore,       \* was --state given?
    SinkResults,    \* what a write_cv may do: "ok", "err", or "dry"
    IterMax,        \* bound standing for u64::MAX, where iter saturates
    FailMax,        \* bound standing for u32::MAX, where fail_count saturates
    AgeCap,         \* bound: the age of a flush is not told apart beyond it
    None,           \* Option::None
    NoFile          \* the state file does not exist

ASSUME SetsAssumption ==
    /\ CVs \subseteq Int /\ None \notin Int
    /\ 0 \in IAccs
    /\ None \notin PVs /\ None \notin Configs
    /\ FlushIntervals \subseteq Nat \cup {None}

ASSUME BoundsAssumption ==
    /\ IterMax \in Nat /\ FailMax \in Nat \ {0} /\ AgeCap \in Nat
    /\ \A f \in FlushIntervals : f # None => f <= AgeCap

ASSUME SwitchAssumption ==
    HasStore \in BOOLEAN /\ SinkResults \subseteq {"ok", "err", "dry"}

VARIABLES
    up,             \* does a ControllerSession exist in a running process?
    controller,     \* PidController: config, i_acc, last_pv, D-term skip mark
    snapshot,       \* ControllerSession.snapshot
    flush_interval, \* SnapshotPersister.flush_interval
    flush_age,      \* time since SnapshotPersister.last_flush, None before one
    fail_count,     \* SnapshotPersister.fail_count
    disk,           \* the state file: NoFile or a whole StateSnapshot
    confirmed,      \* history: last CV a sink confirmed to this process, or None
    actuator,       \* history: the CV this process put there, None if not known
    resetAtStart    \* history: --reset-accumulator given and no step since

persister == <<flush_interval, flush_age, fail_count, disk>>
history == <<confirmed, actuator, resetAtStart>>
sessionVars == <<up, controller, snapshot, persister, history>>

----------------------------------------------------------------------------
(* Values. *)

AppliedCVs == CVs \cup {0}
SkipReasons == {"none", "post_dt_skip", "post_reset"}
OptConfigs == Configs \cup {None}
OptCVs == AppliedCVs \cup {None}
OptPVs == PVs \cup {None}
Ages == (0 .. AgeCap) \cup {None}

Controllers == [config : OptConfigs, i_acc : IAccs, last_pv : OptPVs,
                skip : SkipReasons]
Snapshots == [config : OptConfigs, i_acc : IAccs, last_cv : OptCVs,
              last_pv : OptPVs, iter : 0 .. IterMax]

ASSUME NoFileAssumption == NoFile \notin Snapshots

\* StateSnapshot::default().
DefaultSnapshot ==
    [config |-> None, i_acc |-> 0, last_cv |-> None, last_pv |-> None,
     iter |-> 0]

NoController ==
    [config |-> None, i_acc |-> 0, last_pv |-> None, skip |-> "none"]

\* last_cv.unwrap_or(0.0): the CV the core is told was applied last.
Applied(cv) == IF cv = None THEN 0 ELSE cv

SaturatingInc(n, max) == IF n < max THEN n + 1 ELSE max

----------------------------------------------------------------------------
(* SnapshotPersister. *)

Coalesced ==
    /\ flush_interval # None
    /\ flush_age # None
    /\ flush_age < flush_interval

\* Mutant: the file is written in place, and a failed write leaves none.
SaveInPlace(snap) ==
    \/ disk' = snap /\ fail_count' = 0 /\ flush_age' = 0
    \/ /\ disk' = NoFile
       /\ fail_count' = SaturatingInc(fail_count, FailMax)
       /\ UNCHANGED flush_age

\* store.save(snap): the rename happened, or the file is untouched.
Save(snap) ==
    \/ /\ disk' = snap
       /\ fail_count' = 0
       /\ flush_age' = 0
    \/ /\ fail_count' = SaturatingInc(fail_count, FailMax)
       /\ UNCHANGED <<disk, flush_age>>

\* Mutant: a forced save is coalesced like any other.
SaveUnlessCoalesced(snap) ==
    IF HasStore /\ ~Coalesced THEN Save(snap)
                              ELSE UNCHANGED <<disk, flush_age, fail_count>>

ForceSave(snap) ==
    IF HasStore THEN Save(snap) ELSE UNCHANGED <<disk, flush_age, fail_count>>

\* Mutant: a save that is coalesced starts the flush interval again.
PersistPutsOff(snap) ==
    IF Coalesced THEN flush_age' = 0 /\ UNCHANGED <<disk, fail_count>>
                 ELSE ForceSave(snap)

Persist(snap) ==
    IF Coalesced THEN UNCHANGED <<disk, flush_age, fail_count>>
                 ELSE ForceSave(snap)

----------------------------------------------------------------------------
(* CvSink::write_cv: "ok", the sink confirmed the value; "err", it failed;  *)
(* "dry", a DryRunCvSink, which answers Ok and writes nothing.              *)

Ok(result) == result # "err"

\* A write that failed may have reached the actuator before it did: the file
\* sink verifies what it has written already, and a command may set the device
\* and then time out or exit non-zero.  What is there now is not known.
WriteCv(cv, result) ==
    \/ /\ result = "ok"
       /\ confirmed' = cv /\ actuator' = cv
    \/ /\ result = "err"
       /\ actuator' \in {actuator, None}
       /\ UNCHANGED confirmed
    \/ result = "dry" /\ UNCHANGED <<confirmed, actuator>>

\* Has this process had a CV confirmed?
Wrote == confirmed # None

----------------------------------------------------------------------------
(* Methods of ControllerSession. *)

\* Mutant: the state file is never read back.
NeverLoaded == DefaultSnapshot

\* store.load().unwrap_or_default().
Loaded == IF disk = NoFile THEN DefaultSnapshot ELSE disk

\* ControllerSession::new: load the file, restore the controller from it, and
\* clear the controller's accumulator when --reset-accumulator was given.
New(config, interval, reset) ==
    /\ ~up
    /\ up' = TRUE
    /\ snapshot' = Loaded
    /\ controller' = [config |-> config,
                      i_acc |-> IF reset THEN 0 ELSE snapshot'.i_acc,
                      last_pv |-> snapshot'.last_pv,
                      skip |-> IF reset THEN "post_reset" ELSE "none"]
    /\ flush_interval' = interval
    /\ flush_age' = None
    /\ fail_count' = 0
    /\ confirmed' = None /\ actuator' = None
    /\ resetAtStart' = reset
    /\ UNCHANGED disk

\* The process ends, by return or by SIGKILL: only the file outlives it.
Stop ==
    /\ up
    /\ up' = FALSE
    /\ snapshot' = DefaultSnapshot
    /\ controller' = NoController
    /\ flush_interval' = None /\ flush_age' = None /\ fail_count' = 0
    /\ resetAtStart' = FALSE
    /\ UNCHANGED <<disk, confirmed, actuator>>

\* set_gains and set_setpoint: mirrored into the snapshot, not persisted.
SetConfig(config) ==
    /\ up
    /\ controller' = [controller EXCEPT !.config = config]
    /\ snapshot' = [snapshot EXCEPT !.config = config]
    /\ UNCHANGED <<up, persister, history>>

\* Mutant: the snapshot keeps the accumulator the core has dropped.
ResetCoreOnly ==
    /\ up
    /\ controller' = [controller EXCEPT !.i_acc = 0, !.skip = "post_reset"]
    /\ resetAtStart' = FALSE
    /\ UNCHANGED <<up, snapshot, persister, confirmed, actuator>>

ResetIntegral ==
    /\ up
    /\ controller' = [controller EXCEPT !.i_acc = 0, !.skip = "post_reset"]
    /\ snapshot' = [snapshot EXCEPT !.i_acc = 0]
    /\ resetAtStart' = FALSE
    /\ UNCHANGED <<up, persister, confirmed, actuator>>

SetFlushInterval(interval) ==
    /\ up
    /\ flush_interval' = interval
    /\ UNCHANGED <<up, controller, snapshot, flush_age, fail_count, disk,
                   history>>

\* Mutant: the CV that was computed, whether or not the sink took it.
ComputedCv(cv, result) == cv

\* The CV process_pv records: on a failed write the one it recorded before.
CvAfter(cv, result) == IF Ok(result) THEN cv ELSE Applied(snapshot.last_cv)

BuildSnapshot(ctl, applied) ==
    [config |-> ctl.config, i_acc |-> ctl.i_acc, last_cv |-> applied,
     last_pv |-> ctl.last_pv, iter |-> SaturatingInc(snapshot.iter, IterMax)]

\* process_pv: step the core, write the CV, rebuild the snapshot with the CV
\* that is now taken as applied, persist.
ProcessPv(pv, i_acc, cv, result) ==
    /\ up
    /\ controller' = [controller EXCEPT !.i_acc = i_acc, !.last_pv = pv,
                                        !.skip = "none"]
    /\ WriteCv(cv, result)
    /\ snapshot' = BuildSnapshot(controller', CvAfter(cv, result))
    /\ Persist(snapshot')
    /\ resetAtStart' = FALSE
    /\ UNCHANGED <<up, flush_interval>>

\* on_dt_skipped: the next D term is unreliable; iter does not advance.
OnDtSkipped ==
    /\ up
    /\ controller' = [controller EXCEPT !.skip = "post_dt_skip"]
    /\ Persist(snapshot)
    /\ UNCHANGED <<up, snapshot, flush_interval, history>>

\* write_safe_cv: record_confirmed_cv runs only when the sink accepted it.
WriteSafeCv(cv, result) ==
    /\ up
    /\ WriteCv(cv, result)
    /\ IF Ok(result)
       THEN snapshot' = [snapshot EXCEPT !.last_cv = cv] /\ Persist(snapshot')
       ELSE UNCHANGED <<snapshot, disk, flush_age, fail_count>>
    /\ UNCHANGED <<up, controller, flush_interval, resetAtStart>>

\* hold_tick_write, with the CV its one caller passes: the last applied one.
HoldTickWrite(result) ==
    /\ up
    /\ WriteCv(Applied(snapshot.last_cv), result)
    /\ IF Ok(result) THEN Persist(snapshot)
                     ELSE UNCHANGED <<disk, flush_age, fail_count>>
    /\ UNCHANGED <<up, controller, snapshot, flush_interval, resetAtStart>>

ForceFlush ==
    /\ up
    /\ ForceSave(snapshot)
    /\ UNCHANGED <<up, controller, snapshot, flush_interval, history>>

\* One unit of time passes.
FlushAges ==
    flush_age' = IF flush_age = None THEN None
                                     ELSE SaturatingInc(flush_age, AgeCap)

Elapse ==
    /\ up
    /\ FlushAges
    /\ UNCHANGED <<up, controller, snapshot, flush_interval, fail_count, disk,
                   history>>

----------------------------------------------------------------------------

SessionInit ==
    /\ up = FALSE
    /\ controller = NoController
    /\ snapshot = DefaultSnapshot
    /\ flush_interval = None
    /\ flush_age = None
    /\ fail_count = 0
    /\ disk = NoFile
    /\ confirmed = None /\ actuator = None
    /\ resetAtStart = FALSE

SessionNext ==
    \/ \E c \in Configs, f \in FlushIntervals, r \in BOOLEAN : New(c, f, r)
    \/ Stop
    \/ \E c \in Configs : SetConfig(c)
    \/ ResetIntegral
    \/ \E f \in FlushIntervals : SetFlushInterval(f)
    \/ \E pv \in PVs, i \in IAccs, cv \in CVs, r \in SinkResults :
           ProcessPv(pv, i, cv, r)
    \/ OnDtSkipped
    \/ \E cv \in CVs, r \in SinkResults : WriteSafeCv(cv, r)
    \/ \E r \in SinkResults : HoldTickWrite(r)
    \/ ForceFlush
    \/ Elapse

SessionSpec == SessionInit /\ [][SessionNext]_sessionVars

----------------------------------------------------------------------------
(* Properties. *)

\* Every variable stays in the set its declaration describes.
SessionTypeOK ==
    /\ up \in BOOLEAN
    /\ controller \in Controllers
    /\ snapshot \in Snapshots
    /\ flush_interval \in FlushIntervals \cup {None}
    /\ flush_age \in Ages
    /\ fail_count \in 0 .. FailMax
    /\ disk \in Snapshots \cup {NoFile}
    /\ confirmed \in OptCVs /\ actuator \in OptCVs
    /\ resetAtStart \in BOOLEAN

\* Once this process has had a CV confirmed, the CV that slew limiting,
\* back-calculation and hold take as applied is the one that was confirmed
\* last: failed writes, safe CVs and holds in any order never make them differ.
\* The actuator has that CV too, unless a write that failed has reached it.
LastCvConfirmed ==
    (up /\ Wrote) => /\ Applied(snapshot.last_cv) = confirmed
                     /\ actuator \in {confirmed, None}

\* What the core restores from is what it holds: the snapshot never drifts
\* from the controller it mirrors, except for the accumulator between a start
\* with --reset-accumulator and the first step or reset.
CoreMirrored ==
    up => /\ snapshot.last_pv = controller.last_pv
          /\ resetAtStart \/ snapshot.i_acc = controller.i_acc

\* Session implements the abstract register of DurableSnapshot.tla.
Register == INSTANCE DurableSnapshot WITH
    Values <- Snapshots, Absent <- NoFile, Fresh <- DefaultSnapshot,
    running <- up, live <- snapshot, saved <- disk

\* Whatever coalescing, failed saves and crashes do, each process works on what
\* the file held, and the file holds one whole snapshot that was live.
RegisterSpec == Register!Spec

\* However often the process is killed, the file's iter never goes back.
FileNeverRegresses == Register!NeverRegresses
=============================================================================
