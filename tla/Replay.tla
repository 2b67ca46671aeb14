------------------------------ MODULE Replay ------------------------------
(***************************************************************************)
(* `pid-ctl replay` (cmd_replay.rs) beside the loop whose log it reads: a   *)
(* second controller, made from the same gains and limits and with defaults *)
(* for everything else, is given every iteration record in turn.  It runs   *)
(* in step with the loop here, until something happens that the log does    *)
(* not tell; that it really comes later makes no difference to it.          *)
(***************************************************************************)
EXTENDS PidController

CONSTANT ReplayTtBound   \* the bound of Tt where tt_upper_bound is None

ASSUME ReplayAssumption == ReplayTtBound \in Nat \ {0}

VARIABLES
    replaying,      \* does the log tell all that happened?
    re_settings,    \* the variables of the second controller
    re_i_acc,
    re_last_pv,
    re_effective_sp,
    re_skip,
    re_applied,     \* prev_applied_cv
    re_result

reVars == <<re_settings, re_i_acc, re_last_pv, re_effective_sp, re_skip,
            re_applied, re_result>>

\* PidConfig::default(), for what replay has no flag for.
Defaults == [deadband |-> 0, setpoint_ramp |-> None, slew_rate |-> None,
             anti_windup |-> "back_calc", pv_filter |-> 0]

\* Its setpoint is that of the record, and so the one of the loop's step; its
\* feedforward_gain and its tt_upper_bound are the defaults too, where the loop
\* has 100 intervals for the latter.
Second == INSTANCE PidController WITH
    settings <- re_settings, FfGain <- 0, ExplicitTt <- None,
    TtUpperBound <- ReplayTtBound,
    i_acc <- re_i_acc, last_pv <- re_last_pv,
    effective_sp <- re_effective_sp, skip <- re_skip,
    applied <- re_applied, result <- re_result

----------------------------------------------------------------------------

\* Mutant: prev_applied_cv is not updated.
ReplayLineUnapplied(pv, dt, ff) == Second!Step(pv, dt, ff, FALSE)

\* A record holds the raw PV, dt and the feed-forward term of its step. What
\* the second controller puts out counts as applied.
ReplayLine(pv, dt, ff) == Second!Step(pv, dt, ff, TRUE)

\* A replay that has nothing to do with the log any more is forgotten.
Forget ==
    /\ replaying' = FALSE /\ UNCHANGED re_settings
    /\ re_i_acc' = 0 /\ re_last_pv' = None /\ re_effective_sp' = None
    /\ re_skip' = "none" /\ re_applied' = 0 /\ re_result' = NoResult

\* Do both track with the same time?  A dt above its bound, where f64::clamp
\* panics, ends the replay.
SameTracking(dt) ==
    gains.ki # 0 => /\ dt <= ReplayTtBound
                    /\ Second!AntiWindupTt(dt) = AntiWindupTt(dt)

\* A step whose CV was not written leaves no record, and a feed-forward term
\* is multiplied by the default gain, 0.
LoggedStep(raw, dt, ff, ok) ==
    /\ Step(raw, dt, ff, ok)
    /\ IF replaying /\ ok /\ FfGain * ff = 0 /\ SameTracking(dt)
       THEN ReplayLine(raw, dt, FfGain * ff) /\ UNCHANGED replaying
       ELSE Forget

\* A record holds the setpoint, so that a change of it is told; the first
\* gains are those of the replay.
Told ==
    /\ \E sp \in Setpoints : SetSetpoint(sp)
    /\ UNCHANGED <<replaying, reVars>>

\* What else happens to the loop is an event or nothing at all in the log.
Untold ==
    /\ \/ \E g \in Gains : SetGains(g)
       \/ MarkDtSkipped
       \/ ResetIntegral
       \/ \E cv \in SafeCvs : SafeCvWritten(cv)
       \/ \E g \in Gains, sp \in Setpoints, b \in BOOLEAN : Restart(g, sp, b)
    /\ Forget

ReplayInit ==
    /\ Init
    /\ replaying = (settings = Defaults /\ ExplicitTt = None)
    /\ re_settings = Defaults
    /\ re_i_acc = 0 /\ re_last_pv = None /\ re_effective_sp = None
    /\ re_skip = "none" /\ re_applied = 0 /\ re_result = NoResult

ReplayNext ==
    \/ \E raw \in RawPvs, dt \in Dts, ff \in Ffs, ok \in BOOLEAN :
           LoggedStep(raw, dt, ff, ok)
    \/ Told
    \/ Untold

ReplaySpec == ReplayInit /\ [][ReplayNext]_<<vars, replaying, reVars>>

----------------------------------------------------------------------------

\* A log that tells everything is replayed to the same CVs, whatever the
\* dt and the setpoint did and however long the output was saturated: the
\* integral, the filtered PV and the applied CV are those of the loop.  A log
\* does not tell the interval: this is so while the loop's bound of the
\* tracking time, 100 intervals, gives the time that replay's 100 s give.
ReplayFaithful ==
    replaying => <<re_i_acc, re_last_pv, re_applied>> = <<i_acc, last_pv, applied>>
=============================================================================
