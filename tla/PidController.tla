--------------------------- MODULE PidController ---------------------------
(***************************************************************************)
(* The control law of pid-ctl-core: PidController::step with its parts,    *)
(* and the calls that change the controller between steps.  Session.tla    *)
(* leaves open what a step computes; this module computes it.              *)
(*                                                                         *)
(* Reals are integers in some unit, and a division rounds down.  An        *)
(* infinite limit is a limit that the values below never reach.  Time is   *)
(* the dt each step is given.  The caller's side is the CV it reports as   *)
(* applied last: the one computed, if the write succeeded, the one before, *)
(* if it failed, or a safe CV written in between.                          *)
(***************************************************************************)
EXTENDS Integers, FiniteSets

CONSTANTS
    Gains,          \* records [kp, ki, kd] that set_gains can be given
    Setpoints,      \* target setpoints
    RawPvs,         \* process values a step can be given
    Dts,            \* time steps
    Ffs,            \* raw feed-forward values
    SafeCvs,        \* values of --safe-cv
    Settings,       \* records of what is fixed when the process starts:
                    \* deadband, setpoint_ramp, slew_rate, anti_windup, and
                    \* pv_filter: pv_filter_alpha in parts of AlphaDen
    OutMin, OutMax, \* --out-min, --out-max
    AlphaDen,
    ExplicitTt,     \* --anti-windup-tt, or None
    TtUpperBound,   \* tt_upper_bound
    FfGain,         \* feedforward_gain
    IntegralMax,    \* bound: what IntegralBounded holds the integral to
    None            \* Option::None

\* PidConfig::validate. Negative gains pass it too; they are left out.
ASSUME ConfigAssumption ==
    /\ Gains \subseteq [kp : Nat, ki : Nat, kd : Nat]
    /\ Setpoints \subseteq Int /\ RawPvs \subseteq Int /\ Ffs \subseteq Int
    /\ SafeCvs \subseteq Int /\ FfGain \in Int
    /\ Settings \subseteq [deadband : Nat, setpoint_ramp : Nat \cup {None},
                           slew_rate : Nat \cup {None},
                           anti_windup : {"back_calc", "clamp", "none"},
                           pv_filter : 0 .. AlphaDen - 1]
    /\ OutMin \in Int /\ OutMax \in Int /\ OutMin <= OutMax
    /\ AlphaDen \in Nat \ {0}
    /\ None \notin Int

\* apply_measured_dt keeps dt positive.  A dt above the bound of Tt, where
\* f64::clamp panics, is left out here.
ASSUME TimeAssumption ==
    /\ Dts \subseteq Nat \ {0}
    /\ TtUpperBound \in Nat \ {0}
    /\ \A dt \in Dts : dt <= TtUpperBound
    /\ ExplicitTt \in (Nat \ {0}) \cup {None}

VARIABLES
    settings,     \* the part of PidConfig that does not change while running
    gains,        \* kp, ki, kd of PidConfig
    setpoint,     \* the target
    i_acc,
    last_pv,
    effective_sp,
    skip,         \* next_d_term_skip_reason, "none" for None
    applied,      \* the CV the caller reports as applied last
    result        \* the StepResult of the call just made, if it was a step,
                  \* with the candidate output of apply_anti_windup

memory == <<i_acc, last_pv, effective_sp>>
vars == <<settings, gains, setpoint, memory, skip, applied, result>>

----------------------------------------------------------------------------
(* The parts of a step. *)

Abs(x) == IF x < 0 THEN -x ELSE x

Clamp(x, lo, hi) == IF x < lo THEN lo ELSE IF x > hi THEN hi ELSE x

FilteredPv(raw) ==
    IF settings.pv_filter = 0 \/ last_pv = None THEN raw
    ELSE ((AlphaDen - settings.pv_filter) * raw
             + settings.pv_filter * last_pv) \div AlphaDen

RampToward(current, target, max_delta) ==
    IF Abs(target - current) <= max_delta THEN target
    ELSE IF target > current THEN current + max_delta
                             ELSE current - max_delta

NextEffectiveSp(dt) ==
    IF settings.setpoint_ramp = None \/ effective_sp = None THEN setpoint
    ELSE RampToward(effective_sp, setpoint, settings.setpoint_ramp * dt)

EffectiveError(error) == IF Abs(error) < settings.deadband THEN 0 ELSE error

DTerm(pv, dt) ==
    IF gains.kd = 0 \/ skip # "none" \/ last_pv = None THEN 0
    ELSE -gains.kd * ((pv - last_pv) \div dt)

Sqrt(n) == Cardinality({r \in 1 .. n : r * r <= n})

\* anti_windup_tt, reached with ki # 0 only.
AntiWindupTt(dt) ==
    IF ExplicitTt # None THEN ExplicitTt
    ELSE Clamp(IF gains.kd > 0 THEN Sqrt(gains.kd \div gains.ki)
                               ELSE gains.kp \div gains.ki,
               dt, TtUpperBound)

\* Mutant: the correction pushes the integral further out.
BackCalculatedOut(cand, cand_u, prev, dt, tt) ==
    cand + ((cand_u - prev) * dt) \div tt

\* The candidate integral term, pulled towards what was applied.
BackCalculated(cand, cand_u, prev, dt, tt) ==
    cand + ((prev - cand_u) * dt) \div tt

\* Mutant: saturation does not reach the integral.
NoAntiWindup(cand, rest, prev, dt) == cand

\* apply_anti_windup for ki # 0: from the candidate integral term, and the
\* rest of the output (P, D and feed-forward), the integral term.
AntiWindup(cand, rest, prev, dt) ==
    CASE settings.anti_windup = "none" -> cand
      [] settings.anti_windup = "clamp" ->
             Clamp(cand, OutMin - rest, OutMax - rest)
      [] settings.anti_windup = "back_calc" ->
             IF cand + rest >= OutMin /\ cand + rest <= OutMax THEN cand
             ELSE BackCalculated(cand, cand + rest, prev, dt, AntiWindupTt(dt))

\* Mutant: the change is limited before the output is.
SlewThenClamp(u, prev, dt) ==
    IF settings.slew_rate = None THEN Clamp(u, OutMin, OutMax)
    ELSE Clamp(Clamp(u, prev - settings.slew_rate * dt,
                        prev + settings.slew_rate * dt), OutMin, OutMax)

\* Mutant: only the change is limited.
SlewOnly(u, prev, dt) ==
    IF settings.slew_rate = None THEN u
    ELSE Clamp(u, prev - settings.slew_rate * dt,
                  prev + settings.slew_rate * dt)

\* The output, limited, and then its change per step (apply_slew_rate).
Realized(u, prev, dt) ==
    LET limited == Clamp(u, OutMin, OutMax)
    IN  IF settings.slew_rate = None THEN limited
        ELSE Clamp(limited, prev - settings.slew_rate * dt,
                            prev + settings.slew_rate * dt)

----------------------------------------------------------------------------
(* The calls. *)

\* PidController::step as process_pv calls it: the sink takes the CV or not.
Step(raw, dt, ff, ok) ==
    LET pv     == FilteredPv(raw)
        sp     == NextEffectiveSp(dt)
        err    == EffectiveError(sp - pv)
        rest   == gains.kp * err + DTerm(pv, dt) + FfGain * ff
        cand   == IF gains.ki = 0 THEN 0 ELSE gains.ki * (i_acc + err * dt)
        i_term == IF gains.ki = 0 THEN 0 ELSE AntiWindup(cand, rest, applied, dt)
        cv     == Realized(rest + i_term, applied, dt)
    IN  /\ i_acc' = IF gains.ki = 0 THEN i_acc ELSE i_term \div gains.ki
        /\ last_pv' = pv
        /\ effective_sp' = sp
        /\ skip' = "none"
        /\ result' = [cv |-> cv, u_unclamped |-> rest + i_term, dt |-> dt,
                      candidate |-> rest + cand]
        /\ applied' = IF ok THEN cv ELSE applied
        /\ UNCHANGED <<settings, gains, setpoint>>

NoResult == [cv |-> 0, u_unclamped |-> 0, dt |-> 0, candidate |-> 0]

SetGains(g) ==
    /\ gains' = g
    /\ result' = NoResult
    /\ UNCHANGED <<settings, setpoint, memory, skip, applied>>

SetSetpoint(sp) ==
    /\ setpoint' = sp
    /\ result' = NoResult
    /\ UNCHANGED <<settings, gains, memory, skip, applied>>

MarkDtSkipped ==
    /\ skip' = "post_dt_skip"
    /\ result' = NoResult
    /\ UNCHANGED <<settings, gains, setpoint, memory, applied>>

ResetIntegral ==
    /\ i_acc' = 0 /\ skip' = "post_reset"
    /\ result' = NoResult
    /\ UNCHANGED <<settings, gains, setpoint, last_pv, effective_sp, applied>>

\* The caller wrote a safe CV, and reports it as applied from now on.
SafeCvWritten(cv) ==
    /\ applied' = cv
    /\ result' = NoResult
    /\ UNCHANGED <<settings, gains, setpoint, memory, skip>>

\* A new process: new(), then restore_state() from the state file, which holds
\* effective_sp only where a ramp is configured, or from nothing. A file older
\* than the last step restores an earlier state of this module, and the gains
\* and the setpoint can be any in all of them.
Restart(g, sp, stored) ==
    /\ gains' = g /\ setpoint' = sp
    /\ IF stored
       THEN /\ effective_sp' = IF settings.setpoint_ramp = None THEN None
                                                           ELSE effective_sp
            /\ UNCHANGED <<i_acc, last_pv, applied>>
       ELSE /\ i_acc' = 0 /\ last_pv' = None /\ effective_sp' = None
            /\ applied' = 0
    /\ skip' = "none"
    /\ result' = NoResult
    /\ UNCHANGED settings

Init ==
    /\ settings \in Settings /\ gains \in Gains /\ setpoint \in Setpoints
    /\ i_acc = 0 /\ last_pv = None /\ effective_sp = None
    /\ skip = "none" /\ applied = 0 /\ result = NoResult

Steps ==
    \E raw \in RawPvs, dt \in Dts, ff \in Ffs, ok \in BOOLEAN :
        Step(raw, dt, ff, ok)

Next ==
    \/ Steps
    \/ \E g \in Gains : SetGains(g)
    \/ \E sp \in Setpoints : SetSetpoint(sp)
    \/ MarkDtSkipped
    \/ ResetIntegral
    \/ \E cv \in SafeCvs : SafeCvWritten(cv)
    \/ \E g \in Gains, sp \in Setpoints, b \in BOOLEAN : Restart(g, sp, b)

Spec == Init /\ [][Next]_vars

----------------------------------------------------------------------------
(* Properties. *)

\* Every variable keeps the shape its declaration describes, and a controller
\* that ramps knows where its ramp is from the first step on.
ControllerTypeOK ==
    /\ settings \in Settings
    /\ gains \in Gains
    /\ setpoint \in Setpoints
    /\ i_acc \in Int
    /\ last_pv \in Int \cup {None}
    /\ effective_sp \in Int \cup {None}
    /\ skip \in {"none", "post_dt_skip", "post_reset"}
    /\ applied \in Int
    /\ settings.setpoint_ramp # None => (effective_sp = None <=> last_pv = None)
    /\ result \in [cv : Int, u_unclamped : Int, dt : Nat, candidate : Int]

\* How far a value lies outside the output limits.
Excess(cv) == Abs(cv - Clamp(cv, OutMin, OutMax))

\* Of the calls, only a step leaves a result.
Stepped == result'.dt > 0

\* A step never takes the applied CV further outside the output limits than it
\* was, and once inside it stays there: limiting the change after the output,
\* with failed writes in between, cannot undo the limits.
LimitsKept == [][Stepped => Excess(applied') <= Excess(applied)]_vars

\* Whatever writes failed before, a step moves the applied CV by slew_rate * dt
\* at most, also when the new output is limited by out_min and out_max.
SlewKept ==
    [][Stepped /\ settings.slew_rate # None
           => Abs(applied' - applied) <= settings.slew_rate * result'.dt]_vars

\* With a ramp, a step brings the effective setpoint nearer to the target of
\* the moment by the rate at most, and never past it, after set_setpoint and
\* after a restart too.
RampKept ==
    [][Stepped /\ settings.setpoint_ramp # None /\ effective_sp # None
           => /\ Abs(effective_sp' - effective_sp)
                     <= settings.setpoint_ramp * result'.dt
              /\ Abs(effective_sp' - effective_sp) + Abs(setpoint - effective_sp')
                     = Abs(setpoint - effective_sp)]_vars

\* Anti-windup never drives the output further from what the actuator does.
\* Clamping leaves it within the limits; back-calculation leaves it no further
\* from the applied CV than the plain integral would have, provided that the
\* tracking time is at least dt, which an explicit --anti-windup-tt may not be.
AntiWindupHelps ==
    [][Stepped /\ gains.ki # 0
           => CASE settings.anti_windup = "clamp" ->
                       Excess(result'.u_unclamped) = 0
                [] settings.anti_windup = "back_calc" ->
                       result'.dt <= AntiWindupTt(result'.dt) =>
                           Abs(result'.u_unclamped - applied)
                               <= Abs(result'.candidate - applied)
                [] settings.anti_windup = "none" -> TRUE]_vars

\* However long the output is saturated, in whatever order gains and setpoint
\* change, writes fail and the process restarts, clamping and back-calculation
\* keep the integral within a bound.
IntegralBounded == Abs(i_acc) <= IntegralMax
=============================================================================
