------------------------------ MODULE Autotune ------------------------------
(***************************************************************************)
(* The autotune command (cmd_autotune.rs): a warm-up that finds the        *)
(* reference, then one relay tick per interval until the oscillation has   *)
(* settled, the duration is over or a signal came, then the result.        *)
(*                                                                         *)
(* Instants are kept relative to now, as in Loop.tla.  The warm-up's clock *)
(* is left out: nothing later depends on it.  A failing CV write has no    *)
(* effect on the command, so only the CV it asks for is kept.  What its    *)
(* unlocked save does to other processes is part of StateFile.tla.         *)
(***************************************************************************)
EXTENDS Relay

CONSTANTS
    WarmupTicks,    \* warm-up ticks: a quarter of the duration, 10 at least
    Interval,       \* --interval
    Duration,       \* --duration
    HasState,       \* --state was given
    LateCap         \* bound: how far the process may run past the duration

ASSUME CommandAssumption ==
    /\ WarmupTicks \in Nat \ {0} /\ Interval \in Nat \ {0}
    /\ Duration \in Nat \ {0} /\ LateCap \in Nat /\ LateCap >= Interval
    /\ HasState \in BOOLEAN

VARIABLES
    pc,             \* the phase of run_autotune
    warmup_left,    \* warm-up ticks to go
    warmup_pv,      \* the PV read last in the warm-up; 0 at first
    until,          \* next_deadline - now
    tick_age,       \* now - last_tick
    test_age,       \* now - deadline_start
    dt,             \* the dt of the tick in progress, 0 outside one
    shutdown,       \* the flag the signal handler sets
    saved,          \* were the gains saved?
    code,           \* the exit code
    attempted,      \* the CV asked for last
    phase_age,      \* history: now - the tick that began this phase
    lost,           \* history: has a PV read failed in this phase?
    excursion,      \* history: the extreme PV since the relay flipped
    last_pv,        \* history: the PV read last in the relay loop
    after_signal    \* history: CVs asked for since the signal

clocks == <<until, tick_age, test_age, phase_age>>
command == <<warmup_left, warmup_pv, saved, code>>
history == <<lost, excursion, last_pv, after_signal>>
vars == <<engineVars, pc, clocks, command, dt, shutdown, attempted, history>>

----------------------------------------------------------------------------

At(p) == pc = p
Goto(p) == pc' = p

Ask(cv) ==
    /\ attempted' = cv
    /\ after_signal' = after_signal + (IF shutdown THEN 1 ELSE 0)

\* Asked to stop in the warm-up: nothing more is done, and the code is 0.
WarmupInterrupted ==
    /\ At("warmup") /\ shutdown /\ warmup_left > 0
    /\ Goto("done") /\ code' = 0
    /\ UNCHANGED <<engineVars, clocks, warmup_left, warmup_pv, saved, dt,
                   shutdown, attempted, history>>

\* A warm-up tick: a PV that can be read is kept, and the bias is written.  The
\* flag is looked at before each.
WarmupTick(pv) ==
    /\ At("warmup") /\ ~shutdown /\ warmup_left > 0
    /\ warmup_left' = warmup_left - 1
    /\ warmup_pv' = IF pv = None THEN warmup_pv ELSE pv
    /\ Ask(Bias)
    /\ UNCHANGED <<engineVars, pc, clocks, saved, code, dt, shutdown, lost,
                   excursion, last_pv>>

\* The reference is set and the test's clock starts.
TestStarts ==
    /\ At("warmup") /\ warmup_left = 0
    /\ SetPvRef(warmup_pv)
    /\ until' = Interval /\ tick_age' = 0 /\ test_age' = 0 /\ phase_age' = 0
    /\ Goto("top")
    /\ UNCHANGED <<command, dt, shutdown, attempted, history>>

Top ==
    /\ At("top")
    /\ Goto(IF shutdown THEN "result" ELSE "sleep")
    /\ UNCHANGED <<engineVars, clocks, command, dt, shutdown, attempted, history>>

\* Mutant: the duration counts from the first flip.
TimeIsUpOnceFlipped == test_age >= Duration /\ half_periods # <<>>

TimeIsUp == test_age >= Duration

\* The deadline has come; the next is one interval on, passed or not.
TestOver ==
    /\ At("sleep") /\ until <= 0 /\ TimeIsUp
    /\ until' = until + Interval
    /\ Goto("result")
    /\ UNCHANGED <<engineVars, tick_age, test_age, phase_age, command, dt,
                   shutdown, attempted, history>>

TickStarts ==
    /\ At("sleep") /\ until <= 0 /\ ~TimeIsUp
    /\ until' = until + Interval
    /\ dt' = tick_age /\ tick_age' = 0
    /\ Goto("read")
    /\ UNCHANGED <<engineVars, test_age, phase_age, command, shutdown,
                   attempted, history>>

\* The tick is given up, and its dt with it.
ReadFails ==
    /\ At("read") /\ Goto("top")
    /\ dt' = 0 /\ lost' = TRUE
    /\ UNCHANGED <<engineVars, clocks, command, shutdown, attempted, excursion,
                   last_pv, after_signal>>

Farther(pv) ==
    IF relay = "low" THEN IF pv > excursion THEN pv ELSE excursion
                     ELSE IF pv < excursion THEN pv ELSE excursion

\* The engine takes a PV; the CV it answers is written, which may fail.
RelayTick(pv) ==
    /\ At("read")
    /\ EngineTick(pv, dt)
    /\ Ask(CurrentCv(relay'))
    /\ Goto(IF settled' THEN "result" ELSE "top")
    /\ dt' = 0 /\ last_pv' = pv
    /\ IF relay' = relay
       THEN UNCHANGED <<phase_age, lost>> /\ excursion' = Farther(pv)
       ELSE phase_age' = tick_age /\ lost' = FALSE /\ excursion' = pv
    /\ UNCHANGED <<until, tick_age, test_age, command, shutdown>>

Known == HasEstimates(high_peaks, low_troughs, half_periods)

NoResult ==
    /\ At("result") /\ ~Known
    /\ Goto("done") /\ code' = 2
    /\ UNCHANGED <<engineVars, clocks, warmup_left, warmup_pv, saved, dt,
                   shutdown, attempted, history>>

\* The gains are printed and, with --state, put into the file: load, then save.
\* Either may fail.
Result(ok) ==
    /\ At("result") /\ Known
    /\ ~HasState => ok
    /\ Goto("done")
    /\ code' = IF ok THEN 0 ELSE 1
    /\ saved' = (HasState /\ ok)
    /\ UNCHANGED <<engineVars, clocks, warmup_left, warmup_pv, dt, shutdown,
                   attempted, history>>

Signal ==
    /\ ~At("done") /\ ~shutdown
    /\ shutdown' = TRUE
    /\ UNCHANGED <<engineVars, pc, clocks, command, dt, attempted, history>>

\* A unit of time goes by, in a sleep or in a command.
Pass ==
    /\ At("sleep") \/ At("read")
    /\ test_age < Duration + LateCap
    /\ until' = until - 1
    /\ tick_age' = tick_age + 1 /\ test_age' = test_age + 1
    /\ phase_age' = phase_age + 1
    /\ UNCHANGED <<engineVars, pc, command, dt, shutdown, attempted, history>>

----------------------------------------------------------------------------

Init ==
    /\ EngineInit
    /\ pc = "warmup" /\ warmup_left = WarmupTicks /\ warmup_pv = 0
    /\ until = 0 /\ tick_age = 0 /\ test_age = 0 /\ phase_age = 0 /\ dt = 0
    /\ shutdown = FALSE /\ saved = FALSE /\ code = None /\ attempted = None
    /\ lost = FALSE /\ excursion = 0 /\ last_pv = None /\ after_signal = 0

Step ==
    \/ WarmupInterrupted \/ TestStarts
    \/ \E pv \in PVs \cup {None} : WarmupTick(pv)
    \/ Top \/ TestOver \/ TickStarts \/ ReadFails
    \/ \E pv \in PVs : RelayTick(pv)
    \/ NoResult
    \/ \E ok \in BOOLEAN : Result(ok)

Next == Step \/ Signal \/ Pass

\* The sleeps end at their deadlines and the commands at --cmd-timeout.
Spec == Init /\ [][Next]_vars /\ WF_vars(Step) /\ WF_vars(Pass)

----------------------------------------------------------------------------
(* Properties. *)

\* Types of the command's variables and of the engine's.
AutotuneTypeOK ==
    /\ EngineTypeOK
    /\ pc \in {"warmup", "top", "sleep", "read", "result", "done"}
    /\ warmup_left \in 0 .. WarmupTicks /\ warmup_pv \in PVs \cup {0}
    /\ until \in Int /\ tick_age \in Nat /\ test_age \in Nat
    /\ phase_age \in Nat /\ dt \in Nat
    /\ shutdown \in BOOLEAN /\ saved \in BOOLEAN /\ lost \in BOOLEAN
    /\ code \in {None, 0, 1, 2}
    /\ attempted \in {None, Bias, Bias + Amp, Bias - Amp}
    /\ excursion \in Int /\ last_pv \in PVs \cup {None}
    /\ after_signal \in Nat

\* Every recorded peak lies above the reference that the relay works against
\* and every trough below it, whatever the noise: the amplitude is positive and
\* Ku a positive number.
PeaksBeyondRef ==
    /\ \A k \in DOMAIN high_peaks : high_peaks[k] > pv_ref
    /\ \A k \in DOMAIN low_troughs : low_troughs[k] < pv_ref

\* However late its ticks are, a phase in which every PV could be read is
\* recorded with the time that passed between the ticks that bound it.
HalfPeriodsMeasured ==
    [][Len(half_periods') > Len(half_periods) /\ ~lost
           => Last(half_periods') = phase_age - tick_age]_vars

\* The relay drives the PV back: the CV asked for last is the low one after a PV
\* above the reference, and the high one after a PV below it.
RelayDrivesBack ==
    last_pv # None =>
        /\ last_pv > pv_ref => attempted = Bias - Amp
        /\ last_pv < pv_ref => attempted = Bias + Amp

\* A signal is answered: one more CV at most is written after it.
OneCvAfterSignal == after_signal <= 1

\* No result means fewer than two complete cycles, as `result` is documented,
\* and never follows the end of a test that settled; a result means two or more.
ExitCodeTells ==
    (At("done") /\ last_pv # None) =>
        IF code = 2 THEN Cycles(high_peaks, low_troughs) < 2 /\ ~settled
                    ELSE Cycles(high_peaks, low_troughs) >= 2

\* A test ends, also if no PV can be read and the PV never crosses.
TestEnds == <>At("done")

\* The peaks that the amplitude is computed from are the peaks of the
\* oscillation: the highest PV between a flip to low and the flip back.
PeaksArePeaks ==
    [][Len(low_troughs') > Len(low_troughs)
           => high_peaks[Len(high_peaks)] = excursion]_vars
=============================================================================
