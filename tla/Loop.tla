-------------------------------- MODULE Loop --------------------------------
(***************************************************************************)
(* run_loop (cmd/cmd_loop.rs) with ticker::step, loop_runtime.rs and the   *)
(* socket requests it serves while it sleeps, composed with the session of *)
(* Session.tla.  One process; it may be killed at any point and started    *)
(* again, and SIGTERM/SIGINT may set the shutdown flag at any point.       *)
(*                                                                         *)
(* Instants are kept as differences with now, so that time never runs out: *)
(* next_deadline as the time left to it, last_tick and the instant of the  *)
(* last measurement as ages.  Time passes in steps of one unit, anywhere   *)
(* in the loop (a slow command, a late wake-up), but never takes the       *)
(* process more than LateCap past its deadline.                            *)
(***************************************************************************)
EXTENDS Session

CONSTANTS
    Intervals,       \* values of --interval and of socket `set interval`
    MinDt,           \* --min-dt
    ExplicitMaxDt,   \* --max-dt, or None
    MinDtDefault,    \* MIN_DT_DEFAULT
    MaxDtDefault,    \* MAX_DT_DEFAULT
    DtClamp,         \* --dt-clamp
    ExplicitFlush,   \* --state-write-interval, or None
    MinStateFlush,   \* MIN_STATE_FLUSH
    SafeCv,          \* --safe-cv, or None
    FailAfter,       \* --fail-after, or None
    CvFailAfter,     \* --cv-fail-after
    MaxIterations,   \* --max-iterations (test hook), or None
    HasSocket,       \* --socket
    PvResults,       \* what read_pv may do: "ok", "err"
    LateCap,         \* bound: how late the process may be for its deadline
    CountCap         \* bound: pv_fail_count is not told apart beyond it

ASSUME LoopTimeAssumption ==
    /\ Intervals \subseteq Nat \ {0}
    /\ MinDt \in 0 .. AgeCap /\ MinDtDefault \in Nat /\ MaxDtDefault \in Nat
    /\ ExplicitMaxDt \in Nat \cup {None} /\ ExplicitFlush \in Nat \cup {None}
    /\ MinStateFlush \in Nat /\ LateCap \in Nat
    /\ MinDtDefault <= MaxDtDefault /\ MaxDtDefault < AgeCap
    /\ ExplicitMaxDt # None => ExplicitMaxDt < AgeCap

ASSUME LoopPolicyAssumption ==
    /\ SafeCv \in CVs \cup {None} /\ DtClamp \in BOOLEAN /\ HasSocket \in BOOLEAN
    /\ FailAfter \in Nat \cup {None} /\ CvFailAfter \in Nat
    /\ MaxIterations \in Nat \cup {None}
    /\ CountCap \in Nat \ {0} /\ (FailAfter # None => FailAfter <= CountCap)
    /\ PvResults \subseteq {"ok", "err"}

VARIABLES
    pc,            \* where run_loop is; "down" when no process runs
    interval,      \* LoopRuntimeConfig.interval
    hold,
    shutdown,      \* the flag the signal handler sets
    until,         \* next_deadline - now
    tick_age,      \* now - last_tick, up to AgeCap
    dt,            \* the dt of the tick being computed
    pv_fail_count,
    cv_fail_count,
    exit,          \* how the last process ended: "clean" (exit code 0),
                   \* "failed" (exit code 2) or "killed"
    pv_age,        \* history: now - the tick that measured last_pv; None: none
    attempted,     \* history: the last CV this process tried to write
    flushed        \* history: did the flush at shutdown succeed?

clocks == <<until, tick_age, pv_age>>
counts == <<pv_fail_count, cv_fail_count>>
loopVars == <<pc, interval, hold, shutdown, dt, exit, attempted, flushed,
              clocks, counts>>
vars == <<sessionVars, loopVars>>

----------------------------------------------------------------------------
(* Settings derived from the interval at start and at every change of it.  *)

Clamp(x, lo, hi) == IF x < lo THEN lo ELSE IF x > hi THEN hi ELSE x

MaxDt(i) == IF ExplicitMaxDt # None THEN ExplicitMaxDt
                                    ELSE Clamp(3 * i, MinDtDefault, MaxDtDefault)

FlushOf(i) == IF ExplicitFlush # None THEN ExplicitFlush
              ELSE IF i > MinStateFlush THEN i ELSE MinStateFlush

ASSUME DerivedAssumption ==
    /\ \A i \in Intervals : FlushOf(i) \in FlushIntervals
    \* f64::clamp panics on crossed bounds.
    /\ DtClamp => \A i \in Intervals : MinDt <= MaxDt(i)

\* apply_measured_dt: the dt values a tick may use.
DtInRange(raw, i) == raw >= MinDt /\ raw <= MaxDt(i)

\* Mutant: one interval is added, and missed boundaries are caught up with.
NextUntilBurst == until + interval

\* next_deadline_after_tick, relative to now: the deadline moves on in whole
\* intervals to the first boundary in the future.  A tick starts only at or
\* after its deadline, so the lateness -until is never negative here.
NextUntil == interval - ((-until) % interval)

----------------------------------------------------------------------------

At(p) == pc = p
Goto(p) == pc' = p

WriteSafe(result) ==
    IF SafeCv = None
    THEN UNCHANGED <<sessionVars, attempted>>
    ELSE WriteSafeCv(SafeCv, result) /\ attempted' = SafeCv

\* A process starts; sockets and signal handler are in place before the loop.
StartLoop(config, i, reset) ==
    /\ At("down") /\ Goto("top")
    /\ New(config, FlushOf(i), reset)
    /\ interval' = i /\ until' = i /\ tick_age' = 0
    /\ hold' = FALSE /\ shutdown' = FALSE
    /\ pv_fail_count' = 0 /\ cv_fail_count' = 0
    \* The downtime is arbitrary: a restored measurement is simply old.
    /\ pv_age' = IF controller'.last_pv = None THEN None ELSE AgeCap
    /\ attempted' = None /\ flushed' = FALSE
    /\ UNCHANGED <<dt, exit>>

Top ==
    /\ At("top")
    /\ Goto(IF shutdown THEN "final" ELSE IF until <= 0 THEN "awake" ELSE "sleep")
    /\ UNCHANGED <<sessionVars, interval, hold, shutdown, dt, exit, attempted,
                   flushed, clocks, counts>>

\* Mutant: the look at the shutdown flag that ends the sleep takes it away.
WakeTakesFlag ==
    /\ At("sleep")
    /\ until <= 0 \/ (HasSocket /\ shutdown)
    /\ Goto("awake")
    /\ shutdown' = FALSE
    /\ UNCHANGED <<sessionVars, interval, hold, dt, exit, attempted, flushed,
                   clocks, counts>>

\* The sleep ends at the deadline, or at a chunk's end once a shutdown shows.
Wake ==
    /\ At("sleep")
    /\ until <= 0 \/ (HasSocket /\ shutdown)
    /\ Goto("awake")
    /\ UNCHANGED <<sessionVars, interval, hold, shutdown, dt, exit, attempted,
                   flushed, clocks, counts>>

AwakeShutdown ==
    /\ At("awake") /\ shutdown
    /\ Goto("final")
    /\ UNCHANGED <<sessionVars, interval, hold, shutdown, dt, exit, attempted,
                   flushed, clocks, counts>>

\* Mutant: a held tick moves last_tick.
TickHeldMeasures ==
    /\ At("awake") /\ ~shutdown /\ hold
    /\ Goto("top")
    /\ until' = NextUntil /\ tick_age' = 0
    /\ UNCHANGED <<sessionVars, interval, hold, shutdown, dt, exit, attempted,
                   flushed, pv_age, counts>>

\* Held: the deadline moves on, last_tick does not.
TickHeld ==
    /\ At("awake") /\ ~shutdown /\ hold
    /\ Goto("top")
    /\ until' = NextUntil
    /\ UNCHANGED <<sessionVars, interval, hold, shutdown, dt, exit, attempted,
                   flushed, tick_age, pv_age, counts>>

TickStarts == At("awake") /\ ~shutdown /\ ~hold

\* Mutant: a skipped tick leaves last_tick where it was.
TickSkippedUnmeasured ==
    /\ TickStarts
    /\ ~DtInRange(tick_age, interval) /\ ~DtClamp
    /\ Goto("top")
    /\ until' = NextUntil
    /\ OnDtSkipped
    /\ UNCHANGED <<interval, hold, shutdown, dt, exit, attempted, flushed,
                   tick_age, pv_age, counts>>

TickSkipped ==
    /\ TickStarts
    /\ ~DtInRange(tick_age, interval) /\ ~DtClamp
    /\ Goto("top")
    /\ until' = NextUntil /\ tick_age' = 0
    /\ OnDtSkipped
    /\ UNCHANGED <<interval, hold, shutdown, dt, exit, attempted, flushed,
                   pv_age, counts>>

TickMeasured ==
    /\ TickStarts
    /\ DtInRange(tick_age, interval) \/ DtClamp
    /\ Goto("read")
    /\ until' = NextUntil /\ tick_age' = 0
    /\ dt' = Clamp(tick_age, MinDt, MaxDt(interval))
    /\ UNCHANGED <<sessionVars, interval, hold, shutdown, exit, attempted,
                   flushed, pv_age, counts>>

PvExhausted(n) == FailAfter # None /\ n >= FailAfter

\* ticker::step looks at the limit only after a failure.
CvExhausted(n) == n > 0 /\ n >= CvFailAfter

\* read_pv_with_escalation, the failing read.  The tick's dt ends with it.
PvFails(result) ==
    /\ At("read") /\ "err" \in PvResults
    /\ dt' = 0
    /\ pv_fail_count' = SaturatingInc(pv_fail_count, CountCap)
    /\ WriteSafe(result)
    /\ Goto(IF PvExhausted(pv_fail_count') THEN "leave" ELSE "top")
    /\ UNCHANGED <<interval, hold, shutdown, exit, flushed, clocks,
                   cv_fail_count>>

AfterTick == IF MaxIterations # None /\ snapshot'.iter >= MaxIterations
             THEN "final" ELSE "top"

\* The PV is read and ticker::step runs; the sink accepts the CV or not.
Tick(pv, i_acc, cv, result) ==
    /\ At("read") /\ "ok" \in PvResults
    /\ dt' = 0
    /\ pv_fail_count' = 0
    /\ ProcessPv(pv, i_acc, cv, result)
    /\ attempted' = cv
    /\ pv_age' = tick_age
    /\ cv_fail_count' = IF Ok(result) THEN 0 ELSE cv_fail_count + 1
    /\ Goto(IF CvExhausted(cv_fail_count') THEN "failing" ELSE AfterTick)
    /\ UNCHANGED <<interval, hold, shutdown, exit, flushed, until, tick_age>>

\* CV writes are exhausted: one try at the safe CV, then exit.
FailingSafe(result) ==
    /\ At("failing") /\ Goto("leave")
    /\ WriteSafe(result)
    /\ UNCHANGED <<interval, hold, shutdown, dt, exit, flushed, clocks,
                   counts>>

\* Mutant: a held controller keeps its CV at shutdown.
FinalSafeUnlessHeld(result) ==
    /\ At("final") /\ Goto("flush")
    /\ IF hold THEN UNCHANGED <<sessionVars, attempted>> ELSE WriteSafe(result)
    /\ UNCHANGED <<interval, hold, shutdown, dt, exit, flushed, clocks,
                   counts>>

\* finalize_shutdown: the safe CV, then the flush.
FinalSafe(result) ==
    /\ At("final") /\ Goto("flush")
    /\ WriteSafe(result)
    /\ UNCHANGED <<interval, hold, shutdown, dt, exit, flushed, clocks,
                   counts>>

FinalFlush ==
    /\ At("flush") /\ Goto("done")
    /\ ForceFlush
    /\ flushed' = (HasStore /\ fail_count' = 0)
    /\ UNCHANGED <<interval, hold, shutdown, dt, exit, attempted, clocks,
                   counts>>

\* The process is gone, and with it everything but the files.
Gone ==
    /\ Goto("down")
    /\ Stop
    /\ hold' = FALSE /\ shutdown' = FALSE
    /\ until' = 0 /\ tick_age' = 0 /\ pv_age' = None /\ dt' = 0
    /\ pv_fail_count' = 0 /\ cv_fail_count' = 0
    /\ UNCHANGED <<interval, attempted, flushed>>

\* run_loop returns; dropping the session releases the state lock.
Return ==
    /\ At("done") \/ At("leave")
    /\ exit' = IF At("done") THEN "clean" ELSE "failed"
    /\ Gone

----------------------------------------------------------------------------
(* Requests served between the chunks of the sleep: handle_socket_request. *)

Serving == At("sleep") /\ HasSocket

Requests(op) ==
    /\ Serving /\ op
    /\ UNCHANGED <<pc, shutdown, dt, exit, attempted, flushed, clocks, counts>>

SocketSet(config) == Requests(SetConfig(config) /\ UNCHANGED <<interval, hold>>)

\* apply_runtime_interval: the deadline being slept towards stays.
SocketSetInterval(i) ==
    Requests(interval' = i /\ SetFlushInterval(FlushOf(i)) /\ UNCHANGED hold)

SocketReset == Requests(ResetIntegral /\ UNCHANGED <<interval, hold>>)
SocketHold == Requests(hold' = TRUE /\ UNCHANGED <<sessionVars, interval>>)
SocketResume == Requests(hold' = FALSE /\ UNCHANGED <<sessionVars, interval>>)
SocketSave ==
    Requests(HasStore /\ ForceFlush /\ UNCHANGED <<interval, hold>>)

----------------------------------------------------------------------------
(* The world. *)

Signal ==
    /\ ~At("down") /\ ~shutdown
    /\ shutdown' = TRUE
    /\ UNCHANGED <<sessionVars, pc, interval, hold, dt, exit, attempted,
                   flushed, clocks, counts>>

Kill ==
    /\ ~At("down")
    /\ exit' = "killed"
    /\ Gone

Pass ==
    /\ ~At("down") /\ until > -LateCap
    /\ Elapse
    /\ until' = until - 1
    /\ tick_age' = SaturatingInc(tick_age, AgeCap)
    /\ pv_age' = IF pv_age = None THEN None ELSE SaturatingInc(pv_age, AgeCap)
    /\ UNCHANGED <<pc, interval, hold, shutdown, dt, exit, attempted, flushed,
                   counts>>

----------------------------------------------------------------------------

Init ==
    /\ SessionInit
    /\ pc = "down" /\ interval \in Intervals
    /\ hold = FALSE /\ shutdown = FALSE
    /\ until = 0 /\ tick_age = 0 /\ pv_age = None /\ dt = 0
    /\ pv_fail_count = 0 /\ cv_fail_count = 0
    /\ exit = "clean" /\ attempted = None /\ flushed = FALSE

Start == \E c \in Configs, i \in Intervals, r \in BOOLEAN : StartLoop(c, i, r)

Request ==
    \/ \E c \in Configs : SocketSet(c)
    \/ \E i \in Intervals : SocketSetInterval(i)
    \/ SocketReset \/ SocketHold \/ SocketResume \/ SocketSave

ReadAndStep ==
    \/ \E r \in SinkResults : PvFails(r)
    \/ \E pv \in PVs, a \in IAccs, cv \in CVs, r \in SinkResults :
           Tick(pv, a, cv, r)

LoopStep ==
    \/ Top \/ Wake \/ AwakeShutdown \/ TickHeld \/ TickSkipped \/ TickMeasured
    \/ ReadAndStep
    \/ \E r \in SinkResults : FailingSafe(r) \/ FinalSafe(r)
    \/ FinalFlush \/ Return

Next == Start \/ LoopStep \/ Request \/ Signal \/ Kill \/ Pass

Spec == Init /\ [][Next]_vars

\* The process keeps running while it has something to do, and time passes.
Fairness == WF_vars(LoopStep) /\ WF_vars(Pass)

FairSpec == Spec /\ Fairness

----------------------------------------------------------------------------
(* Properties. *)

ClocksOK ==
    /\ until \in Int /\ until >= -LateCap
    /\ tick_age \in 0 .. AgeCap /\ dt \in 0 .. AgeCap
    /\ pv_age \in Ages

CountsOK ==
    /\ pv_fail_count \in 0 .. CountCap /\ cv_fail_count \in Nat
    /\ (FailAfter # None /\ FailAfter > 0) => pv_fail_count <= FailAfter

PhasesOK ==
    /\ pc \in {"down", "top", "sleep", "awake", "read", "failing", "final",
               "flush", "done", "leave"}
    /\ interval \in Intervals
    /\ hold \in BOOLEAN /\ shutdown \in BOOLEAN /\ flushed \in BOOLEAN
    /\ exit \in {"clean", "failed", "killed"}
    /\ attempted \in CVs \cup {None}
    /\ up = (pc # "down")

\* Every variable of the loop stays in its set, the failure counts within
\* their limits, and a process runs exactly when a session exists.
LoopTypeOK == ClocksOK /\ CountsOK /\ PhasesOK

\* Whatever mix of signals, failures and requests ends the process, unless it
\* is killed the last thing it asked of the actuator is the safe CV.
LeavesSafe ==
    (At("down") /\ exit # "killed" /\ SafeCv # None /\ attempted # None)
        => attempted = SafeCv

\* After a clean exit whose flush succeeded, the state file names the CV that
\* was confirmed last, a safe CV at shutdown included, so the next process
\* slews and tracks from there.  The actuator has it, unless a write that
\* failed has reached it since.
CleanExitDurable ==
    (At("down") /\ exit = "clean" /\ flushed /\ Wrote)
        => /\ disk # NoFile
           /\ Applied(disk.last_cv) = confirmed
           /\ actuator \in {confirmed, None}

\* A running loop is below its failure limits: the process gives up on the
\* very failure that reaches a limit, however holds and skips interleave.
BelowLimits ==
    pc \in {"top", "sleep", "awake", "read"} =>
        /\ pv_fail_count = 0 \/ FailAfter = None \/ pv_fail_count < FailAfter
        /\ cv_fail_count = 0 \/ cv_fail_count < CvFailAfter

\* No reason to skip the D term is noted, and there is a PV to compare with.
DerivativeUsed == controller.skip = "none" /\ controller.last_pv # None

\* When a tick's derivative is used, its dt is the time between the two
\* measurements it divides.
DerivativeSpansDt ==
    [][(At("awake") /\ pc' = "read" /\ DerivativeUsed) => dt' = pv_age]_vars

\* No bursts: the process never starts a tick and finds the next one due,
\* and never sleeps past one interval after a tick either.
NoBurst ==
    [][(At("awake") /\ pc' \in {"top", "read"}) => until' > 0 /\ until' <= interval]_vars

\* A shutdown request ends the process.
ShutdownCompletes == shutdown ~> At("down")

\* A loop that is left alone and not held goes on computing ticks.
StepsKeepComing ==
    (<>[](~At("down") /\ ~shutdown /\ ~hold)) => []<>At("read")
=============================================================================
