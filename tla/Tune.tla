-------------------------------- MODULE Tune --------------------------------
(***************************************************************************)
(* `loop --tune`: the event loop of tune::run (tune/mod.rs) with its keys  *)
(* and typed commands (tune/input.rs).  It is a second loop on the session *)
(* and has its own rules: a hold goes on writing, a dry run is a switch, a *)
(* new interval starts a new deadline, and leaving writes no safe CV.      *)
(* Settings, schedule, failure limits and socket requests are those of     *)
(* Loop.tla, whose variables are used here too; what a tick computes is    *)
(* left open, so dt and pv_age keep their first values.                    *)
(*                                                                         *)
(* An iteration of the loop is: top, poll (at most one key), sleep (socket *)
(* requests, named so because Loop serves them there), awake (is a tick    *)
(* due?), read (PV, then hold or step).  A command line is one event, at   *)
(* its Enter key; focus, overlays, history and drawing are left out.       *)
(***************************************************************************)
EXTENDS Loop

CONSTANT MaxRequests   \* socket requests served in one iteration (10)

ASSUME TuneAssumption ==
    MaxRequests \in Nat /\ {"ok", "err", "dry"} \subseteq SinkResults

VARIABLES
    dry_run,         \* ui.dry_run
    quit,            \* ui.quit
    hardware,        \* was a CV sink configured?
    last_interval,   \* the interval the deadline was made for
    served,          \* requests served in this iteration
    simulated        \* history: is the CV recorded last one of a dry run?

tuneVars == <<dry_run, quit, hardware, last_interval, served, simulated>>
tuneAll == <<vars, tuneVars>>

----------------------------------------------------------------------------

\* The sink a tick writes to: DryRunCvSink, or the hardware with its failures.
ActiveResults == IF dry_run THEN {"dry"} ELSE {"ok", "err"}

\* cannot disable dry-run without a CV sink.
SinkMissing == ~dry_run /\ ~hardware

\* What the actuator is asked for.  A dry sink asks nothing.
Asks(cv, result) == attempted' = IF result = "dry" THEN attempted ELSE cv

\* A CV that a real sink confirmed is not simulated any more.
Recorded(result) ==
    simulated' = CASE result = "dry" -> TRUE
                   [] result = "ok" -> FALSE
                   [] OTHER -> simulated

StartTune(config, i, reset, hw, dry) ==
    /\ At("down") /\ Goto("top")
    /\ hw \/ dry
    /\ New(config, FlushOf(i), reset)
    /\ interval' = i /\ until' = i /\ tick_age' = 0
    /\ hold' = FALSE /\ shutdown' = FALSE
    /\ pv_fail_count' = 0 /\ cv_fail_count' = 0
    /\ attempted' = None /\ flushed' = FALSE
    /\ hardware' = hw /\ dry_run' = dry /\ quit' = FALSE
    /\ last_interval' = i /\ served' = 0 /\ simulated' = FALSE
    /\ exit' = "clean"
    /\ UNCHANGED <<dt, pv_age>>

Iterate ==
    /\ At("top") /\ ~shutdown /\ ~quit
    /\ Goto("poll")
    /\ UNCHANGED <<sessionVars, interval, hold, shutdown, dt, exit, attempted,
                   flushed, clocks, counts, tuneVars>>

FlushShutdown == ForceFlush /\ flushed' = (HasStore /\ fail_count' = 0)

\* Mutant: what `q` has flushed is not flushed again.
LeaveUnlessFlushed ==
    /\ At("top") /\ (shutdown \/ quit)
    /\ Goto("done")
    /\ IF flushed THEN UNCHANGED <<sessionVars, flushed>> ELSE FlushShutdown
    /\ UNCHANGED <<interval, hold, shutdown, dt, exit, attempted, clocks,
                   counts, tuneVars>>

\* Mutant: the flag that the signal handler sets is not looked at.
LeaveOnKeyOnly ==
    /\ At("top") /\ quit
    /\ FlushShutdown
    /\ Goto("done")
    /\ UNCHANGED <<interval, hold, shutdown, dt, exit, attempted, clocks,
                   counts, tuneVars>>

\* Asked to leave: flush and return.  No safe CV is written.
LeaveLoop ==
    /\ At("top") /\ (shutdown \/ quit)
    /\ FlushShutdown
    /\ Goto("done")
    /\ UNCHANGED <<interval, hold, shutdown, dt, exit, attempted, clocks,
                   counts, tuneVars>>

----------------------------------------------------------------------------
(* Keys and commands: at most one per iteration, also after a signal.       *)

Key(op) ==
    /\ At("poll") /\ Goto("sleep") /\ op
    /\ UNCHANGED <<shutdown, dt, exit, attempted, clocks, counts, hardware,
                   last_interval, served, simulated>>

PollTimesOut == Key(UNCHANGED <<sessionVars, interval, hold, flushed, dry_run,
                                quit>>)

\* `q`, Ctrl-C, quit, exit: flushed here, and once more when the loop is left.
QuitKey == Key(/\ FlushShutdown
               /\ quit' = TRUE
               /\ UNCHANGED <<interval, hold, dry_run>>)

SaveKey == Key(ForceFlush /\ UNCHANGED <<interval, hold, flushed, dry_run, quit>>)

ResetKey == Key(/\ ResetIntegral
                /\ UNCHANGED <<interval, hold, flushed, dry_run, quit>>)

\* The arrow keys, and kp, ki, kd, sp.
AdjustKey(config) == Key(/\ SetConfig(config)
                         /\ UNCHANGED <<interval, hold, flushed, dry_run, quit>>)

\* `h` toggles; hold and resume set.
HoldKey == Key(/\ hold' \in BOOLEAN
               /\ UNCHANGED <<sessionVars, interval, flushed, dry_run, quit>>)

DryRunKey == Key(/\ dry_run' = ~dry_run
                 /\ UNCHANGED <<sessionVars, interval, hold, flushed, quit>>)

IntervalCommand(i) == Key(/\ interval' = i
                          /\ SetFlushInterval(FlushOf(i))
                          /\ UNCHANGED <<hold, flushed, dry_run, quit>>)

\* A command that is unknown or has no value ends the process, with exit code
\* 3, without a flush and without a safe CV.
BadCommand ==
    /\ At("poll") /\ Goto("leave")
    /\ UNCHANGED <<sessionVars, interval, hold, shutdown, dt, exit, attempted,
                   flushed, clocks, counts, tuneVars>>

----------------------------------------------------------------------------
(* The rest of an iteration.                                                *)

TuneRequest ==
    /\ Request
    /\ served < MaxRequests /\ served' = served + 1
    /\ UNCHANGED <<dry_run, quit, hardware, last_interval, simulated>>

\* Mutant: the deadline does not follow a new interval.
RetimedNever == until

\* Mutant: the interval is taken for a new one in every iteration.
RetimedAlways == interval

\* A new interval counts from now.
Retimed == IF interval # last_interval THEN interval ELSE until

ServeEnds ==
    /\ At("sleep") /\ Goto("awake")
    /\ until' = Retimed
    /\ last_interval' = interval
    /\ served' = 0
    /\ UNCHANGED <<sessionVars, interval, hold, shutdown, dt, exit, attempted,
                   flushed, tick_age, pv_age, counts, dry_run, quit, hardware,
                   simulated>>

NotDue ==
    /\ At("awake") /\ until > 0 /\ Goto("top")
    /\ UNCHANGED <<sessionVars, interval, hold, shutdown, dt, exit, attempted,
                   flushed, clocks, counts, tuneVars>>

\* A tick is due.  It measures its dt whether or not the loop is held.
Due ==
    /\ At("awake") /\ until <= 0
    /\ until' = NextUntil /\ tick_age' = 0
    /\ UNCHANGED <<interval, hold, shutdown, dt, exit, attempted, flushed,
                   pv_age, counts, tuneVars>>

DueSkipped ==
    /\ Due
    /\ ~DtInRange(tick_age, interval) /\ ~DtClamp
    /\ Goto("top")
    /\ OnDtSkipped

DueMeasured ==
    /\ Due
    /\ DtInRange(tick_age, interval) \/ DtClamp
    /\ Goto("read")
    /\ UNCHANGED sessionVars

\* The safe CV goes to the hardware, in a dry run too.
TunePvFails(result) ==
    /\ At("read") /\ "err" \in PvResults
    /\ pv_fail_count' = SaturatingInc(pv_fail_count, CountCap)
    /\ IF hardware /\ SafeCv # None
       THEN WriteSafe(result) /\ Recorded(result)
       ELSE UNCHANGED <<sessionVars, attempted, simulated>>
    /\ Goto(IF PvExhausted(pv_fail_count') THEN "leave" ELSE "top")
    /\ UNCHANGED <<interval, hold, shutdown, dt, exit, flushed, clocks,
                   cv_fail_count, dry_run, quit, hardware, last_interval,
                   served>>

PvRead ==
    /\ At("read") /\ "ok" \in PvResults
    /\ pv_fail_count' = 0
    /\ UNCHANGED <<interval, hold, shutdown, dt, exit, flushed, clocks,
                   dry_run, quit, hardware, last_interval, served>>

\* Dry-run was switched off and there is no sink to write to.
ReadWithoutSink ==
    /\ PvRead /\ SinkMissing
    /\ Goto("leave")
    /\ UNCHANGED <<sessionVars, attempted, cv_fail_count, simulated>>

\* hold_tick_write: the CV applied last is written again.  The first failure
\* ends the process, without a safe CV.
HeldTick(result) ==
    /\ PvRead /\ hold /\ ~SinkMissing /\ result \in ActiveResults
    /\ HoldTickWrite(result)
    /\ Asks(Applied(snapshot.last_cv), result)
    /\ simulated' = (simulated /\ result # "ok")
    /\ Goto(IF Ok(result) THEN "top" ELSE "leave")
    /\ UNCHANGED cv_fail_count

\* Mutant: hold is honoured by the socket's loop only.
StepTickHeldToo(pv, i_acc, cv, result) ==
    /\ PvRead /\ ~SinkMissing /\ result \in ActiveResults
    /\ ProcessPv(pv, i_acc, cv, result)
    /\ Asks(cv, result) /\ Recorded(result)
    /\ cv_fail_count' = IF Ok(result) THEN 0 ELSE cv_fail_count + 1
    /\ Goto(IF CvExhausted(cv_fail_count') THEN "failing" ELSE "top")

\* ticker::step on the active sink.
StepTick(pv, i_acc, cv, result) ==
    /\ PvRead /\ ~hold /\ ~SinkMissing /\ result \in ActiveResults
    /\ ProcessPv(pv, i_acc, cv, result)
    /\ Asks(cv, result) /\ Recorded(result)
    /\ cv_fail_count' = IF Ok(result) THEN 0 ELSE cv_fail_count + 1
    /\ Goto(IF CvExhausted(cv_fail_count') THEN "failing" ELSE "top")

\* CV writes are exhausted; only hardware can fail, so it gets the safe CV.
FailingTune(result) ==
    /\ FailingSafe(result)
    /\ IF SafeCv = None THEN UNCHANGED simulated ELSE Recorded(result)
    /\ UNCHANGED <<dry_run, quit, hardware, last_interval, served>>

----------------------------------------------------------------------------

TuneGone ==
    /\ dry_run' = FALSE /\ quit' = FALSE /\ hardware' = FALSE /\ served' = 0
    /\ last_interval' = interval
    /\ UNCHANGED simulated

TuneReturn == Return /\ TuneGone
TuneKill == Kill /\ TuneGone
TuneSignal == Signal /\ UNCHANGED tuneVars

\* Elsewhere the clock is not read before the next of these phases is reached.
TunePass == pc \in {"poll", "awake", "read"} /\ Pass /\ UNCHANGED tuneVars

TuneInit ==
    /\ Init
    /\ dry_run = FALSE /\ quit = FALSE /\ hardware = FALSE
    /\ last_interval = interval /\ served = 0 /\ simulated = FALSE

TuneStart ==
    \E c \in Configs, i \in Intervals, r, hw, dry \in BOOLEAN :
        StartTune(c, i, r, hw, dry)

Keys ==
    \/ QuitKey \/ SaveKey \/ ResetKey \/ HoldKey \/ DryRunKey \/ BadCommand
    \/ \E c \in Configs : AdjustKey(c)
    \/ \E i \in Intervals : IntervalCommand(i)

TuneRead ==
    \/ ReadWithoutSink
    \/ \E r \in {"ok", "err"} : TunePvFails(r) \/ FailingTune(r)
    \/ \E r \in {"ok", "err", "dry"} : HeldTick(r)
    \/ \E pv \in PVs, a \in IAccs, cv \in CVs, r \in {"ok", "err", "dry"} :
           StepTick(pv, a, cv, r)

\* What the loop does by itself, whether or not a key is pressed.
TuneStep ==
    \/ Iterate \/ LeaveLoop \/ PollTimesOut \/ ServeEnds
    \/ NotDue \/ DueSkipped \/ DueMeasured
    \/ TuneRead \/ TuneReturn

TuneNext ==
    \/ TuneStart \/ TuneStep \/ Keys \/ TuneRequest
    \/ TuneSignal \/ TuneKill \/ TunePass

TuneSpec == TuneInit /\ [][TuneNext]_tuneAll

\* poll waits 50 ms at most and a key only ends it earlier.  Time passes while
\* the loop comes round to poll again and again: strong fairness, since TunePass
\* is written for some phases only.
TuneFairSpec ==
    /\ TuneSpec
    /\ WF_tuneAll(TuneStep \/ Keys) /\ SF_tuneAll(TunePass)

----------------------------------------------------------------------------
(* Properties. *)

\* Types, the link between process and session, and the failure limits.
TuneTypeOK ==
    /\ SessionTypeOK /\ ClocksOK /\ CountsOK
    /\ pc \in {"down", "top", "poll", "sleep", "awake", "read", "failing",
               "done", "leave"}
    /\ up = (pc # "down")
    /\ interval \in Intervals /\ last_interval \in Intervals
    /\ attempted \in OptCVs
    /\ hold \in BOOLEAN /\ shutdown \in BOOLEAN /\ flushed \in BOOLEAN
    /\ dry_run \in BOOLEAN /\ quit \in BOOLEAN /\ hardware \in BOOLEAN
    /\ simulated \in BOOLEAN
    /\ served \in 0 .. MaxRequests

\* Whatever mix of dry runs, holds, failures and safe CVs came before, the CV
\* that the next tick limits its slew against, and that a hold would write, is
\* the one that was confirmed last, unless it was simulated last.  The actuator
\* has it, unless a write that failed has reached it since.
TuneCvKnown ==
    (up /\ Wrote /\ ~simulated) => /\ Applied(snapshot.last_cv) = confirmed
                                   /\ actuator \in {confirmed, None}

\* A dry run asks nothing of the actuator but the safe CV.
DryRunOnlySafe ==
    [][(dry_run /\ dry_run' /\ attempted' # attempted) => attempted' = SafeCv]_tuneAll

\* While the loop is held, keys, requests and late ticks move the actuator to
\* the safe CV, after a PV failure, or to the CV recorded last, and to that one
\* only when the actuator is not known to have it: it was simulated in a dry
\* run, this process has had no CV confirmed yet (then it is the one of the
\* state file, or 0.0), or a write that failed has reached the actuator.
HoldKeepsCv ==
    [][(hold /\ hold' /\ actuator' # actuator)
           => \/ actuator' \in {SafeCv, None}
              \/ /\ actuator' = Applied(snapshot.last_cv)
                 /\ simulated \/ ~Wrote \/ actuator = None]_tuneAll

\* However the interval is changed, the deadline an iteration leaves behind is
\* ahead, by the current interval at most: no bursts, and no long wait that was
\* begun under another interval.
DeadlineAhead ==
    [][At("awake") /\ ~At("awake")' /\ pc' # "down"
           => until' > 0 /\ until' <= interval]_tuneAll

\* A tick may still run between `q` and the end of the loop; after a clean end
\* whose flush succeeded the file has it too, and names the CV confirmed last,
\* which the actuator has unless a write that failed has reached it since.
TuneExitDurable ==
    (At("down") /\ exit = "clean" /\ flushed /\ Wrote /\ ~simulated)
        => /\ disk # NoFile
           /\ Applied(disk.last_cv) = confirmed
           /\ actuator \in {confirmed, None}

\* A key or a signal that asks to leave ends the process, however many socket
\* requests arrive and whether or not the flush succeeds.
TuneEnds == (quit \/ shutdown) ~> At("down")

\* A dashboard that is not left and keeps its interval goes on with its ticks:
\* keys, requests, a hold or a dry run cannot starve them.
TicksKeepComing ==
    \A i \in Intervals :
        <>[](~At("down") /\ ~quit /\ ~shutdown /\ interval = i) => []<>At("read")
=============================================================================
