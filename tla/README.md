# A verification project for pid-ctl

TLA+ modules, model-checking runs and machine-checked proofs about `pid-ctl`, a
command-line PID controller written in Rust.  The modules are translated from
the source under `src/crates/`; paths below are relative to
`src/crates/pid-ctl/src` unless they say otherwise.

## 1. The system

A `pid-ctl` process reads a process value (PV), computes a control value (CV)
with a PID law, writes it to an actuator, and keeps its state in a JSON file so
that the next process continues where it stopped.

| Component | Code | State it keeps | Operations |
|---|---|---|---|
| control law | `../../pid-ctl-core/src/lib.rs` | config, `i_acc`, `last_pv`, `effective_sp`, the D-term skip mark | `step`, `set_gains`, `set_setpoint`, `restore_state`, `mark_dt_skipped`, `reset_integral` |
| controller session | `app/mod.rs` | the controller, an in-memory `StateSnapshot`, the persister | `new`, `process_pv`, `on_dt_skipped`, `record_confirmed_cv`, `hold_tick_write`, setters, `force_flush` |
| snapshot persister | `app/snapshot_persister.rs` | flush interval, instant of the last flush, failure count | `persist` (coalesced), `force_flush` |
| state file | `app/state_store.rs` | `<state>`, `<state>.lock`, a temporary file per save | `load`, `save` (temporary file, fsync, rename), `acquire_lock` |
| loop command | `cmd/cmd_loop.rs`, `app/ticker.rs`, `app/loop_runtime.rs`, `schedule.rs` | deadline, `last_tick`, hold flag, failure counts, shutdown flag | one tick per interval, dt policy, failure escalation, shutdown |
| socket requests | `app/socket_dispatch.rs` | none of its own | status, set, reset, hold, resume, save |
| socket transport | `socket.rs`, `cmd/cmd_socket.rs` | a path, a listener, its backlog | probe, unlink, bind; accept, read, answer while the loop sleeps; unlink at the end |
| once, pipe | `cmd/cmd_once.rs`, `cmd/cmd_pipe.rs` | a session per process, `last_tick` (pipe) | one step; one step per line of stdin |
| replay | `cmd/cmd_replay.rs` | a controller, no session | one step per iteration record of a log |
| command line | `cli/` | none | which flags exclude each other; flags, state file and defaults merged |
| tune | `tune/` | a session, a dashboard, hold and dry-run switches | a second loop on the session, with keys and typed commands |
| autotune | `autotune.rs`, `cmd/cmd_autotune.rs` | the relay experiment | warm-up, relay ticks, result, gains into the state file |
| state commands | `cmd/cmd_state.rs` | none | `init`, `purge`, `status` |
| PV sources, CV sinks | `adapters/mod.rs` | a stdin reader thread, child processes with timeouts | `read_pv`, `write_cv` |
| simulator | `../../pid-ctl-sim` | a plant model in a file | a test aid |

How they interact: `loop`, `once`, `pipe` and `tune` each own a session and call its
methods from one thread.  The session steps the control law, writes the CV through a
sink and hands its snapshot to the persister, which saves it or coalesces the save.
Beside the thread of the loop run the signal handler, which sets a flag, the stdin
reader thread, and the user's commands in child processes.  Socket requests are served
by the loop itself, in the chunks of its sleep.  Processes meet at the state file
(lock and rename), at the socket path and at the actuator.

What is hard in it, and what makes each component correct:

* **Session.** Controller, snapshot, file and actuator hold the same facts four
  times; a CV write or a save may fail between any two updates.  Correct: the
  recorded CV is the one that was confirmed last, the snapshot is what the
  controller would restore, the file is always one whole past snapshot.
* **Loop.** A clock that is late, skipped, held or re-timed at runtime; two
  failure counters; a shutdown that may come at any point.  Correct: no bursts,
  no derivative over the wrong time, an end at the failure limits, a safe CV and
  a flushed file at the end, and an end at all.
* **Control law.** Ramp, filter, anti-windup, output limit and slew limit act one
  after another and each could undo another.  Correct: each limit holds after
  all of them, also after failed writes and restarts.
* **State file.** Crashes between the steps of a save, and processes that write
  without the lock.  Correct: the file is whole at every point, and a save is one
  step to whoever holds the lock.
* **Once and pipe.** Many short processes on one file: flags merged with a file read
  without the lock, a dt taken from a timestamp cut to seconds, saves put off.  Correct:
  parameters change when asked to, the dt is the time between the PVs (between
  processes, less what the code leaves out, 4.10), the exit code tells what was written.
* **Sources and sinks.** A reader thread that is a line behind, commands that hang, fork
  or leave their process group.  Correct: lines are neither lost nor swapped, a call
  ends, and nothing sets the actuator after its successor did.
* **Socket.** Several processes and one path, clients that say nothing or leave.
  Correct: the path leads to the loop that runs, an answer is true, no client holds up
  the loop.
* **Replay.** Correct: the same CVs from the log alone.
* **Tune, autotune.** A second loop with its own rules; an experiment that may stop
  halfway.

`PROJECT.json` lists every hazard at its line, with the properties aimed at it.

## 2. The modules

| Module | Models | Composes |
|---|---|---|
| `DurableSnapshot` | what persistence promises: a register that survives crashes (abstract) | |
| `Session` | `ControllerSession`, `SnapshotPersister`, `StateStore` as atomic load and save | refines `DurableSnapshot` |
| `Loop` | `run_loop`, `ticker::step`, dt policy, scheduling, shutdown, socket requests | extends `Session` |
| `PidController` | the control law with all its calls, in integers | |
| `Tune` | `tune::run` with its keys and commands: the second loop on the session | extends `Loop` |
| `StateFile` | `StateStore` call by call, the lock, `init`, `purge` and autotune's save, several processes | its sessions refine `DurableSnapshot` |
| `Relay` | `AutotuneEngine`: the relay, its phases and what it records of them | |
| `Autotune` | `run_autotune`: warm-up, relay loop, result | extends `Relay` |
| `Replay` | `run_replay`: a second controller on the log of the first | extends `PidController` and takes a second instance of it |
| `CommandLine` | what `once` and `pipe` accept, and `resolve_pid_config` | |
| `Commands` | `run_once` and `run_pipe`, several processes on one state file | extends `Session`, takes an instance of `CommandLine` |
| `StdinPv` | `StdinPvSource`: writer, pipe, reader thread, channel | |
| `ChildCommand` | `CmdPvSource`, `CmdCvSink`: spawn, deadline, kill of the group, drain | |
| `Adapters` | the reads and writes of one loop, and `FileCvSink` | extends `StdinPv` and `ChildCommand` |
| `ControlSocket` | `SocketListener`, `client_request` and their processes | |
| `MCSession`, `MCLoop`, `MCTune`, `MCPidController`, `MCStateFile`, `MCAutotune`, `MCCommands`, `MCAdapters`, `MCControlSocket` | values for TLC (`MCPidController` extends `Replay`) | |
| `SessionProofs`, `LoopProofs`, `CommandsProofs`, `ControllerProofs`, `StateFileProofs`, `AutotuneProofs`, `AdaptersProofs`, `SocketProofs` | theorems (`LoopProofs` also on `Tune`, `ControllerProofs` also on `Replay`) | |

**Session.** `controller`, `snapshot`, `flush_interval`, `flush_age` (the
persister's `last_flush` as an age), `fail_count` and `disk` are the fields of
the structs.  Every public method that changes them is one action, and callers
may invoke them in any order, since four commands do so in their own orders.
The numbers that `step` computes are left open here: a tick may produce any CV
and accumulator.  The parameters kp, ki, kd and setpoint are one vector
`config`.  A save either installs the snapshot and resets the failure count, or
leaves the file and counts a failure.  A crash inside a tick after the CV write
ends in the same state as a tick whose save failed followed by `Stop`, so a tick
is one action.  A write answers Ok or not; one that does not may have reached the
actuator before it failed.  `confirmed` (the CV of the last write that returned Ok),
`actuator` (what is there, `None` when that is not known) and `resetAtStart` are history
variables.

**Loop.** `pc` follows `run_loop`: `top` (the `while`'s first lines), `sleep`,
`awake` (after the sleep, up to the dt policy), `read` (PV, then
`ticker::step`), `failing` (CV writes exhausted), `final` and `flush`
(`finalize_shutdown`), `done` and `leave` (return), `down` (no process).  Instants
are kept as differences with now, so the model has no clock that runs out.
`Pass` lets a unit of time go by at any phase: slow commands, late wake-ups.
A process may be killed in every state and be started again on the file that is
there.  A socket request is an action of the session, enabled during the sleep.

**Tune.** The phases of an iteration are `top`, `poll` (one key at most), `sleep` (up to
`MaxRequests` socket requests), `awake` (is a tick due?) and `read` (PV, then
`hold_tick_write` or `ticker::step`); the ends are as in `Loop`, whose variables and
socket requests are used here.  A key is the session call it leads to; a typed
command is one event, at its Enter key, and an unknown one ends the process.
`dry_run`, `quit` and `last_interval` are the locals and UI fields of that name;
`hardware` says whether a CV sink was configured.  `simulated` is a history variable:
the CV recorded last went to a dry-run sink, so the actuator does not have it.  What
differs from `Loop` is what the module is for: a hold writes, a tick's dt runs on while
held, the deadline follows a new interval, and no safe CV is written on leaving.

**PidController.** One action per method.  `Step` is the whole of
`PidController::step`, composed from operators named as the functions are.
Reals are integers, and division rounds down; the caller's side is `applied`,
the CV it reports as applied.  `Session.ProcessPv` is the other half of the same
call, with the computation left open.

**StateFile.** `pc[p]` follows a process through `acquire_lock`, `load`, its work and
the calls of `save`: `create`, `write`, `sync`, `rename`, and `cleanup` after a failure.
Every call may fail; a process may be killed between any two; the machine may lose
power, upon which a file that was not synced may be empty, and a rename whose
directory was not written back may be undone.  Temporary files are names
`<<pid, counter>>`; a pid is used again by a later process, so a leftover can be in the
way of a save.  `kind[p]` is the command: `session` stands for loop, once, pipe
and tune, `autotune` for the end of that command, the only one that writes without
the lock.  `status` reads the file in one step, so `FileWhole` is what it needs.

**Relay, Autotune.** `EngineTick` is `AutotuneEngine::tick`: the PV crosses the
reference and completes a phase, or the phase goes on.  The three histories grow as in
the code; Ku, Tu and the gains are functions of them, of which only "is there a
result" (`HasEstimates`) and "has it settled" (`SettlementCheck`) steer the command, so
only these are computed, without division.  `pc` follows `run_autotune`: `warmup`,
`top` (the shutdown flag), `sleep`, `read` (PV, engine, CV), `result`, `done`.  Instants
are relative to now, as in `Loop`; the warm-up's clock is left out, since nothing later
depends on it, and so a signal in the middle of a warm-up tick is one that comes before
the next.  A failing CV write has no effect on the command.  `phase_age`, `lost`,
`excursion`, `last_pv` and `after_signal` are history variables: what happened, next to what the
engine recorded.

**Replay.** The loop and the replay of its log run in step: `LoggedStep` is a step of
`PidController` and, while `replaying`, one of `Second`, the instance of the same module
with replay's settings.  What happens to the loop without a word in an iteration record
(`Untold`), and a log that was not made with replay's defaults, end the comparison; so does
a step in which the loop's bound of the tracking time (`TtUpperBound`, 100 intervals) and replay's
(`ReplayTtBound`, 100 s) give different times (`SameTracking`).

**CommandLine, Commands.** `Flags` are records of what was given; `Parse` refuses what
`once` and `pipe` refuse and merges the rest with the file it reads without the lock; `Open`
is `ControllerSession::new` under the lock.  Then `once` measures a dt (`MeasureDt`), reads
a PV (`ReadPv`) and steps, up to the save (`StepOnce`), and `pipe` takes a line (`Line`) and
steps (`StepLine`).  Time passes in between: the read and the write take up to `SlowCap`,
and a step is an action at its end, where `updated_at` is taken.  Time is counted in parts
of a second, because `updated_at` is written in whole seconds.  `config` is split into a
setpoint, which has no default, and gains and limits, which have one.  `read`, `stepped`,
`span`, `slack` and `raced` are history variables: when the PV in the snapshot was read and
when the step that recorded it ended, the time between the two PVs of a measured dt, what of
it the write and the read took, and whether another process changed the file after the flags
were merged.

**StdinPv, ChildCommand, Adapters.** Lines are numbered, modulo a number larger than can be pending.
A child is a shell and one worker, in the foreground, in the background or in a group of
its own (`setsid`), which may hold the shell's output open, and may set the actuator as it
ends.  Calls are told apart by their age.  `Adapters` puts the two behind `read_pv` and
`write_cv` of one loop, of which it keeps the order of calls and `--fail-after`.
`FileCvSink` works on integers of either sign, ten to the last printed digit, with the roundings
the code uses: `{:.prec$}` (ties to even) for what is printed, and `f64::round` (ties away from
zero) for the CV and for what is read back.  The device takes what was printed, keeps what it has
or settles on a value of its own (`Held`), which need not be a printed one.

**ControlSocket.** `phase[p]` follows a loop process through `bind` (`probe`, `unlink`,
`bind`, `chmod`), its sleep in chunks, `try_service_one` (`serve`, `read`, `reply`), its
ticks (`Wake` sets the next deadline, `Tick` takes up to `TickCap`, and `top` sleeps only if
that deadline is still ahead), and its end (`unlinked`: `Drop` removes the path, then the
listener closes).  The path names the socket some process made.  `stateful` are the
processes that share a `--state`, whose lock they hold before they bind.  A probe is a
connection and takes a place in the backlog, as in the code; one that fails takes the
listener for stale (`mistaken`).  A client connects, sends its request or leaves, and gives
up when it likes.  What a request does is `Loop`'s business; here it is counted.

Mutants: a definition commented `Mutant:` is the definition next to it with a
plausible bug, used to show that a property can fail.  Nothing else refers to it.

## 3. The runs

| Run | Asks | Result |
|---|---|---|
| `session` | does the bookkeeping follow the confirmed CVs and the controller, and does the session implement the register, for every order of calls with failures and kills | holds |
| `loop_exit` | what a process asked of the actuator last and what it leaves in the file, however it ends | holds |
| `loop_clock` | the clock of `loop`: bursts, the time a derivative spans, an end after a shutdown request, and ticks that keep coming | holds |
| `tune` | the dashboard: what is known of the actuator's CV through dry runs, holds and failures, and what the file says after a clean end | holds |
| `tune_clock` | the dashboard's clock: deadlines after changes of the interval, an end after `q` or a signal, ticks that no key or request can starve | holds |
| `controller` | output and slew limits and anti-windup, together; does a replay of the log compute the same | holds |
| `state_file` | several processes on one state file: is it whole at every point, does the lock exclude, is a save one step for its session | holds |
| `autotune` | the relay experiment with noise, failing reads, late ticks and signals: its half-periods, its exit code, its end | holds |
| `commands` | once and pipe, process after process and side by side: measured dt, merged parameters, coalesced saves, exit codes | holds |
| `adapters` | the stdin thread against timeouts, commands against deadline and kill, `--verify-cv` against a device that keeps its value | holds |
| `socket` | one socket path, several processes and clients: who owns it, what an answer tells, what holds up a tick, which loop takes connections | holds |
| `autotune_peaks` | a recorded peak is the highest PV between two flips | violated, 4.1 |

The type invariants, and some smaller properties of the loop, the dashboard, the relay and
the ramp (`BelowLimits`, `DryRunOnlySafe`, `PeaksBeyondRef`, `RelayDrivesBack`,
`OneCvAfterSignal`, `RampKept`), are in no run: they are proved for all values (section 5).

**Bounds.** `IterMax` and `FailMax` stand for the saturation points of a `u64` and a `u32`;
small values bring saturation into reach.  `AgeCap` is above every time the code compares
with (dt limits and flush interval), so ages beyond it cannot be told apart.  `LateCap`
bounds how far the process runs behind its deadline; with intervals 1 and 2 a lateness of 2
already spans two boundaries, the case in which `next_deadline_after_tick` has to skip one.
`CountCap` is at least `--fail-after`.  Two CVs, configurations and accumulator values
suffice for `session`, whose properties only compare them.  In `MCLoop` the unit of time is
20 s where defaults matter, so MAX_DT_DEFAULT (60 s) is 3; `loop_clock` uses 10 s and 6.
`controller` has a bound of the tracking time of 2 for the loop, which cuts the tracking
time 3 of one gain vector, and replay's 100; it takes limits 2..4, so that the initial CV 0
is below them, setpoints beyond both ends, PVs from 1 to 5, dt 1 and 2, gain vectors with
and without an integral part, ramps and slew limits on and off, and both working anti-windup
modes (`"none"` bounds nothing, and is left to the proofs).

`state_file` has two processes, enough for every race over a file, a lock and a name,
and two saves per process, so that one can follow a failed one; pids are symmetric.

`tune` has one interval, so that its states are spent on keys, sinks and failures, and
one socket request per iteration in place of ten: its properties compare single
steps, and a second request is reached in the next iteration.  `tune_clock` has two
intervals and no state file, which its properties do not refer to.

`autotune`: the unit of time is one interval.  Settlement needs `MIN_CYCLES` (3, the
code's) cycles of two ticks or more, so a duration of 7 is the shortest in which a
test can settle, and one with fewer cycles, with two, and with a late or failed tick
all occur.  A warm-up of one tick stands for ten or more: each only replaces the PV
kept.  PVs below, on and above the reference are needed (0..2); for the overshoot of
`autotune_peaks`, a second one above (0..3).  `LateCap` is how far the process may run
past the duration.

`loop_clock` runs without a state file, with reads that succeed and with intervals up to
MAX_DT_DEFAULT.  A restored `last_pv` is of unknown age, and failed reads break the property
(4.2): with either, `DerivativeSpansDt` does not hold, but for the half of it that is proved
as `DtWithinSpan`; nor does `StepsKeepComing` with a longer interval (4.3).

`commands`: two processes, half a second as the unit of time (`Second` = 2), so that the cut
of `updated_at` shows, reads and writes of up to one unit (`SlowCap`), dt limits 1..3, and
ages up to 6, above a measured dt with a write and a read.  The flags (`mcFlags`) are those
of a first `once`, one that relies on the file and prints JSON, one that sets gains, a dry
run with `--dt`, a `pipe`, and three that are refused.  `IterMax` is 1, since no property
here is about the count.

`adapters`: a stdin reader with a device file and a PV command with a CV command.  Two
lines in the pipe, one in the thread and one in the channel are all places a line can
be in; three kinds of line; one worker left over from earlier calls, which is enough to act
late; calls older than two are not told apart.  CVs include exact ties of both signs, and the
device's own values (`Held`) ones that are printed by no CV and still verify for one.

`socket`: two processes and two clients, a backlog of one, so that a second client or a probe
finds it full; two requests per chunk (`Batch`, ten in the code), an interval of one
chunk and a read timeout of two, so that a timeout spans a deadline; ticks of no time and of one
interval (`TickCap`), so that they overrun it, once or for ever.

**Deadlock** is checked, except for `autotune`, `autotune_peaks` and `adapters`, whose
process ends and is not started again; elsewhere a process can always be started, or
time can always pass.

**Fairness** (`loop_clock`): `WF(LoopStep)`, since every wait of
the loop is bounded (the sleep by the deadline, the commands by `--cmd-timeout`)
and the thread is scheduled; and `WF(Pass)`, since time passes.  Nothing is assumed
of signals, requests, kills, or which way a read, write or save goes.
`tune_clock` assumes the same of the dashboard: `WF(TuneStep \/ Keys)`, since `poll`
waits 50 ms at most and a key only ends it earlier, and `SF(TunePass)`: the clock is
read in three phases of an iteration only, and the model lets time pass in those, so
"time passes" has to be said of a step that is enabled again and again.
`autotune` assumes `WF(Step)` and `WF(Pass)` for the same reasons as `loop_clock`.
`adapters` assumes `WF(Tick)`, `WF(Reader)` and `WF(Pass)`: the two threads are scheduled and time
passes; nothing of the commands, their workers and the writer of stdin.  `CallsReturn` and
`EofEnds` except a worker out of reach of the kill that keeps a pipe open for ever (4.5).
`socket` assumes `WF(Work(p))` of each process that listens, whose waits end by a timeout,
and nothing of the clients.
`StepsKeepComing` is stated for a process that is eventually neither held nor asked
to stop, with a failure policy that does not end it (`FailAfter = None`).

## 4. Disagreements between code and documents

1. `PeaksArePeaks` (run `autotune_peaks`), `autotune.rs:305`: the peak of a phase is the
   maximum up to the tick that crosses the reference, and every PV before that tick is at
   or below the reference; so the peak recorded is the crossing PV (`PeakIsCrossing`,
   proved).  The overshoot comes after the flip, in the low phase, which keeps minima.  The
   amplitude is too small, Ku too large.  What holds is `PeaksBeyondRef` (proved): the
   amplitude is at least positive.
2. `cmd/cmd_loop.rs:84`: `last_tick` moves before the PV is read, so after a failed read the
   change of two intervals is divided by the time of one; README.md:140 speaks of the
   "time since the previous PID step".  `DerivativeSpansDt` is checked and proved with reads that
   succeed; what is proved of all reads is `DtWithinSpan`: dt is never longer than the
   time the change took, so the code errs towards too large a derivative.
3. `cli/parse.rs:271`: the derived `max_dt` is 60 s at most; with a longer interval, which
   README.md:271 suggests ("several seconds to minutes"), and no `--max-dt`, every
   tick is out of range and skipped.  `StepsKeepComing` is checked with shorter ones.
4. `tune/mod.rs:129`: the dashboard flushes and returns; the safe CV that
   pid-ctl_plan.md:399 asks for on a clean shutdown is written by `loop` only.  `LeavesSafe`
   (proved) is what holds there.
5. `adapters/mod.rs:183`, `:259`: a PV or CV command is waited for with a deadline,
   but its output is read to the end.  A process that left the group, or one in the
   background of a shell that exited, can keep the pipe open without a bound; the
   comment at `adapters/mod.rs:183` says that hung commands do not block the
   controller indefinitely.  `CallsReturn` excludes it.
6. `cmd/cmd_pipe.rs:29`: `pipe` has neither dt limits nor `--dt-clamp`; pid-ctl_plan.md:374 and
   :479 say that dt out of range is skipped in every mode.  It also ends without a
   flush (`cmd/cmd_pipe.rs:55`), so up to a second of lines is not in the file:
   `PipeLagsBySecond` is what holds.
7. `cmd/cmd_state.rs:23`: `status --socket --state` falls back to the file when the socket
   refuses, and not when it is gone, which is how a loop that ended cleanly leaves it.
   pid-ctl_plan.md:30 says "Query a running loop via socket when available; otherwise print
   the last persisted state".
8. `app/mod.rs:208`: when `write_cv` returns Err, the CV before is recorded as applied.
   But `FileCvSink` with `--verify-cv` returns Err after it has written the file
   (`adapters/mod.rs:105`, `:123`), and `CmdCvSink` when the command times out or exits
   non-zero (`:455`), which it may do after it has set the actuator.  The actuator then has
   a CV the code does not know, and pid-ctl_plan.md:323 ("back-calculation reacts to the
   value the actuator actually received") is not true until the next write that succeeds.
   What holds is the wording of pid-ctl_plan.md:410 and :854: `last_cv` is the last CV
   *confirmed* (`LastCvConfirmed`, `CleanExitDurable`, `TuneCvKnown`, `TuneExitDurable`, all
   proved).  Ok is taken for confirmed; without `--verify-cv`, or with a command that lies,
   no one looked.
9. `cmd/cmd_replay.rs:150`: `loop` bounds the automatic tracking time by 100 intervals
   (`cli/parse.rs:269`), replay by the default of 100 s.  With an interval other than 1 s
   they differ where the bound cuts, and the log does not tell the interval; and a record
   with a dt above 100 s makes replay panic.  `ReplayFaithful` compares steps in which the
   two are the same.
10. `app/mod.rs:288`: `updated_at` is taken after the CV was written, and `once` takes its
   dt from it before it reads the PV (`cmd/cmd_once.rs:15`).  With a slow sink or source dt
   is shorter than the time between the two PVs by what both took (`DtSpansPv`, proved, says
   by no more), and the derivative too large.  In `pipe` and `loop` dt runs from
   line to line and from tick to tick, whatever a write took.
11. `cmd/cmd_once.rs:28`: with `--format json`, an output that fails ends `once` with 3 or
   1 after the CV was written and the state saved, or not saved: it comes before exit 4,
   which it hides.  By pid-ctl_plan.md:398 and :465 3 is a bad configuration ("no partial
   execution") and 1 a PV that cannot be read.  And exit 5 means that the CV was not
   confirmed, not that nothing was written (4.8).
12. `socket.rs:161`: a connect that fails for any reason is taken for a stale socket.  With
   a listener that another user owns (EACCES) or no descriptor left (EMFILE), `bind` removes
   a live socket; its comment (`socket.rs:179`) says that it returns an error when a live
   listener occupies the path, and pid-ctl_plan.md:534 lets it delete the socket if the
   connection is refused.  `LoopReachable` excepts it for loops without a common state file.
13. `cmd/cmd_loop.rs:231`: a loop whose ticks overrun the interval returns from its sleep
   at once and does not serve the socket, as long as that goes on.  `ConnectionsTaken`
   excepts it.

Some facts of the code that a reader may not expect are in the models, and no run is about
them.  `--reset-accumulator` clears the controller and not the snapshot (`app/mod.rs:92`),
which a save before the first step writes back: `CoreMirrored` excludes the accumulator
until then.  autotune saves its gains without the lock (`cmd/cmd_autotune.rs:163`), over a
file that a running process has locked and may have advanced: `LockersExclude` and
`SessionsUseRegister` are stated of the other commands.  When the first write of a process
fails, 0.0 is recorded as its last CV (`app/mod.rs:209`), for which reason `LastCvConfirmed`
speaks of processes that have had a CV confirmed.  The slew limit is applied after the
output limits (`pid-ctl-core/src/lib.rs:245`), so a process that starts outside them moves
into them step by step: `LimitsKept` (proved) says that no step moves further outside.
`once` and `pipe` merge their parameters with a file they read without the lock
(`cli/parse.rs:416`); what another process saves in between is overwritten with the older
values, which `ParametersChangeOnRequest` excepts.  `pipe` has no dt limits, so a gap of 100
s makes `anti_windup_tt` panic (`pid-ctl-core/src/lib.rs:383`), as does `once --dt 200`; a
`set interval` of 0 over the socket makes `next_deadline_after_tick` loop for ever and a
negative one panics (`app/socket_dispatch.rs:214`): the models assume values in range.
`--verify-cv` refuses a CV that is an exact tie and rounds to an even digit
(`adapters/mod.rs:123`), although the device has it; since the readback is rounded as well,
it accepts a device that is up to just under one printed digit off (`VerifiedIsApplied`),
and one that answers NaN.  Reads of stdin that time out leave their lines to later reads, so
the lag grows by a line each time; a blank line is taken for the end.  Processes that share
a socket path without a state file, and start at the same time, can remove each other's
fresh socket (`socket.rs:177`); `LoopReachable` says when they cannot.  A request whose
client gave up may still be applied.  A replay leaves `feedforward_gain` at 0
(`cmd/cmd_replay.rs:203`), so a log with feed-forward, or with a ramp, a filter, a slew
limit or changed gains, is not reproduced.

## 5. The proofs

All theorems hold for every value of the constants that satisfies the named
assumptions of the modules.

* `SessionProofs`.  `SessionTypeOK` is inductive; `CoreMirrored` follows with it.
  `LastCvConfirmed` is inductive with the types, under the stated assumption that
  no dry-run sink is in use: one answers Ok and writes nothing.  It says what was
  confirmed last, and that the actuator has just that CV or one that is not known,
  because a write failed after it; it cannot say more of the code (4.8).
  `RegisterSpec` is proved by mapping each session action to a step or a
  stutter of the register.  `FileNeverRegresses` needs `FileBehind`: the file's
  iteration count is at most the snapshot's.
* `LoopProofs`, for `Loop` and for `Tune`.  A step of the loop is a step of the session
  or leaves it alone, so the session's theorems hold of the loop: its file is a durable
  register that never goes back (`LoopFileDurable`).  The
  inductive invariant `LoopInv` joins `LoopTypeOK`, `BelowLimits` and
  `DeadlineMet` (a tick starts no earlier than its deadline, without which the
  modulus in `NextUntil` would not give a deadline in the future).  `LeavesSafe`
  and `CleanExitDurable` carry their facts through the phases of a shutdown:
  after `final` or `failing` the safe CV was asked for (`SafeLast`), after `flush` the
  file is the snapshot (`FlushedIsSaved`), which `LastCvConfirmed` ties to the CV confirmed last.
  Two theorems are about the derivative, both without `--dt-clamp`.  `DtWithinSpanCorrect`
  has no other hypothesis: `SpanCovers` (the time measured so far is part of the age of
  the PV) is inductive through failed reads, holds, skips and restarts.
  `DerivativeSpansDtCorrect` turns its inequality into an equality (`SpanExact`) for a loop
  without a state file whose reads succeed, as in `loop_clock`; without these it is false (4.2).
  A step of the dashboard, too, is a step of its session or leaves it
  alone.  The inductive invariant `TuneInv` joins the types and failure limits with
  `DeadlineNear` (the deadline was made for `last_interval`, which is the interval
  when a tick is looked for; `DeadlineAhead` needs it) and `DownIsIdle`.
  `TuneCvKnown` takes the place of `LastCvConfirmed`, which a dry run breaks: it
  follows the CV through every sink, and `HoldKeepsCv` and `TuneExitDurable` rest on it.  A hold
  does move the actuator in three cases, which `HoldKeepsCv` lists: the recorded CV was simulated,
  this process has had none confirmed yet, or a write failed.
* `CommandsProofs`.  For any number of processes and any set of flags.  The inductive
  invariant `CommandsInv` joins the types of the session, the processes and the clock with:
  one process at most holds the session (`OneSession`, from the lock); what it runs with is
  what it resolved (`Configured`, `GainsFollow`); `updated_at` is the end of the step, cut
  to seconds, and the PV was read at most `SlowCap` before that (`Truncated`); a dt that
  `once` has measured is right for the time up to now, while it reads the PV (`Measured`);
  in `pipe` the last line is the last step, or the one under way (`LineIsStep`); until its
  step a `once` has written nothing and works on what it loaded (`OnceFresh`); the step in
  the file is as old as the last flush (`FlushIsFile`); and the three state properties of
  the run.  From `OneSession`, each step is a step of one session, so all processes together
  implement `SessionSpec` and through it the durable register.  `ParametersChangeOnRequest`
  is proved with `Configured` and `GainsFollow`, case by case over the steps that save.
* `StateFileProofs`.  For any number of processes and saves.  The inductive invariant
  `StateFileInv` adds to the types which command can be in which phase (`KindsFit`),
  the bound on saves (`CountersFit`), what has been written and synced before each
  call (`NodesFit`), and that the file and its durable version are whole and synced
  (`FilesWhole`); without the last two, `FileWhole` would not survive a rename or a
  power loss.  `SessionsUseRegister` is proved by a case per step of a session.
* `AutotuneProofs`.  For every set of PVs, every duration and every lateness.  The
  inductive invariant `AutotuneInv` adds to the types and to `PeaksBeyondRef` that within a
  phase the extremum has not passed the reference (`ExtremumBehind`, from which a recorded
  peak can only be the crossing PV), that the engine's phase time and the age of the last
  tick add up to the age of the phase (`PhaseTimed`), and what is known of signals and of
  the reference in each phase of the command (`SignalCounted`, `BeforeTest`, `RefSet`).
  `ExitCodeCorrect` needs the sums of peaks and troughs, which are a fold.  The induction
  theorems of the library take a predicate as a parameter, but the minimum principle for
  well-founded relations takes a set: `NatBySet` derives induction from it,
  `SummedExists` that the recursive function in the fold exists, and `TotalBounds` that n
  integers above r sum to more than r * n.  So with a peak and a trough the amplitude is positive
  (`AmplitudeIsPositive`), and two cycles always have a result.  The hypothesis is
  `MinCycles >= 2`; the code's `MIN_CYCLES` is 3.
* `AdaptersProofs`.  For all timeouts, caps and CVs.  `CvNeverGoesBack` rests on `ChildInv`:
  once a call has returned, no worker of it is in the foreground (the wait, or the kill of
  the group, saw to that).  `VerifiedIsApplied` rests on `FileInv` (what is read back of a
  write that was let pass rounds to the same digit as the CV) and on a lemma about
  `f64::round`, for numbers of either sign: two that round alike are less than a digit
  apart.  `LinesOnce` is proved for pipes and channels of any size: `LinesInv` says that
  channel, thread and pipe, in this order, hold the numbers that follow the last received
  line, and that after the end of the input nothing more comes (`Ended`); each step moves
  one line between two neighbours.
* `SocketProofs`.  For any number of processes and clients.  `SocketInv` joins the types
  with `ReachInv` (the lock leaves one process running, or starts come one at a time and no
  probe was mistaken; one that is past its probe has nobody listening beside it; a bound one
  owns the path) and `ClockInv` (the time since the last tick in each phase: one that serves
  still has time, whatever the tick before it took).  `AnswersTell` rests on `ConnInv`: a
  client has one connection at most, in one backlog or being served, and its request is not
  applied before that is served.
* `ControllerProofs`.  `ReplayIsFaithful`: in step with the loop, the second controller has
  the same integral, filtered PV and applied CV, by cases on what is logged; each has its
  own bound of the tracking time, and the steps compared are those in which both bounds give
  the same time (`SameTracking`).  Type correctness and the four action properties of `Step`
  for all integers.  Each is reduced to a lemma about one operator (`Clamp`, `RampToward`,
  `Realized`, `BackCalculated`), proved once.  `IntegralBoundedCorrect` holds under
  `Scaled`, which only names the ranges: PVs and setpoints between Lo and Hi, limits and
  safe CVs up to P, the other terms up to R, tracking times between dt and T; the integral
  then stays within (Hi - Lo) * T + P + R.  `ScaleInv` keeps filtered PV, ramped setpoint
  and applied CV in their ranges, and `BackCalculationHolds` is the arithmetic: in an
  integral at the bound the error adds less than the correction takes, also when both
  divisions round down.  The bound that TLC checks on its instance (20) is tighter than the
  theorem's there (35).

TLC has checked `CommandsInv`, `LinesInv`, `AutotuneInv` with `ResultTells`, and `ScaleInv(0, 5, 4)`
as well, each on the instance of the run it belongs to.

Only model-checked: liveness (`ShutdownCompletes`, `StepsKeepComing`, `TuneEnds`,
`TicksKeepComing`, `TestEnds`, `ConnectionsTaken`, `CallsReturn`, `EofEnds`), which the prover
does not treat.  Every safety and action property of a passing run is also a theorem;
`LastCvConfirmed` and `CleanExitDurable` (no dry-run sink), `DerivativeSpansDt`, `ExitCodeTells`
and `IntegralBounded` under the hypotheses that their theorems name.

## 6. Not modelled

* What is computed in floating point: rounding, NaN, infinities.  Negative gains,
  and a dt above `tt_upper_bound` (where `f64::clamp` panics), are left out of
  `PidController` by assumption.
* Feed-forward sources, names, units, logs and events, JSON: they change no
  state that a property is about; what `replay` reads of a log is in `Replay`.
* A request that arrives in parts: the read timeout of the socket is per read, and a client
  that sends byte by byte can hold up a tick longer than `TickDelayBounded` says; so can one
  whose request is too large, of which the rest is read until it ends (`socket.rs:229`) and
  which then counts as served.  Errors of `accept`, which end the services of a chunk as a
  timeout does.
* What a CV command that timed out, or a device by itself, does to the actuator after
  `write_cv` has returned: `Session`'s `actuator` is as of the call.  `CvNeverGoesBack` is
  about the commands.
* `ParametersChangeOnRequest` excepts the interleaving its hazard is about (a process whose file
  changes between its two reads), since there the code writes older parameters back; it
  covers all the others.
* A readback that is NaN (it is accepted), and the rounding of `cv * scale` itself.
* The parsing of numbers, durations and of the flags of loop, tune, autotune and replay: it keeps
  no state.  A PV file and a sink on stdout: single reads and writes.
* The dashboard's drawing, focus, overlays and export: they change no state that a
  property is about.
* The simulator, a test aid.

## 7. Plan

Done, in this order: `DurableSnapshot`, `Session`, `Loop`, `PidController` and their
proofs; `StateFile`, `Tune`, `Relay` and `Autotune` with theirs; `Commands` with
`CommandLine`; `StdinPv`, `ChildCommand` and `Adapters`, `ControlSocket`, `Replay` with
their proofs; the proofs about `Commands`, about the lines of stdin, the exit code of
autotune, the bound on the integral and the dt of the derivative.

| What is left | Content | Properties and proofs |
|---|---|---|
| flags of `loop` | `parse_loop`: what it refuses, with the dt and interval limits it derives | what reaches `Loop` satisfies its assumptions |
| requests in parts | `ControlSocket` with a request of several reads | the delay of a tick by a slow client |
| step composition | `Session.ProcessPv` with the computation of `PidController.Step` | what a session's tick computes is a step of the control law |
