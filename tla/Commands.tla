----------------------------- MODULE Commands ------------------------------
(***************************************************************************)
(* `once` (cmd_once.rs) and `pipe` (cmd_pipe.rs): processes that share a    *)
(* state file.  A process parses its flags, for which it reads the file     *)
(* without the lock (resolve_pid_config), opens a session, which takes the  *)
(* lock and reads the file again, and then works on the session of          *)
(* Session.tla: `once` one step, `pipe` one per line.  Time counts in parts *)
(* of a second, since updated_at is written in whole seconds; ages stand    *)
(* for instants.                                                            *)
(***************************************************************************)
EXTENDS Session, FiniteSets

CONSTANTS
    Procs,          \* processes, each of which runs one command after another
    Flags,          \* the flags a command may be given
    SlowCap,        \* bound: how long a read of the PV, or a write, may take
    Setpoints, Gains, DefaultGains, Second, MinDt, MaxDt

INSTANCE CommandLine

ASSUME CommandsAssumption ==
    /\ Flags \subseteq FlagSet /\ Configs = ConfigSet
    /\ DefaultGains \in Gains /\ None \notin Gains \cup Setpoints
    /\ Second \in Nat \ {0}
    /\ MinDt \in Nat /\ MaxDt \in Nat /\ MinDt <= MaxDt
    /\ SlowCap \in Nat /\ MaxDt + 2 * SlowCap < AgeCap
    /\ {Second, None} \subseteq FlushIntervals
    /\ {"ok", "err", "dry"} \subseteq SinkResults

VARIABLES
    pc,             \* "idle", "resolved", "opened", "measured", "stepping",
                    \* "leaving"
    flags,          \* its flags
    config,         \* the PidConfig it resolved
    code,           \* the exit code it is about to end with
    raced,          \* history: has the file changed since it resolved that?
    fraction,       \* wall clock: time since the last full second
    updated,        \* age of snapshot.updated_at, None before one
    busy,           \* time since the read or the step under way began, or None
    line_age,       \* pipe: age of last_tick, None before one
    dt,             \* the dt of the step, None before one
    read,           \* history: age of the read that gave snapshot.last_pv
    stepped,        \* history: age of the end of the step that recorded it
    span,           \* history: time between the PVs of a measured dt, or None
    slack,          \* history: what of it the write and the read took
    file            \* updated, read and stepped as of the snapshot in the file

local == <<pc, flags, config, code, raced>>
ages == <<updated, read, stepped>>
dts == <<dt, span, slack>>
clocks == <<fraction, ages, busy, line_age>>
vars == <<sessionVars, local, clocks, dts, file>>

----------------------------------------------------------------------------
(* Starting and ending. *)

\* A process that changes the file makes what others resolved from it stale.
NoteRaces(p) ==
    raced' = [q \in Procs |->
        raced[q] \/ (disk' # disk /\ q # p /\ pc[q] = "resolved")]

\* Flags that are refused, or no setpoint anywhere: exit 3 with nothing done.
Parse(p, f) ==
    /\ pc[p] = "idle"
    /\ Accepts(f)
    /\ HasSetpoint(f, Loaded.config)
    /\ pc' = [pc EXCEPT ![p] = "resolved"]
    /\ flags' = [flags EXCEPT ![p] = f]
    /\ config' = [config EXCEPT ![p] = ResolvePidConfig(f, Loaded.config)]
    /\ raced' = [raced EXCEPT ![p] = FALSE]
    /\ UNCHANGED <<sessionVars, code, clocks, dts, file>>

\* ControllerSession::new, under the lock.
Open(p) ==
    /\ pc[p] = "resolved"
    /\ New(config[p], FlushIntervalOf(flags[p]), flags[p].reset)
    /\ updated' = file.updated
    /\ read' = file.read /\ stepped' = file.stepped
    /\ line_age' = None /\ dt' = None /\ span' = None
    /\ pc' = [pc EXCEPT ![p] = "opened"]
    /\ UNCHANGED <<flags, config, code, raced, fraction, busy, slack, file>>

Leave(p, c) ==
    /\ pc' = [pc EXCEPT ![p] = "leaving"]
    /\ code' = [code EXCEPT ![p] = c]

Idle(p) ==
    /\ pc' = [pc EXCEPT ![p] = "idle"]
    /\ flags' = [flags EXCEPT ![p] = None]
    /\ config' = [config EXCEPT ![p] = None]
    /\ code' = [code EXCEPT ![p] = 0]
    /\ raced' = [raced EXCEPT ![p] = FALSE]

\* acquire_lock fails while another process has a session: exit 3.
OpenFails(p) ==
    /\ pc[p] = "resolved" /\ up
    /\ Idle(p)
    /\ UNCHANGED <<sessionVars, clocks, dts, file>>

EndSession(p) ==
    /\ Stop
    /\ Idle(p)
    /\ updated' = None /\ read' = None /\ stepped' = None
    /\ busy' = None /\ line_age' = None
    /\ dt' = None /\ span' = None /\ slack' = 0
    /\ UNCHANGED <<fraction, file>>

Exit(p) == pc[p] = "leaving" /\ EndSession(p)

Kill(p) == pc[p] \in {"opened", "measured", "stepping"} /\ EndSession(p)

----------------------------------------------------------------------------
(* A step of the session. *)

Results(p) == IF CvMode(flags[p]) = "dry" THEN {"dry"} ELSE {"ok", "err"}

\* The file was written by this step.
Saves == HasStore /\ ~Coalesced /\ fail_count' = 0

\* process_pv, as of its end: the CV has been written, and only then is
\* updated_at taken, cut to whole seconds.
StepSession(p, pv, i_acc, cv, result) ==
    /\ ProcessPv(pv, i_acc, cv, result)
    /\ updated' = fraction /\ read' = busy /\ stepped' = 0
    /\ busy' = None
    /\ file' = IF Saves
               THEN [updated |-> updated', read |-> read', stepped |-> stepped']
               ELSE file
    /\ NoteRaces(p)
    /\ UNCHANGED <<flags, config, fraction>>

----------------------------------------------------------------------------
(* once. *)

\* resolve_once_dt, before the PV is read; what was clamped or given is no
\* measurement.
MeasureDt(p) ==
    /\ pc[p] = "opened" /\ flags[p].command = "once"
    /\ dt' = OnceDt(flags[p], HasStore, updated)
    /\ IF flags[p].dt = None /\ HasStore /\ dt' = updated
       THEN span' = read /\ slack' = read - stepped
       ELSE span' = None /\ slack' = 0
    /\ busy' = 0
    /\ pc' = [pc EXCEPT ![p] = "measured"]
    /\ UNCHANGED <<sessionVars, flags, config, code, raced, fraction, ages,
                   line_age, file>>

\* resolve_pv returns: the step, with the write of the CV, begins.
ReadPv(p) ==
    /\ pc[p] = "measured"
    /\ IF span # None THEN span' = read /\ slack' = slack + busy
                      ELSE UNCHANGED <<span, slack>>
    /\ busy' = 0
    /\ pc' = [pc EXCEPT ![p] = "stepping"]
    /\ UNCHANGED <<sessionVars, flags, config, code, raced, fraction, ages,
                   line_age, dt, file>>

ReadPvFails(p) ==
    /\ pc[p] = "measured"
    /\ Leave(p, 1)
    /\ busy' = None /\ span' = None /\ slack' = 0
    /\ UNCHANGED <<sessionVars, flags, config, raced, fraction, ages,
                   line_age, dt, file>>

\* Mutant: a state that was not saved is not reported.
OnceCodesUnlessSaved(f, result) ==
    IF ~Ok(result) THEN {5}
    ELSE IF f.format = "json" THEN {0, 1, 3} ELSE {0}

\* print_iteration_json comes before the save is looked at, and its failure is
\* reported instead: 3 for the record, 1 for the end of its line.
OnceCodes(f, result) ==
    IF ~Ok(result) THEN {5}
    ELSE {IF fail_count' > 0 THEN 4 ELSE 0}
         \cup (IF f.format = "json" THEN {1, 3} ELSE {})

StepOnce(p) ==
    /\ pc[p] = "stepping" /\ flags[p].command = "once"
    /\ \E pv \in PVs, i \in IAccs, cv \in CVs, r \in Results(p) :
           /\ StepSession(p, pv, i, cv, r)
           /\ \E c \in OnceCodes(flags[p], r) : Leave(p, c)
    /\ UNCHANGED <<line_age, dts>>

----------------------------------------------------------------------------
(* pipe. *)

Piping(p) == pc[p] = "opened" /\ flags[p].command = "pipe"

\* Instants are read, and last_tick is moved, before the line is parsed.
MeasureLine(p) ==
    /\ dt' = IF line_age = None THEN DtFlag(flags[p]) ELSE line_age
    /\ span' = IF line_age = None THEN None ELSE read
    /\ line_age' = 0

\* Mutant: last_tick moves for an empty line too.
BlankLineTicks(p) ==
    /\ Piping(p)
    /\ line_age' = 0
    /\ UNCHANGED <<sessionVars, local, fraction, ages, busy, dts, file>>

\* trimmed.is_empty(): nothing happens.
BlankLine(p) ==
    /\ Piping(p)
    /\ UNCHANGED vars

\* parse_f64_value fails: the process ends with a configuration error.
BadLine(p) ==
    /\ Piping(p)
    /\ MeasureLine(p)
    /\ Leave(p, 3)
    /\ UNCHANGED <<sessionVars, flags, config, raced, fraction, ages, busy,
                   slack, file>>

Line(p) ==
    /\ Piping(p)
    /\ MeasureLine(p)
    /\ busy' = 0
    /\ pc' = [pc EXCEPT ![p] = "stepping"]
    /\ UNCHANGED <<sessionVars, flags, config, code, raced, fraction, ages,
                   slack, file>>

\* A save that fails is reported and the process goes on; a CV that cannot be
\* written ends it.
StepLine(p) ==
    /\ pc[p] = "stepping" /\ flags[p].command = "pipe"
    /\ \E pv \in PVs, i \in IAccs, cv \in CVs, r \in Results(p) :
           /\ StepSession(p, pv, i, cv, r)
           /\ IF Ok(r) THEN pc' = [pc EXCEPT ![p] = "opened"] /\ UNCHANGED code
                       ELSE Leave(p, 1)
    /\ UNCHANGED <<line_age, dts>>

\* The end of stdin, or a read of it that fails; nothing is flushed.
StdinEnds(p, c) ==
    /\ Piping(p)
    /\ Leave(p, c)
    /\ UNCHANGED <<sessionVars, flags, config, raced, clocks, dts, file>>

----------------------------------------------------------------------------

Older(age) == IF age = None THEN None ELSE SaturatingInc(age, AgeCap)

\* A call ends before SlowCap is over; between calls time is not bounded.
Pass ==
    /\ busy # None => busy < SlowCap
    /\ FlushAges
    /\ fraction' = (fraction + 1) % Second
    /\ updated' = Older(updated)
    /\ read' = Older(read) /\ stepped' = Older(stepped)
    /\ busy' = Older(busy) /\ line_age' = Older(line_age)
    /\ file' = [a \in DOMAIN file |-> Older(file[a])]
    /\ UNCHANGED <<up, controller, snapshot, flush_interval, fail_count, disk,
                   history, local, dts>>

Init ==
    /\ SessionInit
    /\ pc = [p \in Procs |-> "idle"]
    /\ flags = [p \in Procs |-> None]
    /\ config = [p \in Procs |-> None]
    /\ code = [p \in Procs |-> 0]
    /\ raced = [p \in Procs |-> FALSE]
    /\ fraction = 0
    /\ updated = None /\ read = None /\ stepped = None
    /\ busy = None /\ line_age = None
    /\ dt = None /\ span = None /\ slack = 0
    /\ file = [updated |-> None, read |-> None, stepped |-> None]

Next ==
    \/ \E p \in Procs :
           \/ \E f \in Flags : Parse(p, f)
           \/ Open(p) \/ OpenFails(p)
           \/ MeasureDt(p) \/ ReadPv(p) \/ ReadPvFails(p) \/ StepOnce(p)
           \/ BlankLine(p) \/ BadLine(p) \/ Line(p) \/ StepLine(p)
           \/ \E c \in {0, 1} : StdinEnds(p, c)
           \/ Exit(p) \/ Kill(p)
    \/ Pass

Spec == Init /\ [][Next]_vars

----------------------------------------------------------------------------
(* Properties. *)

\* A measured dt against the time between the PV the derivative starts from
\* and the PV it ends at.  Between the lines of `pipe` they are equal, whatever
\* lines come in between and however long a step takes.  Between processes of
\* `once` dt leaves out what the last step took after its PV was read, since
\* updated_at is taken at its end, and what this read takes; but for that it is
\* right to the second, in which updated_at is written.
DtSpansPv ==
    \A p \in Procs :
        pc[p] \notin {"idle", "resolved", "measured"} /\ span # None =>
        IF flags[p].command = "pipe" THEN dt = span
        ELSE span <= dt + slack /\ dt + slack < span + Second

\* The exit code of `once` tells the caller what became of the CV and of the
\* state: 0, the CV was confirmed and the state saved; 4, only the CV; 5, the
\* CV was not confirmed; 1 or 3, nothing was done, unless the output is JSON:
\* then it can be that only the output failed, and nothing is said of the state.
OnceExitTells ==
    \A p \in Procs : pc[p] = "leaving" /\ flags[p].command = "once" =>
        LET written == CvMode(flags[p]) = "dry"
                       \/ (Wrote /\ confirmed = snapshot.last_cv)
        IN  /\ code[p] \in {0, 4} => written
            /\ code[p] = 0 /\ HasStore => disk = snapshot
            /\ code[p] = 4 => fail_count > 0
            /\ code[p] = 5 => ~Wrote
            /\ code[p] \in {1, 3} =>
                   \/ ~Wrote /\ snapshot = Loaded
                   \/ flags[p].format = "json" /\ written

\* `pipe` coalesces its saves, and a stream of lines must not put them off:
\* while no save fails, the file lags by less than a second of lines.
PipeLagsBySecond ==
    \A p \in Procs :
        /\ Piping(p) /\ HasStore
        /\ line_age # None /\ fail_count = 0 /\ file.stepped < AgeCap
        => file.stepped < stepped + Second

\* Parameters that were saved stay until a flag asks for others, however many
\* commands run; but for a process that resolved its config from a file which
\* another one changed before it took the lock.
ParametersKept ==
    disk' # disk /\ Loaded.config # None =>
        \/ disk'.config.gains = disk.config.gains
        \/ \E p \in Procs : /\ pc[p] = "stepping"
                            /\ (flags[p].gains # None \/ raced[p])

ParametersChangeOnRequest == [][ParametersKept]_vars
=============================================================================
