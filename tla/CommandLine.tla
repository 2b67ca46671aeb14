---------------------------- MODULE CommandLine ----------------------------
(***************************************************************************)
(* What `once` and `pipe` make of their flags before they touch anything:  *)
(* cli/raw.rs and cli/parse.rs.  Flags are a record; pv and cv are the     *)
(* sets of source and sink flags that were given.  Of the PID parameters   *)
(* that the state file keeps two stand for all: sp, which has no default,  *)
(* and gains (--kp, --ki, --kd, --out-min, --out-max), which have one.     *)
(***************************************************************************)
EXTENDS Integers, FiniteSets

CONSTANTS
    Setpoints,      \* values of --setpoint
    Gains,          \* vectors of gains and output limits
    DefaultGains,   \* PidConfig::default()
    Second,         \* units of time in a second
    MinDt, MaxDt,   \* --min-dt and --max-dt, or MIN_DT_DEFAULT, MAX_DT_DEFAULT
    None            \* a flag that is not given

PvFlags == {"literal", "file", "cmd", "stdin"}
CvFlags == {"stdout", "file", "cmd"}

FlagSet ==
    [command : {"once", "pipe"},
     pv : SUBSET PvFlags,
     cv : SUBSET CvFlags,
     dry_run : BOOLEAN,
     format : {"text", "json"},
     sp : Setpoints \cup {None},
     gains : Gains \cup {None},
     dt : Nat \cup {None},
     reset : BOOLEAN]

ConfigSet == [sp : Setpoints, gains : Gains]

\* to_pv_source_config of `once`: one source, and not stdin.
OnePv(f) == "stdin" \notin f.pv /\ Cardinality(f.pv) = 1

\* to_cv_sink_config: one sink at most.
OneCv(f) == Cardinality(f.cv) <= 1

\* parse_once: no sink in a dry run only, and one writer of stdout.
OnceAccepts(f) ==
    /\ OnePv(f) /\ OneCv(f)
    /\ f.cv # {} \/ f.dry_run
    /\ ~(f.format = "json" /\ "stdout" \in f.cv)

\* What `pipe` refuses: stdin and stdout are its source and its sink.
Intrinsic(f) == f.pv = {} /\ f.cv = {} /\ ~f.dry_run

PipeAccepts(f) == Intrinsic(f) /\ f.format # "json"

Accepts(f) == IF f.command = "once" THEN OnceAccepts(f) ELSE PipeAccepts(f)

\* match (raw.dry_run, cv_sink): a dry run discards the CV, sink or no sink.
CvMode(f) == IF f.dry_run THEN "dry" ELSE "sink"

\* Mutant: a parameter that is not given falls back to its default.
FlagOrDefault(flag, stored, default) ==
    IF flag # None THEN flag ELSE default

\* flags.x.or_else(snap.x).unwrap_or(default).
FlagOrStored(flag, stored, default) ==
    IF flag # None THEN flag ELSE IF stored # None THEN stored ELSE default

\* resolve_pid_config, on what a load of the state file gave: a config, or
\* None.  Without a setpoint anywhere it fails.
HasSetpoint(f, stored) == f.sp # None \/ stored # None

ResolvePidConfig(f, stored) ==
    LET old == IF stored = None THEN [sp |-> None, gains |-> None]
                                  ELSE stored
    IN  [sp |-> IF f.sp # None THEN f.sp ELSE old.sp,
         gains |-> FlagOrStored(f.gains, old.gains, DefaultGains)]

\* state_write_interval: `pipe` saves once a second, `once` every time.
FlushIntervalOf(f) == IF f.command = "pipe" THEN Second ELSE None

\* args.dt: --dt, or one second.
DtFlag(f) == IF f.dt # None THEN f.dt ELSE Second

\* clamp_once_wall_clock_dt.
ClampDt(raw) ==
    IF raw < MinDt THEN MinDt ELSE IF raw > MaxDt THEN MaxDt ELSE raw

\* resolve_once_dt, with the age of the snapshot's updated_at (or None).
OnceDt(f, hasState, updated) ==
    IF f.dt # None \/ ~hasState \/ updated = None
    THEN DtFlag(f)
    ELSE ClampDt(updated)
=============================================================================
