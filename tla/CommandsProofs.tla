--------------------------- MODULE CommandsProofs ---------------------------
(***************************************************************************)
(* What `once` and `pipe` guarantee for every choice of the constants of    *)
(* Commands.tla: any number of processes, any flags, any length of a second *)
(* and any bound on the ages.  They use the session as SessionSpec allows,  *)
(* so the theorems of SessionProofs.tla hold of them; and their own         *)
(* invariant ties the ages that are measured in the process to the ones in  *)
(* the file, and each process to the flags and the config it started with.  *)
(***************************************************************************)
EXTENDS Commands, SessionProofs

----------------------------------------------------------------------------
(* The invariant. *)

\* The process holds the lock and a session.
InSession(p) == pc[p] \in {"opened", "measured", "stepping", "leaving"}

ProcTypeOK ==
    /\ pc \in [Procs -> {"idle", "resolved", "opened", "measured", "stepping",
                         "leaving"}]
    /\ flags \in [Procs -> Flags \cup {None}]
    /\ config \in [Procs -> Configs \cup {None}]
    /\ code \in [Procs -> {0, 1, 3, 4, 5}]
    /\ raced \in [Procs -> BOOLEAN]

ClockTypeOK ==
    /\ fraction \in 0 .. Second - 1
    /\ updated \in Ages /\ read \in Ages /\ stepped \in Ages
    /\ line_age \in Ages /\ busy \in (0 .. SlowCap) \cup {None}
    /\ dt \in Nat \cup {None} /\ span \in Ages /\ slack \in Nat
    /\ file \in [updated : Ages, read : Ages, stepped : Ages]

\* The lock: a session belongs to one process, and only that one is past it.
OneSession ==
    /\ \A p \in Procs : InSession(p) => up
    /\ \A p, q \in Procs : InSession(p) /\ InSession(q) => p = q

\* A process has accepted flags and a whole config, and a session works on
\* that config.  Only `once` measures dt in a step of its own.
Configured ==
    \A p \in Procs :
        /\ pc[p] # "idle" => flags[p] \in Flags /\ config[p] \in Configs
        /\ InSession(p) => controller.config = config[p]
        /\ pc[p] = "measured" => flags[p].command = "once"
        /\ pc[p] \in {"measured", "stepping"} => busy # None

\* What a process resolved without being asked for gains is what the file
\* holds, unless another one changed the file in between.
GainsFollow ==
    \A p \in Procs :
        /\ pc[p] # "idle" /\ flags[p].gains = None /\ ~raced[p]
        /\ Loaded.config # None
        => config[p].gains = Loaded.config.gains

\* updated_at is the time of the end of a step, cut to whole seconds, and the
\* PV was read a while before it.
Stamped(u, r, s) ==
    IF s = None THEN u = None /\ r = None
    ELSE /\ u # None /\ s <= u /\ u < s + Second
         /\ r # None /\ s <= r /\ r <= s + SlowCap

Truncated ==
    /\ Stamped(updated, read, stepped)
    /\ Stamped(file.updated, file.read, file.stepped)

\* The last line of `pipe` is the PV of the last step, or of the one under way.
LineIsStep ==
    \A p \in Procs :
        /\ Piping(p) /\ line_age # None => line_age = read
        /\ pc[p] = "stepping" /\ flags[p].command = "pipe" => line_age = busy

\* What DtSpansPv will be, while `once` reads the PV; and no age is cut off.
Measured ==
    \A p \in Procs : pc[p] = "measured" /\ span # None =>
        /\ read # None /\ dt # None
        /\ read <= dt + slack + busy /\ dt + slack + busy < read + Second
        /\ read <= MaxDt + SlowCap + busy

\* Until its step `once` has written nothing and works on what it loaded.
OnceFresh ==
    \A p \in Procs :
        /\ pc[p] \in {"opened", "measured", "stepping"}
        /\ flags[p].command = "once"
        => /\ ~Wrote /\ fail_count = 0 /\ flush_interval = None
           /\ snapshot = Loaded

\* The step in the file is as old as the last flush of this process, which
\* the first line of a pipe has made unless it failed.
FlushIsFile ==
    /\ flush_age # None => up /\ file.stepped = flush_age
    /\ \A p \in Procs :
           /\ pc[p] \in {"opened", "stepping"} /\ flags[p].command = "pipe"
                  => flush_interval = Second
           /\ Piping(p) /\ HasStore /\ line_age # None /\ fail_count = 0
                  => flush_age # None /\ stepped # None

CommandsInv ==
    /\ SessionTypeOK /\ ProcTypeOK /\ ClockTypeOK
    /\ OneSession /\ Configured /\ GainsFollow
    /\ Truncated /\ LineIsStep /\ Measured /\ DtSpansPv
    /\ OnceFresh /\ OnceExitTells
    /\ FlushIsFile /\ PipeLagsBySecond

----------------------------------------------------------------------------
(* What flags and configs look like. *)

\* A process that is past its flags has one of the two commands.
LEMMA FlagsType ==
    ASSUME NEW f \in Flags
    PROVE  /\ f.command \in {"once", "pipe"}
           /\ f.dt \in Nat \cup {None}
           /\ f.sp \in Setpoints \cup {None} /\ f.gains \in Gains \cup {None}
           /\ f.reset \in BOOLEAN
           /\ FlushIntervalOf(f) \in {Second, None}
           /\ f.command = "once" => FlushIntervalOf(f) = None
           /\ f.command = "pipe" => FlushIntervalOf(f) = Second
  BY CommandsAssumption DEF FlagSet, FlushIntervalOf

\* A loaded config is whole or absent.
LEMMA LoadedType ==
    ASSUME SessionTypeOK
    PROVE  Loaded \in Snapshots /\ Loaded.config \in OptConfigs
  BY Defaults DEF SessionTypeOK, Loaded, Snapshots

\* Resolving a config on top of what the file has gives a whole config, and
\* gains that were not asked for are the ones the file has.
LEMMA ResolveType ==
    ASSUME NEW f \in Flags, NEW stored \in OptConfigs, HasSetpoint(f, stored)
    PROVE  /\ ResolvePidConfig(f, stored) \in Configs
           /\ f.gains = None /\ stored # None
                  => ResolvePidConfig(f, stored).gains = stored.gains
  <1>1. Configs = [sp : Setpoints, gains : Gains]
    BY CommandsAssumption DEF ConfigSet
  <1>2. CASE stored = None
    BY <1>1, <1>2, FlagsType, CommandsAssumption
       DEF ResolvePidConfig, FlagOrStored, HasSetpoint
  <1>3. CASE stored # None
    <2>1. stored.sp \in Setpoints /\ stored.gains \in Gains
      BY <1>1, <1>3 DEF OptConfigs
    <2> QED  BY <1>1, <1>3, <2>1, FlagsType, CommandsAssumption
             DEF ResolvePidConfig, FlagOrStored, HasSetpoint
  <1> QED  BY <1>2, <1>3

\* dt is a number, and never the absence of updated_at.
LEMMA OnceDtType ==
    ASSUME NEW f \in Flags, NEW u \in Ages
    PROVE  /\ OnceDt(f, HasStore, u) \in Nat
           /\ OnceDt(f, HasStore, u) # None
           /\ f.dt = None /\ HasStore /\ u # None =>
                  OnceDt(f, HasStore, u) <= MaxDt
  <1>1. DtFlag(f) \in Nat
    BY FlagsType, CommandsAssumption DEF DtFlag
  <1>2. u # None => ClampDt(u) \in Nat /\ ClampDt(u) <= MaxDt
    BY CommandsAssumption DEF ClampDt, Ages
  <1> QED  BY <1>1, <1>2, SetsAssumption DEF OnceDt

\* An age that grows keeps its bound, and an absent one stays absent.
LEMMA OlderType ==
    ASSUME NEW a \in Ages
    PROVE  /\ Older(a) \in Ages
           /\ a = None => Older(a) = None
           /\ a # None => /\ Older(a) \in 0 .. AgeCap /\ Older(a) # None
                          /\ Older(a) = IF a < AgeCap THEN a + 1 ELSE AgeCap
  BY BoundsAssumption, SetsAssumption DEF Older, Ages, SaturatingInc

----------------------------------------------------------------------------
(* The commands use the session as SessionSpec allows. *)

\* Each step of a process calls one method of the session at most, and time
\* passes for a session that exists.
LEMMA CommandsSessionStep ==
    CommandsInv /\ [Next]_vars => [SessionNext]_sessionVars
  <1> SUFFICES ASSUME CommandsInv, Next PROVE [SessionNext]_sessionVars
    BY DEF vars
  <1> USE DEF CommandsInv
  <1>1. ASSUME NEW p \in Procs, Open(p) PROVE SessionNext
    <2>1. config[p] \in Configs /\ flags[p] \in Flags
      BY <1>1 DEF Open, Configured
    <2>2. /\ FlushIntervalOf(flags[p]) \in FlushIntervals
          /\ flags[p].reset \in BOOLEAN
      BY <2>1, FlagsType, CommandsAssumption
    <2> QED  BY <1>1, <2>1, <2>2 DEF Open, SessionNext
  <1>2. ASSUME NEW p \in Procs, StepOnce(p) \/ StepLine(p) PROVE SessionNext
    <2>1. Results(p) \subseteq SinkResults
      BY CommandsAssumption DEF Results
    <2> QED  BY <1>2, <2>1 DEF StepOnce, StepLine, StepSession, SessionNext
  <1>3. ASSUME NEW p \in Procs, Exit(p) \/ Kill(p) PROVE SessionNext
    BY <1>3 DEF Exit, Kill, EndSession, SessionNext
  <1>4. CASE Pass
    <2>1. CASE up
      BY <1>4, <2>1 DEF Pass, Elapse, SessionNext
    <2>2. CASE ~up
      <3>1. flush_age = None
        BY <2>2 DEF FlushIsFile
      <3> QED  BY <1>4, <3>1
               DEF Pass, FlushAges, sessionVars, persister, history
    <2> QED  BY <2>1, <2>2
  <1>5. ASSUME NEW p \in Procs,
               \/ \E f \in Flags : Parse(p, f)
               \/ OpenFails(p) \/ MeasureDt(p) \/ ReadPv(p) \/ ReadPvFails(p)
               \/ BlankLine(p) \/ BadLine(p) \/ Line(p)
               \/ \E c \in {0, 1} : StdinEnds(p, c)
        PROVE  UNCHANGED sessionVars
    BY <1>5 DEF Parse, OpenFails, MeasureDt, ReadPv, ReadPvFails, BlankLine,
                BadLine, Line, StdinEnds, vars
  <1> QED  BY <1>1, <1>2, <1>3, <1>4, <1>5 DEF Next

----------------------------------------------------------------------------
(* Each step keeps the invariant.  First the steps that leave the session   *)
(* and the clocks alone: what they change is a process that has no session. *)

\* What is said of sessions holds on while processes without one come and go.
LEMMA SessionFrame ==
    ASSUME CommandsInv, ProcTypeOK',
           UNCHANGED <<sessionVars, clocks, dts, file>>,
           \A q \in Procs :
               InSession(q)' => /\ pc'[q] = pc[q] /\ flags'[q] = flags[q]
                                /\ code'[q] = code[q]
    PROVE  /\ SessionTypeOK' /\ ClockTypeOK' /\ OneSession' /\ Truncated'
           /\ LineIsStep' /\ Measured' /\ DtSpansPv' /\ OnceFresh'
           /\ OnceExitTells' /\ FlushIsFile' /\ PipeLagsBySecond'
  <1> USE DEF CommandsInv, InSession, sessionVars, persister, history, clocks,
              ages, dts
  <1>1. SessionTypeOK' /\ ClockTypeOK'
    BY DEF SessionTypeOK, ClockTypeOK
  <1>2. OneSession' /\ Truncated'
    BY DEF OneSession, Truncated, Stamped
  <1>3. LineIsStep' /\ Measured' /\ FlushIsFile' /\ PipeLagsBySecond'
    BY DEF LineIsStep, Measured, FlushIsFile, PipeLagsBySecond, Piping
  <1>4. OnceFresh' /\ OnceExitTells'
    BY DEF OnceFresh, OnceExitTells, Loaded, Wrote
  <1>5. DtSpansPv'
    <2>1. ASSUME NEW q \in Procs, pc'[q] \notin {"idle", "resolved"}
          PROVE  pc'[q] = pc[q] /\ flags'[q] = flags[q]
      BY <2>1 DEF ProcTypeOK
    <2> QED  BY <2>1 DEF DtSpansPv
  <1> QED  BY <1>1, <1>2, <1>3, <1>4, <1>5

\* Flags that are accepted become a config, on top of what the file has now.
LEMMA ParseStep ==
    ASSUME CommandsInv, NEW p \in Procs, NEW f \in Flags, Parse(p, f)
    PROVE  CommandsInv'
  <1>1. ResolvePidConfig(f, Loaded.config) \in Configs
    BY LoadedType, ResolveType DEF CommandsInv, Parse
  <1>2. ProcTypeOK'
    BY <1>1 DEF CommandsInv, ProcTypeOK, Parse
  <1>3. Configured'
    BY <1>1 DEF CommandsInv, Configured, ProcTypeOK, Parse, InSession,
                sessionVars, clocks
  <1>4. GainsFollow'
    BY LoadedType, ResolveType
       DEF CommandsInv, GainsFollow, ProcTypeOK, Parse, Loaded, sessionVars,
           persister
  <1>5. \A q \in Procs :
            InSession(q)' => /\ pc'[q] = pc[q] /\ flags'[q] = flags[q]
                             /\ code'[q] = code[q]
    BY DEF CommandsInv, ProcTypeOK, Parse, InSession
  <1> QED  BY <1>2, <1>3, <1>4, <1>5, SessionFrame DEF CommandsInv, Parse

\* A process that does not get the lock is gone.
LEMMA OpenFailsStep ==
    ASSUME CommandsInv, NEW p \in Procs, OpenFails(p)
    PROVE  CommandsInv'
  <1>1. ProcTypeOK'
    BY DEF CommandsInv, ProcTypeOK, OpenFails, Idle
  <1>2. Configured'
    BY DEF CommandsInv, Configured, ProcTypeOK, OpenFails, Idle, InSession,
           sessionVars, clocks
  <1>3. GainsFollow'
    BY DEF CommandsInv, GainsFollow, ProcTypeOK, OpenFails, Idle, Loaded,
           sessionVars, persister
  <1>4. \A q \in Procs :
            InSession(q)' => /\ pc'[q] = pc[q] /\ flags'[q] = flags[q]
                             /\ code'[q] = code[q]
    BY DEF CommandsInv, ProcTypeOK, OpenFails, Idle, InSession
  <1> QED  BY <1>1, <1>2, <1>3, <1>4, SessionFrame DEF CommandsInv, OpenFails

\* The end of a session leaves none, and the file as it is.
LEMMA EndStep ==
    ASSUME CommandsInv, NEW p \in Procs, Exit(p) \/ Kill(p)
    PROVE  CommandsInv'
  <1>1. EndSession(p) /\ InSession(p)
    BY DEF Exit, Kill, InSession
  <1>2. ProcTypeOK'
    BY <1>1 DEF CommandsInv, ProcTypeOK, EndSession, Idle
  <1>3. \A q \in Procs : ~InSession(q)'
    BY <1>1 DEF CommandsInv, OneSession, ProcTypeOK, EndSession, Idle, InSession
  <1>4. SessionTypeOK'
    BY <1>1, StopType DEF CommandsInv, EndSession
  <1>5. ClockTypeOK'
    BY <1>1, Defaults DEF CommandsInv, ClockTypeOK, EndSession
  <1>6. Configured'
    BY <1>1, <1>3 DEF CommandsInv, Configured, ProcTypeOK, EndSession, Idle,
                      Stop, InSession
  <1>7. GainsFollow'
    BY <1>1 DEF CommandsInv, GainsFollow, ProcTypeOK, EndSession, Idle, Stop,
                Loaded
  <1>8. Truncated' /\ FlushIsFile'
    BY <1>1, <1>3 DEF CommandsInv, Truncated, Stamped, FlushIsFile, EndSession,
                      Stop, Piping, InSession
  <1>9. /\ OneSession' /\ LineIsStep' /\ Measured' /\ OnceFresh'
        /\ OnceExitTells' /\ PipeLagsBySecond'
    BY <1>3 DEF OneSession, LineIsStep, Measured, OnceFresh, OnceExitTells,
                PipeLagsBySecond, Piping, InSession
  <1>10. DtSpansPv'
    BY <1>1 DEF EndSession, DtSpansPv
  <1> QED  BY <1>2, <1>4, <1>5, <1>6, <1>7, <1>8, <1>9, <1>10 DEF CommandsInv

----------------------------------------------------------------------------
(* The steps of a process that has the session. *)

\* A process that opens a session is alone in it, and starts from the file.
LEMMA OpenStep ==
    ASSUME CommandsInv, NEW p \in Procs, Open(p)
    PROVE  CommandsInv'
  <1>1. /\ config[p] \in Configs /\ flags[p] \in Flags
        /\ ~up /\ pc[p] = "resolved"
    BY DEF CommandsInv, Open, New, Configured
  <1>2. ProcTypeOK'
    BY DEF CommandsInv, ProcTypeOK, Open
  <1>3. \A q \in Procs : q # p => pc'[q] = pc[q] /\ ~InSession(q)'
    BY <1>1 DEF CommandsInv, OneSession, ProcTypeOK, Open, InSession
  <1>4. pc'[p] = "opened" /\ flags' = flags /\ config' = config
    BY DEF CommandsInv, ProcTypeOK, Open
  <1>5. SessionTypeOK'
    <2>1. /\ FlushIntervalOf(flags[p]) \in FlushIntervals
          /\ flags[p].reset \in BOOLEAN
      BY <1>1, FlagsType, CommandsAssumption
    <2> QED  BY <1>1, <2>1, NewType DEF CommandsInv, Open
  <1>6. ClockTypeOK'
    BY Defaults DEF CommandsInv, ClockTypeOK, Open
  <1>7. OneSession'
    BY <1>3 DEF OneSession, Open, New, InSession
  <1>8. Configured'
    BY <1>1, <1>3, <1>4 DEF CommandsInv, Configured, Open, New, InSession
  <1>9. GainsFollow'
    BY <1>1, <1>3, <1>4 DEF CommandsInv, GainsFollow, Open, New, Loaded
  <1>10. Truncated'
    BY DEF CommandsInv, Truncated, Open
  <1>11. LineIsStep' /\ PipeLagsBySecond' /\ DtSpansPv' /\ Measured'
    BY <1>3, <1>4 DEF LineIsStep, PipeLagsBySecond, DtSpansPv, Measured, Open,
                      Piping, InSession
  <1>12. OnceFresh'
    <2>1. flags[p].command = "once" => FlushIntervalOf(flags[p]) = None
      BY <1>1, FlagsType
    <2> QED  BY <1>3, <1>4, <2>1
             DEF OnceFresh, Open, New, Loaded, InSession, Wrote
  <1>13. OnceExitTells'
    BY <1>3, <1>4 DEF OnceExitTells, InSession
  <1>14. FlushIsFile'
    <2>1. flags[p].command = "pipe" => FlushIntervalOf(flags[p]) = Second
      BY <1>1, FlagsType
    <2> QED  BY <1>3, <1>4, <2>1
             DEF FlushIsFile, Open, New, Piping, InSession
  <1> QED  BY <1>2, <1>5, <1>6, <1>7, <1>8, <1>9, <1>10, <1>11, <1>12, <1>13,
              <1>14 DEF CommandsInv

\* A process in its session goes on, to read or to step, and the session is as
\* it was.
LEMMA GoesOn ==
    ASSUME CommandsInv, NEW p \in Procs, NEW to \in {"measured", "stepping"},
           pc[p] \in {"opened", "measured"}, pc' = [pc EXCEPT ![p] = to],
           to = "measured" => flags[p].command = "once", busy' # None,
           UNCHANGED <<sessionVars, flags, config, code, raced, ages, file>>
    PROVE  /\ SessionTypeOK' /\ ProcTypeOK' /\ OneSession' /\ Configured'
           /\ GainsFollow' /\ Truncated' /\ OnceFresh' /\ OnceExitTells'
           /\ FlushIsFile' /\ PipeLagsBySecond'
           /\ \A q \in Procs : /\ pc'[q] = IF q = p THEN to ELSE pc[q]
                               /\ q # p => ~InSession(q) /\ ~InSession(q)'
  <1>1. ProcTypeOK'
    BY DEF CommandsInv, ProcTypeOK
  <1>2. \A q \in Procs : /\ pc'[q] = IF q = p THEN to ELSE pc[q]
                         /\ InSession(q)' <=> InSession(q)
                         /\ q # p => ~InSession(q)
    BY DEF CommandsInv, OneSession, ProcTypeOK, InSession
  <1>3. SessionTypeOK'
    BY DEF CommandsInv, SessionTypeOK, sessionVars, persister, history
  <1>4. OneSession' /\ Configured' /\ GainsFollow'
    BY <1>2 DEF CommandsInv, OneSession, Configured, GainsFollow, Loaded,
                sessionVars, persister, InSession
  <1>5. Truncated' /\ OnceFresh'
    BY <1>2 DEF CommandsInv, Truncated, Stamped, OnceFresh, Loaded, Wrote,
                sessionVars, persister, history, ages
  <1>60. \A q \in Procs : ~Piping(q)'
    BY <1>2 DEF Piping, InSession
  <1>6. FlushIsFile' /\ PipeLagsBySecond'
    <2>1. FlushIsFile'
      BY <1>2, <1>60 DEF CommandsInv, FlushIsFile, Configured, InSession,
                         sessionVars, persister, ages
    <2>2. PipeLagsBySecond'
      BY <1>60 DEF PipeLagsBySecond
    <2> QED  BY <2>1, <2>2
  <1>7. OnceExitTells'
    BY <1>2 DEF CommandsInv, OnceExitTells, Loaded, Wrote, sessionVars,
                persister, history
  <1> QED  BY <1>1, <1>2, <1>3, <1>4, <1>5, <1>6, <1>7

\* `once` measures dt against the step in the file it loaded: what is not
\* clamped is the age of updated_at, which truncates the age of that step.
LEMMA MeasureDtStep ==
    ASSUME CommandsInv, NEW p \in Procs, MeasureDt(p)
    PROVE  CommandsInv'
  <1>1. /\ pc[p] = "opened" /\ flags[p] \in Flags
        /\ flags[p].command = "once" /\ busy' = 0 /\ busy' # None
    BY SetsAssumption DEF CommandsInv, MeasureDt, Configured
  <1>2. /\ SessionTypeOK' /\ ProcTypeOK' /\ OneSession' /\ Configured'
        /\ GainsFollow' /\ Truncated' /\ OnceFresh' /\ OnceExitTells'
        /\ FlushIsFile' /\ PipeLagsBySecond'
        /\ \A q \in Procs : /\ pc'[q] = IF q = p THEN "measured" ELSE pc[q]
                            /\ q # p => ~InSession(q) /\ ~InSession(q)'
    BY <1>1, GoesOn DEF MeasureDt
  <1>3. /\ dt' \in Nat /\ dt' # None
        /\ flags[p].dt = None /\ HasStore /\ updated # None => dt' <= MaxDt
    BY <1>1, OnceDtType DEF CommandsInv, ClockTypeOK, MeasureDt
  <1>4. ASSUME flags[p].dt = None, HasStore, dt' = updated
        PROVE  ClockTypeOK' /\ Measured'
    <2>1. span' = read /\ slack' = read - stepped
      BY <1>4 DEF MeasureDt
    <2>2. /\ updated # None /\ stepped # None /\ read # None
          /\ updated \in Nat /\ stepped \in Nat /\ read \in Nat
          /\ stepped <= updated /\ updated < stepped + Second
          /\ stepped <= read /\ read <= stepped + SlowCap
      BY <1>3, <1>4 DEF CommandsInv, Truncated, Stamped, ClockTypeOK, Ages
    <2>3. slack' \in Nat /\ span' \in Ages
      BY <2>1, <2>2 DEF CommandsInv, ClockTypeOK
    <2>4. /\ read <= dt' + slack' + 0 /\ dt' + slack' + 0 < read + Second
          /\ read <= MaxDt + SlowCap + 0
      BY <1>3, <1>4, <2>1, <2>2, CommandsAssumption
    <2>5. ClockTypeOK'
      BY <1>1, <1>3, <2>3, CommandsAssumption
         DEF CommandsInv, ClockTypeOK, MeasureDt, ages
    <2>6. Measured'
      BY <1>1, <1>2, <1>3, <2>2, <2>4 DEF Measured, MeasureDt, ages, InSession
    <2> QED  BY <2>5, <2>6
  <1>5. ASSUME ~(flags[p].dt = None /\ HasStore /\ dt' = updated)
        PROVE  ClockTypeOK' /\ Measured'
    <2>1. span' = None /\ slack' = 0
      BY <1>5 DEF MeasureDt
    <2>2. ClockTypeOK'
      BY <1>1, <1>3, <2>1, Defaults, CommandsAssumption
         DEF CommandsInv, ClockTypeOK, MeasureDt, ages
    <2>3. Measured'
      BY <2>1 DEF Measured
    <2> QED  BY <2>2, <2>3
  <1>6. LineIsStep' /\ DtSpansPv'
    <2>1. \A q \in Procs : pc'[q] \in {"idle", "resolved", "measured"}
      BY <1>2 DEF InSession, ProcTypeOK
    <2> QED  BY <2>1 DEF LineIsStep, DtSpansPv, Piping
  <1> QED  BY <1>2, <1>4, <1>5, <1>6 DEF CommandsInv

\* The PV has been read: what dt leaves out of the time is what went by.
LEMMA ReadPvStep ==
    ASSUME CommandsInv, NEW p \in Procs, ReadPv(p)
    PROVE  CommandsInv'
  <1>1. /\ pc[p] = "measured" /\ flags[p] \in Flags
        /\ flags[p].command = "once" /\ busy' = 0 /\ busy' # None
        /\ busy \in Nat
    BY SetsAssumption, CommandsAssumption
       DEF CommandsInv, ReadPv, Configured, ClockTypeOK
  <1>2. /\ SessionTypeOK' /\ ProcTypeOK' /\ OneSession' /\ Configured'
        /\ GainsFollow' /\ Truncated' /\ OnceFresh' /\ OnceExitTells'
        /\ FlushIsFile' /\ PipeLagsBySecond'
        /\ \A q \in Procs : /\ pc'[q] = IF q = p THEN "stepping" ELSE pc[q]
                            /\ q # p => ~InSession(q) /\ ~InSession(q)'
    BY <1>1, GoesOn DEF ReadPv
  <1>3. ClockTypeOK'
    BY <1>1, CommandsAssumption DEF CommandsInv, ClockTypeOK, ReadPv, ages
  <1>4. span' # None => span' <= dt' + slack' /\ dt' + slack' < span' + Second
    <2> SUFFICES ASSUME span' # None
                 PROVE  span' <= dt' + slack' /\ dt' + slack' < span' + Second
      OBVIOUS
    <2>1. /\ span # None /\ span' = read /\ slack' = slack + busy /\ dt' = dt
      BY DEF ReadPv
    <2>2. /\ read <= dt + slack + busy /\ dt + slack + busy < read + Second
          /\ dt \in Nat /\ slack \in Nat /\ read \in Nat
      BY <1>1, <2>1 DEF CommandsInv, Measured, ClockTypeOK, Ages
    <2> QED  BY <1>1, <2>1, <2>2
  <1>5. DtSpansPv'
    BY <1>1, <1>2, <1>4 DEF DtSpansPv, ReadPv, InSession, CommandsInv, ProcTypeOK
  <1>6. LineIsStep' /\ Measured'
    <2>1. /\ \A q \in Procs : q # p => pc'[q] \in {"idle", "resolved"}
          /\ pc'[p] = "stepping" /\ flags'[p].command # "pipe"
      BY <1>1, <1>2 DEF InSession, ProcTypeOK, ReadPv
    <2>2. \A q \in Procs : pc'[q] # "measured" /\ ~Piping(q)'
      BY <2>1 DEF Piping
    <2> QED  BY <2>1, <2>2 DEF LineIsStep, Measured
  <1> QED  BY <1>2, <1>3, <1>5, <1>6 DEF CommandsInv

\* What a process that ends before its step changes: where it is, its exit
\* code and, if it was reading lines, its clock.
EndsEarly(p, c) ==
    /\ InSession(p)
    /\ Leave(p, c)
    /\ UNCHANGED <<sessionVars, flags, config, raced, fraction, ages, file>>

\* A process that ends early and not by `once` needs no exit code.
LEMMA EndsEarlyStep ==
    ASSUME CommandsInv, NEW p \in Procs, NEW c \in {0, 1, 3}, EndsEarly(p, c),
           flags[p].command = "once" => c = 1 /\ ~Wrote /\ snapshot = Loaded,
           line_age' \in Ages, dt' \in Nat \cup {None}, span' \in Ages,
           busy' \in (0 .. SlowCap) \cup {None}, slack' \in Nat,
           span' # None => flags[p].command = "pipe" /\ dt' = span'
    PROVE  CommandsInv'
  <1> USE DEF EndsEarly
  <1>1. ProcTypeOK'
    BY DEF CommandsInv, ProcTypeOK, Leave
  <1>2. \A q \in Procs : /\ q # p => ~InSession(q) /\ pc'[q] = pc[q]
                         /\ InSession(q)' <=> InSession(q)
    BY DEF CommandsInv, OneSession, ProcTypeOK, InSession, Leave
  <1>3. pc'[p] = "leaving" /\ code'[p] = c
    BY DEF CommandsInv, ProcTypeOK, Leave
  <1>4. SessionTypeOK' /\ ClockTypeOK'
    BY DEF CommandsInv, SessionTypeOK, ClockTypeOK, sessionVars, persister,
           history, ages
  <1>5. OneSession' /\ Configured' /\ GainsFollow'
    BY <1>2, <1>3 DEF CommandsInv, OneSession, Configured, GainsFollow, Loaded,
                      sessionVars, persister, InSession
  <1>6. Truncated' /\ OnceFresh'
    BY <1>2, <1>3 DEF CommandsInv, Truncated, Stamped, OnceFresh, InSession,
                      ages
  <1>7. LineIsStep' /\ Measured' /\ FlushIsFile' /\ PipeLagsBySecond'
    BY <1>2, <1>3 DEF CommandsInv, LineIsStep, Measured, FlushIsFile,
                      PipeLagsBySecond, Piping, InSession, sessionVars, persister
  <1>8. OnceExitTells'
    BY <1>2, <1>3 DEF CommandsInv, OnceExitTells, InSession, Loaded, Wrote,
                      sessionVars, persister, history
  <1>9. DtSpansPv'
    <2>1. ASSUME NEW q \in Procs, pc'[q] \notin {"idle", "resolved"}
          PROVE  q = p
      BY <1>1, <1>2, <2>1 DEF ProcTypeOK, InSession
    <2> QED  BY <2>1 DEF DtSpansPv
  <1> QED  BY <1>1, <1>4, <1>5, <1>6, <1>7, <1>8, <1>9 DEF CommandsInv

\* A line is measured against the one before it, which is the last step.
LEMMA MeasureLineType ==
    ASSUME CommandsInv, NEW p \in Procs, Piping(p), MeasureLine(p)
    PROVE  /\ line_age' = 0 /\ line_age' \in Ages
           /\ dt' \in Nat \cup {None} /\ span' \in Ages
           /\ span' # None => dt' = span'
  <1>1. flags[p] \in Flags
    BY DEF CommandsInv, Configured, Piping
  <1>2. DtFlag(flags[p]) \in Nat
    BY <1>1, FlagsType, CommandsAssumption DEF DtFlag
  <1>3. line_age # None => line_age = read /\ line_age \in Nat
    BY DEF CommandsInv, LineIsStep, ClockTypeOK, Ages
  <1> QED  BY <1>2, <1>3, Defaults, BoundsAssumption
           DEF MeasureLine, CommandsInv, ClockTypeOK, Ages

\* A PV that cannot be read, a line that is no number, the end of the lines.
LEMMA LeaveStep ==
    ASSUME CommandsInv, NEW p \in Procs,
           \/ ReadPvFails(p) \/ BadLine(p)
           \/ \E c \in {0, 1} : StdinEnds(p, c)
    PROVE  CommandsInv'
  <1>1. CASE ReadPvFails(p)
    <2>1. EndsEarly(p, 1) /\ flags[p] \in Flags /\ flags[p].command = "once"
      BY <1>1 DEF CommandsInv, Configured, ReadPvFails, EndsEarly, InSession
    <2>2. ~Wrote /\ snapshot = Loaded
      BY <1>1, <2>1 DEF CommandsInv, OnceFresh, ReadPvFails
    <2>3. /\ line_age' \in Ages /\ dt' \in Nat \cup {None}
          /\ span' = None /\ span' \in Ages /\ slack' \in Nat
          /\ busy' \in (0 .. SlowCap) \cup {None}
      BY <1>1, Defaults DEF CommandsInv, ClockTypeOK, ReadPvFails
    <2> QED  BY <2>1, <2>2, <2>3, EndsEarlyStep
  <1>2. CASE BadLine(p)
    <2>1. EndsEarly(p, 3) /\ flags[p].command = "pipe"
      BY <1>2 DEF BadLine, Piping, EndsEarly, InSession
    <2>2. /\ line_age' \in Ages /\ dt' \in Nat \cup {None} /\ span' \in Ages
          /\ span' # None => dt' = span'
      BY <1>2, MeasureLineType DEF BadLine
    <2>3. busy' \in (0 .. SlowCap) \cup {None} /\ slack' \in Nat
      BY <1>2 DEF CommandsInv, ClockTypeOK, BadLine
    <2> QED  BY <2>1, <2>2, <2>3, EndsEarlyStep
  <1>3. ASSUME NEW c \in {0, 1}, StdinEnds(p, c) PROVE CommandsInv'
    <2>1. EndsEarly(p, c) /\ flags[p].command = "pipe"
      BY <1>3 DEF StdinEnds, Piping, EndsEarly, InSession, clocks
    <2>2. /\ line_age' \in Ages /\ dt' \in Nat \cup {None} /\ span' \in Ages
          /\ busy' \in (0 .. SlowCap) \cup {None} /\ slack' \in Nat
          /\ span' # None => dt' = span'
      BY <1>3, <2>1
         DEF CommandsInv, ClockTypeOK, DtSpansPv, StdinEnds, Piping, dts, clocks
    <2> QED  BY <2>1, <2>2, EndsEarlyStep
  <1> QED  BY <1>1, <1>2, <1>3

----------------------------------------------------------------------------
(* A step of the session. *)

\* A step writes the whole snapshot to the file, fails to, or is coalesced; a
\* save that failed is still counted after a coalesced one.
LEMMA SaveCases ==
    ASSUME CommandsInv, NEW pv, NEW i, NEW cv, NEW r, ProcessPv(pv, i, cv, r)
    PROVE  \/ Saves /\ disk' = snapshot' /\ flush_age' = 0 /\ fail_count' = 0
           \/ ~Saves /\ HasStore /\ fail_count' > 0
              /\ disk' = disk /\ flush_age' = flush_age
           \/ ~Saves /\ (HasStore => Coalesced)
              /\ UNCHANGED <<disk, flush_age, fail_count>>
  <1>1. fail_count \in 0 .. FailMax /\ FailMax \in Nat \ {0}
    BY BoundsAssumption DEF CommandsInv, SessionTypeOK
  <1>2. SaturatingInc(fail_count, FailMax) > 0
    BY <1>1 DEF SaturatingInc
  <1> QED  BY <1>2 DEF ProcessPv, Persist, ForceSave, Save, Saves

\* A step of the session, whichever command takes it: nothing is said yet of
\* the exit code, and of dt what the command measured.
LEMMA TickStep ==
    ASSUME CommandsInv, ProcTypeOK', NEW p \in Procs,
           pc[p] = "stepping", pc'[p] \in {"opened", "leaving"},
           \A q \in Procs : q # p => pc'[q] = pc[q],
           pc'[p] = "opened" => flags[p].command = "pipe",
           UNCHANGED <<line_age, dts>>,
           NEW pv \in PVs, NEW i \in IAccs, NEW cv \in CVs, NEW r \in Results(p),
           StepSession(p, pv, i, cv, r)
    PROVE  /\ SessionTypeOK' /\ ClockTypeOK' /\ OneSession' /\ Configured'
           /\ GainsFollow' /\ Truncated' /\ LineIsStep' /\ Measured'
           /\ DtSpansPv' /\ OnceFresh' /\ FlushIsFile' /\ PipeLagsBySecond'
  <1> USE DEF StepSession
  <1>1. /\ \A q \in Procs : q # p => ~InSession(q) /\ ~InSession(q)'
        /\ InSession(p) /\ InSession(p)'
    BY DEF CommandsInv, OneSession, InSession
  <1>2. SessionTypeOK'
    BY ProcessPvType DEF CommandsInv
  <1>3. /\ fraction \in Ages /\ 0 \in Ages /\ fraction # None /\ 0 # None
        /\ fraction \in Nat /\ fraction < Second
    BY CommandsAssumption, BoundsAssumption, SetsAssumption
       DEF CommandsInv, ClockTypeOK, Ages
  <1>30. busy \in 0 .. SlowCap /\ busy \in Ages /\ busy # None
    BY CommandsAssumption, BoundsAssumption, SetsAssumption
       DEF CommandsInv, ClockTypeOK, Configured, Ages
  <1>4. ClockTypeOK'
    BY <1>3, <1>30 DEF CommandsInv, ClockTypeOK, dts
  <1>5. OneSession'
    BY <1>1 DEF OneSession, ProcessPv
  <1>6. controller'.config = controller.config
    BY DEF CommandsInv, SessionTypeOK, Controllers, ProcessPv
  <1>7. Configured'
    BY <1>1, <1>6 DEF CommandsInv, Configured, InSession
  <1>8. GainsFollow'
    <2>1. CASE disk' = disk
      <3>1. Loaded' = Loaded
        BY <2>1 DEF Loaded
      <3>2. ASSUME NEW q \in Procs
            PROVE  /\ ~raced'[q] => ~raced[q]
                   /\ pc'[q] # "idle" => pc[q] # "idle"
        BY <1>1 DEF NoteRaces, CommandsInv, ProcTypeOK, InSession
      <3> QED  BY <3>1, <3>2 DEF CommandsInv, GainsFollow
    <2>2. CASE disk' # disk
      <3>1. disk' = snapshot' /\ disk' # NoFile
        BY <1>2, <2>2, SaveOutcome, NoFileAssumption
           DEF ProcessPv, SessionTypeOK
      <3>2. Loaded'.config = config[p]
        BY <1>1, <1>6, <3>1
           DEF CommandsInv, Configured, Loaded, ProcessPv, BuildSnapshot
      <3>3. ASSUME NEW q \in Procs, q # p, pc'[q] # "idle" PROVE raced'[q]
        BY <1>1, <2>2, <3>3 DEF NoteRaces, InSession, CommandsInv, ProcTypeOK
      <3> QED  BY <3>2, <3>3 DEF GainsFollow
    <2> QED  BY <2>1, <2>2
  <1>9. Truncated'
    <2>1. Stamped(fraction, busy, 0)
      BY <1>3, <1>30, CommandsAssumption DEF Stamped
    <2>2. file' \in {file, [updated |-> fraction, read |-> busy, stepped |-> 0]}
      OBVIOUS
    <2> QED  BY <2>1, <2>2 DEF CommandsInv, Truncated
  <1>10. LineIsStep' /\ Measured' /\ OnceFresh'
    BY <1>1 DEF LineIsStep, Measured, OnceFresh, Piping, InSession, CommandsInv
  <1>11. DtSpansPv'
    BY <1>1 DEF DtSpansPv, InSession, CommandsInv, ProcTypeOK, dts
  <1>12. /\ up' /\ flush_interval' = flush_interval /\ stepped' = 0
         /\ \/ flush_age' = 0 /\ file'.stepped = 0
            \/ HasStore /\ fail_count' > 0 /\ UNCHANGED <<flush_age, file>>
            \/ /\ HasStore => Coalesced
               /\ UNCHANGED <<flush_age, fail_count, file>>
    BY SaveCases DEF ProcessPv
  <1>13. FlushIsFile'
    <2>1. flush_age' # None => file'.stepped = flush_age'
      BY <1>12 DEF CommandsInv, FlushIsFile
    <2>2. ASSUME NEW q \in Procs, Piping(q)'
          PROVE  /\ flush_interval' = Second
                 /\ HasStore /\ fail_count' = 0 => flush_age' # None
      <3>1. q = p /\ flags[p].command = "pipe"
        BY <1>1, <2>2 DEF Piping, InSession
      <3>2. flush_interval' = Second
        BY <1>12, <3>1 DEF CommandsInv, FlushIsFile
      <3>3. HasStore /\ fail_count' = 0 => flush_age' # None
        BY <1>3, <1>12 DEF Coalesced
      <3> QED  BY <3>2, <3>3
    <2>3. \A q \in Procs : pc'[q] # "stepping" /\ stepped' # None
      BY <1>1, <1>3, <1>12 DEF InSession
    <2> QED  BY <1>12, <2>1, <2>2, <2>3 DEF FlushIsFile, Piping
  <1>14. PipeLagsBySecond'
    <2> SUFFICES ASSUME NEW q \in Procs, Piping(q)', HasStore, fail_count' = 0
                 PROVE  file'.stepped < stepped' + Second
      BY DEF PipeLagsBySecond
    <2>1. q = p /\ flags[p].command = "pipe"
      BY <1>1 DEF Piping, InSession
    <2>2. CASE file'.stepped = 0
      BY <1>12, <2>2, CommandsAssumption
    <2>3. CASE Coalesced /\ file' = file
      <3>1. flush_age < Second /\ file.stepped = flush_age /\ flush_age \in Nat
        BY <2>1, <2>3
           DEF CommandsInv, FlushIsFile, Coalesced, SessionTypeOK, Ages
      <3> QED  BY <1>12, <2>3, <3>1, CommandsAssumption
    <2> QED  BY <1>12, <2>2, <2>3
  <1> QED  BY <1>2, <1>4, <1>5, <1>7, <1>8, <1>9, <1>10, <1>11, <1>13, <1>14

\* The step of `once`: the exit code is read off what was just done.
LEMMA StepOnceStep ==
    ASSUME CommandsInv, NEW p \in Procs, StepOnce(p)
    PROVE  CommandsInv'
  <1> PICK pv \in PVs, i \in IAccs, cv \in CVs, r \in Results(p) :
               /\ StepSession(p, pv, i, cv, r)
               /\ \E c \in OnceCodes(flags[p], r) : Leave(p, c)
    BY DEF StepOnce
  <1> PICK c \in OnceCodes(flags[p], r) : Leave(p, c)
    OBVIOUS
  <1>1. /\ pc[p] = "stepping" /\ flags[p].command = "once" /\ flags' = flags
        /\ UNCHANGED <<line_age, dts>>
    BY DEF StepOnce, StepSession
  <1>2. \A q \in Procs : q # p => ~InSession(q) /\ pc'[q] = pc[q]
    BY <1>1 DEF CommandsInv, OneSession, ProcTypeOK, InSession, Leave
  <1>3. pc'[p] = "leaving" /\ code'[p] = c
    BY DEF CommandsInv, ProcTypeOK, Leave
  <1>4. ProcTypeOK'
    <2>1. c \in {0, 1, 3, 4, 5}
      BY DEF OnceCodes
    <2>2. raced' \in [Procs -> BOOLEAN]
      BY DEF CommandsInv, ProcTypeOK, StepSession, NoteRaces, SessionTypeOK
    <2> QED  BY <2>1, <2>2 DEF CommandsInv, ProcTypeOK, Leave, StepSession
  <1>6. OnceExitTells'
    <2>1. ~Wrote /\ fail_count = 0 /\ flush_interval = None
      BY <1>1 DEF CommandsInv, OnceFresh
    <2>2. r \in {"ok", "err", "dry"} /\ (r = "dry" => CvMode(flags[p]) = "dry")
      BY DEF Results
    <2>3. /\ ~Ok(r) => c = 5
          /\ Ok(r) => \/ c = 4 /\ fail_count' > 0
                      \/ c = 0 /\ ~(fail_count' > 0)
                      \/ c \in {1, 3} /\ flags[p].format = "json"
      BY DEF OnceCodes
    <2>4. Ok(r) => \/ CvMode(flags[p]) = "dry"
                   \/ Wrote' /\ confirmed' = snapshot'.last_cv
      <3>1. CASE r = "ok"
        <4>1. confirmed' = cv /\ snapshot'.last_cv = cv
          BY <3>1 DEF Ok, StepSession, ProcessPv, WriteCv, BuildSnapshot, CvAfter
        <4>2. cv # None
          BY SetsAssumption
        <4> QED  BY <4>1, <4>2 DEF Wrote
      <3> QED  BY <2>2, <3>1 DEF Ok
    <2>5. ~Ok(r) => ~Wrote'
      BY <2>1, <2>2 DEF Ok, StepSession, ProcessPv, WriteCv, Wrote
    <2>6. ~(fail_count' > 0) /\ HasStore => disk' = snapshot'
      BY <2>1, SaveCases DEF StepSession, Coalesced
    <2>7. ASSUME NEW q \in Procs, pc'[q] = "leaving" PROVE q = p
      BY <1>2, <2>7 DEF InSession
    <2> QED  BY <1>1, <1>3, <2>3, <2>4, <2>5, <2>6, <2>7 DEF OnceExitTells
  <1>7. /\ SessionTypeOK' /\ ClockTypeOK' /\ OneSession' /\ Configured'
        /\ GainsFollow' /\ Truncated' /\ LineIsStep' /\ Measured'
        /\ DtSpansPv' /\ OnceFresh' /\ FlushIsFile' /\ PipeLagsBySecond'
    BY <1>1, <1>2, <1>3, <1>4, TickStep
  <1> QED  BY <1>4, <1>6, <1>7 DEF CommandsInv

\* A line of `pipe`: its PV is read with it, and the step begins.
LEMMA LineStep ==
    ASSUME CommandsInv, NEW p \in Procs, Line(p)
    PROVE  CommandsInv'
  <1>1. /\ pc[p] = "opened" /\ flags[p].command = "pipe"
        /\ Piping(p) /\ busy' = 0 /\ busy' # None
    BY SetsAssumption DEF Line, Piping
  <1>2. /\ SessionTypeOK' /\ ProcTypeOK' /\ OneSession' /\ Configured'
        /\ GainsFollow' /\ Truncated' /\ OnceFresh' /\ OnceExitTells'
        /\ FlushIsFile' /\ PipeLagsBySecond'
        /\ \A q \in Procs : /\ pc'[q] = IF q = p THEN "stepping" ELSE pc[q]
                            /\ q # p => ~InSession(q) /\ ~InSession(q)'
    BY <1>1, GoesOn DEF Line
  <1>3. /\ line_age' = 0 /\ line_age' \in Ages
        /\ dt' \in Nat \cup {None} /\ span' \in Ages
        /\ span' # None => dt' = span'
    BY <1>1, MeasureLineType DEF Line
  <1>4. ClockTypeOK'
    BY <1>1, <1>3, CommandsAssumption DEF CommandsInv, ClockTypeOK, Line, ages
  <1>5. DtSpansPv'
    BY <1>1, <1>2, <1>3 DEF DtSpansPv, Line, InSession, CommandsInv, ProcTypeOK
  <1>6. LineIsStep' /\ Measured'
    <2>1. /\ \A q \in Procs : q # p => pc'[q] \in {"idle", "resolved"}
          /\ pc'[p] = "stepping" /\ line_age' = busy'
      BY <1>1, <1>2, <1>3 DEF InSession, ProcTypeOK
    <2>2. \A q \in Procs : pc'[q] # "measured" /\ ~Piping(q)'
      BY <2>1 DEF Piping
    <2> QED  BY <2>1, <2>2 DEF LineIsStep, Measured
  <1> QED  BY <1>2, <1>4, <1>5, <1>6 DEF CommandsInv

\* The step of `pipe` for a line.
LEMMA StepLineStep ==
    ASSUME CommandsInv, NEW p \in Procs, StepLine(p)
    PROVE  CommandsInv'
  <1> PICK pv \in PVs, i \in IAccs, cv \in CVs, r \in Results(p) :
               /\ StepSession(p, pv, i, cv, r)
               /\ IF Ok(r) THEN pc' = [pc EXCEPT ![p] = "opened"]
                               /\ UNCHANGED code
                           ELSE Leave(p, 1)
    BY DEF StepLine
  <1>1. /\ pc[p] = "stepping" /\ flags[p].command = "pipe" /\ flags' = flags
        /\ UNCHANGED <<line_age, dts>>
    BY DEF StepLine, StepSession
  <1>2. \A q \in Procs : q # p => ~InSession(q) /\ pc'[q] = pc[q]
    BY <1>1 DEF CommandsInv, OneSession, ProcTypeOK, InSession, Leave
  <1>3. pc'[p] \in {"opened", "leaving"}
    BY <1>1 DEF CommandsInv, ProcTypeOK, Leave
  <1>4. ProcTypeOK'
    <2>1. raced' \in [Procs -> BOOLEAN]
      BY DEF CommandsInv, ProcTypeOK, StepSession, NoteRaces, SessionTypeOK
    <2> QED  BY <2>1 DEF CommandsInv, ProcTypeOK, Leave, StepSession
  <1>6. OnceExitTells'
    <2>1. ASSUME NEW q \in Procs, pc'[q] = "leaving" PROVE q = p
      BY <1>2, <2>1 DEF InSession
    <2> QED  BY <1>1, <2>1 DEF OnceExitTells
  <1>7. /\ SessionTypeOK' /\ ClockTypeOK' /\ OneSession' /\ Configured'
        /\ GainsFollow' /\ Truncated' /\ LineIsStep' /\ Measured'
        /\ DtSpansPv' /\ OnceFresh' /\ FlushIsFile' /\ PipeLagsBySecond'
    BY <1>1, <1>2, <1>3, <1>4, TickStep
  <1> QED  BY <1>4, <1>6, <1>7 DEF CommandsInv

----------------------------------------------------------------------------
(* Time passes: every age that there is grows by one, up to its bound. *)

\* Ages that belong to one step go on to.
LEMMA StampedOlder ==
    ASSUME NEW u \in Ages, NEW r \in Ages, NEW s \in Ages, Stamped(u, r, s)
    PROVE  Stamped(Older(u), Older(r), Older(s))
  <1>1. CASE s = None
    BY <1>1, OlderType DEF Stamped
  <1>2. CASE s # None
    <2>1. /\ u # None /\ u \in 0 .. AgeCap /\ s \in 0 .. AgeCap
          /\ r # None /\ r \in 0 .. AgeCap
      BY <1>2 DEF Stamped, Ages
    <2>2. /\ Older(u) # None /\ Older(s) # None /\ Older(r) # None
          /\ Older(u) = IF u < AgeCap THEN u + 1 ELSE AgeCap
          /\ Older(r) = IF r < AgeCap THEN r + 1 ELSE AgeCap
          /\ Older(s) = IF s < AgeCap THEN s + 1 ELSE AgeCap
      BY <1>2, <2>1, OlderType
    <2> QED  BY <1>2, <2>1, <2>2, CommandsAssumption, BoundsAssumption
             DEF Stamped
  <1> QED  BY <1>1, <1>2

\* Time passes alike for the process and for the file, so that no age comes
\* closer to another than it was but at the bound.
LEMMA PassStep ==
    ASSUME CommandsInv, Pass
    PROVE  CommandsInv'
  <1>1. SessionTypeOK'
    BY FlushAgesType DEF CommandsInv, Pass, SessionTypeOK, history
  <1>2. /\ fraction' \in 0 .. Second - 1
        /\ updated' \in Ages /\ read' \in Ages /\ stepped' \in Ages
        /\ line_age' \in Ages
    BY OlderType, CommandsAssumption DEF CommandsInv, ClockTypeOK, Pass
  <1>20. /\ file' \in [updated : Ages, read : Ages, stepped : Ages]
         /\ file'.updated = Older(file.updated)
         /\ file'.read = Older(file.read)
         /\ file'.stepped = Older(file.stepped)
    <2>1. /\ file \in [updated : Ages, read : Ages, stepped : Ages]
          /\ file' = [a \in DOMAIN file |-> Older(file[a])]
      BY DEF CommandsInv, ClockTypeOK, Pass
    <2>2. /\ Older(file.updated) \in Ages /\ Older(file.read) \in Ages
          /\ Older(file.stepped) \in Ages
      BY <2>1, OlderType
    <2>3. DOMAIN file = {"updated", "read", "stepped"}
      BY <2>1
    <2> QED  BY <2>1, <2>2, <2>3
  <1>21. /\ busy' \in (0 .. SlowCap) \cup {None}
         /\ busy # None => /\ busy \in 0 .. SlowCap - 1 /\ busy' = busy + 1
                           /\ busy' # None
    <2>1. CASE busy = None
      BY <2>1 DEF Pass, Older
    <2>2. CASE busy # None
      <3>1. /\ busy \in 0 .. SlowCap /\ busy < SlowCap /\ SlowCap < AgeCap
            /\ SlowCap \in Nat /\ AgeCap \in Nat
        BY <2>2, CommandsAssumption, BoundsAssumption
           DEF CommandsInv, ClockTypeOK, Pass
      <3>2. busy \in Ages /\ busy' = Older(busy)
        BY <3>1 DEF Pass, Ages
      <3>3. busy' = busy + 1
        BY <2>2, <3>1, <3>2, OlderType
      <3>4. busy + 1 \in Nat /\ busy' # None
        BY <2>2, <3>1, <3>2, OlderType
      <3> QED  BY <3>1, <3>3, <3>4
    <2> QED  BY <2>1, <2>2
  <1>3. ProcTypeOK' /\ ClockTypeOK'
    BY <1>2, <1>20, <1>21
       DEF CommandsInv, ProcTypeOK, ClockTypeOK, Pass, local, dts
  <1>4. OneSession' /\ Configured' /\ GainsFollow' /\ OnceFresh'
    BY <1>21 DEF CommandsInv, OneSession, Configured, GainsFollow, OnceFresh,
           Pass, local, history, Loaded, InSession, Wrote
  <1>5. Truncated'
    BY <1>20, StampedOlder DEF CommandsInv, ClockTypeOK, Truncated, Pass
  <1>6. LineIsStep' /\ DtSpansPv' /\ OnceExitTells'
    <2>1. line_age' = Older(line_age) /\ read' = Older(read)
          /\ busy' = Older(busy) /\ (line_age' # None => line_age # None)
      BY OlderType DEF CommandsInv, ClockTypeOK, Pass
    <2>2. LineIsStep'
      BY <2>1 DEF CommandsInv, LineIsStep, Pass, Piping, local
    <2> QED  BY <2>2 DEF CommandsInv, DtSpansPv, OnceExitTells, Pass, local,
                         dts, history, Loaded, Wrote
  <1>60. Measured'
    <2> SUFFICES ASSUME NEW p \in Procs, pc[p] = "measured", span # None
                 PROVE  /\ read' # None /\ dt # None
                        /\ read' <= dt + slack + busy'
                        /\ dt + slack + busy' < read' + Second
                        /\ read' <= MaxDt + SlowCap + busy'
      BY DEF Measured, Pass, local, dts
    <2>1. /\ read # None /\ dt # None /\ busy # None
          /\ read <= dt + slack + busy /\ dt + slack + busy < read + Second
          /\ read <= MaxDt + SlowCap + busy
      BY DEF CommandsInv, Measured, Configured
    <2>2. /\ read \in 0 .. AgeCap /\ dt \in Nat /\ slack \in Nat
          /\ busy \in 0 .. SlowCap - 1 /\ busy' = busy + 1
      BY <1>21, <2>1 DEF CommandsInv, ClockTypeOK, Ages
    <2>3. read < AgeCap
      BY <2>1, <2>2, CommandsAssumption, BoundsAssumption
    <2>4. read' = read + 1 /\ read' # None
      BY <2>1, <2>2, <2>3, OlderType DEF Pass, Ages
    <2> QED  BY <2>1, <2>2, <2>4, CommandsAssumption
  <1>7. FlushIsFile'
    <2>1. flush_age' = Older(flush_age)
      BY DEF Pass, FlushAges, Older
    <2>2. flush_age \in Ages
      BY DEF CommandsInv, SessionTypeOK
    <2>3. /\ line_age' # None => line_age # None
          /\ stepped # None => stepped' # None
      BY OlderType DEF CommandsInv, ClockTypeOK, Pass
    <2> QED  BY <1>20, <2>1, <2>2, <2>3, OlderType
             DEF CommandsInv, FlushIsFile, Pass, Piping, local
  <1>8. PipeLagsBySecond'
    <2> SUFFICES ASSUME NEW p \in Procs, Piping(p), HasStore, line_age # None,
                        fail_count = 0, file'.stepped < AgeCap
                 PROVE  file'.stepped < stepped' + Second
      <3>1. line_age' # None => line_age # None
        BY OlderType DEF CommandsInv, ClockTypeOK, Pass
      <3>2. pc' = pc /\ flags' = flags /\ fail_count' = fail_count
        BY DEF Pass, local
      <3> QED  BY <3>1, <3>2 DEF PipeLagsBySecond, Piping
    <2>1. file.stepped \in 0 .. AgeCap /\ stepped \in 0 .. AgeCap
      BY SetsAssumption DEF CommandsInv, ClockTypeOK, FlushIsFile,
                            SessionTypeOK, Ages
    <2>2. /\ file'.stepped = IF file.stepped < AgeCap THEN file.stepped + 1 ELSE AgeCap
          /\ stepped' = IF stepped < AgeCap THEN stepped + 1 ELSE AgeCap
      BY <1>20, <2>1, OlderType, SetsAssumption DEF Pass, Ages
    <2>3. file.stepped < AgeCap => file.stepped < stepped + Second
      BY DEF CommandsInv, PipeLagsBySecond
    <2> QED  BY <2>1, <2>2, <2>3, CommandsAssumption, BoundsAssumption
  <1> QED  BY <1>1, <1>3, <1>4, <1>5, <1>6, <1>60, <1>7, <1>8 DEF CommandsInv

----------------------------------------------------------------------------
(* The theorems. *)

\* Before the first process there is nothing to tell.
LEMMA CommandsInvInit == Init => CommandsInv
  <1> SUFFICES ASSUME Init PROVE CommandsInv
    OBVIOUS
  <1>1. SessionTypeOK
    BY SessionTypeInit DEF Init
  <1>2. ProcTypeOK /\ ClockTypeOK
    BY CommandsAssumption DEF Init, ProcTypeOK, ClockTypeOK, Ages
  <1>3. OneSession /\ Configured /\ GainsFollow /\ OnceFresh
    BY DEF Init, OneSession, Configured, GainsFollow, OnceFresh, InSession
  <1>4. Truncated /\ LineIsStep /\ Measured /\ DtSpansPv
    BY DEF Init, Truncated, Stamped, LineIsStep, Measured, DtSpansPv, Piping
  <1>5. OnceExitTells /\ FlushIsFile /\ PipeLagsBySecond
    BY DEF Init, SessionInit, OnceExitTells, FlushIsFile, PipeLagsBySecond,
           Piping
  <1> QED  BY <1>1, <1>2, <1>3, <1>4, <1>5 DEF CommandsInv

\* Every step keeps the invariant.
LEMMA CommandsInvStep == CommandsInv /\ [Next]_vars => CommandsInv'
  <1> SUFFICES ASSUME CommandsInv, [Next]_vars PROVE CommandsInv'
    OBVIOUS
  <1>1. ASSUME NEW p \in Procs, NEW f \in Flags, Parse(p, f) PROVE CommandsInv'
    BY <1>1, ParseStep
  <1>2. ASSUME NEW p \in Procs, Open(p) \/ OpenFails(p) PROVE CommandsInv'
    BY <1>2, OpenStep, OpenFailsStep
  <1>3. ASSUME NEW p \in Procs,
               \/ MeasureDt(p) \/ ReadPv(p) \/ ReadPvFails(p) \/ StepOnce(p)
               \/ BadLine(p) \/ Line(p) \/ StepLine(p)
               \/ \E c \in {0, 1} : StdinEnds(p, c)
        PROVE  CommandsInv'
    BY <1>3, MeasureDtStep, ReadPvStep, LeaveStep, StepOnceStep, LineStep,
       StepLineStep
  <1>4. ASSUME NEW p \in Procs, Exit(p) \/ Kill(p) PROVE CommandsInv'
    BY <1>4, EndStep
  <1>5. CASE Pass
    BY <1>5, PassStep
  <1>6. CASE UNCHANGED vars \/ \E p \in Procs : BlankLine(p)
    <2>1. UNCHANGED vars
      BY <1>6 DEF BlankLine
    <2>2. ProcTypeOK' /\ Configured' /\ GainsFollow'
      BY <2>1 DEF CommandsInv, ProcTypeOK, Configured, GainsFollow, Loaded,
                  InSession, vars, local, sessionVars, persister, clocks
    <2> QED  BY <2>1, <2>2, SessionFrame DEF CommandsInv, vars, local
  <1> QED  BY <1>1, <1>2, <1>3, <1>4, <1>5, <1>6 DEF Next

\* The invariant holds in every state.
LEMMA CommandsInvHolds == Spec => []CommandsInv
  BY CommandsInvInit, CommandsInvStep, PTL DEF Spec

\* Any number of processes of `once` and `pipe`, however they come and go,
\* use sessions as SessionSpec allows: one at a time.
THEOREM CommandsUseSession == Spec => SessionSpec
  <1>1. Init => SessionInit
    BY DEF Init
  <1> QED  BY <1>1, CommandsSessionStep, CommandsInvHolds, PTL
           DEF Spec, SessionSpec

\* So the state file is a durable register for all of them together, which no
\* crash and no order of their commands takes back.
THEOREM CommandsFileDurable == Spec => RegisterSpec /\ FileNeverRegresses
  BY CommandsUseSession, SessionImplementsRegister, FileNeverGoesBack

\* A measured dt is the time between the PVs the derivative is taken of: exact
\* between lines, to the second between processes but for what the last step
\* and this read took.
THEOREM DtSpansPvCorrect == Spec => []DtSpansPv
  BY CommandsInvHolds, PTL DEF CommandsInv

\* The exit code of `once` tells what became of the CV and of the state.
THEOREM OnceExitTellsCorrect == Spec => []OnceExitTells
  BY CommandsInvHolds, PTL DEF CommandsInv

\* However many lines come, and however fast, the file of a pipe whose saves
\* succeed lags by less than a second of them.
THEOREM PipeLagsCorrect == Spec => []PipeLagsBySecond
  BY CommandsInvHolds, PTL DEF CommandsInv

\* A step that changes the file, and the config in it, is that of a process
\* that was asked to or that resolved its config from another file.
LEMMA ParametersStep ==
    ASSUME CommandsInv, [Next]_vars
    PROVE  ParametersKept
  <1> SUFFICES ASSUME disk' # disk, Loaded.config # None
               PROVE  ParametersKept
    BY DEF ParametersKept
  <1>1. PICK p \in Procs : StepOnce(p) \/ StepLine(p)
    <2>1. UNCHANGED vars => disk' = disk
      BY DEF vars, sessionVars, persister
    <2>2. Pass => disk' = disk
      BY DEF Pass
    <2>3. ASSUME NEW p \in Procs,
                 \/ \E f \in Flags : Parse(p, f)
                 \/ Open(p) \/ OpenFails(p) \/ MeasureDt(p) \/ ReadPv(p)
                 \/ ReadPvFails(p) \/ BlankLine(p) \/ BadLine(p) \/ Line(p)
                 \/ \E c \in {0, 1} : StdinEnds(p, c)
                 \/ Exit(p) \/ Kill(p)
          PROVE  disk' = disk
      BY <2>1, <2>3 DEF Parse, Open, New, OpenFails, MeasureDt, ReadPv,
           ReadPvFails, BlankLine, BadLine, Line, StdinEnds, Exit, Kill, EndSession, Stop,
           sessionVars, persister
    <2> QED  BY <2>1, <2>2, <2>3 DEF Next
  <1>2. pc[p] = "stepping"
    BY <1>1 DEF StepOnce, StepLine
  <1>3. PICK pv \in PVs, i \in IAccs, cv \in CVs, r \in Results(p) :
             StepSession(p, pv, i, cv, r)
    BY <1>1 DEF StepOnce, StepLine
  <1>4. disk' = snapshot'
    BY <1>3, SaveOutcome DEF StepSession, ProcessPv
  <1>5. disk'.config = config[p]
    BY <1>2, <1>3, <1>4 DEF CommandsInv, SessionTypeOK, Controllers, Configured,
       InSession, StepSession, ProcessPv, BuildSnapshot
  <1>6. Loaded = disk
    BY SetsAssumption DEF Loaded, DefaultSnapshot
  <1>7. flags[p].gains = None /\ ~raced[p] => config[p].gains = disk.config.gains
    BY <1>2, <1>6 DEF CommandsInv, GainsFollow
  <1> QED  BY <1>2, <1>5, <1>7 DEF ParametersKept

\* Saved gains stay until a flag asks for others, or a process works on what
\* it read before another one changed the file.
THEOREM ParametersCorrect == Spec => ParametersChangeOnRequest
  <1>1. CommandsInv /\ [Next]_vars => [ParametersKept]_vars
    BY ParametersStep
  <1> QED  BY <1>1, CommandsInvHolds, PTL DEF Spec, ParametersChangeOnRequest
=============================================================================
