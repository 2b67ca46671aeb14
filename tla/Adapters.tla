----------------------------- MODULE Adapters ------------------------------
(***************************************************************************)
(* The I/O of one loop process: read_pv on a stdin reader or a command,     *)
(* write_cv on a command or a file, tick after tick, with the thread, the   *)
(* children and the writer of stdin running beside it.  What the tick       *)
(* computes is left open; of the policy only --fail-after is kept.          *)
(***************************************************************************)
EXTENDS StdinPv, ChildCommand

CONSTANTS
    FailAfter,      \* --fail-after
    CVs,            \* control values, in tenths of the last printed digit
    Held,           \* values of its own that a device may settle on, in the same
    Verify,         \* --verify-cv
    Setups          \* the pairs of a PV source and a CV sink

ASSUME AdaptersAssumption ==
    /\ FailAfter \in Nat \ {0} /\ Verify \in BOOLEAN
    /\ CVs \subseteq Int /\ Held \subseteq Int
    /\ Setups \subseteq {"stdin", "cmd"} \X {"cmd", "file"}

VARIABLES
    source,         \* the PV source: "stdin" or "cmd"
    sink,           \* the CV sink: "cmd" or "file"
    phase,          \* "read", "reading", "write", "writing" or "done"
    stdin_waited,   \* time since recv_timeout was called
    fails,          \* pv_fail_count
    cv,             \* the CV of the last write to a FileCvSink
    content,        \* what the file of a FileCvSink holds, in tenths too
    written_ok      \* did the last write to it return Ok?

tickVars == <<phase, stdin_waited, fails, cv, content, written_ok>>
vars == <<stdinVars, childVars, source, sink, tickVars>>

----------------------------------------------------------------------------
(* FileCvSink. *)

\* {cv:.prec$}: to the nearest, and a tie to the even digit.
Formatted(v) ==
    LET d == v \div 10 IN LET r == v % 10 IN
    IF r > 5 \/ (r = 5 /\ d % 2 = 1) THEN d + 1 ELSE d

\* f64::round: to the nearest, and a tie away from zero.
Rounded(v) == IF v >= 0 THEN (v + 5) \div 10 ELSE -((5 - v) \div 10)

\* Mutant: a difference of one digit is let pass.
ReadbackNear(v, readback) == Rounded(v) - Rounded(readback) \in -1 .. 1

\* (written_rounded - readback_rounded).abs() >= 1.0 is refused.
ReadbackAgrees(v, readback) == Rounded(v) = Rounded(readback)

\* The device takes the value that was printed, keeps the one it has or settles
\* on one of its own; the call can fail before that, and reading it back can.
WriteFile ==
    /\ phase = "write" /\ sink = "file"
    /\ cv' \in CVs
    /\ content' \in {content, 10 * Formatted(cv')} \cup Held
    /\ written_ok' \in {FALSE, ~Verify \/ ReadbackAgrees(cv', content')}
    /\ phase' = "read"
    /\ UNCHANGED <<stdinVars, childVars, source, sink, stdin_waited, fails>>

----------------------------------------------------------------------------
(* The tick. *)

ReadStdin ==
    /\ phase = "read" /\ source = "stdin"
    /\ phase' = "reading" /\ stdin_waited' = 0
    /\ UNCHANGED <<stdinVars, childVars, source, sink, fails, cv, content,
                   written_ok>>

ReadCmd ==
    /\ phase = "read" /\ source = "cmd"
    /\ Spawn("pv")
    /\ phase' = "reading"
    /\ UNCHANGED <<stdinVars, source, sink, stdin_waited, fails, cv, content,
                   written_ok>>

\* A PV that was read is followed by a CV, and one that was not by --safe-cv.
PvRead ==
    /\ fails' = 0 /\ phase' = "write" /\ stdin_waited' = 0
    /\ UNCHANGED <<source, sink, cv, content, written_ok>>

PvFailed ==
    /\ fails' = fails + 1 /\ stdin_waited' = 0
    /\ phase' = IF fails' >= FailAfter THEN "done" ELSE "write"
    /\ UNCHANGED <<source, sink, cv, content, written_ok>>

StdinAnswers ==
    /\ phase = "reading" /\ source = "stdin"
    /\ \/ ReadPvOk /\ PvRead
       \/ StdinFails(stdin_waited) /\ PvFailed
    /\ UNCHANGED childVars

CmdAnswers ==
    /\ phase = "reading" /\ source = "cmd"
    /\ \/ Drain("ok") /\ PvRead
       \/ Drain("err") /\ PvFailed
    /\ UNCHANGED stdinVars

WriteCmd ==
    /\ phase = "write" /\ sink = "cmd"
    /\ Spawn("cv")
    /\ phase' = "writing"
    /\ UNCHANGED <<stdinVars, source, sink, stdin_waited, fails, cv, content,
                   written_ok>>

CvAnswers ==
    /\ phase = "writing"
    /\ \E answer \in {"ok", "err"} : Drain(answer)
    /\ phase' = "read"
    /\ UNCHANGED <<stdinVars, source, sink, stdin_waited, fails, cv, content,
                   written_ok>>

Call == /\ TryWait \/ CheckDeadline \/ KillTree
        /\ UNCHANGED <<stdinVars, source, sink, tickVars>>

Tick == \/ ReadStdin \/ ReadCmd \/ StdinAnswers \/ CmdAnswers
        \/ WriteFile \/ WriteCmd \/ CvAnswers \/ Call

----------------------------------------------------------------------------
(* What runs beside it. *)

Reader == /\ ReadLine \/ SendLine
          /\ UNCHANGED <<childVars, source, sink, tickVars>>

Writer == /\ (\E k \in LineKinds : WriteLine(k)) \/ CloseStdin
          /\ source = "stdin"
          /\ UNCHANGED <<childVars, source, sink, tickVars>>

Children == /\ CommandStep
            /\ UNCHANGED <<stdinVars, source, sink, tickVars>>

\* Time passes, no further than a wait lasts.
Pass ==
    /\ \/ /\ phase = "reading" /\ source = "stdin"
          /\ stdin_waited < StdinTimeout
          /\ stdin_waited' = stdin_waited + 1 /\ UNCHANGED waited
       \/ /\ call \in {"wait", "check"} /\ waited < CmdTimeout
          /\ waited' = waited + 1 /\ UNCHANGED stdin_waited
    /\ UNCHANGED <<stdinVars, call, kind, shell, workers, actuator, latest,
                   source, sink, phase, fails, cv, content, written_ok>>

Init ==
    /\ StdinInit /\ ChildInit
    /\ \E s \in Setups : source = s[1] /\ sink = s[2]
    /\ phase = "read" /\ stdin_waited = 0 /\ fails = 0
    /\ cv = 0 /\ content = 0 /\ written_ok = TRUE

Next == Tick \/ Reader \/ Writer \/ Children \/ Pass

\* The thread of the loop and the reader are scheduled, and time passes;
\* nothing is assumed of the commands, the workers and the writer.
Spec == /\ Init /\ [][Next]_vars
        /\ WF_vars(Tick) /\ WF_vars(Reader) /\ WF_vars(Pass)

----------------------------------------------------------------------------
(* Properties. *)

\* Every variable stays in the set its declaration describes.
AdaptersTypeOK ==
    /\ pipe \in Seq(Lines) /\ Len(pipe) <= PipeLines
    /\ holding \in Seq(Lines) /\ Len(holding) <= 1
    /\ channel \in Seq(Lines) /\ Len(channel) <= 1
    /\ reader \in {"alive", "gone"}
    /\ call \in CallPhases
    /\ workers \subseteq Workers
    /\ actuator \in 0 .. CallCap
    /\ phase \in {"read", "reading", "write", "writing", "done"}
    /\ fails \in 0 .. FailAfter

\* When --verify-cv lets a write pass, what the device answered is less than one
\* printed digit from the CV that was asked for, in whatever way formatting and
\* both roundings broke their ties.
VerifiedIsApplied ==
    phase = "read" /\ sink = "file" /\ Verify /\ written_ok =>
        content - cv \in -9 .. 9

\* A worker that no kill reaches keeps the pipe of a call open.
PipeHeldOpen == Holders \cap Escaped # {}

\* A hung command delays a tick by its timeout, not for ever: every call
\* returns, but for one whose output a worker out of reach keeps open.
CallsReturn == <>[]~PipeHeldOpen => []<>(call = "none")

\* A stream that ends leads to the end of a loop with --fail-after, whatever
\* was still in the pipe, the thread and the channel.
EofEnds == <>[]~PipeHeldOpen => (closed ~> phase = "done")
=============================================================================
