---------------------------- MODULE ChildCommand ---------------------------
(***************************************************************************)
(* CmdPvSource.read_pv and CmdCvSink.write_cv (adapters/mod.rs): `sh -c` in *)
(* a process group of its own, polled until it exits or the timeout is over *)
(* and then killed with its group; in both cases the pipe behind its output *)
(* is read to the end before the call returns.                              *)
(*                                                                          *)
(* What the user's command does is open: the shell starts one worker, waits *)
(* for it, leaves it in the background, or lets it leave the group.  A      *)
(* worker of a CV command sets the actuator at some time, or never.  Calls  *)
(* are told apart by how long ago they were made.                           *)
(***************************************************************************)
EXTENDS Integers, FiniteSets

CONSTANTS
    Modes,          \* how a shell may run its worker
    CmdTimeout,     \* --pv-cmd-timeout or --cv-cmd-timeout
    CallCap,        \* bound: calls are not told apart that are older
    LeftCap         \* bound: workers of earlier calls that are still alive

ASSUME ChildAssumption ==
    /\ Modes \subseteq {"foreground", "background", "own_group"}
    /\ CmdTimeout \in Nat /\ CallCap \in Nat \ {0} /\ LeftCap \in Nat

VARIABLES
    call,           \* the phase of the call, or "none"
    kind,           \* what the last call was: "pv" or "cv"
    waited,         \* time since the call began to wait
    shell,          \* "running", "ok" or "failed" (exited), "killed"
    workers,        \* the workers that are alive
    actuator,       \* the call whose worker set the actuator last
    latest          \* history: mode of the worker that did

childVars == <<call, kind, waited, shell, workers, actuator, latest>>

CallPhases == {"none", "wait", "check", "kill", "drain"}
Workers == [age : 0 .. CallCap, kind : {"pv", "cv"}, mode : Modes,
            holds : BOOLEAN]

ChildInit ==
    /\ call = "none" /\ kind = "cv" /\ waited = 0 /\ shell = "ok"
    /\ workers = {} /\ actuator = CallCap /\ latest = "foreground"

\* The worker of the call in progress, while it lives.
Mine == {w \in workers : w.age = 0}

\* What no kill of the call in progress reaches: workers of earlier calls, of
\* a shell that has exited, and of another group.
Escaped == {w \in workers : w.age > 0 \/ w.mode # "foreground"}

----------------------------------------------------------------------------
(* The command. *)

\* spawn: a worker that may hold the pipe of the shell's output open.  An
\* old worker of a PV command does nothing more that anyone sees.
Spawn(k) ==
    /\ call = "none"
    /\ call' = "wait" /\ kind' = k /\ waited' = 0
    /\ LET older == {[w EXCEPT !.age = IF @ < CallCap THEN @ + 1 ELSE @] :
                        w \in {v \in workers : v.kind = "cv"}}
       IN  \E m \in Modes, h \in BOOLEAN :
               /\ m = "foreground" \/ Cardinality(older) < LeftCap
               /\ workers' = older \cup
                     {[age |-> 0, kind |-> k, mode |-> m, holds |-> h]}
    /\ actuator' = IF actuator < CallCap THEN actuator + 1 ELSE actuator
    /\ shell' = "running"
    /\ UNCHANGED latest

\* A CV worker sets the actuator, if it ever does, as it ends.
WorkerEnds(w) ==
    /\ workers' = workers \ {w}
    /\ \/ UNCHANGED <<actuator, latest>>
       \/ w.kind = "cv" /\ actuator' = w.age /\ latest' = w.mode
    /\ UNCHANGED <<call, kind, waited, shell>>

\* The shell exits once the worker it waits for has ended.
ShellExits ==
    /\ call # "none" /\ shell = "running"
    /\ \A w \in Mine : w.mode = "background"
    /\ shell' \in {"ok", "failed"}
    /\ UNCHANGED <<call, kind, waited, workers, actuator, latest>>

----------------------------------------------------------------------------
(* wait_child_deadline. *)

\* Mutant: a wait that blocks until the shell exits.
WaitForExit ==
    /\ call = "wait" /\ shell # "running" /\ call' = "drain"
    /\ UNCHANGED <<kind, waited, shell, workers, actuator, latest>>

\* try_wait, and then a look at the clock.
TryWait ==
    /\ call = "wait"
    /\ call' = IF shell = "running" THEN "check" ELSE "drain"
    /\ UNCHANGED <<kind, waited, shell, workers, actuator, latest>>

CheckDeadline ==
    /\ call = "check"
    /\ call' = IF waited >= CmdTimeout THEN "kill" ELSE "wait"
    /\ UNCHANGED <<kind, waited, shell, workers, actuator, latest>>

\* Mutant: only the shell is killed.
KillShell == UNCHANGED workers

\* kill(-pid): every worker that is still in the group.
KillGroup == workers' = {w \in workers : w.age > 0 \/ w.mode = "own_group"}

\* kill_child_process_tree and reap_child_after_kill.
KillTree ==
    /\ call = "kill"
    /\ KillGroup
    /\ shell' = "killed" /\ call' = "drain"
    /\ UNCHANGED <<kind, waited, actuator, latest>>

----------------------------------------------------------------------------
(* join_stdout_reader, or read_to_string of stderr, and the answer. *)

Holders == {w \in Mine : w.holds}

\* Output that does not parse makes a PV command fail although it succeeded.
Answers ==
    IF shell # "ok" THEN {"err"}
    ELSE IF kind = "pv" THEN {"ok", "err"} ELSE {"ok"}

Drain(answer) ==
    /\ call = "drain" /\ Holders = {}
    /\ answer \in Answers
    /\ call' = "none" /\ shell' = "ok" /\ waited' = 0
    /\ UNCHANGED <<kind, workers, actuator, latest>>

CommandStep == ShellExits \/ \E w \in workers : WorkerEnds(w)

----------------------------------------------------------------------------
(* Properties. *)

\* A call that timed out leaves nothing behind that could set the actuator
\* later, after a newer CV: the actuator never goes back to an older one,
\* unless the user's command left its worker to itself.
CvNeverGoesBack ==
    [][call' = call /\ actuator' > actuator => latest' # "foreground"]_childVars
=============================================================================
