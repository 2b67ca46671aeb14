---------------------------- MODULE MCCommands -----------------------------
(* A small instance of Commands. *)
EXTENDS Commands, TLC

mcGains == {"g1", "g2"}
mcConfigs == [sp : {"sp"}, gains : mcGains]

OnceFlags == [command |-> "once", pv |-> {"cmd"}, cv |-> {"cmd"},
              dry_run |-> FALSE, format |-> "text", sp |-> None,
              gains |-> None, dt |-> None, reset |-> FALSE]
PipeFlags == [OnceFlags EXCEPT !.command = "pipe", !.pv = {}, !.cv = {}]

\* A first run, later runs that rely on the file and print JSON, one that sets
\* gains, a dry run with an explicit dt, a pipe, and three that are refused.
mcFlags ==
    {[OnceFlags EXCEPT !.sp = "sp"],
     [OnceFlags EXCEPT !.gains = "g2"],
     [OnceFlags EXCEPT !.dry_run = TRUE, !.dt = 3],
     PipeFlags,
     [OnceFlags EXCEPT !.format = "json"],
     [OnceFlags EXCEPT !.format = "json", !.cv = {"stdout"}],
     [OnceFlags EXCEPT !.pv = {"file", "cmd"}],
     [PipeFlags EXCEPT !.dry_run = TRUE]}

mcCVs == {1, 2}
mcFlushIntervals == {None, 2}
mcSymmetry == Permutations(Procs)
=============================================================================
