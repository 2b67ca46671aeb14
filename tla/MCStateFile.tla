---------------------------- MODULE MCStateFile ----------------------------
(* A small instance of StateFile. *)
EXTENDS StateFile, TLC

mcKinds == {"session", "init", "purge", "autotune"}

\* Nothing tells one pid from another.
mcSymmetry == Permutations(Procs)
=============================================================================
