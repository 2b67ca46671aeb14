----------------------------- MODULE MCAutotune -----------------------------
(* A small instance of Autotune.  The unit of time is one interval.         *)
EXTENDS Autotune

mcPVs == 0 .. 2
mcWide == 0 .. 3
=============================================================================
