------------------------------- MODULE MCLoop -------------------------------
(* Small instances of Loop.  One unit of time stands for 20 s where the     *)
(* defaults matter: MAX_DT_DEFAULT (60 s) is then 3 and MIN_DT_DEFAULT 0.   *)
EXTENDS Loop

mcCVs == {1, 2}
mcOneCv == {2}
mcPVs == {"pv1"}
mcConfigs == {"c1"}
mcIAccs == {0}
mcIntervals == {1, 2}
mcInterval1 == {1}
=============================================================================
