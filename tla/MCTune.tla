------------------------------- MODULE MCTune -------------------------------
(* A small instance of Tune, with the unit of time of MCLoop (20 s).        *)
EXTENDS Tune

mcCVs == {1, 2}
mcOneCv == {2}
mcPVs == {"pv1"}
mcConfigs == {"c1"}
mcIAccs == {0}
mcIntervals == {1, 2}
mcInterval1 == {1}
=============================================================================
