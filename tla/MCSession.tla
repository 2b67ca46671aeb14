----------------------------- MODULE MCSession -----------------------------
(* Small instances of Session. *)
EXTENDS Session

mcCVs == {1, 2}
mcPVs == {"pv1"}
mcConfigs == {"c1"}
mcConfigs2 == {"c1", "c2"}
mcIAccs == {0, 5}
mcFlushIntervals == {None, 2}
=============================================================================
