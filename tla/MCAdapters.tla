---------------------------- MODULE MCAdapters -----------------------------
(* A small instance of Adapters. *)
EXTENDS Adapters

mcLineKinds == {"number", "blank", "garbage"}
mcModes == {"foreground", "background", "own_group"}
mcCVs == {-25, 24, 25}
mcHeld == {15, -30}
mcSetups == {<<"stdin", "file">>, <<"cmd", "cmd">>}
=============================================================================
