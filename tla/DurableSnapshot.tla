-------------------------- MODULE DurableSnapshot --------------------------
(***************************************************************************)
(* What persistence promises to the operator (README, "State file"), free  *)
(* of coalescing, counters and failures: a process works on a live         *)
(* snapshot; the file always holds Absent or one whole live snapshot of    *)
(* the past; a process starts from the file; and the file never goes back  *)
(* to an earlier iteration, whatever crashes.                              *)
(***************************************************************************)
EXTENDS Integers

CONSTANTS
    Values,   \* the snapshots: records with a field iter
    Fresh,    \* the snapshot a process starts from when there is no file
    Absent    \* no file

VARIABLES running, live, saved

vars == <<running, live, saved>>

Init == running = FALSE /\ live = Fresh /\ saved = Absent

Start ==
    /\ ~running /\ running' = TRUE
    /\ live' = IF saved = Absent THEN Fresh ELSE saved
    /\ saved' = saved

\* One operation: the live snapshot moves on, the file may take it up.
Advance ==
    /\ running /\ running' = TRUE
    /\ live' \in Values /\ live'.iter >= live.iter
    /\ saved' \in {saved, live'}

End == running /\ running' = FALSE /\ live' = Fresh /\ saved' = saved

Next == Start \/ Advance \/ End

Spec == Init /\ [][Next]_vars

----------------------------------------------------------------------------

\* The file's iteration count never goes back, over any number of crashes.
NeverRegresses ==
    [][saved # Absent => saved' # Absent /\ saved'.iter >= saved.iter]_vars
=============================================================================
