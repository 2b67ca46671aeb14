-------------------------- MODULE MCControlSocket --------------------------
(* A small instance of ControlSocket. *)
EXTENDS ControlSocket

CONSTANTS p1, p2, c1, c2
mcProcs == {p1, p2}
mcClients == {c1, c2}
=============================================================================
