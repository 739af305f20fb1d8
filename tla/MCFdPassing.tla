---------------------------- MODULE MCFdPassing ----------------------------
(* Two clients: one that is being passed on, and one behind it. *)
EXTENDS FdPassing

CONSTANTS c1, c2

MCClients == {c1, c2}
============================================================================
