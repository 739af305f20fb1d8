-------------------------- MODULE MCIOContextUtils --------------------------
(* Values for the constants of IOContextUtils: a client and the thread. *)
EXTENDS IOContextUtils

CONSTANTS c1, io
=============================================================================
