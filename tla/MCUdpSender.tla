---------------------------- MODULE MCUdpSender ----------------------------
(* Values for the constants of UdpSender.                                  *)
EXTENDS UdpSender, TLC

CONSTANTS c1, c2, t1, t2

Symmetric == Permutations(IoThreads)
=============================================================================
