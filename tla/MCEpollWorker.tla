--------------------------- MODULE MCEpollWorker ---------------------------
(* Three clients and four descriptors: epoll, the listener, and room for   *)
(* two connections at a time, so that the third meets a full table and     *)
(* then a descriptor that was used before.                                 *)
EXTENDS EpollWorker

CONSTANTS c1, c2, c3

MCClients == {c1, c2, c3}
============================================================================
