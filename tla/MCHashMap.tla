----------------------------- MODULE MCHashMap -----------------------------
(* Values for the constants of HashMap: seven blocks make four buckets and  *)
(* three chained blocks; three keys fall into bucket 0, one into bucket 1.  *)
EXTENDS HashMap, TLC

CONSTANTS k1, k2, k3, k4, v1, v2

HashValues == (k1 :> 0) @@ (k2 :> 4) @@ (k3 :> 8) @@ (k4 :> 5)
=============================================================================
