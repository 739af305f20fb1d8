---------------------------- MODULE MCThreadPool ----------------------------
(* Two clients, two workers and three tasks: a commit can race another     *)
(* commit, a nested commit and the destructor, and one task can queue      *)
(* behind two running ones.                                                *)
EXTENDS ThreadPool

CONSTANTS c1, c2, w1, w2, k1, k2, k3

MCClients == {c1, c2}
MCWorkers == {w1, w2}
MCTasks == {k1, k2, k3}
=============================================================================
