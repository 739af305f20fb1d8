------------------------------ MODULE Executor ------------------------------
(***************************************************************************)
(* What a pool of worker threads promises to the callers of commit: a task *)
(* that is accepted starts once, in the order of acceptance, and finishes  *)
(* once; a task that is refused (commit returned a future without shared   *)
(* state) never starts, and only a pool that is not open refuses.          *)
(* ThreadPool implements this specification.                               *)
(***************************************************************************)
EXTENDS Sequences

CONSTANT Tasks

VARIABLES
  open,       \* the pool has been initialised and not yet stopped
  pending,    \* accepted tasks that have not started, oldest first
  running,
  finished,
  refused

vars == <<open, pending, running, finished, refused>>

Pending == {pending[i] : i \in DOMAIN pending}

New(k) == k \notin Pending \cup running \cup finished \cup refused

Init ==
  /\ open = FALSE
  /\ pending = <<>>
  /\ running = {}
  /\ finished = {}
  /\ refused = {}

Accept(k) ==
  /\ New(k)
  /\ pending' = Append(pending, k)
  /\ UNCHANGED <<open, running, finished, refused>>

Refuse(k) ==
  /\ ~open
  /\ New(k)
  /\ refused' = refused \cup {k}
  /\ UNCHANGED <<open, pending, running, finished>>

Start ==
  /\ pending # <<>>
  /\ running' = running \cup {Head(pending)}
  /\ pending' = Tail(pending)
  /\ UNCHANGED <<open, finished, refused>>

Finish(k) ==
  /\ k \in running
  /\ running' = running \ {k}
  /\ finished' = finished \cup {k}
  /\ UNCHANGED <<open, pending, refused>>

OpenOrClose ==
  /\ open' = ~open
  /\ UNCHANGED <<pending, running, finished, refused>>

Next ==
  \/ \E k \in Tasks : Accept(k) \/ Refuse(k) \/ Finish(k)
  \/ Start
  \/ OpenOrClose

Spec == Init /\ [][Next]_vars
=============================================================================
