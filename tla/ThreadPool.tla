----------------------------- MODULE ThreadPool -----------------------------
(***************************************************************************)
(* The class threadPool: src/src/include/threadPool.hpp and                *)
(* src/src/utils/threadPool.cpp.  Client threads call init and commit, the *)
(* workers execute run, a task may call commit from inside a worker, and   *)
(* the owner of the object runs the destructor once.                       *)
(*                                                                         *)
(* A step is what a thread does between two points where another thread    *)
(* can see or change the pool: an access to the atomic m_stoped, taking or *)
(* releasing m_lock, entering or leaving the wait set of m_cv.             *)
(***************************************************************************)
EXTENDS Integers, Sequences, FiniteSets

CONSTANTS
  Clients,      \* threads that call init and commit
  Workers,      \* the threads init(threadNum) creates: threadNum of them
  Tasks,        \* the tasks ever committed, each once
  NoThread,     \* m_lock is free
  NoTask,
  IdleGarbage,  \* what m_idleThreadNum holds before run first touches it
  MaxSpurious   \* bound on the spurious wake-ups of m_cv

ASSUME ThreadsAssumption ==
  /\ Clients \cap Workers = {}
  /\ NoThread \notin Clients \cup Workers
  /\ IsFiniteSet(Clients) /\ IsFiniteSet(Workers)
ASSUME TasksAssumption == NoTask \notin Tasks
ASSUME CountersAssumption == IdleGarbage \in Int /\ MaxSpurious \in Nat

Threads == Clients \cup Workers

VARIABLES
  m_stoped, m_tasks, m_lock, m_idleThreadNum,
  wpc,        \* where each worker is in run()
  cur,        \* the task a worker executes
  cpc,        \* where each thread is in commit()
  ctask,      \* the task a thread is committing
  ipc,        \* where each client is in init()
  dtor,       \* where the owner is in ~threadPool()
  submitted,  \* tasks ever handed to commit
  rejected,   \* tasks commit answered with an empty future
  done,       \* tasks whose future is ready
  late,       \* tasks past commit's check of m_stoped when the destructor set it
  spurious    \* spurious wake-ups so far

poolVars == <<m_stoped, m_tasks, m_lock, m_idleThreadNum>>
taskVars == <<submitted, rejected, done, late>>
vars == <<poolVars, wpc, cur, cpc, ctask, ipc, dtor, taskVars, spurious>>

----------------------------------------------------------------------------
Queued  == {m_tasks[i] : i \in DOMAIN m_tasks}
Running == {cur[w] : w \in {v \in Workers : wpc[v] = "run"}}
Pushing == {ctask[t] : t \in {u \in Threads : cpc[u] = "push"}}
Waiting == {w \in Workers : wpc[w] = "waiting"}

InLoop == {"top", "lock", "check", "park", "waiting", "run"}

(* The wait set a thread leaves by notify_one, notify_all or spuriously:    *)
(* it has to take m_lock again before it can evaluate the predicate.        *)
Wake(W) == [w \in Workers |-> IF w \in W THEN "lock" ELSE wpc[w]]

Init ==
  /\ m_stoped = TRUE
  /\ m_tasks = <<>>
  /\ m_lock = NoThread
  /\ m_idleThreadNum = IdleGarbage
  /\ wpc = [w \in Workers |-> "unborn"]
  /\ cur = [w \in Workers |-> NoTask]
  /\ cpc = [t \in Threads |-> "out"]
  /\ ctask = [t \in Threads |-> NoTask]
  /\ ipc = [c \in Clients |-> "out"]
  /\ dtor = "alive"
  /\ submitted = {} /\ rejected = {} /\ done = {} /\ late = {}
  /\ spurious = 0

(* A client between two calls, while the members of the pool exist.  The   *)
(* destructor does not wait for clients: a call may still be under way     *)
(* when it runs.  What happens to a call once the members are gone is      *)
(* undefined, and not modelled.                                            *)
FreeClient(c) ==
  /\ c \in Clients
  /\ cpc[c] = "out" /\ ipc[c] = "out"
  /\ dtor # "destroyed"

(* A worker inside task(): the task may itself call commit.                *)
InTask(w) == w \in Workers /\ wpc[w] = "run" /\ cpc[w] = "out"

----------------------------------------------------------------------------
(* commit                                                                  *)

CommitRejected(t, k) ==
  /\ FreeClient(t) \/ InTask(t)
  /\ k \notin submitted
  /\ m_stoped
  /\ submitted' = submitted \cup {k}
  /\ rejected' = rejected \cup {k}
  /\ UNCHANGED <<poolVars, wpc, cur, cpc, ctask, ipc, dtor, done, late, spurious>>

CommitAccepted(t, k) ==
  /\ FreeClient(t) \/ InTask(t)
  /\ k \notin submitted
  /\ ~m_stoped
  /\ submitted' = submitted \cup {k}
  /\ cpc' = [cpc EXCEPT ![t] = "push"]
  /\ ctask' = [ctask EXCEPT ![t] = k]
  /\ UNCHANGED <<poolVars, wpc, cur, ipc, dtor, rejected, done, late, spurious>>

(* The emplace under a lock_guard: one step, possible when m_lock is free. *)
CommitPush(t) ==
  /\ cpc[t] = "push"
  /\ dtor # "destroyed"
  /\ m_lock = NoThread
  /\ m_tasks' = Append(m_tasks, ctask[t])
  /\ cpc' = [cpc EXCEPT ![t] = "notify"]
  /\ ctask' = [ctask EXCEPT ![t] = NoTask]
  /\ UNCHANGED <<m_stoped, m_lock, m_idleThreadNum, wpc, cur, ipc, dtor, taskVars, spurious>>

(* Mutant: the notify_one is forgotten.                                    *)
CommitNoNotify(t) ==
  /\ cpc[t] = "notify"
  /\ cpc' = [cpc EXCEPT ![t] = "out"]
  /\ UNCHANGED <<poolVars, wpc, cur, ctask, ipc, dtor, taskVars, spurious>>

CommitNotify(t) ==
  /\ cpc[t] = "notify"
  /\ dtor # "destroyed"
  /\ cpc' = [cpc EXCEPT ![t] = "out"]
  /\ \/ Waiting = {} /\ UNCHANGED wpc
     \/ \E w \in Waiting : wpc' = Wake({w})
  /\ UNCHANGED <<poolVars, cur, ctask, ipc, dtor, taskVars, spurious>>

----------------------------------------------------------------------------
(* init.  A call that finds the pool started returns and changes nothing.  *)

InitCheck(c) ==
  /\ FreeClient(c)
  /\ dtor = "alive"
  /\ m_stoped
  /\ ipc' = [ipc EXCEPT ![c] = "lock"]
  /\ UNCHANGED <<poolVars, wpc, cur, cpc, ctask, dtor, taskVars, spurious>>

InitAlreadyStarted(c) ==
  /\ ipc[c] = "lock"
  /\ m_lock = NoThread
  /\ ~m_stoped
  /\ ipc' = [ipc EXCEPT ![c] = "out"]
  /\ UNCHANGED <<poolVars, wpc, cur, cpc, ctask, dtor, taskVars, spurious>>

(* Mutant: m_stoped is not read again under m_lock.                        *)
InitStartUnchecked(c) ==
  /\ ipc[c] = "lock"
  /\ m_lock = NoThread
  /\ m_lock' = c
  /\ m_stoped' = FALSE
  /\ wpc' = [w \in Workers |-> "unborn"]
  /\ ipc' = [ipc EXCEPT ![c] = "spawn"]
  /\ UNCHANGED <<m_tasks, m_idleThreadNum, cur, cpc, ctask, dtor, taskVars, spurious>>

(* From here to InitReturn the client holds m_lock.  m_pool.clear() drops   *)
(* the threads of the pool: every worker is "unborn" again.                *)
InitStart(c) ==
  /\ ipc[c] = "lock"
  /\ m_lock = NoThread
  /\ m_stoped
  /\ m_lock' = c
  /\ m_stoped' = FALSE
  /\ wpc' = [w \in Workers |-> "unborn"]
  /\ ipc' = [ipc EXCEPT ![c] = "spawn"]
  /\ UNCHANGED <<m_tasks, m_idleThreadNum, cur, cpc, ctask, dtor, taskVars, spurious>>

InitSpawn(c, w) ==
  /\ ipc[c] = "spawn"
  /\ wpc[w] = "unborn"
  /\ wpc' = [wpc EXCEPT ![w] = "top"]
  /\ UNCHANGED <<poolVars, cur, cpc, ctask, ipc, dtor, taskVars, spurious>>

(* The loop ends, or the constructor of a thread throws system_error: the  *)
(* unique_lock releases m_lock and m_stoped stays FALSE in both cases.     *)
InitReturn(c) ==
  /\ ipc[c] = "spawn"
  /\ m_lock' = NoThread
  /\ ipc' = [ipc EXCEPT ![c] = "out"]
  /\ UNCHANGED <<m_stoped, m_tasks, m_idleThreadNum, wpc, cur, cpc, ctask, dtor, taskVars, spurious>>

----------------------------------------------------------------------------
(* run                                                                     *)

RunTop(w) ==
  /\ wpc[w] = "top"
  /\ wpc' = [wpc EXCEPT ![w] = "lock"]
  /\ m_idleThreadNum' = m_idleThreadNum - 1
  /\ UNCHANGED <<m_stoped, m_tasks, m_lock, cur, cpc, ctask, ipc, dtor, taskVars, spurious>>

RunLock(w) ==
  /\ wpc[w] = "lock"
  /\ m_lock = NoThread
  /\ m_lock' = w
  /\ wpc' = [wpc EXCEPT ![w] = "check"]
  /\ UNCHANGED <<m_stoped, m_tasks, m_idleThreadNum, cur, cpc, ctask, ipc, dtor, taskVars, spurious>>

(* The predicate of m_cv.wait is false: the worker, still holding m_lock,   *)
(* is about to block.                                                      *)
RunPredicateFalse(w) ==
  /\ wpc[w] = "check"
  /\ ~m_stoped /\ m_tasks = <<>>
  /\ wpc' = [wpc EXCEPT ![w] = "park"]
  /\ UNCHANGED <<poolVars, cur, cpc, ctask, ipc, dtor, taskVars, spurious>>

RunPark(w) ==
  /\ wpc[w] = "park"
  /\ wpc' = [wpc EXCEPT ![w] = "waiting"]
  /\ m_lock' = NoThread
  /\ UNCHANGED <<m_stoped, m_tasks, m_idleThreadNum, cur, cpc, ctask, ipc, dtor, taskVars, spurious>>

RunSpuriousWake(w) ==
  /\ w \in Waiting
  /\ spurious < MaxSpurious
  /\ spurious' = spurious + 1
  /\ wpc' = Wake({w})
  /\ UNCHANGED <<poolVars, cur, cpc, ctask, ipc, dtor, taskVars>>

(* Mutant: a stopped worker leaves the queue as it is.                     *)
RunExitUndrained(w) ==
  /\ wpc[w] = "check"
  /\ m_stoped
  /\ wpc' = [wpc EXCEPT ![w] = "exited"]
  /\ m_lock' = NoThread
  /\ UNCHANGED <<m_stoped, m_tasks, m_idleThreadNum, cur, cpc, ctask, ipc, dtor, taskVars, spurious>>

RunExit(w) ==
  /\ wpc[w] = "check"
  /\ m_stoped /\ m_tasks = <<>>
  /\ wpc' = [wpc EXCEPT ![w] = "exited"]
  /\ m_lock' = NoThread
  /\ UNCHANGED <<m_stoped, m_tasks, m_idleThreadNum, cur, cpc, ctask, ipc, dtor, taskVars, spurious>>

(* Mutant: the newest task is taken.                                       *)
RunPopBack(w) ==
  /\ wpc[w] = "check"
  /\ m_tasks # <<>>
  /\ cur' = [cur EXCEPT ![w] = m_tasks[Len(m_tasks)]]
  /\ m_tasks' = SubSeq(m_tasks, 1, Len(m_tasks) - 1)
  /\ wpc' = [wpc EXCEPT ![w] = "run"]
  /\ m_lock' = NoThread
  /\ UNCHANGED <<m_stoped, m_idleThreadNum, cpc, ctask, ipc, dtor, taskVars, spurious>>

RunPop(w) ==
  /\ wpc[w] = "check"
  /\ m_tasks # <<>>
  /\ cur' = [cur EXCEPT ![w] = Head(m_tasks)]
  /\ m_tasks' = Tail(m_tasks)
  /\ wpc' = [wpc EXCEPT ![w] = "run"]
  /\ m_lock' = NoThread
  /\ UNCHANGED <<m_stoped, m_idleThreadNum, cpc, ctask, ipc, dtor, taskVars, spurious>>

(* task() returns: its packaged_task has made the future ready, with a      *)
(* value or with the exception the task threw.                             *)
RunTaskReturns(w) ==
  /\ InTask(w)
  /\ done' = done \cup {cur[w]}
  /\ cur' = [cur EXCEPT ![w] = NoTask]
  /\ wpc' = [wpc EXCEPT ![w] = "top"]
  /\ m_idleThreadNum' = m_idleThreadNum + 1
  /\ UNCHANGED <<m_stoped, m_tasks, m_lock, cpc, ctask, ipc, dtor, submitted, rejected, late, spurious>>

----------------------------------------------------------------------------
(* ~threadPool, on a pool no thread is initialising.  It takes no lock.     *)

DtorStop ==
  /\ dtor = "alive"
  /\ \A c \in Clients : ipc[c] = "out"
  /\ m_stoped' = TRUE
  /\ dtor' = "stopping"
  /\ late' = Pushing
  /\ UNCHANGED <<m_tasks, m_lock, m_idleThreadNum, wpc, cur, cpc, ctask, ipc, submitted, rejected, done, spurious>>

(* Mutant: notify_one instead of notify_all.                               *)
DtorNotifyOne ==
  /\ dtor = "stopping"
  /\ dtor' = "joining"
  /\ \/ Waiting = {} /\ UNCHANGED wpc
     \/ \E w \in Waiting : wpc' = Wake({w})
  /\ UNCHANGED <<poolVars, cur, cpc, ctask, ipc, taskVars, spurious>>

DtorNotifyAll ==
  /\ dtor = "stopping"
  /\ dtor' = "joining"
  /\ wpc' = Wake(Waiting)
  /\ UNCHANGED <<poolVars, cur, cpc, ctask, ipc, taskVars, spurious>>

(* join returns for one thread after the other, the last when all are over. *)
DtorJoin ==
  /\ dtor = "joining"
  /\ \A w \in Workers : wpc[w] \in {"unborn", "exited"}
  /\ dtor' = "destroyed"
  /\ UNCHANGED <<poolVars, wpc, cur, cpc, ctask, ipc, taskVars, spurious>>

----------------------------------------------------------------------------
Commit(t) == (\E k \in Tasks : CommitRejected(t, k) \/ CommitAccepted(t, k))
             \/ CommitPush(t) \/ CommitNotify(t)

InitCall(c) == InitCheck(c) \/ InitAlreadyStarted(c) \/ InitStart(c)
               \/ (\E w \in Workers : InitSpawn(c, w)) \/ InitReturn(c)

Run(w) == RunTop(w) \/ RunLock(w) \/ RunPredicateFalse(w) \/ RunPark(w)
          \/ RunExit(w) \/ RunPop(w) \/ RunTaskReturns(w)

Dtor == DtorStop \/ DtorNotifyAll \/ DtorJoin

Next ==
  \/ \E t \in Threads : Commit(t)
  \/ \E c \in Clients : InitCall(c)
  \/ \E w \in Workers : Run(w) \/ RunSpuriousWake(w)
  \/ Dtor

(* A runnable thread is eventually scheduled, and a task eventually        *)
(* returns.  Weak fairness is enough for m_lock: only finitely many steps  *)
(* take it.  Nobody has to call commit, init or the destructor.            *)
Fairness ==
  /\ \A w \in Workers : WF_vars(Run(w))
  /\ \A t \in Threads : WF_vars(CommitPush(t) \/ CommitNotify(t))
  /\ \A c \in Clients : WF_vars(InitAlreadyStarted(c) \/ InitStart(c) \/ InitReturn(c))
  /\ WF_vars(DtorNotifyAll \/ DtorJoin)

Spec == Init /\ [][Next]_vars
FairSpec == Spec /\ Fairness

----------------------------------------------------------------------------
(* Every variable holds a value of its type.                               *)
TypeOK ==
  /\ m_stoped \in BOOLEAN
  /\ m_tasks \in Seq(Tasks)
  /\ m_lock \in Threads \cup {NoThread}
  /\ m_idleThreadNum \in Int
  /\ wpc \in [Workers -> InLoop \cup {"unborn", "exited"}]
  /\ cur \in [Workers -> Tasks \cup {NoTask}]
  /\ cpc \in [Threads -> {"out", "push", "notify"}]
  /\ ctask \in [Threads -> Tasks \cup {NoTask}]
  /\ ipc \in [Clients -> {"out", "lock", "spawn"}]
  /\ dtor \in {"alive", "stopping", "joining", "destroyed"}
  /\ submitted \in SUBSET Tasks /\ rejected \in SUBSET Tasks
  /\ done \in SUBSET Tasks /\ late \in SUBSET Tasks
  /\ spurious \in 0 .. MaxSpurious

(* m_lock is held by exactly the thread that is between taking and          *)
(* releasing it in run or init.                                            *)
LockHeld ==
  /\ \A w \in Workers : wpc[w] \in {"check", "park"} <=> m_lock = w
  /\ \A c \in Clients : ipc[c] = "spawn" <=> m_lock = c

(* A task handed to commit is in exactly one place, whatever the           *)
(* interleaving of commits, workers and destructor: refused, on its way    *)
(* into the queue, queued once, run by one worker, or finished.  So no     *)
(* task runs twice and none disappears.                                    *)
ExactlyOnce ==
  /\ submitted = rejected \cup Pushing \cup Queued \cup Running \cup done
  /\ (rejected \cup done) \cap (Pushing \cup Queued \cup Running) = {}
  /\ rejected \cap done = {} /\ Pushing \cap Queued = {}
  /\ Running \cap (Pushing \cup Queued) = {}
  /\ \A i, j \in DOMAIN m_tasks : m_tasks[i] = m_tasks[j] => i = j
  /\ \A t, u \in Threads :
       cpc[t] = "push" /\ cpc[u] = "push" /\ ctask[t] = ctask[u] => t = u
  /\ \A w, v \in Workers :
       wpc[w] = "run" /\ wpc[v] = "run" /\ cur[w] = cur[v] => w = v

Notifying == {t \in Threads : cpc[t] = "notify"}
Looking == {w \in Workers : wpc[w] \in {"top", "lock", "check"}}

(* While a worker sleeps on m_cv, each queued task has a thread of its own  *)
(* that will see to it: a worker on its way to evaluate the predicate, or  *)
(* a commit about to notify.  A task never waits behind a long one while   *)
(* another worker sleeps for ever.                                         *)
NoLostWakeup ==
  Waiting # {} => Len(m_tasks) <= Cardinality(Notifying) + Cardinality(Looking)

(* m_pool.clear() never drops a thread: destroying a joinable std::thread   *)
(* would terminate the process.  The second look at m_stoped, under m_lock, *)
(* makes it so when several clients initialise at once.                    *)
ClearsNoThread ==
  [][\A w \in Workers : wpc'[w] = "unborn" => wpc[w] = "unborn"]_wpc

(* The workers drain the queue before they exit: after an exit the queue   *)
(* holds only tasks whose commit had read m_stoped before the destructor   *)
(* set it and pushed after.                                                *)
DrainedBeforeExit ==
  (\E w \in Workers : wpc[w] = "exited") => Queued \subseteq late

Promise == INSTANCE Executor WITH
  open <- ~m_stoped, pending <- m_tasks, running <- Running,
  finished <- done, refused <- rejected

(* The pool implements the executor: each task starts once, first          *)
(* committed first, and a refused task never starts.                       *)
ImplementsExecutor == Promise!Spec

(* A task that is in the queue while the pool is alive and has a thread is  *)
(* eventually run, also when the destructor starts meanwhile.              *)
QueuedTaskRuns ==
  \A k \in Tasks :
    (k \in Queued /\ dtor = "alive" /\ \E w \in Workers : wpc[w] # "unborn") ~> k \in done

(* The destructor returns, unless a worker had found the predicate false   *)
(* and was not yet in the wait set when m_stoped was set: the notify_all,   *)
(* which does not take m_lock, may come before that worker sleeps.         *)
DestructorReturns ==
  (dtor = "stopping" /\ \A w \in Workers : wpc[w] # "park") ~> dtor = "destroyed"

(* m_stoped says whether the threads are to stop (the comment at its       *)
(* declaration): once the destructor has set it, every thread of the pool  *)
(* ends.  The code does not keep this: see DestructorReturns.              *)
StopEndsThreads ==
  dtor = "stopping" ~> \A w \in Workers : wpc[w] \in {"unborn", "exited"}
=============================================================================
