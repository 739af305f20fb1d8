---------------------------- MODULE ThreadProofs ----------------------------
(***************************************************************************)
(* Theorems about two components in which threads meet without a lock.     *)
(*                                                                         *)
(* ThreadPool, for any number of clients, workers and tasks: its safety    *)
(* properties are parts of one inductive invariant, which adds three facts *)
(* no run states by itself: where a task may be in a thread's hands, how   *)
(* m_stoped follows the life of the object, and which commits can still    *)
(* push once it is stopped.                                                *)
(*                                                                         *)
(* BugReport, for any number of threads, signals, lines and faults: below. *)
(***************************************************************************)
EXTENDS ThreadPool, BugReport, FiniteSetTheorems, SequenceTheorems, TLAPS

(* A worker that runs and a commit about to push hold a task.              *)
InHand ==
  /\ \A w \in Workers : wpc[w] = "run" => cur[w] \in Tasks
  /\ \A t \in Threads : cpc[t] = "push" => ctask[t] \in Tasks

(* m_stoped is true before the first init and from the destructor on; the  *)
(* pool has no thread before init, and nobody initialises a dying pool.    *)
LifeCycle ==
  /\ dtor # "alive" => m_stoped /\ \A c \in Clients : ipc[c] = "out"
  /\ dtor = "alive" /\ m_stoped => \A w \in Workers : wpc[w] = "unborn"
  /\ \A c \in Clients : ipc[c] = "spawn" => ~m_stoped
  /\ \A w \in Workers : wpc[w] = "exited" => dtor # "alive"

(* Whoever can still push into a stopped pool read m_stoped before.        *)
LatePush == dtor # "alive" => Pushing \subseteq late

----------------------------------------------------------------------------
LEMMA InitType == Init => TypeOK /\ InHand
<1>1. SUFFICES ASSUME Init PROVE TypeOK /\ InHand
  OBVIOUS
<1>2. m_tasks \in Seq(Tasks)
  BY <1>1 DEF Init
<1>3. TypeOK
  BY <1>1, <1>2, CountersAssumption DEF Init, TypeOK, Threads, InLoop
<1>4. InHand
  BY <1>1 DEF Init, InHand
<1>5. QED
  BY <1>3, <1>4

LEMMA StepType ==
  ASSUME TypeOK, InHand, [Next]_vars
  PROVE  TypeOK' /\ InHand'
<1> USE DEF TypeOK, InHand
<1>1. ASSUME NEW t \in Threads, NEW k \in Tasks, CommitRejected(t, k)
      PROVE  TypeOK' /\ InHand'
  BY <1>1 DEF CommitRejected, poolVars
<1>2. ASSUME NEW t \in Threads, NEW k \in Tasks, CommitAccepted(t, k)
      PROVE  TypeOK' /\ InHand'
  BY <1>2 DEF CommitAccepted, poolVars
<1>3. ASSUME NEW t \in Threads, CommitPush(t)
      PROVE  TypeOK' /\ InHand'
  <2>1. m_tasks' \in Seq(Tasks)
    BY <1>3 DEF CommitPush
  <2>2. QED
    BY <1>3, <2>1 DEF CommitPush, taskVars
<1>4. ASSUME NEW t \in Threads, CommitNotify(t)
      PROVE  TypeOK' /\ InHand'
  BY <1>4 DEF CommitNotify, poolVars, taskVars, Wake, Waiting, InLoop
<1>5. ASSUME NEW c \in Clients, InitCall(c)
      PROVE  TypeOK' /\ InHand'
  BY <1>5 DEF InitCall, InitCheck, InitAlreadyStarted, InitStart, InitSpawn, InitReturn,
              poolVars, taskVars, Threads, InLoop
<1>6. ASSUME NEW w \in Workers, RunTop(w) \/ RunLock(w) \/ RunPredicateFalse(w) \/ RunPark(w) \/ RunExit(w)
      PROVE  TypeOK' /\ InHand'
  BY <1>6 DEF RunTop, RunLock, RunPredicateFalse, RunPark, RunExit, poolVars, taskVars, Threads, InLoop
<1>7. ASSUME NEW w \in Workers, RunPop(w)
      PROVE  TypeOK' /\ InHand'
  <2>1. Head(m_tasks) \in Tasks /\ m_tasks' \in Seq(Tasks)
    BY <1>7 DEF RunPop
  <2>2. QED
    BY <1>7, <2>1 DEF RunPop, taskVars, InLoop
<1>8. ASSUME NEW w \in Workers, RunTaskReturns(w)
      PROVE  TypeOK' /\ InHand'
  BY <1>8 DEF RunTaskReturns, InTask, InLoop
<1>9. ASSUME NEW w \in Workers, RunSpuriousWake(w)
      PROVE  TypeOK' /\ InHand'
  BY <1>9, CountersAssumption DEF RunSpuriousWake, Wake, Waiting, poolVars, taskVars, InLoop
<1>10. CASE DtorStop
  BY <1>10 DEF DtorStop, Pushing
<1>11. CASE DtorNotifyAll
  BY <1>11 DEF DtorNotifyAll, Wake, Waiting, poolVars, taskVars, InLoop
<1>12. CASE DtorJoin
  BY <1>12 DEF DtorJoin, poolVars, taskVars
<1>13. CASE UNCHANGED vars
  BY <1>13 DEF vars, poolVars, taskVars
<1>14. QED
  BY <1>1, <1>2, <1>3, <1>4, <1>5, <1>6, <1>7, <1>8, <1>9, <1>10, <1>11, <1>12, <1>13
     DEF Next, Commit, Run, Dtor

----------------------------------------------------------------------------
(* The lock discipline and the life cycle: no action needs more than its   *)
(* own guard, except that InitSpawn and the workers rely on each other.    *)
LEMMA InitLife == Init => LockHeld /\ LifeCycle /\ LatePush /\ DrainedBeforeExit
  BY ThreadsAssumption DEF Init, LockHeld, LifeCycle, LatePush, DrainedBeforeExit, Threads

LEMMA StepLock ==
  ASSUME TypeOK, LockHeld, [Next]_vars
  PROVE  LockHeld'
<1> USE ThreadsAssumption DEF TypeOK, LockHeld, Threads
<1>1. ASSUME NEW t \in Threads, Commit(t)
      PROVE  LockHeld'
  BY <1>1 DEF Commit, CommitRejected, CommitAccepted, CommitPush, CommitNotify, Wake, Waiting, poolVars
<1>2. ASSUME NEW c \in Clients, InitCheck(c) \/ InitAlreadyStarted(c)
      PROVE  LockHeld'
  BY <1>2 DEF InitCheck, InitAlreadyStarted, FreeClient, poolVars
<1>3. ASSUME NEW c \in Clients, InitReturn(c)
      PROVE  LockHeld'
  <2>1. m_lock = c /\ \A d \in Clients : ipc[d] = "spawn" => d = c
    BY <1>3 DEF InitReturn
  <2>2. \A w \in Workers : wpc'[w] \notin {"check", "park"}
    BY <1>3, <2>1 DEF InitReturn
  <2>3. QED
    BY <1>3, <2>1, <2>2 DEF InitReturn
<1>4. ASSUME NEW c \in Clients, InitStart(c)
      PROVE  LockHeld'
  BY <1>4 DEF InitStart
<1>5. ASSUME NEW c \in Clients, NEW w \in Workers, InitSpawn(c, w)
      PROVE  LockHeld'
  BY <1>5 DEF InitSpawn, poolVars
<1>6. ASSUME NEW w \in Workers, Run(w) \/ RunSpuriousWake(w)
      PROVE  LockHeld'
  BY <1>6 DEF Run, RunTop, RunLock, RunPredicateFalse, RunPark, RunExit, RunPop, RunTaskReturns,
              InTask, RunSpuriousWake, Wake, Waiting, poolVars
<1>7. CASE Dtor
  BY <1>7 DEF Dtor, DtorStop, DtorNotifyAll, DtorJoin, Wake, Waiting, poolVars
<1>8. CASE UNCHANGED vars
  BY <1>8 DEF vars, poolVars
<1>9. QED
  BY <1>1, <1>2, <1>4, <1>5, <1>6, <1>7, <1>8, <1>3 DEF Next, InitCall

LEMMA StepLifeCycle ==
  ASSUME TypeOK, LifeCycle, [Next]_vars
  PROVE  LifeCycle'
<1> USE DEF TypeOK, LifeCycle
<1>1. ASSUME NEW t \in Threads, Commit(t)
      PROVE  LifeCycle'
  BY <1>1 DEF Commit, CommitRejected, CommitAccepted, CommitPush, CommitNotify, Wake, Waiting, poolVars
<1>2. ASSUME NEW c \in Clients, InitCall(c)
      PROVE  LifeCycle'
  BY <1>2 DEF InitCall, InitCheck, InitAlreadyStarted, InitStart, InitSpawn, InitReturn, poolVars
<1>3. ASSUME NEW w \in Workers, Run(w) \/ RunSpuriousWake(w)
      PROVE  LifeCycle'
  BY <1>3 DEF Run, RunTop, RunLock, RunPredicateFalse, RunPark, RunExit, RunPop, RunTaskReturns,
              InTask, RunSpuriousWake, Wake, Waiting, poolVars
<1>4. CASE Dtor
  BY <1>4 DEF Dtor, DtorStop, DtorNotifyAll, DtorJoin, Wake, Waiting, poolVars
<1>5. CASE UNCHANGED vars
  BY <1>5 DEF vars, poolVars
<1>6. QED
  BY <1>1, <1>2, <1>3, <1>4, <1>5 DEF Next

----------------------------------------------------------------------------
(* How the queue operations change the set of queued tasks.                *)
LEMMA QueuedAppend ==
  ASSUME NEW s \in Seq(Tasks), NEW k \in Tasks, NEW r, r = Append(s, k)
  PROVE  /\ {r[i] : i \in DOMAIN r} = {s[i] : i \in DOMAIN s} \cup {k}
         /\ k \notin {s[i] : i \in DOMAIN s} /\ (\A i, j \in DOMAIN s : s[i] = s[j] => i = j)
              => \A i, j \in DOMAIN r : r[i] = r[j] => i = j
<1>1. /\ Len(s) \in Nat /\ DOMAIN s = 1 .. Len(s)
      /\ DOMAIN r = 1 .. (Len(s) + 1)
      /\ \A i \in DOMAIN s : i \in DOMAIN r /\ r[i] = s[i]
      /\ Len(s) + 1 \in DOMAIN r /\ r[Len(s) + 1] = k
  OBVIOUS
<1>2. \A i \in DOMAIN r : i \in DOMAIN s \/ i = Len(s) + 1
  BY <1>1
<1>3. {r[i] : i \in DOMAIN r} = {s[i] : i \in DOMAIN s} \cup {k}
  BY <1>1, <1>2
<1>4. ASSUME k \notin {s[i] : i \in DOMAIN s}, \A i, j \in DOMAIN s : s[i] = s[j] => i = j
      PROVE  \A i, j \in DOMAIN r : r[i] = r[j] => i = j
  BY <1>1, <1>2, <1>4
<1>5. QED
  BY <1>3, <1>4

LEMMA QueuedTail ==
  ASSUME NEW s \in Seq(Tasks), Len(s) > 0, NEW r,
         DOMAIN r = 1 .. (Len(s) - 1), \A i \in DOMAIN r : r[i] = s[i + 1],
         \A i, j \in DOMAIN s : s[i] = s[j] => i = j
  PROVE  /\ {r[i] : i \in DOMAIN r} = {s[i] : i \in DOMAIN s} \ {s[1]}
         /\ s[1] \in {s[i] : i \in DOMAIN s}
         /\ \A i, j \in DOMAIN r : r[i] = r[j] => i = j
<1>1. /\ DOMAIN s = 1 .. Len(s) /\ Len(s) \in Nat \ {0}
      /\ DOMAIN r = 1 .. (Len(s) - 1)
      /\ \A i \in DOMAIN r : i + 1 \in DOMAIN s /\ r[i] = s[i + 1]
      /\ 1 \in DOMAIN s
  OBVIOUS
<1>2. \A i \in DOMAIN s : i = 1 \/ (i - 1 \in DOMAIN r /\ s[i] = r[i - 1])
  BY <1>1
<1>3. \A i \in DOMAIN r : r[i] # s[1]
  BY <1>1
<1>4. {r[i] : i \in DOMAIN r} = {s[i] : i \in DOMAIN s} \ {s[1]}
  <2>1. ASSUME NEW i \in DOMAIN r
        PROVE  r[i] \in {s[j] : j \in DOMAIN s} \ {s[1]}
    BY <1>1, <1>3
  <2>2. ASSUME NEW i \in DOMAIN s, s[i] # s[1]
        PROVE  s[i] \in {r[j] : j \in DOMAIN r}
    <3>1. i - 1 \in DOMAIN r /\ s[i] = r[i - 1]
      BY <1>1, <1>2, <2>2
    <3>2. QED
      BY <3>1
  <2> DEFINE R == {r[i] : i \in DOMAIN r}
             S == {s[i] : i \in DOMAIN s}
  <2>3. R \subseteq S \ {s[1]}
    BY <2>1
  <2>4. \A x \in S : x # s[1] => x \in R
    BY <2>2
  <2> HIDE DEF R, S
  <2>5. R = S \ {s[1]}
    BY <2>3, <2>4
  <2>6. QED
    BY <2>5 DEF R, S
<1>5. \A i, j \in DOMAIN r : r[i] = r[j] => i = j
  <2>1. ASSUME NEW i \in DOMAIN r, NEW j \in DOMAIN r, r[i] = r[j]
        PROVE  i = j
    <3>1. i + 1 \in DOMAIN s /\ j + 1 \in DOMAIN s /\ s[i + 1] = s[j + 1]
      BY <1>1, <2>1
    <3>2. i + 1 = j + 1
      BY <3>1
    <3>3. QED
      BY <1>1, <3>2
  <2>2. QED
    BY <2>1
<1>6. QED
  BY <1>1, <1>4, <1>5

----------------------------------------------------------------------------
(* How each kind of step moves a task from one place to the next.  They    *)
(* serve the invariant below and the refinement.                           *)
LEMMA InitPoolUnborn ==
  ASSUME TypeOK, LifeCycle, NEW c \in Clients, InitStart(c)
  PROVE  wpc' = wpc
  BY DEF TypeOK, LifeCycle, InitStart

LEMMA StayRunning ==
  ASSUME TypeOK, cur' = cur,
         \A w \in Workers : wpc'[w] = "run" <=> wpc[w] = "run"
  PROVE  Running' = Running
  BY DEF TypeOK, Running

LEMMA PushMoves ==
  ASSUME TypeOK, InHand, ExactlyOnce, NEW t \in Threads, CommitPush(t)
  PROVE  /\ ctask[t] \in Pushing
         /\ Pushing' = Pushing \ {ctask[t]}
         /\ Queued' = Queued \cup {ctask[t]}
         /\ \A i, j \in DOMAIN m_tasks' : m_tasks'[i] = m_tasks'[j] => i = j
         /\ Running' = Running
<1>1. ctask[t] \in Tasks /\ ctask[t] \in Pushing /\ ctask[t] \notin Queued
  BY DEF CommitPush, InHand, ExactlyOnce, Pushing
<1>2. Pushing' = Pushing \ {ctask[t]}
  BY DEF TypeOK, CommitPush, ExactlyOnce, Pushing
<1>3. /\ Queued' = Queued \cup {ctask[t]}
      /\ \A i, j \in DOMAIN m_tasks' : m_tasks'[i] = m_tasks'[j] => i = j
  <2>1. m_tasks \in Seq(Tasks) /\ m_tasks' = Append(m_tasks, ctask[t])
    BY DEF TypeOK, CommitPush
  <2>2. \A i, j \in DOMAIN m_tasks : m_tasks[i] = m_tasks[j] => i = j
    BY DEF ExactlyOnce
  <2>3. ctask[t] \notin {m_tasks[i] : i \in DOMAIN m_tasks}
    BY <1>1 DEF Queued
  <2>4. /\ {m_tasks'[i] : i \in DOMAIN m_tasks'} = {m_tasks[i] : i \in DOMAIN m_tasks} \cup {ctask[t]}
        /\ \A i, j \in DOMAIN m_tasks' : m_tasks'[i] = m_tasks'[j] => i = j
    BY <1>1, <2>1, <2>2, <2>3, QueuedAppend
  <2>5. QED
    BY <2>4 DEF Queued
<1>4. Running' = Running
  BY DEF CommitPush, Running
<1>5. QED
  BY <1>1, <1>2, <1>3, <1>4

LEMMA PopMoves ==
  ASSUME TypeOK, ExactlyOnce, NEW w \in Workers, RunPop(w)
  PROVE  /\ Head(m_tasks) \in Queued
         /\ Queued' = Queued \ {Head(m_tasks)}
         /\ \A i, j \in DOMAIN m_tasks' : m_tasks'[i] = m_tasks'[j] => i = j
         /\ Running' = Running \cup {Head(m_tasks)}
<1>1. /\ Head(m_tasks) \in Queued
      /\ Queued' = Queued \ {Head(m_tasks)}
      /\ \A i, j \in DOMAIN m_tasks' : m_tasks'[i] = m_tasks'[j] => i = j
  <2>1. m_tasks \in Seq(Tasks) /\ m_tasks # <<>> /\ m_tasks' = Tail(m_tasks)
    BY DEF TypeOK, RunPop
  <2>2. /\ Len(m_tasks) > 0 /\ Head(m_tasks) = m_tasks[1]
        /\ DOMAIN m_tasks' = 1 .. (Len(m_tasks) - 1)
        /\ \A i \in DOMAIN m_tasks' : m_tasks'[i] = m_tasks[i + 1]
    BY <2>1
  <2>3. \A i, j \in DOMAIN m_tasks : m_tasks[i] = m_tasks[j] => i = j
    BY DEF ExactlyOnce
  <2>4. /\ {m_tasks'[i] : i \in DOMAIN m_tasks'} = {m_tasks[i] : i \in DOMAIN m_tasks} \ {m_tasks[1]}
        /\ m_tasks[1] \in {m_tasks[i] : i \in DOMAIN m_tasks}
        /\ \A i, j \in DOMAIN m_tasks' : m_tasks'[i] = m_tasks'[j] => i = j
    <3>1. m_tasks \in Seq(Tasks)
      BY <2>1
    <3>2. QED
      BY <3>1, <2>2, <2>3, QueuedTail
  <2>5. QED
    BY <2>2, <2>4 DEF Queued
<1>2. Running' = Running \cup {Head(m_tasks)}
  <2>1. /\ wpc[w] # "run" /\ wpc'[w] = "run" /\ cur'[w] = Head(m_tasks)
        /\ \A v \in Workers \ {w} : wpc'[v] = wpc[v] /\ cur'[v] = cur[v]
    BY DEF TypeOK, RunPop
  <2>2. QED
    BY <2>1 DEF Running
<1>3. QED
  BY <1>1, <1>2

LEMMA ReturnMoves ==
  ASSUME TypeOK, ExactlyOnce, NEW w \in Workers, RunTaskReturns(w)
  PROVE  /\ cur[w] \in Running
         /\ Running' = Running \ {cur[w]}
<1>1. /\ wpc[w] = "run" /\ wpc'[w] = "top"
      /\ \A v \in Workers \ {w} : wpc'[v] = wpc[v] /\ cur'[v] = cur[v]
  BY DEF TypeOK, RunTaskReturns, InTask
<1>2. \A v \in Workers \ {w} : wpc[v] = "run" => cur[v] # cur[w]
  BY <1>1 DEF ExactlyOnce
<1>3. QED
  BY <1>1, <1>2 DEF Running

LEMMA InitOnce == Init => ExactlyOnce
  BY DEF Init, ExactlyOnce, Queued, Running, Pushing

LEMMA StepOnce ==
  ASSUME TypeOK, InHand, LifeCycle, ExactlyOnce, [Next]_vars
  PROVE  ExactlyOnce'
<1>1. ASSUME NEW t \in Threads, NEW k \in Tasks, CommitRejected(t, k)
      PROVE  ExactlyOnce'
  <2>1. Pushing' = Pushing /\ Queued' = Queued /\ Running' = Running
    BY <1>1 DEF CommitRejected, poolVars, Pushing, Queued, Running
  <2>2. QED
    BY <1>1, <2>1 DEF CommitRejected, poolVars, ExactlyOnce
<1>2. ASSUME NEW t \in Threads, NEW k \in Tasks, CommitAccepted(t, k)
      PROVE  ExactlyOnce'
  <2>1. Queued' = Queued /\ Running' = Running
    BY <1>2 DEF CommitAccepted, poolVars, Queued, Running
  <2>2. /\ cpc[t] = "out" /\ cpc'[t] = "push" /\ ctask'[t] = k
        /\ \A u \in Threads \ {t} : cpc'[u] = cpc[u] /\ ctask'[u] = ctask[u]
    BY <1>2 DEF TypeOK, CommitAccepted, FreeClient, InTask
  <2>3. Pushing' = Pushing \cup {k} /\ k \notin Pushing
    BY <1>2, <2>2 DEF CommitAccepted, ExactlyOnce, Pushing
  <2>4. \A u \in Threads : cpc[u] = "push" => ctask[u] # k
    BY <2>3 DEF Pushing
  <2>5. \A u, v \in Threads :
          cpc'[u] = "push" /\ cpc'[v] = "push" /\ ctask'[u] = ctask'[v] => u = v
    BY <2>2, <2>4 DEF ExactlyOnce
  <2>6. QED
    BY <1>2, <2>1, <2>3, <2>5 DEF CommitAccepted, poolVars, ExactlyOnce
<1>3. ASSUME NEW t \in Threads, CommitPush(t)
      PROVE  ExactlyOnce'
  <2>1. /\ ctask[t] \in Pushing /\ Pushing' = Pushing \ {ctask[t]}
        /\ Queued' = Queued \cup {ctask[t]} /\ Running' = Running
        /\ \A i, j \in DOMAIN m_tasks' : m_tasks'[i] = m_tasks'[j] => i = j
    BY <1>3, PushMoves
  <2>2. \A u, v \in Threads :
          cpc'[u] = "push" /\ cpc'[v] = "push" /\ ctask'[u] = ctask'[v] => u = v
    BY <1>3 DEF TypeOK, CommitPush, ExactlyOnce
  <2>3. QED
    BY <1>3, <2>1, <2>2 DEF CommitPush, taskVars, ExactlyOnce
<1>4. ASSUME NEW t \in Threads, CommitNotify(t)
      PROVE  ExactlyOnce'
  <2>1. /\ \A w \in Workers : wpc'[w] = "run" <=> wpc[w] = "run"
        /\ \A u \in Threads : cpc'[u] = "push" <=> cpc[u] = "push"
    BY <1>4 DEF TypeOK, CommitNotify, Wake, Waiting
  <2>2. Pushing' = Pushing /\ Queued' = Queued /\ Running' = Running
    BY <1>4, <2>1, StayRunning DEF CommitNotify, poolVars, Pushing, Queued
  <2>3. QED
    BY <1>4, <2>1, <2>2 DEF CommitNotify, poolVars, taskVars, ExactlyOnce
<1>5. ASSUME NEW c \in Clients, InitCall(c)
      PROVE  ExactlyOnce'
  <2>1. /\ UNCHANGED <<m_tasks, cur, cpc, ctask, taskVars>>
        /\ \A w \in Workers : wpc'[w] = "run" <=> wpc[w] = "run"
    BY <1>5, InitPoolUnborn DEF TypeOK, InitCall, InitCheck, InitAlreadyStarted, InitStart,
                                InitSpawn, InitReturn, poolVars
  <2>2. Pushing' = Pushing /\ Queued' = Queued /\ Running' = Running
    BY <2>1, StayRunning DEF Pushing, Queued
  <2>3. QED
    BY <2>1, <2>2 DEF taskVars, ExactlyOnce
<1>6. ASSUME NEW w \in Workers,
             \/ RunTop(w) \/ RunLock(w) \/ RunPredicateFalse(w) \/ RunPark(w)
             \/ RunExit(w) \/ RunSpuriousWake(w)
      PROVE  ExactlyOnce'
  <2>1. /\ UNCHANGED <<m_tasks, cur, cpc, ctask, taskVars>>
        /\ \A v \in Workers : wpc'[v] = "run" <=> wpc[v] = "run"
    BY <1>6 DEF TypeOK, RunTop, RunLock, RunPredicateFalse, RunPark, RunExit, RunSpuriousWake,
                Wake, Waiting, poolVars
  <2>2. Pushing' = Pushing /\ Queued' = Queued /\ Running' = Running
    BY <2>1, StayRunning DEF Pushing, Queued
  <2>3. QED
    BY <2>1, <2>2 DEF taskVars, ExactlyOnce
<1>7. ASSUME NEW w \in Workers, RunPop(w)
      PROVE  ExactlyOnce'
  <2>1. /\ Head(m_tasks) \in Queued /\ Queued' = Queued \ {Head(m_tasks)}
        /\ Running' = Running \cup {Head(m_tasks)} /\ Pushing' = Pushing
        /\ \A i, j \in DOMAIN m_tasks' : m_tasks'[i] = m_tasks'[j] => i = j
    BY <1>7, PopMoves DEF RunPop, Pushing
  <2>2. /\ wpc'[w] = "run" /\ cur'[w] = Head(m_tasks)
        /\ \A v \in Workers \ {w} : wpc'[v] = wpc[v] /\ cur'[v] = cur[v]
    BY <1>7 DEF TypeOK, RunPop
  <2>3. \A v \in Workers : wpc[v] = "run" => cur[v] # Head(m_tasks)
    BY <2>1 DEF ExactlyOnce, Running
  <2>4. \A u, v \in Workers : wpc'[u] = "run" /\ wpc'[v] = "run" /\ cur'[u] = cur'[v] => u = v
    BY <2>2, <2>3 DEF ExactlyOnce
  <2>5. QED
    BY <1>7, <2>1, <2>4 DEF RunPop, taskVars, ExactlyOnce
<1>8. ASSUME NEW w \in Workers, RunTaskReturns(w)
      PROVE  ExactlyOnce'
  <2>1. /\ cur[w] \in Running /\ Running' = Running \ {cur[w]}
        /\ Queued' = Queued /\ Pushing' = Pushing
    BY <1>8, ReturnMoves DEF RunTaskReturns, Queued, Pushing
  <2>2. \A u, v \in Workers : wpc'[u] = "run" /\ wpc'[v] = "run" /\ cur'[u] = cur'[v] => u = v
    BY <1>8 DEF TypeOK, RunTaskReturns, ExactlyOnce
  <2>3. QED
    BY <1>8, <2>1, <2>2 DEF RunTaskReturns, ExactlyOnce
<1>9. CASE Dtor
  <2>1. /\ UNCHANGED <<m_tasks, cur, cpc, ctask, submitted, rejected, done>>
        /\ \A w \in Workers : wpc'[w] = "run" <=> wpc[w] = "run"
    BY <1>9 DEF TypeOK, Dtor, DtorStop, DtorNotifyAll, DtorJoin, Wake, Waiting, poolVars, taskVars
  <2>2. Pushing' = Pushing /\ Queued' = Queued /\ Running' = Running
    BY <2>1, StayRunning DEF Pushing, Queued
  <2>3. QED
    BY <2>1, <2>2 DEF ExactlyOnce
<1>10. CASE UNCHANGED vars
  BY <1>10 DEF vars, poolVars, taskVars, ExactlyOnce, Queued, Running, Pushing
<1>11. QED
  BY <1>1, <1>2, <1>3, <1>4, <1>5, <1>6, <1>7, <1>8, <1>9, <1>10 DEF Next, Commit, Run

----------------------------------------------------------------------------
(* The workers drain the queue: RunExit finds it empty, and a push after   *)
(* an exit comes from a commit that DtorStop recorded in late.             *)
LEMMA StepDrained ==
  ASSUME TypeOK, InHand, LifeCycle, ExactlyOnce, LatePush, DrainedBeforeExit, [Next]_vars
  PROVE  LatePush' /\ DrainedBeforeExit'
<1> USE DEF LatePush, DrainedBeforeExit
<1>1. ASSUME NEW t \in Threads, NEW k \in Tasks, CommitRejected(t, k)
      PROVE  LatePush' /\ DrainedBeforeExit'
  BY <1>1 DEF CommitRejected, poolVars, Pushing, Queued
<1>2. ASSUME NEW t \in Threads, NEW k \in Tasks, CommitAccepted(t, k)
      PROVE  LatePush' /\ DrainedBeforeExit'
  BY <1>2 DEF CommitAccepted, LifeCycle, poolVars, Queued
<1>3. ASSUME NEW t \in Threads, CommitPush(t)
      PROVE  LatePush' /\ DrainedBeforeExit'
  <2>1. /\ ctask[t] \in Pushing /\ Pushing' = Pushing \ {ctask[t]}
        /\ Queued' = Queued \cup {ctask[t]}
    BY <1>3, PushMoves
  <2>2. UNCHANGED <<wpc, dtor, late>>
    BY <1>3 DEF CommitPush, taskVars
  <2>3. QED
    BY <2>1, <2>2 DEF LifeCycle
<1>4. ASSUME NEW t \in Threads, CommitNotify(t)
      PROVE  LatePush' /\ DrainedBeforeExit'
  <2>1. /\ UNCHANGED <<m_tasks, dtor, late>>
        /\ \A w \in Workers : wpc'[w] = "exited" => wpc[w] = "exited"
        /\ \A u \in Threads : cpc'[u] = "push" => cpc[u] = "push" /\ ctask'[u] = ctask[u]
    BY <1>4 DEF TypeOK, CommitNotify, Wake, Waiting, poolVars, taskVars
  <2>2. Pushing' \subseteq Pushing /\ Queued' = Queued
    BY <2>1 DEF Pushing, Queued
  <2>3. QED
    BY <2>1, <2>2
<1>5. ASSUME NEW c \in Clients, InitCall(c)
      PROVE  LatePush' /\ DrainedBeforeExit'
  <2>1. /\ UNCHANGED <<m_tasks, cpc, ctask, dtor, late>>
        /\ \A w \in Workers : wpc'[w] = "exited" => wpc[w] = "exited"
    BY <1>5 DEF TypeOK, InitCall, InitCheck, InitAlreadyStarted, InitStart, InitSpawn, InitReturn,
                poolVars, taskVars
  <2>2. Pushing' = Pushing /\ Queued' = Queued
    BY <2>1 DEF Pushing, Queued
  <2>3. QED
    BY <2>1, <2>2
<1>6. ASSUME NEW w \in Workers,
             RunTop(w) \/ RunLock(w) \/ RunPredicateFalse(w) \/ RunPark(w) \/ RunSpuriousWake(w)
      PROVE  LatePush' /\ DrainedBeforeExit'
  <2>1. /\ UNCHANGED <<m_tasks, cpc, ctask, dtor, late>>
        /\ \A v \in Workers : wpc'[v] = "exited" => wpc[v] = "exited"
    BY <1>6 DEF TypeOK, RunTop, RunLock, RunPredicateFalse, RunPark, RunSpuriousWake,
                Wake, Waiting, poolVars, taskVars
  <2>2. Pushing' = Pushing /\ Queued' = Queued
    BY <2>1 DEF Pushing, Queued
  <2>3. QED
    BY <2>1, <2>2
<1>7. ASSUME NEW w \in Workers, RunExit(w)
      PROVE  LatePush' /\ DrainedBeforeExit'
  <2>1. Queued' = {} /\ Pushing' = Pushing /\ UNCHANGED <<dtor, late>>
    BY <1>7 DEF RunExit, Queued, Pushing, taskVars
  <2>2. QED
    BY <2>1
<1>8. ASSUME NEW w \in Workers, RunPop(w)
      PROVE  LatePush' /\ DrainedBeforeExit'
  <2>1. Queued' \subseteq Queued /\ Pushing' = Pushing /\ UNCHANGED <<dtor, late>>
    BY <1>8, PopMoves DEF RunPop, Pushing, taskVars
  <2>2. \A v \in Workers : wpc'[v] = "exited" => wpc[v] = "exited"
    BY <1>8 DEF TypeOK, RunPop
  <2>3. QED
    BY <2>1, <2>2
<1>9. ASSUME NEW w \in Workers, RunTaskReturns(w)
      PROVE  LatePush' /\ DrainedBeforeExit'
  <2>1. Queued' = Queued /\ Pushing' = Pushing /\ UNCHANGED <<dtor, late>>
    BY <1>9 DEF RunTaskReturns, Queued, Pushing
  <2>2. \A v \in Workers : wpc'[v] = "exited" => wpc[v] = "exited"
    BY <1>9 DEF TypeOK, RunTaskReturns, InTask
  <2>3. QED
    BY <2>1, <2>2
<1>10. CASE DtorStop
  <2>1. Queued' = Queued /\ late' = Pushing /\ Pushing' = Pushing /\ wpc' = wpc
    BY <1>10 DEF DtorStop, Queued, Pushing
  <2>2. \A w \in Workers : wpc[w] # "exited"
    BY <1>10 DEF DtorStop, LifeCycle
  <2>3. QED
    BY <2>1, <2>2
<1>11. CASE DtorNotifyAll \/ DtorJoin
  <2>1. /\ UNCHANGED <<m_tasks, cpc, ctask, late>> /\ dtor # "alive"
        /\ \A w \in Workers : wpc'[w] = "exited" => wpc[w] = "exited"
    BY <1>11 DEF TypeOK, DtorNotifyAll, DtorJoin, Wake, Waiting, poolVars, taskVars
  <2>2. Pushing' = Pushing /\ Queued' = Queued
    BY <2>1 DEF Pushing, Queued
  <2>3. QED
    BY <2>1, <2>2
<1>12. CASE UNCHANGED vars
  BY <1>12 DEF vars, poolVars, taskVars, Pushing, Queued
<1>13. QED
  BY <1>1, <1>2, <1>3, <1>4, <1>5, <1>6, <1>7, <1>8, <1>9, <1>10, <1>11, <1>12
     DEF Next, Commit, Run, Dtor

----------------------------------------------------------------------------
IInv == /\ TypeOK /\ InHand
        /\ LockHeld /\ LifeCycle
        /\ ExactlyOnce
        /\ LatePush /\ DrainedBeforeExit

(* The inductive invariant: it holds at first, and each step of the pool   *)
(* keeps it.                                                               *)
THEOREM Invariance == Spec => []IInv
<1>1. Init => IInv
  BY InitType, InitLife, InitOnce DEF IInv
<1>2. IInv /\ [Next]_vars => IInv'
  BY StepType, StepLock, StepLifeCycle, StepOnce, StepDrained DEF IInv
<1>3. QED
  BY <1>1, <1>2, PTL DEF Spec

(* Every variable of the pool keeps its type.                              *)
THEOREM TypeCorrect == Spec => []TypeOK
<1>1. IInv => TypeOK
  BY DEF IInv
<1>2. QED
  BY <1>1, Invariance, PTL

(* m_lock is held by exactly the thread between taking and releasing it.   *)
THEOREM LockCorrect == Spec => []LockHeld
<1>1. IInv => LockHeld
  BY DEF IInv
<1>2. QED
  BY <1>1, Invariance, PTL

(* A task handed to commit is refused, or queued, run and finished once:   *)
(* no interleaving loses or repeats it.                                    *)
THEOREM TasksOnce == Spec => []ExactlyOnce
<1>1. IInv => ExactlyOnce
  BY DEF IInv
<1>2. QED
  BY <1>1, Invariance, PTL

(* Once a worker has exited, the queue holds only tasks whose commit was   *)
(* already past its check of m_stoped when the destructor set it.          *)
THEOREM QueueDrained == Spec => []DrainedBeforeExit
<1>1. IInv => DrainedBeforeExit
  BY DEF IInv
<1>2. QED
  BY <1>1, Invariance, PTL

(* init never clears a pool that holds a thread.                           *)
THEOREM ClearsSafely == Spec => ClearsNoThread
<1>1. IInv /\ [Next]_vars => [\A w \in Workers : wpc'[w] = "unborn" => wpc[w] = "unborn"]_wpc
  <2>1. SUFFICES ASSUME IInv, [Next]_vars, NEW w \in Workers, wpc'[w] = "unborn"
                 PROVE  wpc[w] = "unborn"
    OBVIOUS
  <2> USE DEF IInv, TypeOK
  <2>2. ASSUME NEW t \in Threads, Commit(t)
        PROVE  wpc[w] = "unborn"
    BY <2>1, <2>2 DEF Commit, CommitRejected, CommitAccepted, CommitPush, CommitNotify, Wake, Waiting
  <2>3. ASSUME NEW c \in Clients, InitCall(c)
        PROVE  wpc[w] = "unborn"
    BY <2>1, <2>3, InitPoolUnborn
       DEF InitCall, InitCheck, InitAlreadyStarted, InitSpawn, InitReturn
  <2>4. ASSUME NEW v \in Workers, Run(v) \/ RunSpuriousWake(v)
        PROVE  wpc[w] = "unborn"
    BY <2>1, <2>4 DEF Run, RunTop, RunLock, RunPredicateFalse, RunPark, RunExit, RunPop,
                      RunTaskReturns, InTask, RunSpuriousWake, Wake, Waiting
  <2>5. CASE Dtor
    BY <2>1, <2>5 DEF Dtor, DtorStop, DtorNotifyAll, DtorJoin, Wake, Waiting
  <2>6. CASE UNCHANGED vars
    BY <2>1, <2>6 DEF vars
  <2>7. QED
    BY <2>1, <2>2, <2>3, <2>4, <2>5, <2>6 DEF Next
<1>2. QED
  BY <1>1, Invariance, PTL DEF Spec, ClearsNoThread

----------------------------------------------------------------------------
(* The pool implements Executor: commit's push accepts, RunPop starts,     *)
(* RunTaskReturns finishes, a commit on a stopped pool refuses, init opens *)
(* and the destructor closes; every other step is invisible.               *)
LEMMA NewToPromise ==
  ASSUME ExactlyOnce, NEW k, k \notin submitted \/ k \in Pushing
  PROVE  Promise!New(k)
  BY DEF ExactlyOnce, Promise!New, Promise!Pending, Queued

LEMMA StepPromise ==
  ASSUME IInv, [Next]_vars
  PROVE  [Promise!Next]_(Promise!vars)
<1> USE DEF IInv, Promise!vars
<1>1. ASSUME NEW t \in Threads, NEW k \in Tasks, CommitRejected(t, k)
      PROVE  Promise!Refuse(k)
  <2>1. Promise!New(k)
    BY <1>1, NewToPromise DEF CommitRejected
  <2>2. Running' = Running
    BY <1>1 DEF CommitRejected, Running
  <2>3. QED
    BY <1>1, <2>1, <2>2 DEF CommitRejected, poolVars, Promise!Refuse
<1>2. ASSUME NEW t \in Threads, NEW k \in Tasks, CommitAccepted(t, k)
      PROVE  UNCHANGED Promise!vars
  BY <1>2 DEF CommitAccepted, poolVars, Running
<1>3. ASSUME NEW t \in Threads, CommitPush(t)
      PROVE  ctask[t] \in Tasks /\ Promise!Accept(ctask[t])
  <2>1. ctask[t] \in Tasks /\ ctask[t] \in Pushing /\ Running' = Running
    BY <1>3, PushMoves DEF InHand, CommitPush
  <2>2. Promise!New(ctask[t])
    BY <2>1, NewToPromise
  <2>3. QED
    BY <1>3, <2>1, <2>2 DEF CommitPush, taskVars, Promise!Accept
<1>4. ASSUME NEW t \in Threads, CommitNotify(t)
      PROVE  UNCHANGED Promise!vars
  <2>1. \A w \in Workers : wpc'[w] = "run" <=> wpc[w] = "run"
    BY <1>4 DEF TypeOK, CommitNotify, Wake, Waiting
  <2>2. Running' = Running
    BY <1>4, <2>1, StayRunning DEF CommitNotify
  <2>3. QED
    BY <1>4, <2>2 DEF CommitNotify, poolVars, taskVars
<1>5. ASSUME NEW c \in Clients, InitStart(c)
      PROVE  Promise!OpenOrClose
  <2>1. Running' = Running
    BY <1>5, InitPoolUnborn DEF InitStart, Running
  <2>2. QED
    BY <1>5, <2>1 DEF InitStart, taskVars, Promise!OpenOrClose
<1>6. ASSUME NEW c \in Clients,
             \/ InitCheck(c) \/ InitAlreadyStarted(c) \/ InitReturn(c)
             \/ \E w \in Workers : InitSpawn(c, w)
      PROVE  UNCHANGED Promise!vars
  <2>1. /\ UNCHANGED <<m_stoped, m_tasks, cur, taskVars>>
        /\ \A w \in Workers : wpc'[w] = "run" <=> wpc[w] = "run"
    BY <1>6 DEF TypeOK, InitCheck, InitAlreadyStarted, InitReturn, InitSpawn, poolVars
  <2>2. QED
    BY <2>1, StayRunning DEF taskVars
<1>7. ASSUME NEW w \in Workers,
             \/ RunTop(w) \/ RunLock(w) \/ RunPredicateFalse(w) \/ RunPark(w)
             \/ RunExit(w) \/ RunSpuriousWake(w)
      PROVE  UNCHANGED Promise!vars
  <2>1. /\ UNCHANGED <<m_stoped, m_tasks, cur, taskVars>>
        /\ \A v \in Workers : wpc'[v] = "run" <=> wpc[v] = "run"
    BY <1>7 DEF TypeOK, RunTop, RunLock, RunPredicateFalse, RunPark, RunExit, RunSpuriousWake,
                Wake, Waiting, poolVars
  <2>2. QED
    BY <2>1, StayRunning DEF taskVars
<1>8. ASSUME NEW w \in Workers, RunPop(w)
      PROVE  Promise!Start
  BY <1>8, PopMoves DEF RunPop, taskVars, Promise!Start
<1>9. ASSUME NEW w \in Workers, RunTaskReturns(w)
      PROVE  cur[w] \in Tasks /\ Promise!Finish(cur[w])
  BY <1>9, ReturnMoves DEF RunTaskReturns, InTask, InHand, Promise!Finish
<1>10. CASE DtorStop
  <2>1. /\ UNCHANGED <<m_tasks, rejected, done>> /\ Running' = Running /\ m_stoped' = TRUE
    BY <1>10 DEF DtorStop, Running
  <2>2. m_stoped \in BOOLEAN
    BY DEF TypeOK
  <2>3. Promise!OpenOrClose \/ UNCHANGED Promise!vars
    BY <2>1, <2>2 DEF Promise!OpenOrClose
  <2>4. QED
    BY <2>3 DEF Promise!Next
<1>11. ASSUME DtorNotifyAll \/ DtorJoin
       PROVE  UNCHANGED Promise!vars
  <2>1. /\ UNCHANGED <<m_stoped, m_tasks, cur, taskVars>>
        /\ \A w \in Workers : wpc'[w] = "run" <=> wpc[w] = "run"
    BY <1>11 DEF TypeOK, DtorNotifyAll, DtorJoin, Wake, Waiting, poolVars
  <2>2. QED
    BY <2>1, StayRunning DEF taskVars
<1>12. ASSUME UNCHANGED vars
       PROVE  UNCHANGED Promise!vars
  BY <1>12 DEF vars, poolVars, taskVars, Running
<1>13. QED
  BY <1>1, <1>2, <1>3, <1>4, <1>5, <1>6, <1>7, <1>8, <1>9, <1>10, <1>11, <1>12
     DEF Next, Commit, InitCall, Run, Dtor, Promise!Next

(* ThreadPool implements Executor: FIFO start, no repetition, no loss, and *)
(* refusal only by a pool that is not open, for any number of threads.     *)
THEOREM Implements == Spec => ImplementsExecutor
<1>1. Init => Promise!Init
  BY DEF Init, Promise!Init, Running
<1>2. IInv /\ [Next]_vars => [Promise!Next]_(Promise!vars)
  BY StepPromise
<1>3. QED
  BY <1>1, <1>2, Invariance, PTL DEF Spec, ImplementsExecutor, Promise!Spec

----------------------------------------------------------------------------
(* No wake-up of a commit is lost.  A worker about to sleep holds m_lock   *)
(* and has seen an empty queue, so the queue is empty when it starts to    *)
(* wait; from then on every push brings the thread that will notify.       *)
ParkedEmpty == \A w \in Workers : wpc[w] = "park" => m_tasks = <<>>

LEMMA FiniteSides ==
  /\ IsFiniteSet(Notifying) /\ IsFiniteSet(Looking)
  /\ Cardinality(Notifying) \in Nat /\ Cardinality(Looking) \in Nat
<1>1. IsFiniteSet(Threads) /\ IsFiniteSet(Workers)
  BY ThreadsAssumption, FS_Union DEF Threads
<1>2. Notifying \subseteq Threads /\ Looking \subseteq Workers
  BY DEF Notifying, Looking
<1>3. IsFiniteSet(Notifying) /\ IsFiniteSet(Looking)
  BY <1>1, <1>2, FS_Subset
<1>4. QED
  BY <1>3, FS_CardinalityType

LEMMA StepParked ==
  ASSUME TypeOK, LockHeld, ParkedEmpty, [Next]_vars
  PROVE  ParkedEmpty'
<1> USE DEF TypeOK, ParkedEmpty
<1>1. ASSUME NEW t \in Threads, CommitPush(t)
      PROVE  ParkedEmpty'
  <2>1. \A w \in Workers : wpc[w] # "park"
    BY <1>1, ThreadsAssumption DEF CommitPush, LockHeld, Threads
  <2>2. QED
    BY <1>1, <2>1 DEF CommitPush
<1>2. ASSUME NEW t \in Threads, Commit(t), ~CommitPush(t)
      PROVE  ParkedEmpty'
  BY <1>2 DEF Commit, CommitRejected, CommitAccepted, CommitNotify, Wake, Waiting, poolVars
<1>3. ASSUME NEW c \in Clients, InitCall(c)
      PROVE  ParkedEmpty'
  BY <1>3 DEF InitCall, InitCheck, InitAlreadyStarted, InitStart, InitSpawn, InitReturn, poolVars
<1>4. ASSUME NEW w \in Workers, Run(w) \/ RunSpuriousWake(w)
      PROVE  ParkedEmpty'
  <2>1. CASE RunPop(w)
    <3>1. \A v \in Workers : wpc'[v] # "park"
      BY <2>1 DEF RunPop, LockHeld
    <3>2. QED
      BY <3>1
  <2>2. CASE ~RunPop(w)
    BY <1>4, <2>2 DEF Run, RunTop, RunLock, RunPredicateFalse, RunPark, RunExit, RunTaskReturns,
                      InTask, RunSpuriousWake, Wake, Waiting, poolVars
  <2>3. QED
    BY <2>1, <2>2
<1>5. CASE Dtor
  BY <1>5 DEF Dtor, DtorStop, DtorNotifyAll, DtorJoin, Wake, Waiting, poolVars
<1>6. CASE UNCHANGED vars
  BY <1>6 DEF vars, poolVars
<1>7. QED
  BY <1>1, <1>2, <1>3, <1>4, <1>5, <1>6 DEF Next

(* A step that lengthens no queue, sends no thread to sleep and takes no   *)
(* thread off the lookout keeps the balance.                               *)
LEMMA BalanceKept ==
  ASSUME TypeOK, NoLostWakeup,
         m_tasks' = m_tasks, Waiting' \subseteq Waiting,
         Notifying \subseteq Notifying', Looking \subseteq Looking',
         IsFiniteSet(Notifying'), IsFiniteSet(Looking')
  PROVE  NoLostWakeup'
<1>1. /\ Cardinality(Notifying) <= Cardinality(Notifying')
      /\ Cardinality(Looking) <= Cardinality(Looking')
  BY FS_Subset
<1>2. /\ Cardinality(Notifying) \in Nat /\ Cardinality(Looking) \in Nat
      /\ Cardinality(Notifying') \in Nat /\ Cardinality(Looking') \in Nat
  BY FiniteSides, FS_CardinalityType
<1>3. Len(m_tasks) \in Nat
  BY DEF TypeOK
<1>4. QED
  BY <1>1, <1>2, <1>3 DEF NoLostWakeup

LEMMA StepWakeup ==
  ASSUME IInv, ParkedEmpty, NoLostWakeup, [Next]_vars, IInv'
  PROVE  NoLostWakeup'
<1> USE DEF IInv, TypeOK
<1>1. /\ IsFiniteSet(Notifying) /\ IsFiniteSet(Looking)
      /\ Cardinality(Notifying) \in Nat /\ Cardinality(Looking) \in Nat
      /\ Len(m_tasks) \in Nat
  BY FiniteSides
<1>2. IsFiniteSet(Notifying') /\ IsFiniteSet(Looking')
  <2>1. Notifying' \subseteq Threads /\ Looking' \subseteq Workers
    BY DEF Notifying, Looking
  <2>2. IsFiniteSet(Threads)
    BY ThreadsAssumption, FS_Union DEF Threads
  <2>3. QED
    BY <2>1, <2>2, ThreadsAssumption, FS_Subset
<1>3. ASSUME NEW t \in Threads, CommitPush(t)
      PROVE  NoLostWakeup'
  <2>1. Waiting' = Waiting /\ Looking' = Looking
    BY <1>3 DEF CommitPush, Waiting, Looking
  <2>2. Notifying' = Notifying \cup {t} /\ t \notin Notifying
    BY <1>3 DEF CommitPush, Notifying
  <2>3. Cardinality(Notifying') = Cardinality(Notifying) + 1
    BY <2>2, <1>1, FS_AddElement
  <2>4. Len(m_tasks') = Len(m_tasks) + 1
    BY <1>3 DEF CommitPush, InHand
  <2>5. QED
    BY <1>1, <2>1, <2>3, <2>4 DEF NoLostWakeup
<1>4. ASSUME NEW t \in Threads, CommitNotify(t)
      PROVE  NoLostWakeup'
  <2>1. Notifying' = Notifying \ {t} /\ t \in Notifying /\ m_tasks' = m_tasks
    BY <1>4 DEF CommitNotify, Notifying, poolVars
  <2>2. Cardinality(Notifying') = Cardinality(Notifying) - 1
    BY <2>1, <1>1, FS_RemoveElement
  <2>3. CASE Waiting = {} /\ UNCHANGED wpc
    BY <2>3 DEF NoLostWakeup, Waiting
  <2>4. ASSUME NEW w \in Waiting, wpc' = Wake({w})
        PROVE  NoLostWakeup'
    <3>1. Looking' = Looking \cup {w} /\ w \notin Looking
      BY <2>4 DEF Wake, Looking, Waiting
    <3>2. Cardinality(Looking') = Cardinality(Looking) + 1
      BY <3>1, <1>1, FS_AddElement
    <3>3. Waiting # {}
      BY <2>4
    <3>4. QED
      BY <1>1, <2>1, <2>2, <3>2, <3>3 DEF NoLostWakeup
  <2>5. QED
    BY <1>4, <2>3, <2>4 DEF CommitNotify
<1>5. ASSUME NEW w \in Workers, RunPop(w)
      PROVE  NoLostWakeup'
  <2>1. Waiting' = Waiting /\ Notifying' = Notifying
    BY <1>5 DEF RunPop, Waiting, Notifying
  <2>2. Looking' = Looking \ {w} /\ w \in Looking
    BY <1>5 DEF RunPop, Looking
  <2>3. Cardinality(Looking') = Cardinality(Looking) - 1
    BY <2>2, <1>1, FS_RemoveElement
  <2>4. Len(m_tasks') = Len(m_tasks) - 1
    BY <1>5 DEF RunPop
  <2>5. QED
    BY <1>1, <2>1, <2>3, <2>4 DEF NoLostWakeup
<1>6. ASSUME NEW w \in Workers, RunPredicateFalse(w) \/ RunPark(w) \/ RunExit(w)
      PROVE  NoLostWakeup'
  <2>1. m_tasks' = <<>>
    BY <1>6 DEF RunPredicateFalse, RunPark, RunExit, ParkedEmpty, poolVars
  <2>2. Cardinality(Notifying') \in Nat /\ Cardinality(Looking') \in Nat
    BY <1>2, FS_CardinalityType
  <2>3. QED
    BY <2>1, <2>2 DEF NoLostWakeup
<1>7. ASSUME \/ \E t \in Threads, k \in Tasks : CommitRejected(t, k) \/ CommitAccepted(t, k)
             \/ \E c \in Clients : InitCall(c)
             \/ \E w \in Workers : RunTop(w) \/ RunLock(w) \/ RunTaskReturns(w) \/ RunSpuriousWake(w)
             \/ Dtor
             \/ UNCHANGED vars
      PROVE  NoLostWakeup'
  <2>1. m_tasks' = m_tasks
    BY <1>7 DEF CommitRejected, CommitAccepted, InitCall, InitCheck, InitAlreadyStarted, InitStart,
                InitSpawn, InitReturn, RunTop, RunLock, RunTaskReturns, RunSpuriousWake,
                Dtor, DtorStop, DtorNotifyAll, DtorJoin, poolVars, vars
  <2>2. Notifying \subseteq Notifying'
    BY <1>7 DEF CommitRejected, CommitAccepted, FreeClient, InTask, InitCall, InitCheck,
                InitAlreadyStarted, InitStart, InitSpawn, InitReturn, RunTop, RunLock, RunTaskReturns,
                RunSpuriousWake, Dtor, DtorStop, DtorNotifyAll, DtorJoin, vars, Notifying
  <2>3. Waiting' \subseteq Waiting /\ Looking \subseteq Looking'
    BY <1>7, InitPoolUnborn
       DEF CommitRejected, CommitAccepted, InitCall, InitCheck,
                InitAlreadyStarted, InitSpawn, InitReturn, RunTop, RunLock, RunTaskReturns, InTask,
                RunSpuriousWake, Dtor, DtorStop, DtorNotifyAll, DtorJoin, vars, Wake, Waiting, Looking
  <2>4. QED
    BY <1>2, <2>1, <2>2, <2>3, BalanceKept
<1>8. QED
  BY <1>3, <1>4, <1>5, <1>6, <1>7 DEF Next, Commit, Run

(* While a worker sleeps, each queued task has a thread of its own that    *)
(* will see to it: for any number of clients, workers and tasks.           *)
THEOREM WakeupsKept == Spec => []NoLostWakeup
<1>1. Init => ParkedEmpty /\ NoLostWakeup
  BY DEF Init, ParkedEmpty, NoLostWakeup, Waiting
<1>2. IInv /\ IInv' /\ ParkedEmpty /\ NoLostWakeup /\ [Next]_vars => (ParkedEmpty /\ NoLostWakeup)'
  BY StepParked, StepWakeup DEF IInv
<1>3. QED
  BY <1>1, <1>2, Invariance, PTL DEF Spec

----------------------------------------------------------------------------
(* BugReport                                                               *)

(* Where a frame of the handler can be, and what it is.                    *)
Places == {"entered", "first", "header", "dump", "setjmp", "line", "dumped",
           "info", "exit", "again", "reset", "raise", "return"}
Frames == [sig : Range(Signals), at : Places]

(* A stack of frames: how many there are, where the first of them and the  *)
(* one above it are, and the signal that has brought the first.            *)
Depth(q) == Len(q)
Base(q) == q[1].at
Top(q) == q[2].at
Cause(q) == q[1].sig

(* A handler that a fault in the report or a callback has interrupted has  *)
(* one other on top of it, which does not report; the loop over the lines  *)
(* ends in time.                                                           *)
Stacks ==
  \A t \in Tids :
    /\ Depth(frames[t]) \in {0, 1, 2}
    /\ Depth(frames[t]) = 2 =>
         /\ Base(frames[t]) \in {"header", "line", "info", "exit"}
         /\ Top(frames[t]) \in {"entered", "again", "reset", "raise", "return"}
    /\ Depth(frames[t]) # 0 => Base(frames[t]) \in {"entered", "first"} \/ s_first > 0
    /\ Depth(frames[t]) # 0 /\ Base(frames[t]) \in {"setjmp", "line"} => line[t] < Lines

(* Before the first fault nothing has happened; after it a thread is in    *)
(* the handler for as long as the process runs.                            *)
Begun ==
  /\ Len(faults) <= MaxFaults
  /\ faults = <<>> =>
       (\A t \in Tids : Depth(frames[t]) = 0) /\ s_first = 0 /\ BR_dumping_stack = 0
  /\ faults # <<>> /\ process = "runs" => \E t \in Tids : Depth(frames[t]) # 0

(* No thread reads s_first as 0 and counts later than the others can.      *)
AtFirst(f) == {t \in Tids : Depth(f[t]) = 1 /\ Base(f[t]) = "first"}
CountedOnce == s_first + Cardinality(AtFirst(frames)) <= Cardinality(Tids)

(* With one thread in the handler, the dump is on only while its first     *)
(* frame is in it, and a line that is being printed can be jumped to.      *)
Dumping == {"setjmp", "line", "dumped"}
Calm ==
  "thread" \notin harsh /\ ~failed =>
    /\ \A t, u \in Tids : Depth(frames[t]) # 0 /\ Depth(frames[u]) # 0 => t = u
    /\ BR_dumping_stack = 1 =>
         \A t \in Tids : Depth(frames[t]) # 0 =>
           /\ Base(frames[t]) \in Dumping
           /\ Base(frames[t]) = "line" => BR_jmp_buf = [thread |-> t, frame |-> 1]

(* With no other faults than in the printing of the stack, the first frame *)
(* is that of the first fault, and goes on to the callbacks.               *)
Quiet ==
  harsh = {} /\ ~failed =>
    /\ \A t \in Tids : Depth(frames[t]) # 0 =>
         /\ Cause(frames[t]) = faults[1]
         /\ Depth(frames[t]) = 2 =>
              Base(frames[t]) = "line" /\ Top(frames[t]) \in {"entered", "again"}
         /\ Base(frames[t]) \in Dumping => BR_dumping_stack = 1
         /\ \/ Base(frames[t]) \in {"again", "reset", "raise", "return"}
            \/ Base(frames[t]) = "entered" /\ s_first > 0
            => told
    /\ process = "killed" => told /\ killer = faults[1]

ReportInv ==
  /\ ReportTypeOK /\ Stacks /\ Begun /\ CountedOnce /\ Calm /\ Quiet /\ JumpIsValid

----------------------------------------------------------------------------
(* Replacing the top of a stack of frames.                                 *)
LEMMA TopReplaced ==
  ASSUME NEW S, NEW q \in Seq(S), q # <<>>, NEW e \in S
  PROVE  /\ Append(Front(q), e) \in Seq(S) /\ Len(Append(Front(q), e)) = Len(q)
         /\ Append(Front(q), e)[Len(q)] = e
         /\ \A i \in 1 .. Len(q) - 1 : Append(Front(q), e)[i] = q[i]
<1>1. Len(q) \in Nat \ {0} /\ \A i \in 1 .. Len(q) - 1 : q[i] \in S
  OBVIOUS
<1>2. /\ Front(q) \in Seq(S) /\ Len(Front(q)) = Len(q) - 1
      /\ \A i \in 1 .. Len(q) - 1 : Front(q)[i] = q[i]
  <2> DEFINE n == Len(q) - 1
  <2>1. n \in Nat /\ 1 \in Int /\ n \in Int /\ \A i \in 1 .. n : q[i] \in S
    OBVIOUS
  <2> HIDE DEF n
  <2>2. /\ SubSeq(q, 1, n) \in Seq(S)
        /\ Len(SubSeq(q, 1, n)) = IF 1 <= n THEN n - 1 + 1 ELSE 0
        /\ \A i \in 1 .. n - 1 + 1 : SubSeq(q, 1, n)[i] = q[1 + i - 1]
    BY <2>1
  <2>3. /\ SubSeq(q, 1, n) \in Seq(S) /\ Len(SubSeq(q, 1, n)) = n
        /\ \A i \in 1 .. n : SubSeq(q, 1, n)[i] = q[i]
    BY <2>1
  <2>4. QED
    BY <2>3 DEF Front, n
<1> HIDE DEF Front
<1>3. QED
  BY <1>2

(* What the names for the parts of a stack stand for.                      *)
LEMMA StackType ==
  ASSUME NEW q \in Seq(Frames)
  PROVE  /\ Depth(q) \in Nat /\ (q = <<>> <=> Depth(q) = 0)
         /\ Depth(q) # 0 => Base(q) \in Places /\ Cause(q) \in Range(Signals)
         /\ Depth(q) # 0 => Last(q) = q[Depth(q)] /\ Last(q) \in Frames
<1>1. Len(q) \in Nat /\ (q = <<>> <=> Len(q) = 0) /\ \A i \in 1 .. Len(q) : q[i] \in Frames
  OBVIOUS
<1>2. Len(q) # 0 => 1 \in 1 .. Len(q) /\ Len(q) \in 1 .. Len(q)
  OBVIOUS
<1>3. QED
  BY <1>1 DEF Depth, Base, Cause, Last, Frames

LEMMA FramesType ==
  ASSUME ReportInv
  PROVE  frames \in [Tids -> Seq(Frames)]
BY DEF ReportInv, ReportTypeOK, Frames, Places

(* Where the top frame of a thread is, in a thread that is in the handler. *)
Stands(t, place) ==
  /\ process = "runs" /\ frames[t] # <<>> /\ Depth(frames[t]) \in {1, 2}
  /\ Depth(frames[t]) = 1 => Base(frames[t]) = place /\ Cause(frames[t]) = Sig(t)
  /\ Depth(frames[t]) = 2 => Top(frames[t]) = place
  /\ Sig(t) \in Range(Signals)
  /\ place \notin {"entered", "again", "reset", "raise", "return"} => Depth(frames[t]) = 1

LEMMA AtStands ==
  ASSUME ReportInv, NEW t \in Tids, NEW place \in Places, At(t, place)
  PROVE  Stands(t, place)
<1> DEFINE q == frames[t]
<1>1. process = "runs" /\ q # <<>> /\ Last(q).at = place /\ q \in Seq(Frames)
  BY FramesType DEF At, Runs, Place, Places
<1>2. /\ Depth(q) \in Nat /\ Depth(q) # 0 /\ Last(q) = q[Depth(q)] /\ Last(q) \in Frames
  BY <1>1, StackType
<1>3. /\ Depth(q) \in {1, 2}
      /\ Depth(q) = 2 => Top(q) \in {"entered", "again", "reset", "raise", "return"}
  BY <1>2 DEF ReportInv, Stacks
<1>4. Sig(t) = Last(q).sig /\ Sig(t) \in Range(Signals)
  BY <1>2 DEF Sig, Frames
<1>5. Depth(q) = 1 => Base(q) = place /\ Cause(q) = Sig(t)
  BY <1>1, <1>2, <1>4 DEF Base, Cause
<1>6. Depth(q) = 2 => Top(q) = place
  BY <1>1, <1>2 DEF Top
<1>7. QED
  BY <1>1, <1>3, <1>4, <1>5, <1>6 DEF Stands

(* A handler that goes on changes where the top frame of its thread is.    *)
Moves(t, place) ==
  /\ frames' \in [Tids -> Seq(Frames)]
  /\ \A u \in Tids \ {t} : frames'[u] = frames[u]
  /\ Depth(frames'[t]) = Depth(frames[t]) /\ Cause(frames'[t]) = Cause(frames[t])
  /\ Depth(frames[t]) = 1 => Base(frames'[t]) = place
  /\ Depth(frames[t]) = 2 => Base(frames'[t]) = Base(frames[t]) /\ Top(frames'[t]) = place

LEMMA GoesMoves ==
  ASSUME ReportInv, NEW t \in Tids, NEW old \in Places, At(t, old), NEW place \in Places,
         Goes(t, place)
  PROVE  Moves(t, place)
<1> DEFINE q == frames[t]
           e == [sig |-> Sig(t), at |-> place]
           r == Append(Front(q), e)
<1>1. /\ q \in Seq(Frames) /\ q # <<>> /\ Depth(q) \in {1, 2} /\ Sig(t) \in Range(Signals)
      /\ Depth(q) = 1 => Cause(q) = Sig(t)
      /\ frames \in [Tids -> Seq(Frames)]
  BY AtStands, FramesType DEF Stands
<1>2. e \in Frames /\ e.at = place /\ e.sig = Sig(t)
  BY <1>1 DEF Frames
<1>3. frames' = [frames EXCEPT ![t] = r]
  BY DEF Goes
<1> HIDE DEF q, e
<1>4. /\ r \in Seq(Frames) /\ Len(r) = Len(q) /\ r[Len(q)] = e
      /\ \A i \in 1 .. Len(q) - 1 : r[i] = q[i]
  BY <1>1, <1>2, TopReplaced
<1> HIDE DEF r
<1>5. /\ Depth(r) = Depth(q) /\ Cause(r) = Cause(q)
      /\ Depth(q) = 1 => Base(r) = place
      /\ Depth(q) = 2 => Base(r) = Base(q) /\ Top(r) = place
  <2>1. CASE Len(q) = 1
    BY <2>1, <1>1, <1>2, <1>4 DEF Depth, Cause, Base
  <2>2. CASE Len(q) = 2
    <3>1. r[1] = q[1] /\ r[2] = e
      BY <2>2, <1>4
    <3>2. QED
      BY <2>2, <1>2, <1>4 DEF Depth, Cause, Base, Top
  <2>3. QED
    BY <2>1, <2>2, <1>1 DEF Depth
<1>6. /\ frames' \in [Tids -> Seq(Frames)] /\ frames'[t] = r
      /\ \A u \in Tids \ {t} : frames'[u] = frames[u]
  BY <1>1, <1>3, <1>4
<1>7. QED
  BY <1>5, <1>6 DEF Moves, q

(* Only where the number of handlers is read can a thread come to count.   *)
LEMMA MovesFirst ==
  ASSUME ReportInv, NEW t \in Tids, NEW place \in Places, Moves(t, place)
  PROVE  /\ place # "first" => AtFirst(frames') \subseteq AtFirst(frames)
         /\ place # "first" => t \notin AtFirst(frames')
         /\ AtFirst(frames') \subseteq Tids
BY DEF AtFirst, Moves

(* Threads that can still count are as finite as the threads.              *)
LEMMA CountSubset ==
  ASSUME NEW f, NEW g, AtFirst(g) \subseteq AtFirst(f)
  PROVE  /\ IsFiniteSet(AtFirst(f)) /\ IsFiniteSet(AtFirst(g))
         /\ Cardinality(Tids) \in Nat
         /\ Cardinality(AtFirst(f)) \in Nat /\ Cardinality(AtFirst(g)) \in Nat
         /\ Cardinality(AtFirst(f)) <= Cardinality(Tids)
         /\ Cardinality(AtFirst(g)) <= Cardinality(AtFirst(f))
<1>1. AtFirst(f) \subseteq Tids
  BY DEF AtFirst
<1>2. QED
  BY <1>1, TidsAssumption, FS_Subset, FS_CardinalityType

----------------------------------------------------------------------------
(* The handler. Reading s_first as 0 is how a thread comes to count; that  *)
(* all who do so exceed the threads is impossible.                         *)
LEMMA ReadFirstKeeps ==
  ASSUME ReportInv, NEW t \in Tids, ReadFirst(t)
  PROVE  ReportInv'
<1>1. Stands(t, "entered")
  BY AtStands DEF ReadFirst, Places
<1>2. s_first \in Nat
  BY DEF ReportInv, ReportTypeOK
<1>3. UNCHANGED <<calls, registered, handled, pending, s_first, BR_dumping_stack,
                  BR_jmp_buf, line, process, killer, faults, harsh, failed, told>>
  BY DEF ReadFirst, setup, sharedVars, history
<1>4. (s_first = 0 /\ Moves(t, "first")) \/ (s_first # 0 /\ Moves(t, "again"))
  <2>1. CASE s_first = 0
    <3>1. At(t, "entered") /\ Goes(t, "first")
      BY <2>1 DEF ReadFirst
    <3>2. Moves(t, "first")
      BY <3>1, GoesMoves DEF Places
    <3>3. QED
      BY <2>1, <3>2
  <2>2. CASE s_first # 0
    <3>1. At(t, "entered") /\ Goes(t, "again")
      BY <2>2 DEF ReadFirst
    <3>2. Moves(t, "again")
      BY <3>1, GoesMoves DEF Places
    <3>3. QED
      BY <2>2, <3>2
  <2>3. QED
    BY <2>1, <2>2
<1>5. ReportTypeOK'
  BY <1>3, <1>4 DEF ReportInv, ReportTypeOK, Moves, Frames, Places
<1>6. Stacks'
  BY <1>2, <1>3, <1>4 DEF ReportInv, Moves, Stacks
<1>7. Begun'
  BY <1>3, <1>4 DEF ReportInv, Moves, Begun
<1>8. CountedOnce'
  <2>1. AtFirst(frames') \subseteq Tids /\ s_first \in Nat
    BY DEF AtFirst, ReportInv, ReportTypeOK
  <2>2. CASE s_first = 0
    <3>1. /\ Cardinality(AtFirst(frames')) <= Cardinality(Tids)
          /\ Cardinality(AtFirst(frames')) \in Nat
      BY CountSubset
    <3>2. QED
      BY <3>1, <2>2, <1>3 DEF CountedOnce
  <2>3. CASE s_first # 0
    <3>1. AtFirst(frames') \subseteq AtFirst(frames)
      BY <2>3, <1>4, MovesFirst DEF Places
    <3>2. QED
      BY <3>1, <2>1, <1>3, CountSubset DEF ReportInv, CountedOnce
  <2>4. QED
    BY <2>2, <2>3
<1>9. Calm'
  BY <1>1, <1>3, <1>4 DEF ReportInv, Stands, Moves, Stacks, Calm, Dumping
<1>10. Quiet'
  BY <1>2, <1>1, <1>3, <1>4 DEF ReportInv, Stands, Moves, Stacks, Quiet, Dumping
<1>11. JumpIsValid'
  BY <1>1, <1>3 DEF JumpIsValid, Stands
<1>12. QED
  BY <1>5, <1>6, <1>7, <1>8, <1>9, <1>10, <1>11 DEF ReportInv

(* The thread that counts can count no more.                               *)
LEMMA CountFirstKeeps ==
  ASSUME ReportInv, NEW t \in Tids, CountFirst(t)
  PROVE  ReportInv'
<1>1. Stands(t, "first")
  BY AtStands DEF CountFirst, Places
<1>2. s_first \in Nat
  BY DEF ReportInv, ReportTypeOK
<1>3. s_first' = s_first + 1
      /\ UNCHANGED <<calls, registered, handled, pending, BR_dumping_stack, BR_jmp_buf,
                     line, process, killer, faults, harsh, failed, told>>
  BY DEF CountFirst, setup, history
<1>4. Moves(t, "header")
  BY GoesMoves DEF CountFirst, Places
<1>5. CountedOnce' /\ s_first' \in 0 .. Cardinality(Tids)
  <2>1. /\ AtFirst(frames') \subseteq AtFirst(frames) \ {t} /\ t \in AtFirst(frames)
        /\ AtFirst(frames) \subseteq Tids /\ s_first \in Nat
    <3>1. AtFirst(frames') \subseteq AtFirst(frames) /\ t \notin AtFirst(frames')
      BY <1>4, MovesFirst DEF Places
    <3>2. t \in AtFirst(frames) /\ AtFirst(frames) \subseteq Tids
      BY <1>1 DEF AtFirst, Stands
    <3>3. QED
      BY <3>1, <3>2, <1>2
  <2>2. /\ IsFiniteSet(AtFirst(frames)) /\ IsFiniteSet(AtFirst(frames) \ {t})
        /\ Cardinality(AtFirst(frames) \ {t}) = Cardinality(AtFirst(frames)) - 1
        /\ Cardinality(AtFirst(frames')) <= Cardinality(AtFirst(frames) \ {t})
        /\ Cardinality(AtFirst(frames)) \in Nat /\ Cardinality(AtFirst(frames')) \in Nat
        /\ Cardinality(Tids) \in Nat
    <3>1. IsFiniteSet(AtFirst(frames)) /\ IsFiniteSet(AtFirst(frames) \ {t})
      BY <2>1, TidsAssumption, FS_Subset
    <3>2. Cardinality(AtFirst(frames) \ {t}) = Cardinality(AtFirst(frames)) - 1
      BY <2>1, <3>1, FS_RemoveElement
    <3>3. /\ IsFiniteSet(AtFirst(frames'))
          /\ Cardinality(AtFirst(frames')) <= Cardinality(AtFirst(frames) \ {t})
      BY <2>1, <3>1, FS_Subset
    <3>4. QED
      BY <3>1, <3>2, <3>3, TidsAssumption, FS_CardinalityType
  <2>3. s_first + Cardinality(AtFirst(frames)) <= Cardinality(Tids)
    BY DEF ReportInv, CountedOnce
  <2>4. QED
    BY <2>1, <2>2, <2>3, <1>3 DEF CountedOnce
<1>6. ReportTypeOK'
  BY <1>3, <1>4, <1>5 DEF ReportInv, ReportTypeOK, Moves, Frames, Places
<1>7. Stacks'
  BY <1>2, <1>1, <1>3, <1>4 DEF ReportInv, Stands, Moves, Stacks
<1>8. Begun'
  BY <1>1, <1>3, <1>4 DEF ReportInv, Stands, Moves, Begun
<1>9. Calm'
  BY <1>1, <1>3, <1>4 DEF ReportInv, Stands, Moves, Stacks, Calm, Dumping
<1>10. Quiet'
  BY <1>1, <1>3, <1>4 DEF ReportInv, Stands, Moves, Quiet, Dumping, Calm
<1>11. JumpIsValid'
  BY <1>1, <1>3 DEF JumpIsValid, Stands
<1>12. QED
  BY <1>6, <1>7, <1>8, <1>5, <1>9, <1>10, <1>11 DEF ReportInv

(* The report goes on to the stack, or past it.                            *)
LEMMA WriteHeaderKeeps ==
  ASSUME ReportInv, NEW t \in Tids, WriteHeader(t)
  PROVE  ReportInv'
<1>1. Stands(t, "header")
  BY AtStands DEF WriteHeader, Places
<1>2. UNCHANGED <<calls, registered, handled, pending, s_first, BR_dumping_stack,
                  BR_jmp_buf, line, process, killer, faults, harsh, failed, told>>
  BY DEF WriteHeader, setup, sharedVars, history
<1>3. Moves(t, "dump") \/ Moves(t, "info")
  <2>1. (Goes(t, "dump") \/ Goes(t, "info")) /\ At(t, "header")
    BY DEF WriteHeader
  <2>2. QED
    BY <2>1, GoesMoves DEF Places
<1>4. ReportTypeOK'
  BY <1>2, <1>3 DEF ReportInv, ReportTypeOK, Moves, Frames, Places
<1>5. Stacks'
  BY <1>1, <1>2, <1>3 DEF ReportInv, Stands, Moves, Stacks
<1>6. Begun'
  BY <1>2, <1>3 DEF ReportInv, Moves, Begun
<1>7. CountedOnce'
  <2>1. AtFirst(frames') \subseteq AtFirst(frames)
    BY <1>3, MovesFirst DEF Places
  <2>2. s_first \in Nat
    BY DEF ReportInv, ReportTypeOK
  <2>3. QED
    BY <2>1, <2>2, <1>2, CountSubset DEF ReportInv, CountedOnce
<1>8. Calm'
  BY <1>1, <1>2, <1>3 DEF ReportInv, Stands, Moves, Calm, Dumping
<1>9. Quiet'
  BY <1>1, <1>2, <1>3 DEF ReportInv, Stands, Moves, Quiet, Dumping
<1>10. JumpIsValid'
  BY <1>1, <1>2 DEF JumpIsValid, Stands
<1>11. QED
  BY <1>4, <1>5, <1>6, <1>7, <1>8, <1>9, <1>10 DEF ReportInv

(* The flag is set with the first frame in the dump.                       *)
LEMMA DumpBeginsKeeps ==
  ASSUME ReportInv, NEW t \in Tids, DumpBegins(t)
  PROVE  ReportInv'
<1>1. Stands(t, "dump")
  BY AtStands DEF DumpBegins, Places
<1>2. /\ BR_dumping_stack' = 1 /\ line' = [line EXCEPT ![t] = 0]
      /\ UNCHANGED <<calls, registered, handled, pending, s_first, BR_jmp_buf, process,
                     killer, faults, harsh, told>>
  BY DEF DumpBegins, setup
<1>3. (failed' = failed /\ Moves(t, "setjmp")) \/ (failed' = TRUE /\ Moves(t, "info"))
  <2>1. /\ At(t, "dump")
        /\ \/ failed' = failed /\ Goes(t, "setjmp")
           \/ failed' = TRUE /\ Goes(t, "info")
    BY Zenon DEF DumpBegins
  <2>2. QED
    BY <2>1, GoesMoves DEF Places
<1>4. ReportTypeOK'
  <2>1. line' \in [Tids -> 0 .. Lines] /\ failed' \in BOOLEAN
    <3>1. 0 \in 0 .. Lines /\ line \in [Tids -> 0 .. Lines] /\ failed \in BOOLEAN
      BY LinesAssumption DEF ReportInv, ReportTypeOK
    <3>2. line' \in [Tids -> 0 .. Lines]
      BY <3>1, <1>2
    <3>3. failed' \in BOOLEAN
      BY <3>1, <1>3
    <3>4. QED
      BY <3>2, <3>3
  <2>2. QED
    BY <2>1, <1>2, <1>3 DEF ReportInv, ReportTypeOK, Moves, Frames, Places
<1>5. Stacks'
  <2>1. line'[t] < Lines /\ (\A u \in Tids \ {t} : line'[u] = line[u]) /\ s_first' = s_first
    BY <1>2, LinesAssumption DEF ReportInv, ReportTypeOK
  <2>2. Moves(t, "setjmp") \/ Moves(t, "info")
    BY <1>3
  <2>3. QED
    BY <1>1, <2>1, <2>2 DEF ReportInv, Stands, Moves, Stacks
<1>6. Begun'
  BY <1>1, <1>2, <1>3 DEF ReportInv, Stands, Moves, Begun
<1>7. CountedOnce'
  <2>1. AtFirst(frames') \subseteq AtFirst(frames)
    BY <1>3, MovesFirst DEF Places
  <2>2. s_first \in Nat
    BY DEF ReportInv, ReportTypeOK
  <2>3. QED
    BY <2>1, <2>2, <1>2, CountSubset DEF ReportInv, CountedOnce
<1>8. Calm'
  BY <1>1, <1>2, <1>3 DEF ReportInv, Stands, Moves, Stacks, Calm, Dumping
<1>9. Quiet'
  BY <1>1, <1>2, <1>3 DEF ReportInv, Stands, Moves, Quiet
<1>10. JumpIsValid'
  BY <1>1, <1>2 DEF JumpIsValid, Stands
<1>11. QED
  BY <1>4, <1>5, <1>6, <1>7, <1>8, <1>9, <1>10 DEF ReportInv

(* The buffer names the first frame of this thread, which goes to the      *)
(* line.                                                                   *)
LEMMA SetJmpKeeps ==
  ASSUME ReportInv, NEW t \in Tids, SetJmp(t)
  PROVE  ReportInv'
<1>1. Stands(t, "setjmp")
  BY AtStands DEF SetJmp, Places
<1>2. /\ BR_jmp_buf' = [thread |-> t, frame |-> Len(frames[t])]
      /\ UNCHANGED <<calls, registered, handled, pending, s_first, BR_dumping_stack,
                     line, process, killer, faults, harsh, failed, told>>
  BY DEF SetJmp, setup, history
<1>3. Moves(t, "line")
  BY GoesMoves DEF SetJmp, Places
<1>4. ReportTypeOK'
  <2>1. BR_jmp_buf' \in [thread : Tids, frame : 1 .. MaxFaults]
    <3>1. Depth(frames[t]) = 1 /\ faults # <<>>
      BY <1>1 DEF ReportInv, Stands, Begun
    <3>2. Len(faults) <= MaxFaults /\ faults \in Seq(Range(Signals)) /\ MaxFaults \in Nat
      BY LinesAssumption DEF ReportInv, Begun, ReportTypeOK
    <3>3. 1 \in 1 .. MaxFaults
      BY <3>1, <3>2
    <3>4. QED
      BY <3>1, <3>3, <1>2 DEF Depth
  <2>2. QED
    BY <2>1, <1>2, <1>3 DEF ReportInv, ReportTypeOK, Moves, Frames, Places
<1>5. Stacks'
  BY <1>1, <1>2, <1>3 DEF ReportInv, Stands, Moves, Stacks
<1>6. Begun'
  BY <1>2, <1>3 DEF ReportInv, Moves, Begun
<1>7. CountedOnce'
  <2>1. AtFirst(frames') \subseteq AtFirst(frames)
    BY <1>3, MovesFirst DEF Places
  <2>2. s_first \in Nat
    BY DEF ReportInv, ReportTypeOK
  <2>3. QED
    BY <2>1, <2>2, <1>2, CountSubset DEF ReportInv, CountedOnce
<1>8. Calm'
  <2>1. /\ BR_jmp_buf' = [thread |-> t, frame |-> 1]
        /\ UNCHANGED <<harsh, failed, BR_dumping_stack>>
    BY <1>1, <1>2 DEF Stands, Depth
  <2>2. QED
    BY <1>1, <2>1, <1>3 DEF ReportInv, Stands, Moves, Stacks, Calm, Dumping
<1>9. Quiet'
  BY <1>1, <1>2, <1>3 DEF ReportInv, Stands, Moves, Quiet, Dumping
<1>10. JumpIsValid'
  BY <1>1, <1>2 DEF JumpIsValid, Stands
<1>11. QED
  BY <1>4, <1>5, <1>6, <1>7, <1>8, <1>9, <1>10 DEF ReportInv

(* The loop goes on to the next sigsetjmp, or ends.                        *)
LEMMA PrintLineKeeps ==
  ASSUME ReportInv, NEW t \in Tids, PrintLine(t)
  PROVE  ReportInv'
<1>1. Stands(t, "line")
  BY AtStands DEF PrintLine, Places
<1>2. /\ line' = [line EXCEPT ![t] = @ + 1]
      /\ UNCHANGED <<calls, registered, handled, pending, s_first, BR_dumping_stack,
                     BR_jmp_buf, process, killer, faults, harsh, failed, told>>
  BY DEF PrintLine, setup, sharedVars, history
<1>3. (line'[t] < Lines /\ Moves(t, "setjmp")) \/ (~(line'[t] < Lines) /\ Moves(t, "dumped"))
  <2>1. CASE line'[t] < Lines
    <3>1. At(t, "line") /\ Goes(t, "setjmp")
      BY <2>1 DEF PrintLine
    <3>2. Moves(t, "setjmp")
      BY <3>1, GoesMoves DEF Places
    <3>3. QED
      BY <2>1, <3>2
  <2>2. CASE ~(line'[t] < Lines)
    <3>1. At(t, "line") /\ Goes(t, "dumped")
      BY <2>2 DEF PrintLine
    <3>2. Moves(t, "dumped")
      BY <3>1, GoesMoves DEF Places
    <3>3. QED
      BY <2>2, <3>2
  <2>3. QED
    BY <2>1, <2>2
<1>4. ReportTypeOK'
  <2>1. line' \in [Tids -> 0 .. Lines]
    <3>1. line[t] < Lines
      BY <1>1 DEF ReportInv, Stacks, Stands
    <3>2. line \in [Tids -> 0 .. Lines] /\ line[t] + 1 \in 0 .. Lines
      BY <3>1, LinesAssumption DEF ReportInv, ReportTypeOK
    <3>3. QED
      BY <3>2, <1>2
  <2>2. QED
    BY <2>1, <1>2, <1>3 DEF ReportInv, ReportTypeOK, Moves, Frames, Places
<1>5. Stacks'
  BY <1>1, <1>2, <1>3 DEF ReportInv, Stands, Moves, Stacks
<1>6. Begun'
  BY <1>2, <1>3 DEF ReportInv, Moves, Begun
<1>7. CountedOnce'
  <2>1. AtFirst(frames') \subseteq AtFirst(frames)
    BY <1>3, MovesFirst DEF Places
  <2>2. s_first \in Nat
    BY DEF ReportInv, ReportTypeOK
  <2>3. QED
    BY <2>1, <2>2, <1>2, CountSubset DEF ReportInv, CountedOnce
<1>8. Calm'
  <2>1. /\ UNCHANGED <<harsh, failed, BR_dumping_stack, BR_jmp_buf>>
        /\ Moves(t, "setjmp") \/ Moves(t, "dumped")
    BY <1>2, <1>3
  <2>2. QED
    BY <2>1 DEF ReportInv, Moves, Stacks, Calm, Dumping
<1>9. Quiet'
  BY <1>1, <1>2, <1>3 DEF ReportInv, Stands, Moves, Quiet, Dumping
<1>10. JumpIsValid'
  BY <1>1, <1>2 DEF JumpIsValid, Stands
<1>11. QED
  BY <1>4, <1>5, <1>6, <1>7, <1>8, <1>9, <1>10 DEF ReportInv

(* The flag stays set; failed takes Calm and Quiet away.                   *)
LEMMA PrintLineFailsKeeps ==
  ASSUME ReportInv, NEW t \in Tids, PrintLineFails(t)
  PROVE  ReportInv'
<1>1. Stands(t, "line")
  BY AtStands DEF PrintLineFails, Places
<1>2. /\ failed' = TRUE
      /\ UNCHANGED <<calls, registered, handled, pending, s_first, BR_dumping_stack,
                     BR_jmp_buf, line, process, killer, faults, harsh, told>>
  BY DEF PrintLineFails, setup, sharedVars
<1>3. Moves(t, "info")
  BY GoesMoves DEF PrintLineFails, Places
<1>4. ReportTypeOK'
  BY <1>2, <1>3 DEF ReportInv, ReportTypeOK, Moves, Frames, Places
<1>5. Stacks'
  BY <1>1, <1>2, <1>3 DEF ReportInv, Stands, Moves, Stacks
<1>6. Begun'
  BY <1>1, <1>2, <1>3 DEF ReportInv, Stands, Moves, Begun
<1>7. CountedOnce'
  <2>1. AtFirst(frames') \subseteq AtFirst(frames)
    BY <1>3, MovesFirst DEF Places
  <2>2. s_first \in Nat
    BY DEF ReportInv, ReportTypeOK
  <2>3. QED
    BY <2>1, <2>2, <1>2, CountSubset DEF ReportInv, CountedOnce
<1>8. Calm'
  BY <1>2 DEF Calm
<1>9. Quiet'
  BY <1>2 DEF Quiet
<1>10. JumpIsValid'
  BY <1>2 DEF JumpIsValid
<1>11. QED
  BY <1>4, <1>5, <1>6, <1>7, <1>8, <1>9, <1>10 DEF ReportInv

(* The flag is reset by the frame that set it.                             *)
LEMMA DumpEndsKeeps ==
  ASSUME ReportInv, NEW t \in Tids, DumpEnds(t)
  PROVE  ReportInv'
<1>1. Stands(t, "dumped")
  BY AtStands DEF DumpEnds, Places
<1>2. /\ BR_dumping_stack' = 0
      /\ UNCHANGED <<calls, registered, handled, pending, s_first, BR_jmp_buf, line,
                     process, killer, faults, harsh, failed, told>>
  BY DEF DumpEnds, setup, history
<1>3. Moves(t, "info")
  BY GoesMoves DEF DumpEnds, Places
<1>4. ReportTypeOK'
  BY <1>2, <1>3 DEF ReportInv, ReportTypeOK, Moves, Frames, Places
<1>5. Stacks'
  BY <1>1, <1>2, <1>3 DEF ReportInv, Stands, Moves, Stacks
<1>6. Begun'
  BY <1>1, <1>2, <1>3 DEF ReportInv, Stands, Moves, Begun
<1>7. CountedOnce'
  <2>1. AtFirst(frames') \subseteq AtFirst(frames)
    BY <1>3, MovesFirst DEF Places
  <2>2. s_first \in Nat
    BY DEF ReportInv, ReportTypeOK
  <2>3. QED
    BY <2>1, <2>2, <1>2, CountSubset DEF ReportInv, CountedOnce
<1>8. Calm'
  BY <1>1, <1>2, <1>3 DEF ReportInv, Stands, Moves, Stacks, Calm, Dumping
<1>9. Quiet'
  BY <1>1, <1>2, <1>3 DEF ReportInv, Stands, Moves, Quiet, Dumping, Calm
<1>10. JumpIsValid'
  BY <1>1, <1>2 DEF JumpIsValid, Stands
<1>11. QED
  BY <1>4, <1>5, <1>6, <1>7, <1>8, <1>9, <1>10 DEF ReportInv

(* The callbacks: the handler gets past them only with told.               *)
LEMMA CallInfoKeeps ==
  ASSUME ReportInv, NEW t \in Tids, CallInfo(t)
  PROVE  ReportInv'
<1>1. Stands(t, "info")
  BY AtStands DEF CallInfo, Places
<1>2. UNCHANGED <<calls, registered, handled, pending, s_first, BR_dumping_stack,
                  BR_jmp_buf, line, process, killer, faults, harsh, failed, told>>
  BY DEF CallInfo, setup, sharedVars, history
<1>3. Moves(t, "exit")
  BY GoesMoves DEF CallInfo, Places
<1>4. ReportTypeOK'
  BY <1>2, <1>3 DEF ReportInv, ReportTypeOK, Moves, Frames, Places
<1>5. Stacks'
  BY <1>1, <1>2, <1>3 DEF ReportInv, Stands, Moves, Stacks
<1>6. Begun'
  BY <1>1, <1>2, <1>3 DEF ReportInv, Moves, Stacks, Begun
<1>7. CountedOnce'
  <2>1. AtFirst(frames') \subseteq AtFirst(frames)
    BY <1>3, MovesFirst DEF Places
  <2>2. s_first \in Nat
    BY DEF ReportInv, ReportTypeOK
  <2>3. QED
    BY <2>1, <2>2, <1>2, CountSubset DEF ReportInv, CountedOnce
<1>8. Calm'
  BY <1>1, <1>2, <1>3 DEF ReportInv, Stands, Moves, Calm, Dumping
<1>9. Quiet'
  BY <1>1, <1>2, <1>3 DEF ReportInv, Stands, Moves, Quiet, Dumping
<1>10. JumpIsValid'
  BY <1>1, <1>2 DEF JumpIsValid, Stands
<1>11. QED
  BY <1>4, <1>5, <1>6, <1>7, <1>8, <1>9, <1>10 DEF ReportInv

LEMMA CallExitKeeps ==
  ASSUME ReportInv, NEW t \in Tids, CallExit(t)
  PROVE  ReportInv'
<1>1. Stands(t, "exit")
  BY AtStands DEF CallExit, Places
<1>2. /\ told' = TRUE
      /\ UNCHANGED <<calls, registered, handled, pending, s_first, BR_dumping_stack,
                     BR_jmp_buf, line, process, killer, faults, harsh, failed>>
  BY DEF CallExit, setup, sharedVars
<1>3. Moves(t, "reset")
  BY GoesMoves DEF CallExit, Places
<1>4. ReportTypeOK'
  BY <1>2, <1>3 DEF ReportInv, ReportTypeOK, Moves, Frames, Places
<1>5. Stacks'
  BY <1>1, <1>2, <1>3 DEF ReportInv, Stands, Moves, Stacks
<1>6. Begun'
  BY <1>1, <1>2, <1>3 DEF ReportInv, Moves, Stacks, Begun
<1>7. CountedOnce'
  <2>1. AtFirst(frames') \subseteq AtFirst(frames)
    BY <1>3, MovesFirst DEF Places
  <2>2. s_first \in Nat
    BY DEF ReportInv, ReportTypeOK
  <2>3. QED
    BY <2>1, <2>2, <1>2, CountSubset DEF ReportInv, CountedOnce
<1>8. Calm'
  BY <1>1, <1>2, <1>3 DEF ReportInv, Stands, Moves, Calm, Dumping
<1>9. Quiet'
  BY <1>1, <1>2, <1>3 DEF ReportInv, Stands, Moves, Quiet, Dumping
<1>10. JumpIsValid'
  BY <1>1, <1>2 DEF JumpIsValid, Stands
<1>11. QED
  BY <1>4, <1>5, <1>6, <1>7, <1>8, <1>9, <1>10 DEF ReportInv

(* The end of the handler: it forgets its signal, and raises it.           *)
LEMMA ResetKeeps ==
  ASSUME ReportInv, NEW t \in Tids, Reset(t)
  PROVE  ReportInv'
<1>1. Stands(t, "reset")
  BY AtStands DEF Reset, Places
<1>2. /\ handled' = handled \ {Sig(t)}
      /\ UNCHANGED <<calls, registered, pending, s_first, BR_dumping_stack, BR_jmp_buf,
                     line, process, killer, faults, harsh, failed, told>>
  BY DEF Reset, setup, sharedVars, history
<1>3. Moves(t, "raise")
  BY GoesMoves DEF Reset, Places
<1>4. ReportTypeOK'
  BY <1>2, <1>3 DEF ReportInv, ReportTypeOK, Moves, Frames, Places
<1>5. Stacks'
  BY <1>1, <1>2, <1>3 DEF ReportInv, Stands, Moves, Stacks
<1>6. Begun'
  BY <1>1, <1>2, <1>3 DEF ReportInv, Moves, Stacks, Begun
<1>7. CountedOnce'
  <2>1. AtFirst(frames') \subseteq AtFirst(frames)
    BY <1>3, MovesFirst DEF Places
  <2>2. s_first \in Nat
    BY DEF ReportInv, ReportTypeOK
  <2>3. QED
    BY <2>1, <2>2, <1>2, CountSubset DEF ReportInv, CountedOnce
<1>8. Calm'
  <2>1. UNCHANGED <<harsh, failed, BR_dumping_stack, BR_jmp_buf>>
    BY <1>2
  <2>2. Depth(frames[t]) = 2 \/ Base(frames[t]) = "reset"
    BY <1>1 DEF Stands
  <2>3. QED
    BY <2>1, <2>2, <1>3 DEF ReportInv, Moves, Calm, Dumping
<1>9. Quiet'
  BY <1>1, <1>2, <1>3 DEF ReportInv, Stands, Moves, Quiet, Dumping
<1>10. JumpIsValid'
  BY <1>1, <1>2 DEF JumpIsValid, Stands
<1>11. QED
  BY <1>4, <1>5, <1>6, <1>7, <1>8, <1>9, <1>10 DEF ReportInv

LEMMA RaiseKeeps ==
  ASSUME ReportInv, NEW t \in Tids, Raise(t)
  PROVE  ReportInv'
<1>1. Stands(t, "raise")
  BY AtStands DEF Raise, Places
<1>2. /\ pending' = [pending EXCEPT ![t] = @ \cup {Sig(t)}]
      /\ UNCHANGED <<calls, registered, handled, s_first, BR_dumping_stack, BR_jmp_buf,
                     line, process, killer, faults, harsh, failed, told>>
  BY DEF Raise, setup, sharedVars, history
<1>3. Moves(t, "return")
  BY GoesMoves DEF Raise, Places
<1>4. ReportTypeOK'
  <2>1. pending' \in [Tids -> SUBSET Range(Signals)]
    BY <1>1, <1>2 DEF ReportInv, ReportTypeOK, Stands
  <2>2. QED
    BY <2>1, <1>2, <1>3 DEF ReportInv, ReportTypeOK, Moves, Frames, Places
<1>5. Stacks'
  BY <1>1, <1>2, <1>3 DEF ReportInv, Stands, Moves, Stacks
<1>6. Begun'
  BY <1>1, <1>2, <1>3 DEF ReportInv, Stands, Moves, Begun
<1>7. CountedOnce'
  <2>1. AtFirst(frames') \subseteq AtFirst(frames)
    BY <1>3, MovesFirst DEF Places
  <2>2. s_first \in Nat
    BY DEF ReportInv, ReportTypeOK
  <2>3. QED
    BY <2>1, <2>2, <1>2, CountSubset DEF ReportInv, CountedOnce
<1>8. Calm'
  BY <1>1, <1>2, <1>3 DEF ReportInv, Stands, Moves, Stacks, Calm, Dumping
<1>9. Quiet'
  BY <1>1, <1>2, <1>3 DEF ReportInv, Stands, Moves, Quiet, Dumping
<1>10. JumpIsValid'
  BY <1>1, <1>2 DEF JumpIsValid, Stands
<1>11. QED
  BY <1>4, <1>5, <1>6, <1>7, <1>8, <1>9, <1>10 DEF ReportInv

(* siglongjmp: with nobody to land at, the behaviour is undefined; else    *)
(* the frame that prints goes on, and the handler above it is gone.        *)
LEMMA AgainKeeps ==
  ASSUME ReportInv, NEW t \in Tids, Again(t)
  PROVE  ReportInv'
<1>1. Stands(t, "again") /\ s_first \in Nat /\ At(t, "again")
  <2>1. At(t, "again")
    BY DEF Again
  <2>2. s_first \in Nat
    BY DEF ReportInv, ReportTypeOK
  <2>3. Stands(t, "again")
    BY <2>1, AtStands DEF Places
  <2>4. QED
    BY <2>1, <2>2, <2>3
<1>2. UNCHANGED <<calls, registered, handled, pending, s_first, BR_dumping_stack,
                  BR_jmp_buf, line, killer, faults, harsh, failed, told>>
  BY DEF Again, setup, sharedVars, history
<1>3. CASE BR_dumping_stack = 0 /\ Goes(t, "reset") /\ UNCHANGED process
  <2>1. Moves(t, "reset")
    BY <1>1, <1>3, GoesMoves DEF Places
  <2>2. ReportTypeOK'
    BY <1>2, <1>3, <2>1 DEF ReportInv, ReportTypeOK, Moves, Frames, Places
  <2>3. Stacks'
    BY <1>1, <1>2, <2>1 DEF ReportInv, Stands, Moves, Stacks
  <2>4. Begun'
    BY <1>1, <1>2, <2>1 DEF ReportInv, Stands, Moves, Begun
  <2>5. CountedOnce'
    <3>1. AtFirst(frames') \subseteq AtFirst(frames)
      BY <2>1, MovesFirst DEF Places
    <3>2. QED
      BY <3>1, <1>1, <1>2, CountSubset DEF ReportInv, CountedOnce
  <2>6. Calm'
    BY <1>2, <1>3, <2>1 DEF ReportInv, Moves, Calm, Dumping
  <2>7. Quiet'
    BY <1>1, <1>2, <1>3, <2>1 DEF ReportInv, Stands, Moves, Quiet, Dumping
  <2>8. JumpIsValid'
    BY <1>1, <1>3 DEF JumpIsValid, Stands
  <2>9. QED
    BY <2>2, <2>3, <2>4, <2>5, <2>6, <2>7, <2>8 DEF ReportInv
<1>4. CASE BR_dumping_stack = 1 /\ ~Lands(t) /\ process' = "undefined" /\ UNCHANGED frames
  <2>1. "thread" \in harsh \/ failed
    <3> SUFFICES ASSUME "thread" \notin harsh, ~failed PROVE FALSE
      OBVIOUS
    <3>1. Base(frames[t]) \in Dumping /\ Depth(frames[t]) = 2 /\ Base(frames[t]) = "line"
      BY <1>1, <1>4 DEF ReportInv, Stands, Stacks, Calm, Dumping
    <3>2. BR_jmp_buf = [thread |-> t, frame |-> 1]
      BY <1>4, <3>1 DEF ReportInv, Calm
    <3>3. BR_jmp_buf # Nothing
      <4>1. 1 \in 1 .. MaxFaults
        BY <3>1, LinesAssumption DEF ReportInv, Begun
      <4>2. QED
        BY <4>1, <3>2, TidsAssumption
    <3>4. Lands(t)
      BY <3>1, <3>2, <3>3 DEF Lands, Depth, Base
    <3>5. QED
      BY <3>4, <1>4
  <2>2. ReportTypeOK' /\ Stacks' /\ CountedOnce' /\ Calm'
    BY <1>2, <1>4 DEF ReportInv, ReportTypeOK, Stacks, CountedOnce, Calm
  <2>3. Begun' /\ Quiet' /\ JumpIsValid'
    BY <1>2, <1>4, <2>1 DEF ReportInv, Begun, Quiet, JumpIsValid
  <2>4. QED
    BY <2>2, <2>3 DEF ReportInv
<1>5. CASE /\ BR_dumping_stack = 1 /\ Lands(t) /\ UNCHANGED process
           /\ frames' = [frames EXCEPT ![t] =
                Append(SubSeq(@, 1, BR_jmp_buf.frame - 1),
                       [@[BR_jmp_buf.frame] EXCEPT !.at = "dumped"])]
  <2> DEFINE q == frames[t]
             r == <<[q[1] EXCEPT !.at = "dumped"]>>
  <2>1. /\ q \in Seq(Frames) /\ Depth(q) = 2 /\ Base(q) = "line" /\ BR_jmp_buf.frame = 1
        /\ q[1] \in Frames /\ frames \in [Tids -> Seq(Frames)]
    <3>1. frames \in [Tids -> Seq(Frames)] /\ q \in Seq(Frames)
      BY FramesType
    <3>2. BR_jmp_buf.frame \in 1 .. MaxFaults
      BY <1>5 DEF Lands, ReportInv, ReportTypeOK
    <3>3. Depth(q) \in {1, 2} /\ BR_jmp_buf.frame < Depth(q) /\ q[BR_jmp_buf.frame].at = "line"
      BY <1>1, <1>5 DEF Lands, Stands, Depth
    <3>4. Depth(q) = 2 /\ BR_jmp_buf.frame = 1
      BY <3>2, <3>3
    <3>5. q[1] \in Frames
      <4>1. Len(q) = 2 /\ q \in Seq(Frames)
        BY <3>1, <3>4 DEF Depth
      <4> HIDE DEF q
      <4>2. QED
        BY <4>1
    <3>6. QED
      BY <3>1, <3>3, <3>4, <3>5 DEF Base
  <2>2. frames' = [frames EXCEPT ![t] = r]
    <3>1. SubSeq(q, 1, BR_jmp_buf.frame - 1) = <<>>
      <4>1. BR_jmp_buf.frame - 1 = 0
        BY <2>1
      <4>2. SubSeq(q, 1, 0) = <<>>
        OBVIOUS
      <4>3. QED
        BY <4>1
    <3>2. frames' = [frames EXCEPT ![t] =
            Append(SubSeq(q, 1, BR_jmp_buf.frame - 1),
                   [q[BR_jmp_buf.frame] EXCEPT !.at = "dumped"])]
      BY <1>5
    <3>3. frames' = [frames EXCEPT ![t] = Append(<<>>, [q[1] EXCEPT !.at = "dumped"])]
      BY <3>1, <3>2, <2>1
    <3>4. \A e : Append(<<>>, e) = <<e>>
      OBVIOUS
    <3>5. QED
      BY <3>3
  <2>3. /\ r \in Seq(Frames) /\ Depth(r) = 1 /\ Base(r) = "dumped" /\ Cause(r) = Cause(q)
    <3>1. /\ [q[1] EXCEPT !.at = "dumped"] \in Frames
          /\ [q[1] EXCEPT !.at = "dumped"].at = "dumped"
          /\ [q[1] EXCEPT !.at = "dumped"].sig = q[1].sig
      BY <2>1 DEF Frames, Places
    <3> DEFINE e == [q[1] EXCEPT !.at = "dumped"]
    <3> HIDE DEF e
    <3>2. <<e>> \in Seq(Frames) /\ Len(<<e>>) = 1 /\ <<e>>[1] = e
      BY <3>1 DEF e
    <3>3. QED
      BY <3>1, <3>2 DEF Depth, Base, Cause, e
  <2> HIDE DEF r
  <2>4. /\ frames' \in [Tids -> Seq(Frames)]
        /\ \A u \in Tids \ {t} : frames'[u] = frames[u]
        /\ Depth(frames'[t]) = 1 /\ Base(frames'[t]) = "dumped"
        /\ Cause(frames'[t]) = Cause(frames[t])
        /\ Depth(frames[t]) = 2 /\ Base(frames[t]) = "line"
    BY <2>1, <2>2, <2>3
  <2>5. ReportTypeOK'
    BY <1>2, <1>5, <2>4 DEF ReportInv, ReportTypeOK, Frames, Places
  <2>6. Stacks'
    BY <1>2, <2>4 DEF ReportInv, Stacks
  <2>7. Begun'
    BY <1>2, <2>4 DEF ReportInv, Begun
  <2>8. CountedOnce'
    <3>1. AtFirst(frames') \subseteq AtFirst(frames)
      BY <2>4 DEF AtFirst
    <3>2. QED
      BY <3>1, <1>1, <1>2, CountSubset DEF ReportInv, CountedOnce
  <2>9. Calm'
    BY <1>2, <1>5, <2>4 DEF ReportInv, Calm, Dumping
  <2>10. Quiet'
    BY <1>2, <1>5, <2>4 DEF ReportInv, Quiet
  <2>11. JumpIsValid'
    BY <1>1, <1>5 DEF JumpIsValid, Stands
  <2>12. QED
    BY <2>5, <2>6, <2>7, <2>8, <2>9, <2>10, <2>11 DEF ReportInv
<1>6. QED
  BY <1>3, <1>4, <1>5 DEF Again

(* The return from the handler delivers the signal that it has raised: to  *)
(* the handler again, if BugReportRegister has come back to it meanwhile.  *)
LEMMA ReturnKeeps ==
  ASSUME ReportInv, NEW t \in Tids, Return(t)
  PROVE  ReportInv'
<1>1. At(t, "return") /\ Stands(t, "return")
  <2>1. At(t, "return")
    BY DEF Return
  <2>2. QED
    BY <2>1, AtStands DEF Places
<1>2. /\ UNCHANGED <<calls, registered, handled, s_first, BR_dumping_stack, BR_jmp_buf,
                     line, faults, harsh, failed, told>>
      /\ pending' = [pending EXCEPT ![t] = @ \ {Sig(t)}]
  BY DEF Return, setup, sharedVars, history
<1>3. pending' \in [Tids -> SUBSET Range(Signals)]
  <2>1. pending \in [Tids -> SUBSET Range(Signals)]
    BY DEF ReportInv, ReportTypeOK
  <2>2. QED
    BY <2>1, <1>2
<1>4. CASE Sig(t) \in handled
  <2>1. UNCHANGED <<process, killer>> /\ Goes(t, "entered")
    BY <1>4 DEF Return, Enters, Goes
  <2>2. Moves(t, "entered")
    BY <1>1, <2>1, GoesMoves DEF Places
  <2>3. ReportTypeOK'
    BY <1>2, <2>1, <2>2 DEF ReportInv, ReportTypeOK, Moves, Frames, Places
  <2>4. Stacks'
    BY <1>2, <2>2 DEF ReportInv, Moves, Stacks
  <2>5. Begun'
    BY <1>1, <1>2, <2>2 DEF ReportInv, Stands, Moves, Begun
  <2>6. CountedOnce'
    <3>1. AtFirst(frames') \subseteq AtFirst(frames) /\ s_first \in Nat
      <4>1. AtFirst(frames') \subseteq AtFirst(frames)
        BY <2>2, MovesFirst DEF Places
      <4>2. QED
        BY <4>1 DEF ReportInv, ReportTypeOK
    <3>2. QED
      BY <3>1, <1>2, CountSubset DEF ReportInv, CountedOnce
  <2>7. Calm'
    BY <1>1, <1>2, <2>2 DEF ReportInv, Stands, Moves, Stacks, Calm, Dumping
  <2>8. Quiet'
    BY <1>1, <1>2, <2>1, <2>2 DEF ReportInv, Stands, Moves, Quiet, Dumping
  <2>9. JumpIsValid'
    BY <1>1, <2>1 DEF JumpIsValid, Stands
  <2>10. QED
    BY <2>3, <2>4, <2>5, <2>6, <2>7, <2>8, <2>9 DEF ReportInv
<1>5. CASE Sig(t) \notin handled
  <2>1. process' = "killed" /\ killer' = Sig(t) /\ UNCHANGED frames
    BY <1>5 DEF Return, Killed
  <2>2. ReportTypeOK'
    BY <1>1, <1>2, <2>1 DEF ReportInv, ReportTypeOK, Stands
  <2>3. Stacks' /\ CountedOnce' /\ Calm'
    BY <1>2, <2>1 DEF ReportInv, Stacks, CountedOnce, Calm
  <2>4. Begun' /\ JumpIsValid'
    BY <1>2, <2>1 DEF ReportInv, Begun, JumpIsValid
  <2>5. Quiet'
    <3> SUFFICES ASSUME harsh = {}, ~failed PROVE Quiet'
      BY <1>2 DEF Quiet
    <3>1. Depth(frames[t]) = 1 /\ Base(frames[t]) = "return" /\ Cause(frames[t]) = Sig(t)
      BY <1>1 DEF ReportInv, Quiet, Stands
    <3>2. told /\ Sig(t) = faults[1]
      BY <3>1 DEF ReportInv, Quiet
    <3>3. QED
      BY <3>2, <1>2, <2>1 DEF ReportInv, Quiet
  <2>6. QED
    BY <2>2, <2>3, <2>4, <2>5 DEF ReportInv
<1>6. QED
  BY <1>4, <1>5

(* A fault ends the process, or puts a frame on the stack of its thread:   *)
(* the first one, or one above a frame that reports.                       *)
LEMMA FaultKeeps ==
  ASSUME ReportInv, NEW t \in Tids, NEW s \in Range(Signals), Fault(t, s)
  PROVE  ReportInv'
<1>1. /\ process = "runs"
      /\ \/ Depth(frames[t]) = 0 /\ frames[t] = <<>> /\ ~At(t, "line")
         \/ /\ Depth(frames[t]) = 1 /\ Base(frames[t]) \in {"header", "line", "info", "exit"}
            /\ At(t, "line") => Base(frames[t]) = "line"
  <2>1. process = "runs" /\ Place(t) \in {"user code", "header", "line", "info", "exit"}
    BY DEF Fault, Runs, MayFault
  <2>2. CASE Place(t) = "user code"
    <3>1. frames[t] = <<>>
      <4> SUFFICES ASSUME frames[t] # <<>> PROVE FALSE
        OBVIOUS
      <4>1. At(t, Last(frames[t]).at) /\ Last(frames[t]).at = "user code"
        BY <2>1, <2>2 DEF At, Runs, Place
      <4>2. frames[t] \in Seq(Frames)
        BY FramesType
      <4>3. Last(frames[t]) \in Frames
        BY <4>2, StackType
      <4>4. QED
        BY <4>1, <4>3 DEF Frames, Places
    <3>2. QED
      BY <2>1, <2>2, <3>1 DEF Depth, At
  <2>3. CASE Place(t) # "user code"
    <3>1. PICK place \in {"header", "line", "info", "exit"} : Place(t) = place
      BY <2>1, <2>3
    <3>2. At(t, place)
      BY <2>1, <3>1 DEF At, Runs
    <3>3. Stands(t, place)
      BY <3>2, AtStands DEF Places
    <3>4. QED
      BY <3>1, <3>3 DEF Stands, At
  <2>4. QED
    BY <2>2, <2>3
<1>2. /\ UNCHANGED <<calls, registered, handled, pending, s_first, BR_dumping_stack,
                     BR_jmp_buf, line, failed, told>>
      /\ Len(faults) < MaxFaults /\ faults' = Append(faults, s)
      /\ harsh' = harsh \cup Unusual(t, s)
  BY DEF Fault, setup, sharedVars
<1>3. /\ harsh' \subseteq {"thread", "place", "blocked", "default"}
      /\ "thread" \notin harsh' =>
           "thread" \notin harsh /\ \A v \in Tids \ {t} : frames[v] = <<>>
      /\ harsh' = {} =>
           /\ harsh = {} /\ (faults = <<>> \/ At(t, "line"))
           /\ s \notin Blocked(t) /\ s \in handled
  <2>1. harsh \subseteq {"thread", "place", "blocked", "default"}
    BY DEF ReportInv, ReportTypeOK
  <2>2. Unusual(t, s) \subseteq {"thread", "place", "blocked", "default"}
    BY DEF Unusual
  <2>3. "thread" \notin Unusual(t, s) => \A v \in Tids \ {t} : frames[v] = <<>>
    BY DEF Unusual
  <2>4. /\ "place" \notin Unusual(t, s) => faults = <<>> \/ At(t, "line")
        /\ "blocked" \notin Unusual(t, s) => s \notin Blocked(t)
        /\ "default" \notin Unusual(t, s) => s \in handled
    BY DEF Unusual
  <2>5. QED
    BY <1>2, <2>1, <2>2, <2>3, <2>4
<1>4. /\ faults' \in Seq(Range(Signals)) /\ Len(faults') <= MaxFaults /\ faults' # <<>>
      /\ faults = <<>> => faults'[1] = s
      /\ faults # <<>> => faults'[1] = faults[1]
  <2>1. faults \in Seq(Range(Signals)) /\ MaxFaults \in Nat
    BY LinesAssumption DEF ReportInv, ReportTypeOK
  <2>2. Len(faults') = Len(faults) + 1 /\ faults' \in Seq(Range(Signals))
    BY <1>2, <2>1
  <2>3. faults = <<>> => faults'[1] = s
    BY <1>2
  <2>4. faults # <<>> => faults'[1] = faults[1]
    BY <1>2
  <2>5. QED
    BY <1>2, <2>1
<1>5. CASE Lethal(t, s)
  <2>1. process' = "killed" /\ killer' = s /\ UNCHANGED frames
    BY <1>5 DEF Fault, Killed
  <2>2. ReportTypeOK'
    BY <1>2, <1>3, <1>4, <2>1 DEF ReportInv, ReportTypeOK
  <2>3. Stacks' /\ CountedOnce' /\ Begun'
    BY <1>2, <1>4, <2>1 DEF ReportInv, Stacks, CountedOnce, Begun
  <2>4. Calm'
    BY <1>2, <2>1 DEF ReportInv, Calm
  <2>5. Quiet' /\ JumpIsValid'
    BY <1>3, <1>5, <2>1 DEF Lethal, Quiet, JumpIsValid
  <2>6. QED
    BY <2>2, <2>3, <2>4, <2>5 DEF ReportInv
<1>6. CASE ~Lethal(t, s)
  <2> DEFINE q == frames[t]
             e == [sig |-> s, at |-> "entered"]
             r == Append(q, e)
  <2>1. /\ UNCHANGED <<process, killer>> /\ frames' = [frames EXCEPT ![t] = r]
        /\ frames \in [Tids -> Seq(Frames)] /\ q \in Seq(Frames)
        /\ e \in Frames /\ e.at = "entered" /\ e.sig = s
    <3>1. frames \in [Tids -> Seq(Frames)]
      BY FramesType
    <3>2. e \in Frames /\ e.at = "entered" /\ e.sig = s
      BY DEF Frames, Places
    <3>3. UNCHANGED <<process, killer>> /\ frames' = [frames EXCEPT ![t] = r]
      BY <1>6 DEF Fault, Enters
    <3>4. QED
      BY <3>1, <3>2, <3>3
  <2> HIDE DEF q, e
  <2>2. /\ r \in Seq(Frames) /\ Len(r) = Len(q) + 1 /\ r[Len(q) + 1] = e
        /\ \A i \in 1 .. Len(q) : r[i] = q[i]
    BY <2>1
  <2> HIDE DEF r
  <2>3. /\ Depth(q) = 0 => Depth(r) = 1 /\ Base(r) = "entered" /\ Cause(r) = s
        /\ Depth(q) = 1 => /\ Depth(r) = 2 /\ Base(r) = Base(q) /\ Cause(r) = Cause(q)
                           /\ Top(r) = "entered"
    <3>1. Depth(q) = 0 => Depth(r) = 1 /\ Base(r) = "entered" /\ Cause(r) = s
      BY <2>1, <2>2 DEF Depth, Base, Cause
    <3>2. Depth(q) = 1 => Depth(r) = 2 /\ r[1] = q[1] /\ r[2] = e
      BY <2>2 DEF Depth
    <3>3. QED
      BY <3>1, <3>2, <2>1 DEF Base, Cause, Top
  <2>4. /\ frames' \in [Tids -> Seq(Frames)] /\ frames'[t] = r
        /\ \A u \in Tids \ {t} : frames'[u] = frames[u]
    BY <2>1, <2>2
  <2>5. /\ Depth(frames[t]) = 0 =>
             /\ Depth(frames'[t]) = 1 /\ Base(frames'[t]) = "entered" /\ Cause(frames'[t]) = s
        /\ Depth(frames[t]) = 1 =>
             /\ Depth(frames'[t]) = 2 /\ Base(frames'[t]) = Base(frames[t])
             /\ Cause(frames'[t]) = Cause(frames[t]) /\ Top(frames'[t]) = "entered"
    BY <2>3, <2>4 DEF q
  <2>6. ReportTypeOK'
    <3>1. frames' \in [Tids -> Seq([sig : Range(Signals), at : Places])]
      BY <2>4 DEF Frames
    <3>2. QED
      BY <1>2, <1>3, <1>4, <2>1, <3>1 DEF ReportInv, ReportTypeOK, Places
  <2>7. Stacks'
    BY <1>1, <1>2, <2>4, <2>5 DEF ReportInv, Stacks
  <2>8. Begun'
    BY <1>1, <1>4, <2>5 DEF Begun
  <2>9. CountedOnce'
    <3>1. AtFirst(frames') \subseteq AtFirst(frames) /\ s_first \in Nat
      <4>1. s_first \in Nat
        BY DEF ReportInv, ReportTypeOK
      <4>2. QED
        BY <4>1, <1>1, <2>4, <2>5 DEF AtFirst
    <3>2. QED
      BY <3>1, <1>2, CountSubset DEF ReportInv, CountedOnce
  <2>10. Calm'
    <3> SUFFICES ASSUME "thread" \notin harsh', ~failed PROVE Calm'
      BY <1>2 DEF Calm
    <3>1. "thread" \notin harsh /\ \A v \in Tids \ {t} : Depth(frames[v]) = 0
      BY <1>3 DEF Depth
    <3>2. \A v \in Tids \ {t} : Depth(frames'[v]) = 0
      BY <3>1, <2>4
    <3>3. BR_dumping_stack = 1 => Depth(frames[t]) = 1
      BY <3>1, <1>1 DEF ReportInv, Begun
    <3>4. QED
      BY <3>2, <3>3, <1>2, <2>5 DEF ReportInv, Calm
  <2>11. Quiet'
    <3> SUFFICES ASSUME harsh' = {}, ~failed PROVE Quiet'
      BY <1>2 DEF Quiet
    <3>1. harsh = {} /\ (faults = <<>> \/ At(t, "line"))
      BY <1>3
    <3>2. CASE faults = <<>>
      <4>1. (\A u \in Tids : Depth(frames[u]) = 0) /\ s_first = 0
        BY <3>2 DEF ReportInv, Begun
      <4>2. \A u \in Tids \ {t} : Depth(frames'[u]) = 0
        BY <4>1, <2>4
      <4>3. QED
        BY <3>2, <4>1, <1>1, <1>2, <2>1, <2>5 DEF Quiet, Dumping
    <3>3. CASE faults # <<>> /\ At(t, "line")
      <4>1. Depth(frames[t]) = 1 /\ Base(frames[t]) = "line"
        BY <3>3, <1>1
      <4>2. QED
        BY <3>3, <1>1, <1>2, <2>1, <2>5 DEF ReportInv, Quiet
    <3>4. QED
      BY <3>1, <3>2, <3>3
  <2>12. JumpIsValid'
    BY <1>1, <2>1 DEF JumpIsValid
  <2>13. QED
    BY <2>6, <2>7, <2>8, <2>9, <2>10, <2>11, <2>12 DEF ReportInv
<1>7. QED
  BY <1>5, <1>6

(* What registers signals changes only which of them have the handler.     *)
LEMMA RegisterKeeps ==
  ASSUME ReportInv, BugReportRegister \/ SignalRegister \/ SignalRegisterFails
  PROVE  ReportInv'
<1>1. UNCHANGED <<frames, pending, s_first, BR_dumping_stack, BR_jmp_buf, line, process, killer,
                  faults, harsh, failed, told>>
  BY DEF BugReportRegister, SignalRegister, SignalRegisterFails, sharedVars, history
<1>2. /\ calls' \in 0 .. MaxCalls /\ registered' \in 0 .. Len(Signals)
      /\ handled' \subseteq Range(Signals)
  <2>1. /\ calls \in 0 .. MaxCalls /\ registered \in Nat /\ handled \subseteq Range(Signals)
        /\ Len(Signals) \in Nat /\ Signals \in Seq(Range(Signals)) /\ MaxCalls \in Nat
    BY SignalsAssumption, LinesAssumption DEF ReportInv, ReportTypeOK
  <2>2. CASE BugReportRegister
    BY <2>1, <2>2 DEF BugReportRegister
  <2>3. CASE SignalRegister
    <3>1. /\ registered' \in 1 .. Len(Signals) /\ calls' = calls
          /\ handled' = handled \cup {Signals[registered']}
      BY <2>1, <2>3 DEF SignalRegister
    <3>2. Signals[registered'] \in Range(Signals)
      BY <3>1, SignalsAssumption
    <3>3. QED
      BY <2>1, <3>1, <3>2
  <2>4. CASE SignalRegisterFails
    BY <2>1, <2>4 DEF SignalRegisterFails
  <2>5. QED
    BY <2>2, <2>3, <2>4
<1>3. ReportTypeOK'
  BY <1>1, <1>2 DEF ReportInv, ReportTypeOK
<1>4. Stacks' /\ Begun' /\ CountedOnce'
  BY <1>1 DEF ReportInv, Stacks, Begun, CountedOnce
<1>5. Calm' /\ Quiet' /\ JumpIsValid'
  BY <1>1 DEF ReportInv, Calm, Quiet, JumpIsValid
<1>6. QED
  BY <1>3, <1>4, <1>5 DEF ReportInv

LEMMA ReportStarts == ReportInit => ReportInv
<1> SUFFICES ASSUME ReportInit PROVE ReportInv
  OBVIOUS
<1>1. \A t \in Tids : frames[t] = <<>> /\ Depth(frames[t]) = 0
  BY DEF ReportInit, Depth
<1>2. ReportTypeOK
  <2>1. Cardinality(Tids) \in Nat /\ Len(Signals) \in Nat
    BY TidsAssumption, FS_CardinalityType
  <2>2. frames \in [Tids -> Seq(Frames)] /\ pending \in [Tids -> SUBSET Range(Signals)]
    <3>1. <<>> \in Seq(Frames) /\ {} \in SUBSET Range(Signals)
      OBVIOUS
    <3>2. QED
      BY DEF ReportInit
  <2>3. line \in [Tids -> 0 .. Lines] /\ s_first \in 0 .. Cardinality(Tids)
    BY <2>1, LinesAssumption DEF ReportInit
  <2>4. faults \in Seq(Range(Signals))
    BY DEF ReportInit
  <2>5. frames \in [Tids -> Seq([sig : Range(Signals), at : Places])]
    BY <2>2 DEF Frames
  <2>6. /\ calls \in 0 .. MaxCalls /\ registered \in 0 .. Len(Signals)
        /\ handled \subseteq Range(Signals)
    BY <2>1, LinesAssumption DEF ReportInit
  <2>7. /\ BR_dumping_stack \in {0, 1} /\ BR_jmp_buf = Nothing
        /\ process \in {"runs", "killed", "undefined"} /\ killer = Nothing
        /\ harsh = {} /\ failed \in BOOLEAN /\ told \in BOOLEAN
    BY DEF ReportInit
  <2>8. QED
    BY <2>2, <2>3, <2>4, <2>5, <2>6, <2>7 DEF ReportTypeOK, Places
<1>3. Stacks /\ Begun
  BY <1>1, LinesAssumption DEF ReportInit, Stacks, Begun
<1>4. CountedOnce
  <2>1. AtFirst(frames) = {}
    BY <1>1 DEF AtFirst
  <2>2. Cardinality(AtFirst(frames)) = 0 /\ Cardinality(Tids) \in Nat
    BY <2>1, TidsAssumption, FS_CardinalityType, FS_EmptySet
  <2>3. QED
    BY <2>2 DEF ReportInit, CountedOnce
<1>5. Calm /\ Quiet /\ JumpIsValid
  BY <1>1 DEF ReportInit, Calm, Quiet, JumpIsValid
<1>6. QED
  BY <1>2, <1>3, <1>4, <1>5 DEF ReportInv

(* Together:                                                               *)
LEMMA ReportStep == ReportInv /\ [ReportNext]_reportVars => ReportInv'
<1> SUFFICES ASSUME ReportInv, [ReportNext]_reportVars PROVE ReportInv'
  OBVIOUS
<1>1. CASE BugReportRegister \/ SignalRegister \/ SignalRegisterFails
  BY <1>1, RegisterKeeps
<1>2. ASSUME NEW t \in Tids, Handler(t) PROVE ReportInv'
  BY <1>2, ReadFirstKeeps, CountFirstKeeps, WriteHeaderKeeps, DumpBeginsKeeps, SetJmpKeeps,
     PrintLineKeeps, PrintLineFailsKeeps, DumpEndsKeeps, CallInfoKeeps, CallExitKeeps,
     AgainKeeps, ResetKeeps, RaiseKeeps, ReturnKeeps DEF Handler
<1>3. ASSUME NEW t \in Tids, NEW s \in Range(Signals), Fault(t, s) PROVE ReportInv'
  BY <1>3, FaultKeeps
<1>4. CASE UNCHANGED reportVars
  <2>1. UNCHANGED <<calls, registered, handled, frames, pending, s_first,
                    BR_dumping_stack, BR_jmp_buf, line, process, killer, faults, harsh,
                    failed, told>>
    BY <1>4 DEF reportVars, setup, sharedVars, history
  <2>2. ReportTypeOK'
    BY <2>1 DEF ReportInv, ReportTypeOK
  <2>3. Stacks' /\ Begun' /\ CountedOnce'
    BY <2>1 DEF ReportInv, Stacks, Begun, CountedOnce
  <2>4. Calm' /\ Quiet' /\ JumpIsValid'
    BY <2>1 DEF ReportInv, Calm, Quiet, JumpIsValid
  <2>5. QED
    BY <2>2, <2>3, <2>4 DEF ReportInv
<1>5. QED
  BY <1>1, <1>2, <1>3, <1>4 DEF ReportNext

----------------------------------------------------------------------------
(* The invariant from which the promises of the crash reporter follow      *)
(* holds, with any threads, signals, lines, faults and calls of            *)
(* BugReportRegister.                                                      *)
THEOREM ReportInvariance == ReportSpec => []ReportInv
<1>1. QED
  BY ReportStarts, ReportStep, PTL DEF ReportSpec

(* The handler leaves every variable in its type; s_first, which counts    *)
(* without a lock, never exceeds the number of threads.                    *)
THEOREM ReportTypeCorrect == ReportSpec => []ReportTypeOK
<1>1. ReportInv => ReportTypeOK
  BY DEF ReportInv
<1>2. QED
  BY <1>1, ReportInvariance, PTL

(* BR_SignalHandler calls the callbacks before the process dies of the     *)
(* signal of the first fault, as long as the others are in the printing of *)
(* the stack, of another signal that has its handler, and of no other      *)
(* thread, and no write of the stack fails.                                *)
THEOREM ReportOutlivesFaults == ReportSpec => []ReportSurvivesDump
<1>1. ReportInv => ReportSurvivesDump
  BY DEF ReportInv, Quiet, ReportSurvivesDump
<1>2. QED
  BY <1>1, ReportInvariance, PTL

(* The siglongjmp of BR_SignalHandler finds the frame whose sigsetjmp it   *)
(* returns from, unless another thread faults or a write of the stack has  *)
(* failed.                                                                 *)
THEOREM JumpsAreValid == ReportSpec => []JumpIsValid
<1>1. ReportInv => JumpIsValid
  BY DEF ReportInv
<1>2. QED
  BY <1>1, ReportInvariance, PTL
============================================================================
