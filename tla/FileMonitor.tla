---------------------------- MODULE FileMonitor ----------------------------
(***************************************************************************)
(* The class FileMonitor (src/src/app/FileMonitor.hpp): an owner thread    *)
(* calls start, stop and the destructor, any thread registers callbacks,   *)
(* and a monitor thread watches one path through inotify and calls the     *)
(* callbacks.  The kernel and the programs that change the file are the    *)
(* environment, modelled from how the class uses them.                     *)
(*                                                                         *)
(* A step is one critical section of m_fdMutex or m_callbackMutex, or what *)
(* a thread does between two of them; sleeps take no state.  The retry     *)
(* counter of addFileWatch (2^32 - 1 tries, 10 ms apart) is left out: the  *)
(* loop is taken as endless.                                               *)
(***************************************************************************)
EXTENDS Integers, Sequences, FiniteSets, SequencesExt

CONSTANTS
  Callbacks,      \* the std::function objects a client registers
  MaxChanges,     \* bound on the changes of the path
  MaxStarts,      \* bound on the calls of start
  MaxRegistered,  \* bound on the length of m_callbacks
  BatchMax,       \* events that fit in the buffer of one read
  QueueMax        \* fs.inotify.max_queued_events

ASSUME BoundsAssumption ==
  /\ {MaxChanges, MaxStarts, MaxRegistered} \subseteq Nat
  /\ {BatchMax, QueueMax} \subseteq Nat \ {0}

VARIABLES
  m_monitorFuture,  \* whether it holds a future (of the last thread)
  m_monitorFD, m_watchFD,
  m_callbacks,
  opc,        \* where the owner is in start, stop or the destructor
  then,       \* where it goes on after stop
  tpc,        \* where the monitor thread is; "done": the future is ready
  afterAdd,   \* where addFileWatch returns to
  batch,      \* events read and not yet looked at
  isChanged,
  callbacks,  \* notifyChangeCallback's copy, less those already called
  starts,     \* calls of start so far
  instances,  \* inotify instances opened so far; the newest has this number
  kopen,      \* instances that are open
  kwatch,     \* watches of the newest: pairs <<wd, inode>>
  kqueue,     \* its event queue
  nextWd,
  path,       \* the inode the watched path names, 0 if none
  inodes,     \* inodes created so far
  held,       \* an unlinked inode some process still has open, or 0
  changes,    \* changes of the path so far
  armed,      \* changes that had happened when start's watch was added
  seen,       \* changes that had happened when the callbacks were last copied
  overflowed  \* the kernel dropped an event of the current instance

fdVars == <<m_monitorFD, m_watchFD>>
ownerVars == <<m_monitorFuture, opc, then, starts>>
threadVars == <<tpc, afterAdd, batch, isChanged, callbacks>>
kernelVars == <<instances, kopen, kwatch, kqueue, nextWd, overflowed>>
fileVars == <<path, inodes, held, changes>>
ghostVars == <<armed, seen>>
callbackVars == <<m_callbacks>>
vars == <<callbackVars, fdVars, ownerVars, threadVars, kernelVars, fileVars, ghostVars>>

Init ==
  /\ m_monitorFuture = FALSE
  /\ m_monitorFD = -1 /\ m_watchFD = -1
  /\ m_callbacks = <<>>
  /\ opc = "idle" /\ then = "idle" /\ starts = 0
  /\ tpc = "none" /\ afterAdd = "loop"
  /\ batch = <<>> /\ isChanged = FALSE /\ callbacks = <<>>
  /\ instances = 0 /\ kopen = {} /\ kwatch = {} /\ kqueue = <<>> /\ nextWd = 1
  /\ path \in {0, 1} /\ inodes = path /\ held = 0 /\ changes = 0
  /\ armed = 0 /\ seen = 0 /\ overflowed = FALSE

----------------------------------------------------------------------------
(* inotify.  An event equal to the last queued one is merged into it; at a *)
(* full queue the kernel drops the event and queues one overflow event,    *)
(* which carries the watch descriptor -1.                                  *)
Event(wd, mask) == [wd |-> wd, mask |-> mask]

Enqueue(q, e) ==
  IF q # <<>> /\ Last(q) = e THEN q
  ELSE IF Len(q) < QueueMax THEN Append(q, e)
  ELSE IF Len(q) = QueueMax THEN Append(q, Event(-1, "overflow"))
  ELSE q

WdsOf(inode) == {w[1] : w \in {x \in kwatch : x[2] = inode}}

(* What the watches of an inode report, and what is left of them: one that *)
(* is deleted is not watched any more.                                     *)
Report(inode, mask) ==
  LET wd == CHOOSE w \in WdsOf(inode) : TRUE
      dead == mask = "delete_self"
      q == Enqueue(kqueue, Event(wd, mask))
  IN  IF WdsOf(inode) = {}
      THEN UNCHANGED <<kqueue, kwatch, overflowed>>
      ELSE /\ kqueue' = IF dead THEN Enqueue(q, Event(wd, "ignored")) ELSE q
           /\ kwatch' = IF dead THEN {w \in kwatch : w[2] # inode} ELSE kwatch
           /\ overflowed' = (overflowed \/ Len(kqueue') > QueueMax)

(* Mutant: m_monitorFD is reset before the close that uses it.             *)
CloseReset ==
  /\ m_monitorFD' = -1
  /\ m_watchFD' = IF m_monitorFD >= 0 THEN -1 ELSE m_watchFD
  /\ UNCHANGED <<kopen, kwatch, kqueue, instances, nextWd, overflowed>>

(* close(m_monitorFD) drops the instance with its watches and events.      *)
CloseFds ==
  /\ m_monitorFD' = -1
  /\ m_watchFD' = IF m_monitorFD >= 0 THEN -1 ELSE m_watchFD
  /\ kopen' = kopen \ {m_monitorFD}
  /\ kwatch' = IF m_monitorFD >= 0 THEN {} ELSE kwatch
  /\ kqueue' = IF m_monitorFD >= 0 THEN <<>> ELSE kqueue
  /\ UNCHANGED <<instances, nextWd, overflowed>>

----------------------------------------------------------------------------
(* The owner                                                               *)

OwnerCalls(next) ==
  /\ opc = "idle"
  /\ opc' = IF m_monitorFuture THEN "stop" ELSE next
  /\ then' = next
  /\ UNCHANGED <<m_monitorFuture, callbackVars, fdVars, threadVars, kernelVars, fileVars, ghostVars>>

Start == starts < MaxStarts /\ starts' = starts + 1 /\ OwnerCalls("launch")
Stop == m_monitorFuture /\ OwnerCalls("idle") /\ UNCHANGED starts
Destroy == OwnerCalls("gone") /\ UNCHANGED starts

StopClose ==
  /\ opc = "stop"
  /\ CloseFds
  /\ opc' = "stopWait"
  /\ UNCHANGED <<m_monitorFuture, then, starts, callbackVars, threadVars, fileVars, ghostVars>>

(* Mutant: stop closes the descriptors only once, then waits.              *)
StopRetryNever ==
  /\ opc = "stopWait"
  /\ tpc # "done"
  /\ UNCHANGED vars

(* wait_for times out: the owner closes again what may be open by now.     *)
StopRetry ==
  /\ opc = "stopWait"
  /\ tpc # "done"
  /\ opc' = "stop"
  /\ UNCHANGED <<m_monitorFuture, then, starts, callbackVars, fdVars, threadVars, kernelVars, fileVars, ghostVars>>

(* Mutant: stop does not wait for the future.                              *)
StopReturnNoWait ==
  /\ opc = "stopWait"
  /\ m_monitorFuture' = FALSE
  /\ opc' = then
  /\ UNCHANGED <<then, starts, callbackVars, fdVars, threadVars, kernelVars, fileVars, ghostVars>>

StopReturn ==
  /\ opc = "stopWait"
  /\ tpc = "done"
  /\ m_monitorFuture' = FALSE
  /\ tpc' = "none"
  /\ opc' = then
  /\ UNCHANGED <<then, starts, callbackVars, fdVars, afterAdd, batch, isChanged, callbacks,
                 kernelVars, fileVars, ghostVars>>

Launch ==
  /\ opc = "launch"
  /\ m_monitorFuture' = TRUE
  /\ tpc' = "spawned"
  /\ opc' = "waitStarted"
  /\ UNCHANGED <<then, starts, callbackVars, fdVars, afterAdd, batch, isChanged, callbacks,
                 kernelVars, fileVars, ghostVars>>

(* p.get_future().wait() returns: the thread has called p.set_value().     *)
Started ==
  /\ opc = "waitStarted"
  /\ tpc # "spawned"
  /\ opc' = "idle"
  /\ UNCHANGED <<m_monitorFuture, then, starts, callbackVars, fdVars, threadVars, kernelVars, fileVars, ghostVars>>

Owner == StopClose \/ StopRetry \/ StopReturn \/ Launch \/ Started

----------------------------------------------------------------------------
(* The callbacks.  target<void *>() is null for every function that is not *)
(* a void *, so unregisterChangeCallback finds its argument equal to the   *)
(* first element of m_callbacks, whatever it is.                           *)

registerChangeCallback(cb) ==
  /\ Len(m_callbacks) < MaxRegistered
  /\ m_callbacks' = Append(m_callbacks, cb)
  /\ UNCHANGED <<fdVars, ownerVars, threadVars, kernelVars, fileVars, ghostVars>>

unregisterChangeCallback(cb) ==
  /\ m_callbacks # <<>>
  /\ m_callbacks' = Tail(m_callbacks)
  /\ UNCHANGED <<fdVars, ownerVars, threadVars, kernelVars, fileVars, ghostVars>>

----------------------------------------------------------------------------
(* The monitor thread                                                      *)

ThreadBegin ==
  /\ tpc = "spawned"
  /\ tpc' = "open"
  /\ UNCHANGED <<callbackVars, fdVars, ownerVars, afterAdd, batch, isChanged, callbacks,
                 kernelVars, fileVars, ghostVars>>

OpenFails ==
  /\ tpc = "open"
  /\ m_monitorFD' = -1
  /\ tpc' = "done"
  /\ UNCHANGED <<callbackVars, m_watchFD, ownerVars, afterAdd, batch, isChanged, callbacks,
                 kernelVars, fileVars, ghostVars>>

Open ==
  /\ tpc = "open"
  /\ instances' = instances + 1
  /\ m_monitorFD' = instances'
  /\ kopen' = kopen \cup {instances'}
  /\ kwatch' = {} /\ kqueue' = <<>> /\ nextWd' = 1 /\ overflowed' = FALSE
  /\ tpc' = "addFileWatch" /\ afterAdd' = "loop"
  /\ UNCHANGED <<callbackVars, m_watchFD, ownerVars, batch, isChanged, callbacks, fileVars, ghostVars>>

(* addFileWatch, called by the thread at its start and again when the      *)
(* watched file is gone.  When it returns false the thread ends.           *)
AddGivesUp ==
  /\ tpc \in {"addFileWatch", "addTry"}
  /\ m_monitorFD < 0
  /\ tpc' = "done"
  /\ afterAdd' = "loop" /\ batch' = <<>> /\ isChanged' = FALSE
  /\ UNCHANGED <<callbackVars, fdVars, ownerVars, callbacks, kernelVars, fileVars, ghostVars>>

AddRemovesOld ==
  /\ tpc = "addFileWatch"
  /\ m_monitorFD >= 0
  /\ tpc' = "addTry"
  /\ m_watchFD' = -1
  /\ kwatch' = {w \in kwatch : w[1] # m_watchFD}
  /\ LET removed == \E w \in kwatch : w[1] = m_watchFD
     IN  kqueue' = IF removed THEN Enqueue(kqueue, Event(m_watchFD, "ignored")) ELSE kqueue
  /\ overflowed' = (overflowed \/ Len(kqueue') > QueueMax)
  /\ UNCHANGED <<callbackVars, m_monitorFD, ownerVars, afterAdd, batch, isChanged, callbacks,
                 instances, kopen, nextWd, fileVars, ghostVars>>

(* inotify_add_watch fails while the path names no file: the thread sleeps *)
(* and tries again.                                                        *)
AddWatches ==
  /\ tpc = "addTry"
  /\ m_monitorFD >= 0
  /\ path # 0
  /\ m_watchFD' = nextWd
  /\ nextWd' = nextWd + 1
  /\ kwatch' = kwatch \cup {<<nextWd, path>>}
  /\ tpc' = afterAdd
  /\ afterAdd' = "loop"
  /\ armed' = IF afterAdd = "loop" THEN changes ELSE armed
  /\ UNCHANGED <<callbackVars, m_monitorFD, ownerVars, batch, isChanged, callbacks,
                 instances, kopen, kqueue, overflowed, fileVars, seen>>

LoopBreaks ==
  /\ tpc = "loop"
  /\ m_monitorFD < 0 \/ m_watchFD < 0
  /\ tpc' = "cleanup"
  /\ UNCHANGED <<callbackVars, fdVars, ownerVars, afterAdd, batch, isChanged, callbacks,
                 kernelVars, fileVars, ghostVars>>

(* read returns as many whole events as fit; with none it fails with       *)
(* EAGAIN and the loop tries again.                                        *)
Read ==
  /\ tpc = "loop"
  /\ m_monitorFD >= 0 /\ m_watchFD >= 0
  /\ \E n \in 1 .. BatchMax :
       /\ n <= Len(kqueue)
       /\ batch' = SubSeq(kqueue, 1, n)
       /\ kqueue' = SubSeq(kqueue, n + 1, Len(kqueue))
  /\ tpc' = "events"
  /\ UNCHANGED <<callbackVars, fdVars, ownerVars, afterAdd, isChanged, callbacks,
                 instances, kopen, kwatch, nextWd, overflowed, fileVars, ghostVars>>

(* Mutant: only a renamed file is watched anew, not a deleted one.         *)
HandleMoveOnly ==
  /\ tpc = "events"
  /\ batch # <<>>
  /\ batch' = Tail(batch)
  /\ LET e == Head(batch)
         counts == e.wd = m_watchFD /\ e.mask # "ignored"
         gone == counts /\ e.mask = "move_self"
     IN  /\ isChanged' = (isChanged \/ counts)
         /\ tpc' = IF gone THEN "addFileWatch" ELSE tpc
         /\ afterAdd' = IF gone THEN "events" ELSE afterAdd
  /\ UNCHANGED <<callbackVars, fdVars, ownerVars, callbacks, kernelVars, fileVars, ghostVars>>

HandleEvent ==
  /\ tpc = "events"
  /\ batch # <<>>
  /\ batch' = Tail(batch)
  /\ LET e == Head(batch)
         counts == e.wd = m_watchFD /\ e.mask # "ignored"
         gone == counts /\ e.mask \in {"delete_self", "move_self"}
     IN  /\ isChanged' = (isChanged \/ counts)
         /\ tpc' = IF gone THEN "addFileWatch" ELSE tpc
         /\ afterAdd' = IF gone THEN "events" ELSE afterAdd
  /\ UNCHANGED <<callbackVars, fdVars, ownerVars, callbacks, kernelVars, fileVars, ghostVars>>

EventsDone ==
  /\ tpc = "events"
  /\ batch = <<>>
  /\ tpc' = IF isChanged THEN "notify" ELSE "loop"
  /\ isChanged' = FALSE
  /\ UNCHANGED <<callbackVars, fdVars, ownerVars, afterAdd, batch, callbacks,
                 kernelVars, fileVars, ghostVars>>

CopyCallbacks ==
  /\ tpc = "notify"
  /\ callbacks' = m_callbacks
  /\ tpc' = "calling"
  /\ seen' = changes
  /\ UNCHANGED <<callbackVars, fdVars, ownerVars, afterAdd, batch, isChanged, kernelVars, fileVars, armed>>

CallbackReturns ==
  /\ tpc = "calling"
  /\ IF callbacks = <<>>
     THEN tpc' = "loop" /\ UNCHANGED callbacks
     ELSE callbacks' = Tail(callbacks) /\ UNCHANGED tpc
  /\ UNCHANGED <<callbackVars, fdVars, ownerVars, afterAdd, batch, isChanged, kernelVars, fileVars, ghostVars>>

Cleanup ==
  /\ tpc = "cleanup"
  /\ CloseFds
  /\ tpc' = "done"
  /\ UNCHANGED <<callbackVars, ownerVars, afterAdd, batch, isChanged, callbacks, fileVars, ghostVars>>

MonitorThread ==
  \/ ThreadBegin \/ OpenFails \/ Open
  \/ AddGivesUp \/ AddRemovesOld \/ AddWatches
  \/ LoopBreaks \/ Read \/ HandleEvent \/ EventsDone
  \/ CopyCallbacks \/ CallbackReturns \/ Cleanup

----------------------------------------------------------------------------
(* Other programs and the file.  An inode that loses its name reports      *)
(* delete_self when nobody has it open any more.                           *)

Change ==
  /\ changes < MaxChanges
  /\ changes' = changes + 1
  /\ UNCHANGED <<callbackVars, fdVars, ownerVars, threadVars, instances, kopen, nextWd, ghostVars>>

Modify ==
  /\ Change
  /\ path # 0
  /\ Report(path, "modify")
  /\ UNCHANGED <<path, inodes, held>>

Create ==
  /\ Change
  /\ path = 0
  /\ path' = inodes + 1 /\ inodes' = path'
  /\ UNCHANGED <<held, kwatch, kqueue, overflowed>>

(* The path loses its file, and at once gets a new one (a rename over it)  *)
(* or none (unlink).                                                       *)
Unlink ==
  /\ Change
  /\ path # 0
  /\ \/ path' = 0 /\ UNCHANGED inodes
     \/ path' = inodes + 1 /\ inodes' = path'
  /\ \/ Report(path, "delete_self") /\ UNCHANGED held
     \/ held = 0 /\ held' = path /\ Report(path, "attrib")

Release ==
  /\ held # 0
  /\ held' = 0
  /\ Report(held, "delete_self")
  /\ UNCHANGED <<callbackVars, fdVars, ownerVars, threadVars, instances, kopen, nextWd,
                 path, inodes, changes, ghostVars>>

RenameAway ==
  /\ Change
  /\ path # 0
  /\ path' = 0
  /\ Report(path, "move_self")
  /\ UNCHANGED <<inodes, held>>

File == Modify \/ Create \/ Unlink \/ Release \/ RenameAway

----------------------------------------------------------------------------
Next ==
  \/ Start \/ Stop \/ Destroy
  \/ Owner
  \/ MonitorThread
  \/ File
  \/ \E cb \in Callbacks : registerChangeCallback(cb) \/ unregisterChangeCallback(cb)

(* The two threads are scheduled, the callbacks return, and a process that *)
(* has an unlinked file open closes it some day.  Nobody has to change the *)
(* file or to call anything.                                               *)
Fairness == WF_vars(Owner) /\ WF_vars(MonitorThread) /\ WF_vars(Release)

Spec == Init /\ [][Next]_vars
FairSpec == Spec /\ Fairness

----------------------------------------------------------------------------
Masks == {"modify", "attrib", "delete_self", "move_self", "ignored", "overflow"}
Events == [wd : -1 .. MaxChanges + 2, mask : Masks]

(* Every variable holds a value of its type.                               *)
TypeOK ==
  /\ m_monitorFuture \in BOOLEAN
  /\ m_monitorFD \in {-1} \cup 1 .. instances
  /\ m_watchFD \in {-1} \cup 1 .. nextWd - 1
  /\ m_callbacks \in Seq(Callbacks) /\ callbacks \in Seq(Callbacks)
  /\ opc \in {"idle", "stop", "stopWait", "launch", "waitStarted", "gone"}
  /\ then \in {"idle", "launch", "gone"}
  /\ tpc \in {"none", "spawned", "open", "addFileWatch", "addTry", "loop", "events", "notify",
              "calling", "cleanup", "done"}
  /\ afterAdd \in {"loop", "events"}
  /\ batch \in Seq(Events) /\ Len(batch) <= BatchMax /\ isChanged \in BOOLEAN
  /\ starts \in 0 .. MaxStarts /\ instances \in 0 .. starts /\ kopen \in SUBSET (1 .. instances)
  /\ kwatch \in SUBSET (Nat \X (1 .. inodes)) /\ nextWd \in Nat
  /\ kqueue \in Seq(Events) /\ Len(kqueue) <= QueueMax + 1
  /\ path \in 0 .. inodes /\ held \in 0 .. inodes /\ inodes \in 0 .. MaxChanges + 1
  /\ changes \in 0 .. MaxChanges /\ armed \in 0 .. changes /\ seen \in 0 .. changes
  /\ overflowed \in BOOLEAN

(* The inotify instance the object refers to is the only one open: neither *)
(* the owner nor the thread leaks one, closes one twice, or goes on using  *)
(* one the other has closed.                                               *)
OneInstance == kopen = {m_monitorFD} \ {-1}

(* Once stop has returned the thread is over and the object holds nothing: *)
(* no callback runs any more, also if stop came before the thread had      *)
(* opened anything.                                                        *)
StoppedIsClean ==
  ~m_monitorFuture => tpc = "none" /\ m_monitorFD = -1 /\ m_watchFD = -1 /\ kopen = {}

(* stop, and so start and the destructor, returns.                         *)
StopReturns == opc \in {"stop", "stopWait"} ~> opc \in {"idle", "launch", "gone"}

Monitoring == tpc \in {"loop", "events", "notify", "calling"} \/ afterAdd = "events"

(* A change of the path made while it is watched is followed by a round of *)
(* callbacks, also if the file was replaced, renamed or unlinked while     *)
(* open: unless the monitor is stopped, the file never comes back, or the  *)
(* kernel's queue overflowed (the overflow event is taken for another      *)
(* watch's and skipped).                                                   *)
ChangeNotified ==
  \A n \in 1 .. MaxChanges :
    (changes = n /\ Monitoring /\ armed < n)
      ~> (seen >= n \/ opc # "idle" \/ overflowed \/ [](path = 0))

=============================================================================
