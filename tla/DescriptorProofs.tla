-------------------------- MODULE DescriptorProofs --------------------------
(***************************************************************************)
(* Theorems about two components that must close what they open: about     *)
(* FileMonitor for any callbacks, any number of starts and of changes, and *)
(* any length of the kernel's queue, and about FdPassing for any clients   *)
(* and any number of crashes.                                              *)
(***************************************************************************)
EXTENDS FileMonitor, FdPassing, SequenceTheorems, TLAPS

(* There is a thread exactly while the object holds its future, and the    *)
(* owner waits only for a thread there is.                                 *)
Phases ==
  /\ m_monitorFuture <=> tpc # "none"
  /\ opc = "launch" => ~m_monitorFuture
  /\ opc \in {"stop", "stopWait", "waitStarted"} => m_monitorFuture

(* Before its thread has opened an instance, and after it has ended, the   *)
(* object refers to none; and without an instance to no watch.             *)
Closed ==
  /\ tpc \in {"none", "spawned", "open", "done"} => m_monitorFD = -1
  /\ m_monitorFD = -1 => m_watchFD = -1

(* Each call of start opens one instance at most, some time later.         *)
ThreadOpens == tpc \in {"spawned", "open"}
OwnerLaunches == opc = "launch" \/ (opc \in {"stop", "stopWait"} /\ then = "launch")
Counted ==
  instances + (IF ThreadOpens THEN 1 ELSE 0) + (IF OwnerLaunches THEN 1 ELSE 0) <= starts

(* The path names the newest inode or none, and an inode that was unlinked *)
(* is not the one it names.                                                *)
Newest ==
  /\ path \in {0, inodes} /\ inodes <= changes + 1
  /\ held # 0 /\ path # 0 => held < inodes

(* A file is watched anew only after it has been replaced, so there are no *)
(* more watches of an instance than there have been files.                 *)
Gone(e) == e.mask \in {"delete_self", "move_self"}
Dated(q, n, p) ==
  \A i \in DOMAIN q :
    q[i].wd <= n /\ (Gone(q[i]) => q[i].wd >= 0 /\ (p # 0 => q[i].wd < n))
Rewatched ==
  /\ m_watchFD \in {-1, nextWd - 1} /\ nextWd \in 1 .. inodes + 1
  /\ tpc \in {"addFileWatch", "addTry"} /\ path # 0 => nextWd - 1 < inodes
  /\ \A w \in kwatch : w[1] <= w[2]
  /\ Dated(kqueue, inodes, path) /\ Dated(batch, inodes, path)

IInv == TypeOK /\ Phases /\ Closed /\ Counted /\ OneInstance /\ Newest /\ Rewatched

----------------------------------------------------------------------------
(* The kernel's queue.                                                     *)
LEMMA EnqueueKeeps ==
  ASSUME NEW T, NEW q \in Seq(T), Len(q) <= QueueMax + 1, NEW e \in T, Event(-1, "overflow") \in T
  PROVE  /\ Enqueue(q, e) \in Seq(T) /\ Len(Enqueue(q, e)) <= QueueMax + 1
         /\ \A i \in DOMAIN Enqueue(q, e) :
              \/ Enqueue(q, e)[i] \in {e, Event(-1, "overflow")}
              \/ i \in DOMAIN q /\ Enqueue(q, e)[i] = q[i]
<1> USE BoundsAssumption
<1>1. ASSUME NEW x \in T
      PROVE  /\ Append(q, x) \in Seq(T) /\ Len(Append(q, x)) = Len(q) + 1
             /\ \A i \in DOMAIN Append(q, x) : Append(q, x)[i] = x \/ (i \in DOMAIN q /\ Append(q, x)[i] = q[i])
  <2>1. DOMAIN q = 1 .. Len(q) /\ Len(q) \in Nat
    OBVIOUS
  <2>2. /\ Append(q, x) \in Seq(T) /\ Len(Append(q, x)) = Len(q) + 1
        /\ \A i \in 1 .. Len(q) : Append(q, x)[i] = q[i]
        /\ Append(q, x)[Len(q) + 1] = x
    BY AppendProperties
  <2>3. DOMAIN Append(q, x) = 1 .. Len(q) + 1
    BY <2>1, <2>2
  <2>4. \A i \in 1 .. Len(q) + 1 : i \in 1 .. Len(q) \/ i = Len(q) + 1
    BY <2>1
  <2>5. QED
    BY <2>1, <2>2, <2>3, <2>4
<1>2. Len(q) \in Nat /\ Event(-1, "overflow") \in T
  OBVIOUS
<1>3. CASE Enqueue(q, e) = q
  BY <1>3
<1>4. CASE Enqueue(q, e) = Append(q, e) /\ Len(q) < QueueMax
  BY <1>1, <1>2, <1>4
<1>5. CASE Enqueue(q, e) = Append(q, Event(-1, "overflow")) /\ Len(q) = QueueMax
  BY <1>1, <1>2, <1>5
<1>6. QED
  BY <1>3, <1>4, <1>5 DEF Enqueue

(* What the file has done stays dated while it goes on.                    *)
FileGoesOn == inodes \in Nat /\ inodes' \in Nat /\ inodes' >= inodes /\ (path' # 0 => path # 0 \/ inodes' > inodes)

LEMMA DatedStays ==
  ASSUME NEW q \in Seq(Events), Dated(q, inodes, path), FileGoesOn
  PROVE  Dated(q, inodes', path')
<1>1. \A i \in DOMAIN q : q[i].wd \in Int
  <2>1. \A i \in DOMAIN q : q[i] \in Events
    OBVIOUS
  <2>2. QED
    BY <2>1, BoundsAssumption DEF Events
<1>2. QED
  BY <1>1 DEF Dated, FileGoesOn

LEMMA EnqueueDated ==
  ASSUME IInv, FileGoesOn, NEW wd \in Nat, wd <= inodes, NEW mask \in Masks,
         mask \in {"delete_self", "move_self"} /\ path' # 0 => wd < inodes',
         NEW q \in Seq(Events), Len(q) <= QueueMax + 1, Dated(q, inodes', path')
  PROVE  /\ Enqueue(q, Event(wd, mask)) \in Seq(Events)
         /\ Len(Enqueue(q, Event(wd, mask))) <= QueueMax + 1
         /\ Dated(Enqueue(q, Event(wd, mask)), inodes', path')
<1> DEFINE e == Event(wd, mask)
<1>1. e \in Events /\ Event(-1, "overflow") \in Events
  <2>1. MaxChanges \in Nat /\ changes \in 0 .. MaxChanges /\ inodes <= changes + 1 /\ inodes \in Nat
    BY BoundsAssumption DEF IInv, TypeOK, Newest, FileGoesOn
  <2>2. wd \in -1 .. MaxChanges + 2 /\ -1 \in -1 .. MaxChanges + 2
    BY <2>1
  <2>3. QED
    BY <2>2 DEF Event, Events, Masks
<1>2. /\ e.wd <= inodes' /\ e.wd >= 0 /\ (Gone(e) /\ path' # 0 => e.wd < inodes')
      /\ Event(-1, "overflow").wd <= inodes' /\ ~Gone(Event(-1, "overflow"))
  BY DEF Event, Gone, FileGoesOn
<1> HIDE DEF e
<1>3. /\ Enqueue(q, e) \in Seq(Events) /\ Len(Enqueue(q, e)) <= QueueMax + 1
      /\ \A i \in DOMAIN Enqueue(q, e) :
           \/ Enqueue(q, e)[i] \in {e, Event(-1, "overflow")}
           \/ i \in DOMAIN q /\ Enqueue(q, e)[i] = q[i]
  BY <1>1, EnqueueKeeps
<1>4. Dated(Enqueue(q, e), inodes', path')
  BY <1>2, <1>3 DEF Dated
<1>5. QED
  BY <1>3, <1>4 DEF e

LEMMA ReportDated ==
  ASSUME IInv, FileGoesOn, NEW inode \in 1 .. inodes,
         NEW mask \in {"modify", "attrib", "delete_self", "move_self"}, Report(inode, mask),
         mask \in {"delete_self", "move_self"} /\ path' # 0 => inode < inodes'
  PROVE  /\ kqueue' \in Seq(Events) /\ Len(kqueue') <= QueueMax + 1 /\ overflowed' \in BOOLEAN
         /\ kwatch' \subseteq kwatch /\ Dated(kqueue', inodes', path')
<1> DEFINE wd == CHOOSE w \in WdsOf(inode) : TRUE
           q == Enqueue(kqueue, Event(wd, mask))
<1>1. kqueue \in Seq(Events) /\ Len(kqueue) <= QueueMax + 1
  BY DEF IInv, TypeOK
<1>2. CASE WdsOf(inode) = {}
  <2>1. UNCHANGED <<kqueue, kwatch, overflowed>>
    BY <1>2 DEF Report
  <2>2. Dated(kqueue, inodes, path)
    BY DEF IInv, Rewatched
  <2>3. Dated(kqueue, inodes', path')
    BY <1>1, <2>2, DatedStays
  <2>4. QED
    BY <1>1, <2>1, <2>3 DEF IInv, TypeOK
<1>3. CASE WdsOf(inode) # {}
  <2>1. wd \in WdsOf(inode)
    BY <1>3
  <2>2. wd \in Nat /\ wd <= inode
    BY <2>1 DEF WdsOf, IInv, TypeOK, Rewatched
  <2>3. /\ kqueue' = IF mask = "delete_self" THEN Enqueue(q, Event(wd, "ignored")) ELSE q
        /\ kwatch' = IF mask = "delete_self" THEN {w \in kwatch : w[2] # inode} ELSE kwatch
        /\ overflowed' = (overflowed \/ Len(kqueue') > QueueMax)
    BY <1>3 DEF Report
  <2> HIDE DEF wd
  <2>4. wd <= inodes /\ (mask \in {"delete_self", "move_self"} /\ path' # 0 => wd < inodes')
    BY <2>2 DEF FileGoesOn
  <2>5. q \in Seq(Events) /\ Len(q) <= QueueMax + 1 /\ Dated(q, inodes', path')
    <3>1. Dated(kqueue, inodes, path)
      BY DEF IInv, Rewatched
    <3>2. Dated(kqueue, inodes', path')
      BY <1>1, <3>1, DatedStays
    <3>3. QED
      BY <1>1, <2>2, <2>4, <3>2, EnqueueDated DEF Masks
  <2> HIDE DEF q
  <2>6. CASE mask = "delete_self"
    <3>1. /\ Enqueue(q, Event(wd, "ignored")) \in Seq(Events)
          /\ Len(Enqueue(q, Event(wd, "ignored"))) <= QueueMax + 1
          /\ Dated(Enqueue(q, Event(wd, "ignored")), inodes', path')
      BY <2>2, <2>4, <2>5, EnqueueDated DEF Masks
    <3>2. QED
      BY <2>3, <2>6, <3>1 DEF IInv, TypeOK
  <2>7. CASE mask # "delete_self"
    BY <2>3, <2>5, <2>7 DEF IInv, TypeOK
  <2>8. QED
    BY <2>6, <2>7
<1>4. QED
  BY <1>2, <1>3

(* What the thread takes from the queue, or puts there itself.             *)
LEMMA AddRemovesOldKeeps ==
  ASSUME IInv, AddRemovesOld
  PROVE  kqueue' \in Seq(Events) /\ Len(kqueue') <= QueueMax + 1 /\ Dated(kqueue', inodes, path)
<1>1. /\ kqueue \in Seq(Events) /\ Len(kqueue) <= QueueMax + 1 /\ Dated(kqueue, inodes, path)
      /\ UNCHANGED <<inodes, path>> /\ inodes \in Nat
  BY DEF IInv, TypeOK, Newest, Rewatched, AddRemovesOld, fileVars
<1>2. CASE kqueue' = kqueue
  BY <1>1, <1>2
<1>3. CASE (\E w \in kwatch : w[1] = m_watchFD) /\ kqueue' = Enqueue(kqueue, Event(m_watchFD, "ignored"))
  <2>1. m_watchFD \in Nat /\ m_watchFD <= inodes
    <3>1. m_watchFD \in Nat
      BY <1>3 DEF IInv, TypeOK
    <3>2. QED
      BY <1>1, <3>1 DEF IInv, Rewatched
  <2>2. FileGoesOn
    BY <1>1 DEF FileGoesOn
  <2>3. Dated(kqueue, inodes', path')
    BY <1>1
  <2>4. /\ Enqueue(kqueue, Event(m_watchFD, "ignored")) \in Seq(Events)
        /\ Len(Enqueue(kqueue, Event(m_watchFD, "ignored"))) <= QueueMax + 1
        /\ Dated(Enqueue(kqueue, Event(m_watchFD, "ignored")), inodes', path')
    BY <1>1, <2>1, <2>2, <2>3, EnqueueDated DEF Masks
  <2>5. QED
    BY <1>1, <1>3, <2>4
<1>4. QED
  BY <1>2, <1>3 DEF AddRemovesOld

LEMMA ReadKeeps ==
  ASSUME IInv, Read
  PROVE  /\ batch' \in Seq(Events) /\ Len(batch') <= BatchMax /\ Dated(batch', inodes, path)
         /\ kqueue' \in Seq(Events) /\ Len(kqueue') <= QueueMax + 1 /\ Dated(kqueue', inodes, path)
<1>1. kqueue \in Seq(Events) /\ Len(kqueue) \in Nat /\ Len(kqueue) <= QueueMax + 1 /\ Dated(kqueue, inodes, path)
  BY DEF IInv, TypeOK, Rewatched
<1>2. PICK n \in 1 .. BatchMax : /\ n <= Len(kqueue)
                                 /\ batch' = SubSeq(kqueue, 1, n)
                                 /\ kqueue' = SubSeq(kqueue, n + 1, Len(kqueue))
  BY DEF Read
<1>3. /\ batch' \in Seq(Events) /\ Len(batch') = n /\ DOMAIN batch' = 1 .. n
      /\ \A i \in 1 .. n : batch'[i] = kqueue[i] /\ i \in DOMAIN kqueue
  BY <1>1, <1>2, BoundsAssumption
<1>4. /\ kqueue' \in Seq(Events) /\ Len(kqueue') = Len(kqueue) - n /\ DOMAIN kqueue' = 1 .. Len(kqueue) - n
      /\ \A i \in 1 .. Len(kqueue) - n : kqueue'[i] = kqueue[i + n] /\ i + n \in DOMAIN kqueue
  BY <1>1, <1>2, BoundsAssumption
<1>5. Dated(batch', inodes, path) /\ Dated(kqueue', inodes, path)
  BY <1>1, <1>3, <1>4 DEF Dated
<1>6. QED
  BY <1>1, <1>3, <1>4, <1>5, BoundsAssumption

LEMMA HandleEventKeeps ==
  ASSUME IInv, HandleEvent
  PROVE  /\ batch' \in Seq(Events) /\ Len(batch') <= BatchMax /\ Dated(batch', inodes, path)
         /\ (Gone(Head(batch)) => Head(batch).wd >= 0 /\ (path # 0 => Head(batch).wd < inodes))
<1>1. /\ batch \in Seq(Events) /\ batch # <<>> /\ batch' = Tail(batch)
      /\ Len(batch) \in Nat /\ Len(batch) <= BatchMax /\ Dated(batch, inodes, path)
  BY DEF IInv, TypeOK, Rewatched, HandleEvent
<1>2. /\ Tail(batch) \in Seq(Events) /\ Len(Tail(batch)) = Len(batch) - 1 /\ Head(batch) = batch[1]
      /\ DOMAIN Tail(batch) = 1 .. Len(batch) - 1 /\ DOMAIN batch = 1 .. Len(batch) /\ Len(batch) >= 1
      /\ \A i \in 1 .. Len(batch) - 1 : Tail(batch)[i] = batch[i + 1]
  BY <1>1, HeadTailProperties, EmptySeq
<1>3. Dated(Tail(batch), inodes, path)
  BY <1>1, <1>2 DEF Dated
<1>4. QED
  BY <1>1, <1>2, <1>3, BoundsAssumption DEF Dated

(* What the file does.                                                     *)
LEMMA FileBounds ==
  ASSUME IInv, FileGoesOn, Newest', changes' \in 0 .. MaxChanges
  PROVE  /\ inodes' >= inodes /\ inodes \in Nat /\ inodes' \in 0 .. MaxChanges + 1 /\ changes \in Nat
         /\ nextWd \in 1 .. inodes' + 1
<1>1. MaxChanges \in Nat /\ changes \in Nat /\ inodes \in Nat /\ nextWd \in Int /\ 1 <= nextWd /\ nextWd <= inodes + 1
  BY BoundsAssumption DEF IInv, TypeOK, Rewatched
<1>2. PICK i \in Nat : i = inodes'
  BY DEF FileGoesOn
<1>3. PICK c \in Nat : c = changes'
  BY <1>1
<1>4. i <= c + 1 /\ c <= MaxChanges /\ inodes <= i
  <2>1. i <= c + 1
    BY <1>2, <1>3 DEF Newest
  <2>2. c <= MaxChanges
    BY <1>1, <1>3
  <2>3. inodes <= i
    BY <1>2 DEF FileGoesOn
  <2>4. QED
    BY <2>1, <2>2, <2>3
<1>5. i >= inodes /\ i \in 0 .. MaxChanges + 1 /\ nextWd \in 1 .. i + 1
  BY <1>1, <1>4
<1>6. QED
  BY <1>1, <1>2, <1>5

LEMMA FileKeeps ==
  ASSUME IInv, FileGoesOn, Newest', changes' \in 0 .. MaxChanges, changes <= changes',
         path' \in 0 .. inodes', held' \in 0 .. inodes',
         kqueue' \in Seq(Events), Len(kqueue') <= QueueMax + 1, overflowed' \in BOOLEAN,
         kwatch' \subseteq kwatch, Dated(kqueue', inodes', path'),
         UNCHANGED <<callbackVars, fdVars, ownerVars, threadVars, instances, kopen, nextWd, ghostVars>>
  PROVE  IInv'
<1> USE BoundsAssumption DEF IInv, callbackVars, fdVars, ownerVars, threadVars, ghostVars
<1>1. /\ inodes' >= inodes /\ inodes \in Nat /\ inodes' \in 0 .. MaxChanges + 1 /\ changes \in Nat
      /\ nextWd \in 1 .. inodes' + 1
  BY FileBounds
<1>2. TypeOK'
  <2>1. kwatch' \subseteq Nat \X (1 .. inodes')
    <3>1. kwatch \subseteq Nat \X (1 .. inodes)
      BY DEF TypeOK
    <3>2. 1 .. inodes \subseteq 1 .. inodes'
      BY <1>1
    <3>3. QED
      BY <3>1, <3>2
  <2>2. armed' \in 0 .. changes' /\ seen' \in 0 .. changes' /\ changes' \in 0 .. MaxChanges
    BY <1>1 DEF TypeOK
  <2>3. QED
    BY <1>1, <2>1, <2>2 DEF TypeOK
<1>3. Phases' /\ Closed' /\ Counted' /\ OneInstance'
  BY DEF Phases, Closed, Counted, ThreadOpens, OwnerLaunches, OneInstance
<1>4. Rewatched'
  <2>1. Dated(batch', inodes', path')
    <3>1. batch \in Seq(Events) /\ Dated(batch, inodes, path)
      BY DEF TypeOK, Rewatched
    <3>2. QED
      BY <3>1, DatedStays
  <2>2. nextWd \in 1 .. inodes' + 1 /\ m_watchFD \in {-1, nextWd - 1} /\ \A w \in kwatch' : w[1] <= w[2]
    BY <1>1 DEF Rewatched
  <2>3. tpc \in {"addFileWatch", "addTry"} /\ path' # 0 => nextWd - 1 < inodes'
    BY <1>1 DEF Rewatched, FileGoesOn
  <2>4. QED
    BY <2>1, <2>2, <2>3 DEF Rewatched
<1>5. QED
  BY <1>2, <1>3, <1>4

LEMMA FileIInv ==
  ASSUME IInv, File
  PROVE  IInv'
<1> USE BoundsAssumption
<1>1. /\ inodes \in Nat /\ path \in {0, inodes} /\ inodes <= changes + 1 /\ held \in 0 .. inodes
      /\ held # 0 /\ path # 0 => held < inodes
      /\ changes \in 0 .. MaxChanges
      /\ kqueue \in Seq(Events) /\ Len(kqueue) <= QueueMax + 1 /\ overflowed \in BOOLEAN
      /\ Dated(kqueue, inodes, path)
  BY DEF IInv, TypeOK, Newest, Rewatched
<1>2. ASSUME Change PROVE changes' = changes + 1 /\ changes' \in 0 .. MaxChanges /\ changes <= changes'
  BY <1>1, <1>2 DEF Change
<1>3. CASE Modify
  <2>1. FileGoesOn /\ Newest' /\ path \in 1 .. inodes /\ UNCHANGED <<path, inodes, held>>
    BY <1>1, <1>2, <1>3 DEF Modify, FileGoesOn, Newest
  <2>2. QED
    BY <1>1, <1>2, <1>3, <2>1, ReportDated, FileKeeps DEF Modify, Change
<1>4. CASE Create
  <2>1. FileGoesOn /\ Newest' /\ path' \in 0 .. inodes' /\ UNCHANGED <<held, kwatch, kqueue, overflowed>>
    BY <1>1, <1>2, <1>4 DEF Create, FileGoesOn, Newest
  <2>2. Dated(kqueue, inodes', path')
    BY <1>1, <2>1, DatedStays
  <2>3. held \in 0 .. inodes'
    BY <1>1, <2>1 DEF FileGoesOn
  <2>4. QED
    BY <1>1, <1>2, <1>4, <2>1, <2>2, <2>3, FileKeeps DEF Create, Change
<1>5. CASE Unlink
  <2>1. /\ path \in 1 .. inodes /\ path = inodes /\ inodes' \in {inodes, inodes + 1}
        /\ \/ path' = 0 /\ inodes' = inodes
           \/ path' = inodes' /\ inodes' = inodes + 1
        /\ held' \in {held, path}
    BY <1>1, <1>5 DEF Unlink
  <2>2. FileGoesOn /\ Newest' /\ path' \in 0 .. inodes' /\ held' \in 0 .. inodes'
    BY <1>1, <1>2, <1>5, <2>1 DEF Unlink, FileGoesOn, Newest
  <2>3. path' # 0 => path < inodes'
    BY <1>1, <2>1
  <2>4. \E mask \in {"delete_self", "attrib"} : Report(path, mask)
    BY <1>5 DEF Unlink
  <2>5. QED
    BY <1>2, <1>5, <2>1, <2>2, <2>3, <2>4, ReportDated, FileKeeps DEF Unlink, Change
<1>6. CASE Release
  <2>1. FileGoesOn /\ Newest' /\ held \in 1 .. inodes /\ UNCHANGED <<path, inodes, changes>> /\ held' = 0
    BY <1>1, <1>6 DEF Release, FileGoesOn, Newest
  <2>2. path' # 0 => held < inodes'
    BY <1>1, <2>1
  <2>3. path' \in 0 .. inodes' /\ held' \in 0 .. inodes' /\ changes' \in 0 .. MaxChanges /\ changes <= changes'
    BY <1>1, <2>1
  <2>4. QED
    BY <1>6, <2>1, <2>2, <2>3, ReportDated, FileKeeps DEF Release
<1>7. CASE RenameAway
  <2>1. FileGoesOn /\ Newest' /\ path \in 1 .. inodes /\ UNCHANGED <<inodes, held>> /\ path' = 0
    BY <1>1, <1>2, <1>7 DEF RenameAway, FileGoesOn, Newest
  <2>2. path' \in 0 .. inodes' /\ held' \in 0 .. inodes'
    BY <1>1, <2>1
  <2>3. QED
    BY <1>2, <1>7, <2>1, <2>2, ReportDated, FileKeeps DEF RenameAway, Change
<1>8. QED
  BY <1>3, <1>4, <1>5, <1>6, <1>7 DEF File

LEMMA OwnerCallsIInv ==
  ASSUME IInv, NEW next \in {"idle", "launch", "gone"}, OwnerCalls(next),
         IF next = "launch" THEN starts < MaxStarts /\ starts' = starts + 1 ELSE UNCHANGED starts
  PROVE  IInv'
<1> USE BoundsAssumption DEF IInv
<1>1. TypeOK'
  <2>1. /\ UNCHANGED <<m_monitorFuture, m_callbacks, m_monitorFD, m_watchFD, tpc, afterAdd, batch,
                      isChanged, callbacks, instances, kopen, kwatch, nextWd, kqueue, overflowed,
                      path, held, inodes, changes, armed, seen>>
        /\ opc' \in {"stop", next} /\ then' = next
    BY DEF OwnerCalls, callbackVars, fdVars, threadVars, kernelVars, fileVars, ghostVars
  <2>2. starts' \in 0 .. MaxStarts /\ instances \in 0 .. starts'
    BY DEF TypeOK
  <2>3. QED
    BY <2>1, <2>2 DEF TypeOK
<1>2. Phases'
  BY DEF OwnerCalls, threadVars, Phases
<1>3. Counted'
  BY DEF OwnerCalls, threadVars, kernelVars, TypeOK, Counted, ThreadOpens, OwnerLaunches
<1>4. Closed' /\ OneInstance' /\ Newest' /\ Rewatched'
  BY DEF OwnerCalls, fdVars, threadVars, kernelVars, fileVars, Closed, OneInstance, Newest,
     Rewatched
<1>5. QED
  BY <1>1, <1>2, <1>3, <1>4

LEMMA StopCloseIInv ==
  ASSUME IInv, StopClose
  PROVE  IInv'
<1> USE BoundsAssumption DEF IInv
<1>1. TypeOK'
  BY DEF StopClose, CloseFds, callbackVars, threadVars, fileVars, ghostVars, TypeOK
<1>2. Phases'
  BY DEF StopClose, threadVars, Phases
<1>3. Closed'
  BY DEF StopClose, CloseFds, TypeOK, Closed
<1>4. Counted'
  BY DEF StopClose, CloseFds, threadVars, Counted, ThreadOpens, OwnerLaunches
<1>5. OneInstance'
  BY DEF StopClose, CloseFds, OneInstance
<1>6. Rewatched'
  BY DEF StopClose, CloseFds, threadVars, fileVars, Rewatched, Dated
<1>7. Newest'
  BY DEF StopClose, fileVars, Newest
<1>8. QED
  BY <1>1, <1>2, <1>3, <1>4, <1>5, <1>6, <1>7

LEMMA StopRetryIInv ==
  ASSUME IInv, StopRetry
  PROVE  IInv'
<1> USE BoundsAssumption DEF IInv
<1>1. TypeOK'
  BY DEF StopRetry, callbackVars, fdVars, threadVars, kernelVars, fileVars, ghostVars,
     TypeOK
<1>2. Phases'
  BY DEF StopRetry, threadVars, Phases
<1>3. Counted'
  BY DEF StopRetry, threadVars, kernelVars, Counted, ThreadOpens, OwnerLaunches
<1>4. Closed' /\ OneInstance' /\ Newest' /\ Rewatched'
  BY DEF StopRetry, fdVars, threadVars, kernelVars, fileVars, Closed, OneInstance, Newest,
     Rewatched
<1>5. QED
  BY <1>1, <1>2, <1>3, <1>4

LEMMA StopReturnIInv ==
  ASSUME IInv, StopReturn
  PROVE  IInv'
<1> USE BoundsAssumption DEF IInv
<1>1. TypeOK'
  BY DEF StopReturn, callbackVars, fdVars, kernelVars, fileVars, ghostVars, TypeOK
<1>2. Phases'
  BY DEF StopReturn, TypeOK, Phases
<1>3. Closed'
  BY DEF StopReturn, fdVars, Closed
<1>4. Counted'
  BY DEF StopReturn, kernelVars, Counted, ThreadOpens, OwnerLaunches
<1>5. Rewatched'
  BY DEF StopReturn, fdVars, kernelVars, fileVars, Rewatched
<1>6. OneInstance' /\ Newest'
  BY DEF StopReturn, fdVars, kernelVars, fileVars, OneInstance, Newest
<1>7. QED
  BY <1>1, <1>2, <1>3, <1>4, <1>5, <1>6

LEMMA LaunchIInv ==
  ASSUME IInv, Launch
  PROVE  IInv'
<1> USE BoundsAssumption DEF IInv
<1>1. TypeOK'
  BY DEF Launch, callbackVars, fdVars, kernelVars, fileVars, ghostVars, TypeOK
<1>2. Phases'
  BY DEF Launch, Phases
<1>3. Closed'
  BY DEF Launch, fdVars, Phases, Closed
<1>4. Counted'
  BY DEF Launch, kernelVars, TypeOK, Counted, OwnerLaunches
<1>5. Rewatched'
  BY DEF Launch, fdVars, kernelVars, fileVars, Rewatched
<1>6. OneInstance' /\ Newest'
  BY DEF Launch, fdVars, kernelVars, fileVars, OneInstance, Newest
<1>7. QED
  BY <1>1, <1>2, <1>3, <1>4, <1>5, <1>6

LEMMA StartedIInv ==
  ASSUME IInv, Started
  PROVE  IInv'
<1> USE BoundsAssumption DEF IInv
<1>1. TypeOK'
  BY DEF Started, callbackVars, fdVars, threadVars, kernelVars, fileVars, ghostVars, TypeOK
<1>2. Phases'
  BY DEF Started, threadVars, Phases
<1>3. Counted'
  BY DEF Started, threadVars, kernelVars, Counted, ThreadOpens, OwnerLaunches
<1>4. Closed' /\ OneInstance' /\ Newest' /\ Rewatched'
  BY DEF Started, fdVars, threadVars, kernelVars, fileVars, Closed, OneInstance, Newest,
     Rewatched
<1>5. QED
  BY <1>1, <1>2, <1>3, <1>4

LEMMA CallbacksIInv ==
  ASSUME IInv, NEW cb \in Callbacks, registerChangeCallback(cb) \/ unregisterChangeCallback(cb)
  PROVE  IInv'
<1> USE BoundsAssumption DEF IInv
<1>1. TypeOK'
  <2>1. m_callbacks \in Seq(Callbacks)
    BY DEF TypeOK
  <2>2. m_callbacks' \in Seq(Callbacks)
    <3>1. CASE m_callbacks' = Append(m_callbacks, cb)
      BY <2>1, <3>1
    <3>2. CASE m_callbacks # <<>> /\ m_callbacks' = Tail(m_callbacks)
      BY <2>1, <3>2
    <3>3. QED
      BY <3>1, <3>2 DEF registerChangeCallback, unregisterChangeCallback
  <2>3. UNCHANGED <<fdVars, ownerVars, threadVars, kernelVars, fileVars, ghostVars>>
    BY DEF registerChangeCallback, unregisterChangeCallback
  <2>4. QED
    BY <2>2, <2>3 DEF TypeOK, fdVars, ownerVars, threadVars, kernelVars, fileVars, ghostVars
<1>2. Phases' /\ Closed' /\ Counted' /\ OneInstance' /\ Newest' /\ Rewatched'
  BY DEF registerChangeCallback, unregisterChangeCallback, callbackVars, fdVars,
     ownerVars, threadVars, kernelVars, fileVars, ghostVars, Phases, Closed,
     Counted, ThreadOpens, OwnerLaunches, OneInstance, Newest, Rewatched, Dated, Gone
<1>3. QED
  BY <1>1, <1>2

LEMMA ThreadBeginIInv ==
  ASSUME IInv, ThreadBegin
  PROVE  IInv'
<1> USE BoundsAssumption DEF IInv
<1>1. TypeOK'
  BY DEF ThreadBegin, callbackVars, fdVars, ownerVars, kernelVars, fileVars, ghostVars,
     TypeOK
<1>2. Phases'
  BY DEF ThreadBegin, ownerVars, Phases
<1>3. Closed'
  BY DEF ThreadBegin, fdVars, Closed
<1>4. Counted'
  BY DEF ThreadBegin, ownerVars, kernelVars, Counted, ThreadOpens, OwnerLaunches
<1>5. Rewatched'
  BY DEF ThreadBegin, fdVars, kernelVars, fileVars, Rewatched
<1>6. OneInstance' /\ Newest'
  BY DEF ThreadBegin, fdVars, kernelVars, fileVars, OneInstance, Newest
<1>7. QED
  BY <1>1, <1>2, <1>3, <1>4, <1>5, <1>6

LEMMA OpenFailsIInv ==
  ASSUME IInv, OpenFails
  PROVE  IInv'
<1> USE BoundsAssumption DEF IInv
<1>1. TypeOK'
  BY DEF OpenFails, callbackVars, ownerVars, kernelVars, fileVars, ghostVars, TypeOK
<1>2. Phases'
  BY DEF OpenFails, ownerVars, Phases
<1>3. Closed'
  BY DEF OpenFails, Closed
<1>4. Counted'
  BY DEF OpenFails, ownerVars, kernelVars, TypeOK, Counted, ThreadOpens
<1>5. OneInstance'
  BY DEF OpenFails, kernelVars, Closed, OneInstance
<1>6. Rewatched'
  BY DEF OpenFails, kernelVars, fileVars, Rewatched
<1>7. Newest'
  BY DEF OpenFails, fileVars, Newest
<1>8. QED
  BY <1>1, <1>2, <1>3, <1>4, <1>5, <1>6, <1>7

LEMMA OpenIInv ==
  ASSUME IInv, Open
  PROVE  IInv'
<1> USE BoundsAssumption DEF IInv
<1>1. TypeOK'
  <2>1. <<>> \in Seq(Events) /\ Len(<<>>) <= BatchMax /\ Len(<<>>) <= QueueMax + 1
    <3>1. BatchMax \in Nat /\ QueueMax \in Nat /\ Len(<<>>) = 0
      OBVIOUS
    <3>2. QED
      OBVIOUS
  <2>2. instances + 1 <= starts /\ instances \in Nat
    BY DEF Open, TypeOK, Counted, ThreadOpens
  <2>3. m_watchFD = -1
    BY DEF Open, Closed
  <2>4. /\ instances' = instances + 1 /\ m_monitorFD' = instances' /\ kopen' = kopen \cup {instances'}
        /\ kwatch' = {} /\ kqueue' = <<>> /\ nextWd' = 1 /\ overflowed' = FALSE
        /\ tpc' = "addFileWatch" /\ afterAdd' = "loop"
        /\ UNCHANGED <<m_callbacks, m_watchFD, m_monitorFuture, opc, then, starts, batch, isChanged,
                       callbacks, path, inodes, held, changes, armed, seen>>
    BY DEF Open, callbackVars, ownerVars, fileVars, ghostVars
  <2>5. kopen' \subseteq 1 .. instances' /\ m_monitorFD' \in 1 .. instances' /\ instances' \in 0 .. starts
    BY <2>2, <2>4 DEF TypeOK
  <2>6. QED
    BY <2>1, <2>3, <2>4, <2>5 DEF TypeOK
<1>2. Phases'
  BY DEF Open, ownerVars, Phases
<1>3. Closed'
  BY DEF Open, Closed
<1>4. Counted'
  BY DEF Open, ownerVars, Counted, ThreadOpens, OwnerLaunches
<1>5. OneInstance'
  BY DEF Open, TypeOK, Closed, OneInstance
<1>6. Rewatched'
  <2>1. Dated(<<>>, inodes, path)
    BY DEF Dated
  <2>2. path # 0 => inodes > 0
    BY DEF TypeOK
  <2>3. m_watchFD = -1 /\ inodes \in Nat
    BY DEF Open, Closed, TypeOK
  <2>4. QED
    BY <2>1, <2>2, <2>3 DEF Open, Rewatched, fileVars
<1>7. Newest'
  BY DEF Open, fileVars, Newest
<1>8. QED
  BY <1>1, <1>2, <1>3, <1>4, <1>5, <1>6, <1>7

LEMMA AddGivesUpIInv ==
  ASSUME IInv, AddGivesUp
  PROVE  IInv'
<1> USE BoundsAssumption DEF IInv
<1>1. TypeOK'
  <2>1. <<>> \in Seq(Events) /\ Len(<<>>) <= BatchMax /\ Len(<<>>) <= QueueMax + 1
    <3>1. BatchMax \in Nat /\ QueueMax \in Nat /\ Len(<<>>) = 0
      OBVIOUS
    <3>2. QED
      OBVIOUS
  <2>2. /\ tpc' = "done" /\ afterAdd' = "loop" /\ batch' = <<>> /\ isChanged' = FALSE
        /\ UNCHANGED <<m_callbacks, m_monitorFD, m_watchFD, m_monitorFuture, opc, then, starts, callbacks>>
        /\ UNCHANGED <<instances, kopen, kwatch, kqueue, nextWd, overflowed>>
        /\ UNCHANGED <<path, inodes, held, changes, armed, seen>>
    BY DEF AddGivesUp, callbackVars, fdVars, ownerVars, kernelVars, fileVars, ghostVars
  <2>3. QED
    BY <2>1, <2>2 DEF TypeOK
<1>2. Phases'
  BY DEF AddGivesUp, ownerVars, Phases
<1>3. Closed'
  BY DEF AddGivesUp, fdVars, TypeOK, Closed
<1>4. Counted'
  BY DEF AddGivesUp, ownerVars, kernelVars, Counted, ThreadOpens, OwnerLaunches
<1>5. Rewatched'
  <2>1. Dated(<<>>, inodes, path)
    BY DEF Dated
  <2>2. QED
    BY <2>1 DEF AddGivesUp, Rewatched, fdVars, kernelVars, fileVars
<1>6. OneInstance' /\ Newest'
  BY DEF AddGivesUp, fdVars, kernelVars, fileVars, OneInstance, Newest
<1>7. QED
  BY <1>1, <1>2, <1>3, <1>4, <1>5, <1>6

LEMMA AddRemovesOldIInv ==
  ASSUME IInv, AddRemovesOld
  PROVE  IInv'
<1> USE BoundsAssumption DEF IInv
<1>1. TypeOK'
  BY AddRemovesOldKeeps DEF AddRemovesOld, TypeOK, callbackVars, fdVars, ownerVars, threadVars, kernelVars, fileVars, ghostVars
<1>2. Phases'
  BY DEF AddRemovesOld, ownerVars, Phases
<1>3. Closed'
  BY DEF AddRemovesOld, Closed
<1>4. Counted'
  BY DEF AddRemovesOld, ownerVars, Counted, ThreadOpens, OwnerLaunches
<1>5. Rewatched'
  BY AddRemovesOldKeeps DEF AddRemovesOld, Rewatched, fileVars
<1>6. OneInstance' /\ Newest'
  BY DEF AddRemovesOld, fileVars, OneInstance, Newest
<1>7. QED
  BY <1>1, <1>2, <1>3, <1>4, <1>5, <1>6

LEMMA AddWatchesIInv ==
  ASSUME IInv, AddWatches
  PROVE  IInv'
<1> USE BoundsAssumption DEF IInv
<1>1. TypeOK'
  <2>1. /\ m_watchFD' = nextWd /\ nextWd' = nextWd + 1 /\ kwatch' = kwatch \cup {<<nextWd, path>>} /\ path # 0
        /\ tpc' = afterAdd /\ afterAdd' = "loop" /\ armed' \in {changes, armed}
    BY DEF AddWatches
  <2>2. UNCHANGED <<m_monitorFuture, m_callbacks, m_monitorFD, opc, then, batch, isChanged, callbacks,
                    starts, instances, kopen, kqueue, overflowed, path, held, inodes, changes, seen>>
    BY DEF AddWatches, callbackVars, ownerVars, fileVars
  <2>3. path \in 1 .. inodes /\ nextWd \in Nat
    BY <2>1 DEF TypeOK
  <2>4. m_watchFD' \in {-1} \cup 1 .. nextWd' - 1 /\ nextWd' \in Nat /\ armed' \in 0 .. changes
    BY <2>1, <2>3 DEF TypeOK, Rewatched
  <2>5. kwatch' \in SUBSET (Nat \X (1 .. inodes))
    BY <2>1, <2>3 DEF TypeOK
  <2>6. QED
    BY <2>1, <2>2, <2>4, <2>5 DEF TypeOK
<1>2. Phases'
  BY DEF AddWatches, ownerVars, TypeOK, Phases
<1>3. Closed'
  BY DEF AddWatches, TypeOK, Closed
<1>4. Counted'
  BY DEF AddWatches, ownerVars, TypeOK, Counted, ThreadOpens, OwnerLaunches
<1>5. Rewatched'
  <2>1. /\ nextWd < inodes + 1 /\ nextWd <= path /\ nextWd \in Nat /\ inodes \in Nat /\ nextWd >= 1
    BY DEF AddWatches, Rewatched, Newest
  <2>2. /\ m_watchFD' = nextWd /\ nextWd' = nextWd + 1 /\ kwatch' = kwatch \cup {<<nextWd, path>>}
        /\ tpc' \in {"loop", "events"} /\ UNCHANGED <<kqueue, batch, path, inodes>>
    BY DEF AddWatches, TypeOK, fileVars
  <2>3. QED
    BY <2>1, <2>2 DEF Rewatched
<1>6. OneInstance' /\ Newest'
  BY DEF AddWatches, fileVars, OneInstance, Newest
<1>7. QED
  BY <1>1, <1>2, <1>3, <1>4, <1>5, <1>6

LEMMA LoopBreaksIInv ==
  ASSUME IInv, LoopBreaks
  PROVE  IInv'
<1> USE BoundsAssumption DEF IInv
<1>1. TypeOK'
  BY DEF LoopBreaks, callbackVars, fdVars, ownerVars, kernelVars, fileVars, ghostVars,
     TypeOK
<1>2. Phases'
  BY DEF LoopBreaks, ownerVars, Phases
<1>3. Closed'
  BY DEF LoopBreaks, fdVars, Closed
<1>4. Counted'
  BY DEF LoopBreaks, ownerVars, kernelVars, Counted, ThreadOpens, OwnerLaunches
<1>5. Rewatched'
  BY DEF LoopBreaks, fdVars, kernelVars, fileVars, Rewatched
<1>6. OneInstance' /\ Newest'
  BY DEF LoopBreaks, fdVars, kernelVars, fileVars, OneInstance, Newest
<1>7. QED
  BY <1>1, <1>2, <1>3, <1>4, <1>5, <1>6

LEMMA ReadIInv ==
  ASSUME IInv, Read
  PROVE  IInv'
<1> USE BoundsAssumption DEF IInv
<1>1. TypeOK'
  <2>1. /\ tpc' = "events"
        /\ UNCHANGED <<m_callbacks, m_monitorFD, m_watchFD, m_monitorFuture, opc, then, starts, callbacks>>
        /\ UNCHANGED <<afterAdd, isChanged, instances, kopen, kwatch, nextWd, overflowed>>
        /\ UNCHANGED <<path, inodes, held, changes, armed, seen>>
    BY DEF Read, callbackVars, fdVars, ownerVars, fileVars, ghostVars
  <2>2. QED
    BY <2>1, ReadKeeps DEF TypeOK
<1>2. Phases'
  BY DEF Read, ownerVars, Phases
<1>3. Closed'
  BY DEF Read, fdVars, Closed
<1>4. Counted'
  BY DEF Read, ownerVars, Counted, ThreadOpens, OwnerLaunches
<1>5. Rewatched'
  BY ReadKeeps DEF Read, Rewatched, fdVars, fileVars
<1>6. OneInstance' /\ Newest'
  BY DEF Read, fdVars, fileVars, OneInstance, Newest
<1>7. QED
  BY <1>1, <1>2, <1>3, <1>4, <1>5, <1>6

LEMMA HandleEventIInv ==
  ASSUME IInv, HandleEvent
  PROVE  IInv'
<1> USE BoundsAssumption DEF IInv
<1>1. TypeOK'
  BY HandleEventKeeps DEF HandleEvent, TypeOK, callbackVars, fdVars, ownerVars, threadVars, kernelVars, fileVars, ghostVars
<1>2. Phases'
  BY DEF HandleEvent, ownerVars, Phases
<1>3. Closed'
  BY DEF HandleEvent, fdVars, Closed
<1>4. Counted'
  BY DEF HandleEvent, ownerVars, kernelVars, Counted, ThreadOpens, OwnerLaunches
<1>5. Rewatched'
  <2>1. tpc' \in {"addFileWatch", "addTry"} => Gone(Head(batch)) /\ Head(batch).wd = m_watchFD
    BY DEF HandleEvent, Gone
  <2>2. UNCHANGED <<m_watchFD, nextWd, path, inodes, kwatch, kqueue>>
    BY DEF HandleEvent, fdVars, kernelVars, fileVars
  <2>3. nextWd \in Nat /\ inodes \in Nat
    BY DEF TypeOK
  <2>4. QED
    BY <2>1, <2>2, HandleEventKeeps DEF Rewatched
<1>6. OneInstance' /\ Newest'
  BY DEF HandleEvent, fdVars, kernelVars, fileVars, OneInstance, Newest
<1>7. QED
  BY <1>1, <1>2, <1>3, <1>4, <1>5, <1>6

LEMMA EventsDoneIInv ==
  ASSUME IInv, EventsDone
  PROVE  IInv'
<1> USE BoundsAssumption DEF IInv
<1>1. TypeOK'
  BY DEF EventsDone, callbackVars, fdVars, ownerVars, kernelVars, fileVars, ghostVars,
     TypeOK, Phases
<1>2. Phases'
  BY DEF EventsDone, ownerVars, Phases
<1>3. Closed'
  BY DEF EventsDone, fdVars, Closed
<1>4. Counted'
  BY DEF EventsDone, ownerVars, kernelVars, Counted, ThreadOpens, OwnerLaunches
<1>5. Rewatched'
  BY DEF EventsDone, fdVars, kernelVars, fileVars, Rewatched
<1>6. OneInstance' /\ Newest'
  BY DEF EventsDone, fdVars, kernelVars, fileVars, OneInstance, Newest
<1>7. QED
  BY <1>1, <1>2, <1>3, <1>4, <1>5, <1>6

LEMMA CopyCallbacksIInv ==
  ASSUME IInv, CopyCallbacks
  PROVE  IInv'
<1> USE BoundsAssumption DEF IInv
<1>1. TypeOK'
  BY DEF CopyCallbacks, callbackVars, fdVars, ownerVars, kernelVars, fileVars, TypeOK
<1>2. Phases'
  BY DEF CopyCallbacks, ownerVars, Phases
<1>3. Closed'
  BY DEF CopyCallbacks, fdVars, Closed
<1>4. Counted'
  BY DEF CopyCallbacks, ownerVars, kernelVars, Counted, ThreadOpens, OwnerLaunches
<1>5. Rewatched'
  BY DEF CopyCallbacks, fdVars, kernelVars, fileVars, Rewatched
<1>6. OneInstance' /\ Newest'
  BY DEF CopyCallbacks, fdVars, kernelVars, fileVars, OneInstance, Newest
<1>7. QED
  BY <1>1, <1>2, <1>3, <1>4, <1>5, <1>6

LEMMA CallbackReturnsIInv ==
  ASSUME IInv, CallbackReturns
  PROVE  IInv'
<1> USE BoundsAssumption DEF IInv
<1>1. TypeOK'
  <2>1. callbacks \in Seq(Callbacks)
    BY DEF TypeOK
  <2>2. callbacks' \in Seq(Callbacks) /\ tpc' \in {"loop", "calling"}
    BY <2>1 DEF CallbackReturns
  <2>3. UNCHANGED <<callbackVars, fdVars, ownerVars, afterAdd, batch, isChanged, kernelVars, fileVars, ghostVars>>
    BY DEF CallbackReturns
  <2>4. QED
    BY <2>2, <2>3 DEF TypeOK, callbackVars, fdVars, ownerVars, kernelVars, fileVars,
       ghostVars
<1>2. Phases'
  BY DEF CallbackReturns, ownerVars, Phases
<1>3. Closed'
  BY DEF CallbackReturns, fdVars, Closed
<1>4. Counted'
  BY DEF CallbackReturns, ownerVars, kernelVars, Counted, ThreadOpens, OwnerLaunches
<1>5. Rewatched'
  BY DEF CallbackReturns, fdVars, kernelVars, fileVars, Rewatched
<1>6. OneInstance' /\ Newest'
  BY DEF CallbackReturns, fdVars, kernelVars, fileVars, OneInstance, Newest
<1>7. QED
  BY <1>1, <1>2, <1>3, <1>4, <1>5, <1>6

LEMMA CleanupIInv ==
  ASSUME IInv, Cleanup
  PROVE  IInv'
<1> USE BoundsAssumption DEF IInv
<1>1. TypeOK'
  BY DEF Cleanup, CloseFds, callbackVars, ownerVars, fileVars, ghostVars, TypeOK
<1>2. Phases'
  BY DEF Cleanup, ownerVars, Phases
<1>3. Closed'
  BY DEF Cleanup, CloseFds, TypeOK, Closed
<1>4. Counted'
  BY DEF Cleanup, CloseFds, ownerVars, Counted, ThreadOpens, OwnerLaunches
<1>5. OneInstance'
  BY DEF Cleanup, CloseFds, OneInstance
<1>6. Rewatched'
  BY DEF Cleanup, CloseFds, fileVars, Rewatched, Dated
<1>7. Newest'
  BY DEF Cleanup, CloseFds, callbackVars, fdVars, ownerVars, threadVars, kernelVars,
     fileVars, ghostVars, Newest
<1>8. QED
  BY <1>1, <1>2, <1>3, <1>4, <1>5, <1>6, <1>7 DEF IInv

LEMMA InitIInv == Init => IInv
<1> SUFFICES ASSUME Init PROVE IInv
  OBVIOUS
<1> USE BoundsAssumption DEF Init
<1>1. TypeOK
  <2>1. MaxChanges \in Nat /\ MaxStarts \in Nat /\ BatchMax \in Nat /\ QueueMax \in Nat /\ Len(<<>>) = 0
    OBVIOUS
  <2>2. path \in 0 .. inodes /\ inodes \in 0 .. MaxChanges + 1
    BY <2>1
  <2>3. <<>> \in Seq(Events) /\ Len(<<>>) <= BatchMax /\ Len(<<>>) <= QueueMax + 1
    BY <2>1
  <2>4. batch \in Seq(Events) /\ Len(batch) <= BatchMax
    BY <2>3
  <2>5. kqueue \in Seq(Events) /\ Len(kqueue) <= QueueMax + 1
    BY <2>3
  <2>6. /\ m_monitorFuture = FALSE /\ m_monitorFD = -1 /\ m_watchFD = -1
        /\ m_callbacks \in Seq(Callbacks) /\ callbacks \in Seq(Callbacks)
    OBVIOUS
  <2>7. starts \in 0 .. MaxStarts /\ instances \in 0 .. starts /\ kopen \in SUBSET (1 .. instances)
    BY <2>1
  <2>8. kwatch \in SUBSET (Nat \X (1 .. inodes)) /\ nextWd \in Nat /\ held \in 0 .. inodes
    BY <2>2
  <2>9. changes \in 0 .. MaxChanges /\ armed \in 0 .. changes /\ seen \in 0 .. changes
    BY <2>1
  <2>10. /\ opc = "idle" /\ then = "idle" /\ tpc = "none" /\ afterAdd = "loop"
         /\ isChanged = FALSE /\ overflowed = FALSE
    OBVIOUS
  <2> HIDE DEF Init
  <2>11. QED
    BY <2>2, <2>4, <2>5, <2>6, <2>7, <2>8, <2>9, <2>10 DEF TypeOK
<1>2. Phases /\ Closed /\ Counted /\ OneInstance
  BY DEF Phases, Closed, Counted, ThreadOpens, OwnerLaunches, OneInstance
<1>3. Newest /\ Rewatched
  BY DEF Newest, Rewatched, Dated
<1>4. QED
  BY <1>1, <1>2, <1>3 DEF IInv

LEMMA NextIInv == IInv /\ [Next]_vars => IInv'
<1> SUFFICES ASSUME IInv, [Next]_vars PROVE IInv'
  OBVIOUS
<1>1. CASE Start \/ Stop \/ Destroy
  <2>1. CASE Start
    BY <2>1, OwnerCallsIInv DEF Start
  <2>2. CASE Stop \/ Destroy
    BY <2>2, OwnerCallsIInv DEF Stop, Destroy
  <2>3. QED
    BY <1>1, <2>1, <2>2
<1>2. CASE Owner
  BY <1>2, StopCloseIInv, StopRetryIInv, StopReturnIInv, LaunchIInv, StartedIInv DEF Owner
<1>3. CASE ThreadBegin \/ OpenFails \/ Open \/ AddGivesUp \/ AddRemovesOld \/ AddWatches \/ LoopBreaks
  BY <1>3, ThreadBeginIInv, OpenFailsIInv, OpenIInv, AddGivesUpIInv, AddRemovesOldIInv, AddWatchesIInv,
     LoopBreaksIInv
<1>4. CASE Read \/ HandleEvent \/ EventsDone \/ CopyCallbacks \/ CallbackReturns \/ Cleanup
  BY <1>4, ReadIInv, HandleEventIInv, EventsDoneIInv, CopyCallbacksIInv, CallbackReturnsIInv, CleanupIInv
<1>5. CASE File
  BY <1>5, FileIInv
<1>6. ASSUME NEW cb \in Callbacks, registerChangeCallback(cb) \/ unregisterChangeCallback(cb) PROVE IInv'
  BY <1>6, CallbacksIInv
<1>7. CASE UNCHANGED vars
  <2> USE <1>7 DEF IInv, vars, callbackVars, fdVars, ownerVars, threadVars, kernelVars, fileVars, ghostVars
  <2>1. TypeOK'
    BY DEF TypeOK
  <2>2. Phases' /\ Closed' /\ Counted' /\ OneInstance' /\ Newest' /\ Rewatched'
    BY DEF Phases, Closed, Counted, ThreadOpens, OwnerLaunches, OneInstance, Newest, Rewatched
  <2>3. QED
    BY <2>1, <2>2
<1>8. QED
  BY <1>1, <1>2, <1>3, <1>4, <1>5, <1>6, <1>7 DEF Next, MonitorThread

----------------------------------------------------------------------------
(* The invariant holds in every state.                                     *)
THEOREM Invariance == Spec => []IInv
BY InitIInv, NextIInv, PTL DEF Spec

(* Every variable keeps its type, and so its bound: no instance has more   *)
(* watches than there have been files, and the queue and the buffer of     *)
(* read hold what they have room for.                                      *)
THEOREM TypeCorrect == Spec => []TypeOK
<1>1. IInv => TypeOK
  BY DEF IInv
<1>2. QED
  BY <1>1, Invariance, PTL

(* The instance that the object refers to is the only one open, whatever   *)
(* the owner and the thread do to the two descriptors in turn.             *)
THEOREM NoInstanceLeaks == Spec => []OneInstance
<1>1. IInv => OneInstance
  BY DEF IInv
<1>2. QED
  BY <1>1, Invariance, PTL

(* When stop has returned the thread is over and nothing is left open, also *)
(* if stop came before the thread had opened anything.                     *)
THEOREM StopLeavesNothing == Spec => []StoppedIsClean
<1>1. IInv => StoppedIsClean
  BY DEF IInv, StoppedIsClean, Phases, Closed, OneInstance
<1>2. QED
  BY <1>1, Invariance, PTL

----------------------------------------------------------------------------
(* FdPassing                                                                *)

(* The ends of a link, and whether it carries a descriptor.                *)
LinkEnds == [out : {"none", "unconnected", "open", "closed"},
             in : {"none", "queued", "open", "closed"}, fd : BOOLEAN]

FailedCalls == SUBSET {"connect", "sendmsg", "recvmsg", "recv", "send", "crash"}

(* No client waits twice in a queue.                                       *)
NoTwice(q) == \A i, j \in DOMAIN q : q[i] = q[j] => i = j

(* A client that waits for accept has connected and is not served; a link  *)
(* waits for accept while the receiver's end of it is queued.              *)
QueuesHold ==
  /\ NoTwice(backlog) /\ NoTwice(rbacklog)
  /\ \A c \in Clients :
       /\ Contains(backlog, c) =>
            pc[c] \notin {"out", "refused"} /\ c # cur /\ link[c].out = "none"
       /\ Contains(rbacklog, c) <=> link[c].in = "queued"
       /\ pc[c] \in {"out", "refused"} => c # cur /\ link[c].out = "none"

(* Where a server is says whom it serves and what it has open.             *)
SenderServes ==
  /\ cur = Nobody <=> sender \notin {"connect", "sendmsg", "closeLink", "close"}
  /\ sender = "connect" => link[cur].out = "none"
  /\ sender \in {"sendmsg", "closeLink"} => link[cur].out = "open"
  /\ sender = "sendmsg" => ~link[cur].fd
  /\ \A c \in Clients :
       /\ "sender" \in holders[c] <=> cur = c
       /\ link[c].out = "unconnected" => "connect" \in failed[c]
       /\ link[c].out = "open" =>
            "sendmsg" \in failed[c] \/ (cur = c /\ sender \in {"sendmsg", "closeLink"})
ReceiverServes ==
  /\ rcur = Nobody <=> receiver \notin {"recvmsg", "recv", "send", "closeFd", "closeLink"}
  /\ receiver \in {"recv", "send", "closeFd"} => "receiver" \in holders[rcur]
  /\ \A c \in Clients :
       /\ link[c].in = "open" <=> rcur = c
       /\ "receiver" \in holders[c] =>
            "recv" \in failed[c] \/ (rcur = c /\ receiver \in {"recv", "send", "closeFd"})

(* Only a connected link has an inner end, and it carries a descriptor     *)
(* only to a process that has yet to take it.                              *)
LinksHold ==
  \A c \in Clients :
    /\ link[c].out \in {"none", "unconnected"} => link[c].in = "none"
    /\ link[c].out = "open" => link[c].in # "none"
    /\ link[c].fd => link[c].in \in {"queued", "open"}
    /\ rcur = c /\ (link[c].fd \/ (cur = c /\ sender = "sendmsg")) => receiver = "recvmsg"

(* What the two servers have done for a client who still waits.            *)
PassedOn ==
  /\ \A c \in hello : pc[c] \notin {"out", "sending"}
  /\ receiver \in {"send", "closeFd"} => pc[rcur] # "sending"
  /\ receiver = "closeFd" /\ pc[rcur] = "receiving" => rcur \in reply \/ failed[rcur] # {}
  /\ sender \in {"closeLink", "close"} =>
       (pc[cur] \in {"sending", "receiving"} /\ failed[cur] = {} /\ cur \notin reply
          => link[cur].fd \/ "receiver" \in holders[cur])

PassingInv ==
  /\ PassingTypeOK
  /\ QueuesHold /\ SenderServes /\ ReceiverServes /\ LinksHold /\ PassedOn
  /\ HandoverKeepsOpen

----------------------------------------------------------------------------
(* Joining a queue, and leaving it at its head.                            *)
LEMMA JoinsQueue ==
  ASSUME NEW S, NEW q \in Seq(S), NEW e \in S
  PROVE  /\ Append(q, e) \in Seq(S)
         /\ \A c : Contains(Append(q, e), c) <=> Contains(q, c) \/ c = e
         /\ NoTwice(q) /\ ~Contains(q, e) => NoTwice(Append(q, e))
<1>1. /\ Append(q, e) \in Seq(S) /\ Len(Append(q, e)) = Len(q) + 1
      /\ DOMAIN q = 1 .. Len(q) /\ Len(q) \in Nat /\ DOMAIN Append(q, e) = 1 .. Len(q) + 1
      /\ \A i \in 1 .. Len(q) : Append(q, e)[i] = q[i]
      /\ Append(q, e)[Len(q) + 1] = e
  OBVIOUS
<1> HIDE <1>1
<1>2. \A c : Contains(Append(q, e), c) <=> Contains(q, c) \/ c = e
  BY DEF Contains
<1>3. NoTwice(q) /\ ~Contains(q, e) => NoTwice(Append(q, e))
  BY DEF Contains, NoTwice
<1>4. QED
  BY <1>2, <1>3

LEMMA LeavesQueue ==
  ASSUME NEW S, NEW q \in Seq(S), q # <<>>, NoTwice(q)
  PROVE  /\ Head(q) \in S /\ Tail(q) \in Seq(S)
         /\ \A c : Contains(q, c) <=> Contains(Tail(q), c) \/ c = Head(q)
         /\ NoTwice(Tail(q)) /\ ~Contains(Tail(q), Head(q))
<1> DEFINE r == Tail(q)
<1>1. /\ DOMAIN q = 1 .. Len(q) /\ Len(q) \in Nat \ {0} /\ Head(q) = q[1] /\ Head(q) \in S
      /\ r \in Seq(S) /\ Len(r) = Len(q) - 1 /\ DOMAIN r = 1 .. Len(q) - 1
      /\ \A i \in 1 .. Len(q) - 1 : r[i] = q[i + 1]
  OBVIOUS
<1> HIDE DEF r
<1>2. ASSUME NEW c, Contains(q, c) PROVE Contains(r, c) \/ c = Head(q)
  <2>1. PICK j \in 1 .. Len(q) : q[j] = c
    BY <1>2 DEF Contains
  <2>2. CASE j = 1
    BY <2>1, <2>2
  <2>3. CASE j # 1
    <3>1. j - 1 \in 1 .. Len(r) /\ r[j - 1] = q[(j - 1) + 1] /\ (j - 1) + 1 = j
      BY <2>3, <1>1
    <3>2. QED
      BY <3>1, <2>1 DEF Contains
  <2>4. QED
    BY <2>2, <2>3
<1>3. ASSUME NEW c, Contains(r, c) \/ c = Head(q) PROVE Contains(q, c)
  BY <1>3, <1>1 DEF Contains
<1>4. NoTwice(r)
  BY <1>1 DEF NoTwice
<1>5. ~Contains(r, Head(q))
  BY <1>1 DEF NoTwice, Contains
<1>6. QED
  BY <1>2, <1>3, <1>4, <1>5 DEF r

LEMMA EmptyQueue == <<>> \in Seq(Clients) /\ NoTwice(<<>>) /\ \A c : ~Contains(<<>>, c)
BY DEF NoTwice, Contains

----------------------------------------------------------------------------
(* The sender. Starting it concerns no connection.                         *)
LEMMA SenderInitKeeps ==
  ASSUME PassingInv, SenderInit
  PROVE  PassingInv'
<1>1. /\ sender = "off" /\ sender' \in {"accept", "returned"}
      /\ UNCHANGED <<receiver, cur, rcur, serverPath, backlog, rbacklog, pc, holders, link,
                     hello, reply, failed, crashes>>
  BY DEF SenderInit, SenderGoes, queues, connVars
<1>2. PassingTypeOK'
  BY <1>1 DEF PassingInv, PassingTypeOK
<1>3. QueuesHold'
  BY <1>1 DEF PassingInv, QueuesHold
<1>4. SenderServes'
  BY <1>1 DEF PassingInv, SenderServes
<1>5. ReceiverServes'
  BY <1>1 DEF PassingInv, ReceiverServes
<1>6. LinksHold'
  BY <1>1 DEF PassingInv, LinksHold
<1>7. PassedOn'
  BY <1>1 DEF PassingInv, PassedOn
<1>8. HandoverKeepsOpen'
  <2> SUFFICES ASSUME NEW d \in Clients, pc'[d] \in {"sending", "receiving"},
                      Released(d)', d \notin reply'
               PROVE  failed'[d] # {}
    BY DEF HandoverKeepsOpen
  <2>1. QED
    BY <1>1 DEF PassingInv, HandoverKeepsOpen, Released
<1>9. QED
  BY <1>2, <1>3, <1>4, <1>5, <1>6, <1>7, <1>8 DEF PassingInv

(* The client leaves the queue at its head, and the sender has it open.    *)
LEMMA SenderAcceptKeeps ==
  ASSUME PassingInv, SenderAccept
  PROVE  PassingInv'
<1>1. /\ sender = "accept" /\ backlog # <<>> /\ sender' = "connect"
      /\ cur' = Head(backlog) /\ backlog' = Tail(backlog)
      /\ holders' = [holders EXCEPT ![cur'] = @ \cup {"sender"}]
      /\ UNCHANGED <<receiver, rcur, serverPath, rbacklog, pc, link, hello, reply, failed,
                     crashes>>
  BY DEF SenderAccept, SenderGoes
<1>2. /\ cur' \in Clients /\ backlog' \in Seq(Clients) /\ NoTwice(backlog')
      /\ \A c : Contains(backlog, c) <=> Contains(backlog', c) \/ c = cur'
      /\ ~Contains(backlog', cur')
  BY <1>1, LeavesQueue DEF PassingInv, PassingTypeOK, QueuesHold
<1>3. PassingTypeOK'
  BY <1>1 DEF PassingInv, PassingTypeOK
<1>4. QueuesHold'
  BY <1>1, <1>2 DEF PassingInv, QueuesHold
<1>5. SenderServes'
  BY <1>1, <1>2, ClientsAssumption DEF PassingInv, PassingTypeOK, QueuesHold, SenderServes
<1>6. ReceiverServes'
  BY <1>1 DEF PassingInv, ReceiverServes
<1>7. LinksHold'
  BY <1>1 DEF PassingInv, LinksHold
<1>8. PassedOn'
  BY <1>1 DEF PassingInv, PassedOn
<1>9. HandoverKeepsOpen'
  <2> SUFFICES ASSUME NEW d \in Clients, pc'[d] \in {"sending", "receiving"},
                      Released(d)', d \notin reply'
               PROVE  failed'[d] # {}
    BY DEF HandoverKeepsOpen
  <2>1. QED
    BY <1>1, <1>2, ClientsAssumption DEF PassingInv, PassingTypeOK, QueuesHold,
       SenderServes, HandoverKeepsOpen, Released
<1>10. QED
  BY <1>3, <1>4, <1>5, <1>6, <1>7, <1>8, <1>9 DEF PassingInv

(* The link gets both of its ends, the receiver's in the queue.            *)
LEMMA ConnectUnixKeeps ==
  ASSUME PassingInv, ConnectUnix
  PROVE  PassingInv'
<1>1. /\ sender = "connect" /\ sender' = "sendmsg"
      /\ rbacklog' = Append(rbacklog, cur)
      /\ UNCHANGED <<receiver, cur, rcur, serverPath, backlog, pc, holders, hello, reply,
                     failed, crashes>>
  BY DEF ConnectUnix, SenderGoes
<1>2. link' = [link EXCEPT ![cur] = [out |-> "open", in |-> "queued", fd |-> FALSE]]
  BY DEF ConnectUnix
<1>3. /\ cur \in Clients /\ cur # Nobody
      /\ link \in [Clients -> LinkEnds]
  BY <1>1 DEF PassingInv, PassingTypeOK, LinkEnds, SenderServes
<1>4. /\ link' \in [Clients -> LinkEnds]
      /\ link'[cur].out = "open" /\ link'[cur].in = "queued" /\ link'[cur].fd = FALSE
      /\ \A c \in Clients \ {cur} : link'[c] = link[c]
  BY <1>3, <1>2 DEF LinkEnds
<1>5. ~Contains(rbacklog, cur)
  BY <1>1, <1>3 DEF PassingInv, QueuesHold, SenderServes, LinksHold
<1>6. /\ rbacklog' \in Seq(Clients) /\ NoTwice(rbacklog')
      /\ \A c : Contains(rbacklog', c) <=> Contains(rbacklog, c) \/ c = cur
  BY <1>1, <1>3, <1>5, JoinsQueue DEF PassingInv, PassingTypeOK, QueuesHold
<1>7. PassingTypeOK'
  BY <1>1, <1>4 DEF PassingInv, PassingTypeOK, LinkEnds, SenderServes
<1>8. QueuesHold'
  BY <1>1, <1>4, <1>6 DEF PassingInv, QueuesHold
<1>9. SenderServes'
  BY <1>1, <1>4 DEF PassingInv, SenderServes
<1>10. ReceiverServes'
  BY <1>1, <1>4 DEF PassingInv, SenderServes, ReceiverServes, LinksHold
<1>11. LinksHold'
  BY <1>1, <1>4 DEF PassingInv, SenderServes, ReceiverServes, LinksHold
<1>12. PassedOn'
  BY <1>1 DEF PassingInv, PassedOn
<1>13. HandoverKeepsOpen'
  <2> SUFFICES ASSUME NEW d \in Clients, pc'[d] \in {"sending", "receiving"},
                      Released(d)', d \notin reply'
               PROVE  failed'[d] # {}
    BY DEF HandoverKeepsOpen
  <2>1. QED
    BY <1>1, <1>4 DEF PassingInv, SenderServes, HandoverKeepsOpen, Released
<1>14. QED
  BY <1>7, <1>8, <1>9, <1>10, <1>11, <1>12, <1>13 DEF PassingInv

(* The call that failed is what the coming close is excused by.            *)
LEMMA ConnectUnixFailsKeeps ==
  ASSUME PassingInv, ConnectUnixFails
  PROVE  PassingInv'
<1>1. /\ sender = "connect" /\ sender' = "close"
      /\ failed' = [failed EXCEPT ![cur] = @ \cup {"connect"}]
      /\ UNCHANGED <<receiver, cur, rcur, serverPath, backlog, rbacklog, pc, holders,
                     hello, reply, crashes>>
  BY DEF ConnectUnixFails, SenderGoes, Fails, queues
<1>2. /\ cur \in Clients /\ cur # Nobody
      /\ link \in [Clients -> LinkEnds] /\ failed \in [Clients -> FailedCalls]
  BY <1>1 DEF PassingInv, PassingTypeOK, LinkEnds, FailedCalls, SenderServes
<1>3. link[cur].out = "none" /\ link[cur].in = "none" /\ ~link[cur].fd
  BY <1>1, <1>2 DEF PassingInv, SenderServes, LinksHold
<1>4. /\ link' \in [Clients -> LinkEnds] /\ failed' \in [Clients -> FailedCalls]
      /\ link'[cur].out \in {"none", "unconnected"} /\ link'[cur].in = "none" /\ ~link'[cur].fd
      /\ \A c \in Clients \ {cur} : link'[c] = link[c] /\ failed'[c] = failed[c]
      /\ "connect" \in failed'[cur]
  <2>1. CASE link' = link
    BY <1>1, <1>2, <1>3, <2>1 DEF FailedCalls
  <2>2. CASE link' = [link EXCEPT ![cur].out = "unconnected"]
    BY <1>1, <1>2, <1>3, <2>2 DEF FailedCalls, LinkEnds
  <2>3. QED
    BY <2>1, <2>2 DEF ConnectUnixFails
<1>5. PassingTypeOK'
  BY <1>1, <1>4 DEF PassingInv, PassingTypeOK, LinkEnds, FailedCalls
<1>6. QueuesHold'
  BY <1>1, <1>2, <1>3, <1>4 DEF PassingInv, QueuesHold, SenderServes
<1>7. SenderServes'
  BY <1>1, <1>2, <1>3, <1>4 DEF PassingInv, SenderServes
<1>8. ReceiverServes'
  BY <1>1, <1>2, <1>3, <1>4 DEF PassingInv, ReceiverServes
<1>9. LinksHold'
  BY <1>1, <1>2, <1>3, <1>4 DEF PassingInv, LinksHold
<1>10. PassedOn'
  BY <1>1, <1>2, <1>3, <1>4 DEF PassingInv, PassedOn
<1>11. HandoverKeepsOpen'
  <2> SUFFICES ASSUME NEW d \in Clients, pc'[d] \in {"sending", "receiving"},
                      Released(d)', d \notin reply'
               PROVE  failed'[d] # {}
    BY DEF HandoverKeepsOpen
  <2>1. CASE d = cur
    BY <1>4, <2>1
  <2>2. CASE d # cur
    BY <1>1, <1>4, <2>2 DEF PassingInv, HandoverKeepsOpen, Released
  <2>3. QED
    BY <2>1, <2>2
<1>12. QED
  BY <1>5, <1>6, <1>7, <1>8, <1>9, <1>10, <1>11 DEF PassingInv

(* From here on the message has the connection open as well.               *)
LEMMA SendMsgKeeps ==
  ASSUME PassingInv, SendMsg
  PROVE  PassingInv'
<1>1. /\ sender = "sendmsg" /\ sender' = "closeLink" /\ link[cur].in # "closed"
      /\ UNCHANGED <<receiver, cur, rcur, serverPath, backlog, rbacklog, pc, holders, hello,
                     reply, failed, crashes>>
  BY DEF SendMsg, SenderGoes, queues
<1>2. link' = [link EXCEPT ![cur].fd = TRUE]
  BY DEF SendMsg
<1>3. /\ cur \in Clients /\ cur # Nobody
      /\ link \in [Clients -> LinkEnds]
  BY <1>1 DEF PassingInv, PassingTypeOK, LinkEnds, SenderServes
<1>4. /\ link' \in [Clients -> LinkEnds]
      /\ link'[cur].out = link[cur].out /\ link'[cur].in = link[cur].in /\ link'[cur].fd = TRUE
      /\ \A c \in Clients \ {cur} : link'[c] = link[c]
  BY <1>3, <1>2 DEF LinkEnds
<1>5. PassingTypeOK'
  BY <1>1, <1>4 DEF PassingInv, PassingTypeOK, LinkEnds
<1>6. QueuesHold'
  BY <1>1, <1>4 DEF PassingInv, QueuesHold
<1>7. SenderServes'
  BY <1>1, <1>4 DEF PassingInv, SenderServes
<1>8. ReceiverServes'
  BY <1>1, <1>4 DEF PassingInv, ReceiverServes
<1>9. LinksHold'
  BY <1>1, <1>4 DEF PassingInv, LinkEnds, SenderServes, LinksHold
<1>10. PassedOn'
  BY <1>1, <1>4 DEF PassingInv, PassedOn
<1>11. HandoverKeepsOpen'
  <2> SUFFICES ASSUME NEW d \in Clients, pc'[d] \in {"sending", "receiving"},
                      Released(d)', d \notin reply'
               PROVE  failed'[d] # {}
    BY DEF HandoverKeepsOpen
  <2>1. QED
    BY <1>1, <1>4 DEF PassingInv, HandoverKeepsOpen, Released
<1>12. QED
  BY <1>5, <1>6, <1>7, <1>8, <1>9, <1>10, <1>11 DEF PassingInv

(* The link stays open, with the failure noted for its client.             *)
LEMMA SendMsgFailsKeeps ==
  ASSUME PassingInv, SendMsgFails
  PROVE  PassingInv'
<1>1. /\ sender = "sendmsg" /\ sender' = "close"
      /\ failed' = [failed EXCEPT ![cur] = @ \cup {"sendmsg"}]
      /\ UNCHANGED <<receiver, cur, rcur, serverPath, backlog, rbacklog, pc, holders, link,
                     hello, reply, crashes>>
  BY DEF SendMsgFails, SenderGoes, Fails, queues, connVars
<1>2. /\ cur \in Clients /\ cur # Nobody
      /\ link \in [Clients -> LinkEnds]
  BY <1>1 DEF PassingInv, PassingTypeOK, LinkEnds, SenderServes
<1>3. PassingTypeOK'
  BY <1>1, <1>2 DEF PassingInv, PassingTypeOK
<1>4. QueuesHold'
  BY <1>1 DEF PassingInv, QueuesHold
<1>5. SenderServes'
  BY <1>1 DEF PassingInv, PassingTypeOK, SenderServes
<1>6. ReceiverServes'
  BY <1>1 DEF PassingInv, ReceiverServes
<1>7. LinksHold'
  BY <1>1 DEF PassingInv, LinksHold
<1>8. PassedOn'
  BY <1>1, <1>2 DEF PassingInv, PassingTypeOK, PassedOn
<1>9. HandoverKeepsOpen'
  <2> SUFFICES ASSUME NEW d \in Clients, pc'[d] \in {"sending", "receiving"},
                      Released(d)', d \notin reply'
               PROVE  failed'[d] # {}
    BY DEF HandoverKeepsOpen
  <2>1. QED
    BY <1>1 DEF PassingInv, HandoverKeepsOpen, Released
<1>10. QED
  BY <1>3, <1>4, <1>5, <1>6, <1>7, <1>8, <1>9 DEF PassingInv

(* The process ends: what it had open is closed, who it served or was to   *)
(* serve is noted.                                                         *)
LEMMA SendMsgRaisesKeeps ==
  ASSUME PassingInv, SendMsgRaises
  PROVE  PassingInv'
<1>1. /\ sender = "sendmsg" /\ sender' = "killed" /\ cur' = Nobody
      /\ failed' = [c \in Clients |->
                      IF "sender" \in holders[c] \/ Contains(backlog, c)
                        THEN failed[c] \cup {"crash"} ELSE failed[c]]
      /\ backlog' = <<>>
      /\ holders' = [c \in Clients |-> holders[c] \ {"sender"}]
      /\ UNCHANGED <<receiver, rcur, serverPath, rbacklog, pc, hello, reply, crashes>>
  BY DEF SendMsgRaises, SenderGoes
<1>2. link' = [c \in Clients |-> IF link[c].out \in {"open", "unconnected"}
                                    THEN [link[c] EXCEPT !.out = "closed"] ELSE link[c]]
  BY DEF SendMsgRaises
<1>3. /\ cur \in Clients /\ cur # Nobody
      /\ link \in [Clients -> LinkEnds]
  BY <1>1 DEF PassingInv, PassingTypeOK, LinkEnds, SenderServes
<1>4. /\ link' \in [Clients -> LinkEnds]
      /\ \A c \in Clients :
           /\ link'[c].in = link[c].in /\ link'[c].fd = link[c].fd
           /\ link'[c].out = IF link[c].out \in {"open", "unconnected"} THEN "closed" ELSE link[c].out
  BY <1>3, <1>2 DEF LinkEnds
<1>5. /\ \A c \in Clients : holders'[c] = holders[c] \ {"sender"}
      /\ failed' \in [Clients -> FailedCalls]
      /\ \A c \in Clients :
           /\ failed[c] \subseteq failed'[c]
           /\ "sender" \in holders[c] \/ Contains(backlog, c) => failed'[c] # {}
      /\ backlog' \in Seq(Clients) /\ NoTwice(backlog') /\ \A c : ~Contains(backlog', c)
  BY <1>1, EmptyQueue DEF PassingInv, PassingTypeOK, FailedCalls
<1>6. PassingTypeOK'
  BY <1>1, <1>4, <1>5 DEF PassingInv, PassingTypeOK, LinkEnds, FailedCalls
<1>7. QueuesHold'
  BY <1>1, <1>4, <1>5, ClientsAssumption DEF PassingInv, QueuesHold
<1>8. SenderServes'
  BY <1>1, <1>4, ClientsAssumption DEF SenderServes
<1>9. ReceiverServes'
  BY <1>1, <1>4 DEF PassingInv, PassingTypeOK, ReceiverServes
<1>10. LinksHold'
  BY <1>1, <1>4 DEF PassingInv, LinksHold
<1>11. PassedOn'
  <2>1. receiver = "closeFd" => rcur \in Clients
    BY DEF PassingInv, PassingTypeOK, ReceiverServes
  <2>2. QED
    BY <1>1, <1>5, <2>1 DEF PassingInv, PassedOn
<1>12. HandoverKeepsOpen'
  <2> SUFFICES ASSUME NEW d \in Clients, pc'[d] \in {"sending", "receiving"},
                      Released(d)', d \notin reply'
               PROVE  failed'[d] # {}
    BY DEF HandoverKeepsOpen
  <2>1. holders'[d] = {} /\ ~link'[d].fd /\ ~Contains(backlog', d)
    BY DEF Released
  <2>2. /\ holders'[d] = holders[d] \ {"sender"}
        /\ pc'[d] = pc[d] /\ reply' = reply /\ failed[d] \subseteq failed'[d]
    BY <1>1
  <2>3. CASE "sender" \in holders[d] \/ Contains(backlog, d)
    BY <2>3, <1>5
  <2>4. CASE ~("sender" \in holders[d] \/ Contains(backlog, d))
    <3>1. holders[d] = {} /\ ~link[d].fd /\ ~Contains(backlog, d)
      BY <2>1, <2>4, <1>1, <1>4
    <3>2. failed[d] # {}
      BY <3>1, <2>2 DEF PassingInv, HandoverKeepsOpen, Released
    <3>3. QED
      BY <3>2, <2>2
  <2>5. QED
    BY <2>3, <2>4
<1>13. QED
  BY <1>6, <1>7, <1>8, <1>9, <1>10, <1>11, <1>12 DEF PassingInv

(* A message stays in the link that carries it.                            *)
LEMMA CloseLinkKeeps ==
  ASSUME PassingInv, CloseLink
  PROVE  PassingInv'
<1>1. /\ sender = "closeLink" /\ sender' = "close"
      /\ UNCHANGED <<receiver, cur, rcur, serverPath, backlog, rbacklog, pc, holders, hello,
                     reply, failed, crashes>>
  BY DEF CloseLink, SenderGoes, queues
<1>2. link' = [link EXCEPT ![cur].out = "closed"]
  BY DEF CloseLink
<1>3. /\ cur \in Clients /\ cur # Nobody
      /\ link \in [Clients -> LinkEnds]
  BY <1>1 DEF PassingInv, PassingTypeOK, LinkEnds, SenderServes
<1>4. /\ link' \in [Clients -> LinkEnds]
      /\ link'[cur].out = "closed"
      /\ link'[cur].in = link[cur].in
      /\ link'[cur].fd = link[cur].fd
      /\ \A c \in Clients \ {cur} : link'[c] = link[c]
  BY <1>3, <1>2 DEF LinkEnds
<1>5. PassingTypeOK'
  BY <1>1, <1>4 DEF PassingInv, PassingTypeOK, LinkEnds
<1>6. QueuesHold'
  BY <1>1, <1>4 DEF PassingInv, QueuesHold
<1>7. SenderServes'
  BY <1>1, <1>4 DEF PassingInv, SenderServes
<1>8. ReceiverServes'
  BY <1>1, <1>4 DEF PassingInv, ReceiverServes
<1>9. LinksHold'
  BY <1>1, <1>4 DEF PassingInv, SenderServes, LinksHold
<1>10. PassedOn'
  BY <1>1, <1>4 DEF PassingInv, PassedOn
<1>11. HandoverKeepsOpen'
  <2> SUFFICES ASSUME NEW d \in Clients, pc'[d] \in {"sending", "receiving"},
                      Released(d)', d \notin reply'
               PROVE  failed'[d] # {}
    BY DEF HandoverKeepsOpen
  <2>1. QED
    BY <1>1, <1>4 DEF PassingInv, HandoverKeepsOpen, Released
<1>12. QED
  BY <1>5, <1>6, <1>7, <1>8, <1>9, <1>10, <1>11 DEF PassingInv

(* The message or the receiver still has what the sender closes            *)
(* (PassedOn).                                                             *)
LEMMA SenderCloseKeeps ==
  ASSUME PassingInv, SenderClose
  PROVE  PassingInv'
<1>1. /\ sender = "close" /\ sender' = "accept" /\ cur' = Nobody
      /\ holders' = [holders EXCEPT ![cur] = @ \ {"sender"}]
      /\ UNCHANGED <<receiver, rcur, serverPath, backlog, rbacklog, pc, link, hello, reply,
                     failed, crashes>>
  BY DEF SenderClose, SenderGoes, queues
<1>2. /\ cur \in Clients /\ cur # Nobody
      /\ link \in [Clients -> LinkEnds]
  BY <1>1 DEF PassingInv, PassingTypeOK, LinkEnds, SenderServes
<1>3. PassingTypeOK'
  BY <1>1, <1>2 DEF PassingInv, PassingTypeOK
<1>4. QueuesHold'
  BY <1>1, ClientsAssumption DEF PassingInv, QueuesHold
<1>5. SenderServes'
  BY <1>1, ClientsAssumption DEF PassingInv, PassingTypeOK, SenderServes
<1>6. ReceiverServes'
  BY <1>1 DEF PassingInv, ReceiverServes
<1>7. LinksHold'
  BY <1>1 DEF PassingInv, LinksHold
<1>8. PassedOn'
  BY <1>1 DEF PassingInv, PassedOn
<1>9. HandoverKeepsOpen'
  <2> SUFFICES ASSUME NEW d \in Clients, pc'[d] \in {"sending", "receiving"},
                      Released(d)', d \notin reply'
               PROVE  failed'[d] # {}
    BY DEF HandoverKeepsOpen
  <2>1. QED
    BY <1>1, ClientsAssumption DEF PassingInv, PassedOn, HandoverKeepsOpen, Released
<1>10. QED
  BY <1>3, <1>4, <1>5, <1>6, <1>7, <1>8, <1>9 DEF PassingInv

----------------------------------------------------------------------------
(* The receiver. Starting it concerns no connection.                       *)
LEMMA ReceiverInitKeeps ==
  ASSUME PassingInv, ReceiverInit
  PROVE  PassingInv'
<1>1. /\ receiver = "off" /\ receiver' \in {"accept", "returned"} /\ serverPath' \in BOOLEAN
      /\ UNCHANGED <<sender, cur, rcur, backlog, rbacklog, pc, holders, link, hello, reply,
                     failed, crashes>>
  BY DEF ReceiverInit, ReceiverGoes, PassingInv, PassingTypeOK, queues, connVars
<1>2. PassingTypeOK'
  BY <1>1 DEF PassingInv, PassingTypeOK
<1>3. QueuesHold'
  BY <1>1 DEF PassingInv, QueuesHold
<1>4. SenderServes'
  BY <1>1 DEF PassingInv, SenderServes
<1>5. ReceiverServes'
  BY <1>1 DEF PassingInv, ReceiverServes
<1>6. LinksHold'
  BY <1>1 DEF PassingInv, LinksHold
<1>7. PassedOn'
  BY <1>1 DEF PassingInv, PassedOn
<1>8. HandoverKeepsOpen'
  <2> SUFFICES ASSUME NEW d \in Clients, pc'[d] \in {"sending", "receiving"},
                      Released(d)', d \notin reply'
               PROVE  failed'[d] # {}
    BY DEF HandoverKeepsOpen
  <2>1. QED
    BY <1>1 DEF PassingInv, HandoverKeepsOpen, Released
<1>9. QED
  BY <1>2, <1>3, <1>4, <1>5, <1>6, <1>7, <1>8 DEF PassingInv

(* The link leaves the queue at its head, with what it carries.            *)
LEMMA ReceiverAcceptKeeps ==
  ASSUME PassingInv, ReceiverAccept
  PROVE  PassingInv'
<1>1. /\ receiver = "accept" /\ rbacklog # <<>> /\ receiver' = "recvmsg"
      /\ rcur' = Head(rbacklog) /\ rbacklog' = Tail(rbacklog)
      /\ UNCHANGED <<sender, cur, serverPath, backlog, pc, holders, hello, reply, failed,
                     crashes>>
  BY DEF ReceiverAccept, ReceiverGoes
<1>2. link' = [link EXCEPT ![rcur'].in = "open"]
  BY DEF ReceiverAccept
<1>3. /\ rcur' \in Clients /\ rbacklog' \in Seq(Clients) /\ NoTwice(rbacklog')
      /\ \A c : Contains(rbacklog, c) <=> Contains(rbacklog', c) \/ c = rcur'
      /\ ~Contains(rbacklog', rcur')
      /\ link \in [Clients -> LinkEnds]
  BY <1>1, LeavesQueue DEF PassingInv, PassingTypeOK, LinkEnds, QueuesHold
<1>4. /\ link' \in [Clients -> LinkEnds]
      /\ link'[rcur'].out = link[rcur'].out
      /\ link'[rcur'].in = "open"
      /\ link'[rcur'].fd = link[rcur'].fd
      /\ \A c \in Clients \ {rcur'} : link'[c] = link[c]
  BY <1>3, <1>2 DEF LinkEnds
<1>5. PassingTypeOK'
  BY <1>1, <1>4 DEF PassingInv, PassingTypeOK, LinkEnds
<1>6. QueuesHold'
  BY <1>1, <1>3, <1>4 DEF PassingInv, QueuesHold
<1>7. SenderServes'
  BY <1>1, <1>4 DEF PassingInv, PassingTypeOK, LinkEnds, QueuesHold, SenderServes
<1>8. ReceiverServes'
  BY <1>1, <1>3, <1>4, ClientsAssumption DEF PassingInv, ReceiverServes
<1>9. LinksHold'
  BY <1>1, <1>3, <1>4 DEF PassingInv, QueuesHold, LinksHold
<1>10. PassedOn'
  BY <1>1, <1>4 DEF PassingInv, PassingTypeOK, LinkEnds, SenderServes, PassedOn
<1>11. HandoverKeepsOpen'
  <2> SUFFICES ASSUME NEW d \in Clients, pc'[d] \in {"sending", "receiving"},
                      Released(d)', d \notin reply'
               PROVE  failed'[d] # {}
    BY DEF HandoverKeepsOpen
  <2>1. QED
    BY <1>1, <1>4 DEF PassingInv, HandoverKeepsOpen, Released
<1>12. QED
  BY <1>5, <1>6, <1>7, <1>8, <1>9, <1>10, <1>11 DEF PassingInv

(* What the message had open the receiver has open.                        *)
LEMMA RecvMsgKeeps ==
  ASSUME PassingInv, RecvMsg
  PROVE  PassingInv'
<1>1. /\ receiver = "recvmsg" /\ link[rcur].fd /\ receiver' = "recv"
      /\ holders' = [holders EXCEPT ![rcur] = @ \cup {"receiver"}]
      /\ UNCHANGED <<sender, cur, rcur, serverPath, backlog, rbacklog, pc, hello, reply,
                     failed, crashes>>
  BY DEF RecvMsg, ReceiverGoes, queues
<1>2. link' = [link EXCEPT ![rcur].fd = FALSE]
  BY DEF RecvMsg
<1>3. /\ rcur \in Clients /\ rcur # Nobody
      /\ link \in [Clients -> LinkEnds]
  BY <1>1 DEF PassingInv, PassingTypeOK, LinkEnds, ReceiverServes
<1>4. /\ link' \in [Clients -> LinkEnds]
      /\ link'[rcur].out = link[rcur].out
      /\ link'[rcur].in = link[rcur].in
      /\ link'[rcur].fd = FALSE
      /\ \A c \in Clients \ {rcur} : link'[c] = link[c]
  BY <1>3, <1>2 DEF LinkEnds
<1>5. PassingTypeOK'
  BY <1>1, <1>4 DEF PassingInv, PassingTypeOK, LinkEnds
<1>6. QueuesHold'
  BY <1>1, <1>4 DEF PassingInv, QueuesHold
<1>7. SenderServes'
  BY <1>1, <1>4 DEF PassingInv, PassingTypeOK, SenderServes
<1>8. ReceiverServes'
  BY <1>1, <1>4 DEF PassingInv, PassingTypeOK, ReceiverServes
<1>9. LinksHold'
  BY <1>1, <1>4 DEF PassingInv, SenderServes, LinksHold
<1>10. PassedOn'
  BY <1>1, <1>4 DEF PassingInv, PassingTypeOK, SenderServes, PassedOn
<1>11. HandoverKeepsOpen'
  <2> SUFFICES ASSUME NEW d \in Clients, pc'[d] \in {"sending", "receiving"},
                      Released(d)', d \notin reply'
               PROVE  failed'[d] # {}
    BY DEF HandoverKeepsOpen
  <2>1. QED
    BY <1>1, <1>3, <1>4 DEF PassingInv, PassingTypeOK, HandoverKeepsOpen, Released
<1>12. QED
  BY <1>5, <1>6, <1>7, <1>8, <1>9, <1>10, <1>11 DEF PassingInv

(* The descriptor is gone with the message, and the failure is noted.      *)
LEMMA RecvMsgFailsKeeps ==
  ASSUME PassingInv, RecvMsgFails
  PROVE  PassingInv'
<1>1. /\ receiver = "recvmsg" /\ receiver' = "closeLink"
      /\ link[rcur].fd \/ link[rcur].out = "closed"
      /\ failed' = [failed EXCEPT ![rcur] = @ \cup {"recvmsg"}]
      /\ UNCHANGED <<sender, cur, rcur, serverPath, backlog, rbacklog, pc, holders, hello,
                     reply, crashes>>
  BY DEF RecvMsgFails, ReceiverGoes, Fails, queues
<1>2. link' = [link EXCEPT ![rcur].fd = FALSE]
  BY DEF RecvMsgFails
<1>3. /\ rcur \in Clients /\ rcur # Nobody
      /\ link \in [Clients -> LinkEnds]
  BY <1>1 DEF PassingInv, PassingTypeOK, LinkEnds, ReceiverServes
<1>4. /\ link' \in [Clients -> LinkEnds]
      /\ link'[rcur].out = link[rcur].out
      /\ link'[rcur].in = link[rcur].in
      /\ link'[rcur].fd = FALSE
      /\ \A c \in Clients \ {rcur} : link'[c] = link[c]
  BY <1>3, <1>2 DEF LinkEnds
<1>5. /\ failed'[rcur] = failed[rcur] \cup {"recvmsg"} /\ failed'[rcur] # {}
      /\ \A c \in Clients \ {rcur} : failed'[c] = failed[c]
  BY <1>1, <1>3 DEF PassingInv, PassingTypeOK
<1>6. PassingTypeOK'
  BY <1>1, <1>4 DEF PassingInv, PassingTypeOK, LinkEnds
<1>7. QueuesHold'
  BY <1>1, <1>4, <1>5 DEF PassingInv, QueuesHold
<1>8. SenderServes'
  BY <1>1, <1>4 DEF PassingInv, PassingTypeOK, SenderServes
<1>9. ReceiverServes'
  BY <1>1, <1>4 DEF PassingInv, ReceiverServes
<1>10. LinksHold'
  BY <1>1, <1>4 DEF PassingInv, SenderServes, LinksHold
<1>11. PassedOn'
  <2>1. sender \in {"closeLink", "close"} => cur \in Clients
    BY DEF PassingInv, PassingTypeOK, SenderServes
  <2>2. ASSUME sender' \in {"closeLink", "close"}, pc'[cur'] \in {"sending", "receiving"},
               failed'[cur'] = {}, cur' \notin reply'
        PROVE  link'[cur'].fd \/ "receiver" \in holders'[cur']
    <3>1. cur \in Clients /\ cur # rcur /\ failed[cur] = {} /\ link'[cur] = link[cur]
      BY <2>1, <2>2, <1>1, <1>4, <1>5
    <3>2. QED
      BY <2>2, <3>1, <1>1 DEF PassingInv, PassedOn
  <2>3. QED
    BY <2>2, <1>1 DEF PassingInv, PassedOn
<1>12. HandoverKeepsOpen'
  <2> SUFFICES ASSUME NEW d \in Clients, pc'[d] \in {"sending", "receiving"},
                      Released(d)', d \notin reply'
               PROVE  failed'[d] # {}
    BY DEF HandoverKeepsOpen
  <2>1. holders'[d] = {} /\ ~link'[d].fd /\ ~Contains(backlog', d)
    BY DEF Released
  <2>2. CASE d = rcur
    BY <2>2, <1>5
  <2>3. CASE d # rcur
    <3>1. link'[d] = link[d] /\ failed'[d] = failed[d]
      BY <2>3, <1>4, <1>5
    <3>2. QED
      BY <3>1, <1>1 DEF PassingInv, HandoverKeepsOpen, Released
  <2>4. QED
    BY <2>2, <2>3
<1>13. QED
  BY <1>6, <1>7, <1>8, <1>9, <1>10, <1>11, <1>12 DEF PassingInv

(* The hello is taken; nothing is opened or closed.                        *)
LEMMA RecvKeeps ==
  ASSUME PassingInv, Recv
  PROVE  PassingInv'
<1>1. /\ receiver = "recv" /\ receiver' = "send"
      /\ rcur \in hello \/ pc[rcur] \notin {"sending", "receiving", "left"}
      /\ hello' = hello \ {rcur}
      /\ UNCHANGED <<sender, cur, rcur, serverPath, backlog, rbacklog, pc, holders, link,
                     reply, failed, crashes>>
  BY DEF Recv, ReceiverGoes, CanRecv, Connected, queues
<1>2. /\ rcur \in Clients /\ rcur # Nobody
      /\ link \in [Clients -> LinkEnds]
  BY <1>1 DEF PassingInv, PassingTypeOK, LinkEnds, ReceiverServes
<1>3. PassingTypeOK'
  BY <1>1 DEF PassingInv, PassingTypeOK
<1>4. QueuesHold'
  BY <1>1 DEF PassingInv, QueuesHold
<1>5. SenderServes'
  BY <1>1 DEF PassingInv, SenderServes
<1>6. ReceiverServes'
  BY <1>1 DEF PassingInv, ReceiverServes
<1>7. LinksHold'
  BY <1>1 DEF PassingInv, LinksHold
<1>8. PassedOn'
  BY <1>1 DEF PassingInv, PassedOn
<1>9. HandoverKeepsOpen'
  <2> SUFFICES ASSUME NEW d \in Clients, pc'[d] \in {"sending", "receiving"},
                      Released(d)', d \notin reply'
               PROVE  failed'[d] # {}
    BY DEF HandoverKeepsOpen
  <2>1. QED
    BY <1>1 DEF PassingInv, HandoverKeepsOpen, Released
<1>10. QED
  BY <1>3, <1>4, <1>5, <1>6, <1>7, <1>8, <1>9 DEF PassingInv

(* The connection stays open, with the failure noted for its client.       *)
LEMMA RecvFailsKeeps ==
  ASSUME PassingInv, RecvFails
  PROVE  PassingInv'
<1>1. /\ receiver = "recv" /\ receiver' = "closeLink"
      /\ failed' = [failed EXCEPT ![rcur] = @ \cup {"recv"}]
      /\ UNCHANGED <<sender, cur, rcur, serverPath, backlog, rbacklog, pc, holders, link,
                     hello, reply, crashes>>
  BY DEF RecvFails, ReceiverGoes, Fails, queues, connVars
<1>2. /\ rcur \in Clients /\ rcur # Nobody
      /\ link \in [Clients -> LinkEnds]
  BY <1>1 DEF PassingInv, PassingTypeOK, LinkEnds, ReceiverServes
<1>3. PassingTypeOK'
  BY <1>1, <1>2 DEF PassingInv, PassingTypeOK
<1>4. QueuesHold'
  BY <1>1 DEF PassingInv, QueuesHold
<1>5. SenderServes'
  BY <1>1 DEF PassingInv, SenderServes
<1>6. ReceiverServes'
  BY <1>1 DEF PassingInv, PassingTypeOK, ReceiverServes
<1>7. LinksHold'
  BY <1>1 DEF PassingInv, LinksHold
<1>8. PassedOn'
  BY <1>1 DEF PassingInv, PassedOn
<1>9. HandoverKeepsOpen'
  <2> SUFFICES ASSUME NEW d \in Clients, pc'[d] \in {"sending", "receiving"},
                      Released(d)', d \notin reply'
               PROVE  failed'[d] # {}
    BY DEF HandoverKeepsOpen
  <2>1. QED
    BY <1>1 DEF PassingInv, HandoverKeepsOpen, Released
<1>10. QED
  BY <1>3, <1>4, <1>5, <1>6, <1>7, <1>8, <1>9 DEF PassingInv

(* A client that waits has its answer on the way.                          *)
LEMMA SendKeeps ==
  ASSUME PassingInv, Send
  PROVE  PassingInv'
<1>1. /\ receiver = "send" /\ receiver' = "closeFd"
      /\ UNCHANGED <<sender, cur, rcur, serverPath, backlog, rbacklog, pc, holders, link,
                     hello, crashes>>
  BY DEF Send, ReceiverGoes, queues
<1>2. /\ rcur \in Clients /\ rcur # Nobody
      /\ failed \in [Clients -> FailedCalls] /\ reply \subseteq Clients
  BY <1>1 DEF PassingInv, PassingTypeOK, FailedCalls, ReceiverServes
<1>3. /\ reply' \subseteq Clients /\ reply \subseteq reply' /\ failed' \in [Clients -> FailedCalls]
      /\ \A c \in Clients : failed[c] \subseteq failed'[c]
      /\ pc[rcur] = "receiving" => rcur \in reply' \/ failed'[rcur] # {}
  <2>1. CASE failed' = failed /\ reply' = IF pc[rcur] = "receiving" THEN reply \cup {rcur} ELSE reply
    BY <1>2, <2>1
  <2>2. CASE reply' = reply /\ failed' = [failed EXCEPT ![rcur] = @ \cup {"send"}]
    BY <1>2, <2>2 DEF FailedCalls
  <2>3. QED
    BY <2>1, <2>2 DEF Send, Fails
<1>4. PassingTypeOK'
  BY <1>1, <1>3 DEF PassingInv, PassingTypeOK, FailedCalls
<1>5. QueuesHold'
  BY <1>1 DEF PassingInv, QueuesHold
<1>6. SenderServes'
  BY <1>1, <1>3 DEF PassingInv, SenderServes
<1>7. ReceiverServes'
  BY <1>1, <1>3 DEF PassingInv, ReceiverServes
<1>8. LinksHold'
  BY <1>1 DEF PassingInv, LinksHold
<1>9. PassedOn'
  <2>1. ASSUME sender \in {"closeLink", "close"}, pc[cur] \in {"sending", "receiving"},
               failed'[cur] = {}, cur \notin reply'
        PROVE  link[cur].fd \/ "receiver" \in holders[cur]
    <3>1. cur \in Clients
      BY <2>1 DEF PassingInv, PassingTypeOK, SenderServes
    <3>2. failed[cur] = {} /\ cur \notin reply
      BY <1>3, <2>1, <3>1
    <3>3. QED
      BY <2>1, <3>2 DEF PassingInv, PassedOn
  <2>2. QED
    BY <1>1, <1>3, <2>1 DEF PassingInv, PassedOn
<1>10. HandoverKeepsOpen'
  <2> SUFFICES ASSUME NEW d \in Clients, pc'[d] \in {"sending", "receiving"},
                      Released(d)', d \notin reply'
               PROVE  failed'[d] # {}
    BY DEF HandoverKeepsOpen
  <2>1. failed[d] # {}
    BY <1>1, <1>3 DEF PassingInv, HandoverKeepsOpen, Released
  <2>2. QED
    BY <1>3, <2>1
<1>11. QED
  BY <1>4, <1>5, <1>6, <1>7, <1>8, <1>9, <1>10 DEF PassingInv

(* Who still waits has an answer on the way, or the send of it has failed, *)
(* so this may be the last close.                                          *)
LEMMA CloseFdKeeps ==
  ASSUME PassingInv, CloseFd
  PROVE  PassingInv'
<1>1. /\ receiver = "closeFd" /\ receiver' = "closeLink"
      /\ holders' = [holders EXCEPT ![rcur] = @ \ {"receiver"}]
      /\ UNCHANGED <<sender, cur, rcur, serverPath, backlog, rbacklog, pc, link, hello, reply,
                     failed, crashes>>
  BY DEF CloseFd, ReceiverGoes, queues
<1>2. /\ rcur \in Clients /\ rcur # Nobody
      /\ link \in [Clients -> LinkEnds]
  BY <1>1 DEF PassingInv, PassingTypeOK, LinkEnds, ReceiverServes
<1>3. PassingTypeOK'
  BY <1>1, <1>2 DEF PassingInv, PassingTypeOK
<1>4. QueuesHold'
  BY <1>1 DEF PassingInv, QueuesHold
<1>5. SenderServes'
  BY <1>1 DEF PassingInv, SenderServes
<1>6. ReceiverServes'
  BY <1>1 DEF PassingInv, PassingTypeOK, ReceiverServes
<1>7. LinksHold'
  BY <1>1 DEF PassingInv, LinksHold
<1>8. PassedOn'
  BY <1>1 DEF PassingInv, PassedOn
<1>9. HandoverKeepsOpen'
  <2> SUFFICES ASSUME NEW d \in Clients, pc'[d] \in {"sending", "receiving"},
                      Released(d)', d \notin reply'
               PROVE  failed'[d] # {}
    BY DEF HandoverKeepsOpen
  <2>1. QED
    BY <1>1, ClientsAssumption DEF PassingInv, PassedOn, HandoverKeepsOpen, Released
<1>10. QED
  BY <1>3, <1>4, <1>5, <1>6, <1>7, <1>8, <1>9 DEF PassingInv

(* The link carries nothing any more: it was taken out before (LinksHold). *)
LEMMA ReceiverCloseKeeps ==
  ASSUME PassingInv, ReceiverClose
  PROVE  PassingInv'
<1>1. /\ receiver = "closeLink" /\ receiver' = "accept" /\ rcur' = Nobody
      /\ UNCHANGED <<sender, cur, serverPath, backlog, rbacklog, pc, holders, hello, reply,
                     failed, crashes>>
  BY DEF ReceiverClose, ReceiverGoes, queues
<1>2. link' = [link EXCEPT ![rcur] = EndsIn(@)]
  BY DEF ReceiverClose
<1>3. /\ rcur \in Clients /\ rcur # Nobody
      /\ link \in [Clients -> LinkEnds]
  BY <1>1 DEF PassingInv, PassingTypeOK, LinkEnds, ReceiverServes
<1>4. /\ link' \in [Clients -> LinkEnds]
      /\ link'[rcur].out = link[rcur].out /\ link'[rcur].in = "closed" /\ link'[rcur].fd = FALSE
      /\ \A c \in Clients \ {rcur} : link'[c] = link[c]
  BY <1>3, <1>2 DEF EndsIn, LinkEnds
<1>5. PassingTypeOK'
  BY <1>1, <1>4 DEF PassingInv, PassingTypeOK, LinkEnds
<1>6. QueuesHold'
  BY <1>1, <1>4 DEF PassingInv, QueuesHold, ReceiverServes
<1>7. SenderServes'
  BY <1>1, <1>3, <1>4 DEF PassingInv, PassingTypeOK, QueuesHold, SenderServes
<1>8. ReceiverServes'
  BY <1>1, <1>4, ClientsAssumption DEF PassingInv, ReceiverServes
<1>9. LinksHold'
  BY <1>1, <1>4, ClientsAssumption DEF PassingInv, ReceiverServes, LinksHold
<1>10. PassedOn'
  BY <1>1, <1>4 DEF PassingInv, PassingTypeOK, SenderServes, LinksHold, PassedOn
<1>11. HandoverKeepsOpen'
  <2> SUFFICES ASSUME NEW d \in Clients, pc'[d] \in {"sending", "receiving"},
                      Released(d)', d \notin reply'
               PROVE  failed'[d] # {}
    BY DEF HandoverKeepsOpen
  <2>1. QED
    BY <1>1, <1>4 DEF PassingInv, LinksHold, HandoverKeepsOpen, Released
<1>12. QED
  BY <1>5, <1>6, <1>7, <1>8, <1>9, <1>10, <1>11 DEF PassingInv

(* The process ends: what it had open or on its way to it is closed, and   *)
(* noted for each client.                                                  *)
LEMMA ReceiverCrashKeeps ==
  ASSUME PassingInv, ReceiverCrash
  PROVE  PassingInv'
<1>1. /\ receiver' = "off" /\ rcur' = Nobody /\ crashes' = crashes + 1 /\ crashes < MaxCrashes
      /\ failed' = [c \in Clients |->
                      IF link[c].in \in {"queued", "open"} \/ "receiver" \in holders[c]
                        THEN failed[c] \cup {"crash"} ELSE failed[c]]
      /\ rbacklog' = <<>>
      /\ holders' = [c \in Clients |-> holders[c] \ {"receiver"}]
      /\ UNCHANGED <<sender, cur, serverPath, backlog, pc, hello, reply>>
  BY DEF ReceiverCrash, ReceiverGoes
<1>2. link' = [c \in Clients |-> IF link[c].in \in {"queued", "open"} THEN EndsIn(link[c])
                                                                         ELSE link[c]]
  BY DEF ReceiverCrash
<1>3. link \in [Clients -> LinkEnds]
  BY DEF PassingInv, PassingTypeOK, LinkEnds
<1>4. /\ link' \in [Clients -> LinkEnds]
      /\ \A c \in Clients :
           /\ link'[c].out = link[c].out
           /\ link'[c].in = IF link[c].in \in {"queued", "open"} THEN "closed" ELSE link[c].in
           /\ link'[c].fd = (link[c].fd /\ link[c].in \notin {"queued", "open"})
  BY <1>3, <1>2 DEF EndsIn, LinkEnds
<1>5. /\ \A c \in Clients : holders'[c] = holders[c] \ {"receiver"}
      /\ failed' \in [Clients -> FailedCalls]
      /\ \A c \in Clients :
           /\ failed[c] \subseteq failed'[c]
           /\ link[c].in \in {"queued", "open"} \/ "receiver" \in holders[c] => failed'[c] # {}
      /\ rbacklog' \in Seq(Clients) /\ NoTwice(rbacklog') /\ \A c : ~Contains(rbacklog', c)
  BY <1>1, EmptyQueue DEF PassingInv, PassingTypeOK, FailedCalls
<1>6. crashes' \in 0 .. MaxCrashes
  BY <1>1, CrashesAssumption DEF PassingInv, PassingTypeOK
<1>7. PassingTypeOK'
  BY <1>1, <1>4, CrashesAssumption DEF PassingInv, PassingTypeOK, LinkEnds
<1>8. QueuesHold'
  BY <1>1, <1>3, <1>4, <1>5, CrashesAssumption DEF PassingInv, QueuesHold
<1>9. SenderServes'
  BY <1>1, <1>4 DEF PassingInv, PassingTypeOK, SenderServes
<1>10. ReceiverServes'
  BY <1>1, <1>4, ClientsAssumption DEF ReceiverServes
<1>11. LinksHold'
  BY <1>1, <1>4 DEF PassingInv, LinkEnds, SenderServes, LinksHold
<1>12. PassedOn'
  BY <1>1, <1>5 DEF PassingInv, PassingTypeOK, SenderServes, LinksHold, PassedOn
<1>13. HandoverKeepsOpen'
  <2> SUFFICES ASSUME NEW d \in Clients, pc'[d] \in {"sending", "receiving"},
                      Released(d)', d \notin reply'
               PROVE  failed'[d] # {}
    BY DEF HandoverKeepsOpen
  <2>1. holders'[d] = {} /\ ~link'[d].fd /\ ~Contains(backlog', d)
    BY DEF Released
  <2>2. /\ holders'[d] = holders[d] \ {"receiver"}
        /\ pc'[d] = pc[d] /\ reply' = reply /\ failed[d] \subseteq failed'[d]
    BY <1>1
  <2>3. CASE link[d].in \in {"queued", "open"} \/ "receiver" \in holders[d]
    BY <2>3, <1>5
  <2>4. CASE ~(link[d].in \in {"queued", "open"} \/ "receiver" \in holders[d])
    <3>1. holders[d] = {} /\ ~link[d].fd /\ ~Contains(backlog, d)
      BY <2>1, <2>4, <1>1 DEF PassingInv, LinksHold
    <3>2. failed[d] # {}
      BY <3>1, <2>2 DEF PassingInv, HandoverKeepsOpen, Released
    <3>3. QED
      BY <3>2, <2>2
  <2>5. QED
    BY <2>3, <2>4
<1>14. QED
  BY <1>7, <1>8, <1>9, <1>10, <1>11, <1>12, <1>13 DEF PassingInv

----------------------------------------------------------------------------
(* The clients. One that connects was in no queue and joins it behind.     *)
LEMMA ConnectKeeps ==
  ASSUME PassingInv, NEW c \in Clients, Connect(c)
  PROVE  PassingInv'
<1>1. /\ pc[c] = "out"
      /\ \/ pc' = [pc EXCEPT ![c] = "sending"] /\ backlog' = Append(backlog, c)
         \/ pc' = [pc EXCEPT ![c] = "refused"] /\ backlog' = backlog
      /\ UNCHANGED <<sender, receiver, cur, rcur, serverPath, rbacklog, holders, link, hello,
                     reply, failed, crashes>>
  BY DEF Connect, ClientGoes, servers, connVars
<1>2. /\ backlog \in Seq(Clients) /\ NoTwice(backlog) /\ ~Contains(backlog, c)
      /\ pc'[c] \in {"sending", "refused"} /\ \A d \in Clients \ {c} : pc'[d] = pc[d]
  BY <1>1 DEF PassingInv, PassingTypeOK, QueuesHold
<1>3. /\ backlog' \in Seq(Clients) /\ NoTwice(backlog')
      /\ \A d : Contains(backlog', d) <=> Contains(backlog, d) \/ (d = c /\ pc'[c] = "sending")
  <2>1. CASE pc' = [pc EXCEPT ![c] = "sending"] /\ backlog' = Append(backlog, c)
    <3>1. pc'[c] = "sending"
      BY <2>1 DEF PassingInv, PassingTypeOK
    <3>2. QED
      BY <2>1, <3>1, <1>2, JoinsQueue
  <2>2. CASE pc' = [pc EXCEPT ![c] = "refused"] /\ backlog' = backlog
    <3>1. pc'[c] = "refused"
      BY <2>2 DEF PassingInv, PassingTypeOK
    <3>2. QED
      BY <2>2, <3>1, <1>2
  <2>3. QED
    BY <1>1, <2>1, <2>2
<1>4. PassingTypeOK'
  <2>1. pc' \in [Clients -> {"out", "sending", "receiving", "left", "answered", "hungUp",
                            "refused", "dead"}]
    BY <1>1 DEF PassingInv, PassingTypeOK
  <2>2. QED
    BY <1>1, <1>3 DEF PassingInv, PassingTypeOK
<1>5. QueuesHold'
  BY <1>1, <1>2, <1>3 DEF PassingInv, QueuesHold
<1>6. SenderServes'
  BY <1>1 DEF PassingInv, SenderServes
<1>7. ReceiverServes'
  BY <1>1 DEF PassingInv, ReceiverServes
<1>8. LinksHold'
  BY <1>1 DEF PassingInv, LinksHold
<1>9. PassedOn'
  BY <1>1 DEF PassingInv, PassingTypeOK, QueuesHold, SenderServes, ReceiverServes,
     LinksHold, PassedOn
<1>10. HandoverKeepsOpen'
  <2> SUFFICES ASSUME NEW d \in Clients, pc'[d] \in {"sending", "receiving"},
                      Released(d)', d \notin reply'
               PROVE  failed'[d] # {}
    BY DEF HandoverKeepsOpen
  <2>1. QED
    BY <1>1, <1>2, <1>3 DEF PassingInv, HandoverKeepsOpen, Released
<1>11. QED
  BY <1>4, <1>5, <1>6, <1>7, <1>8, <1>9, <1>10 DEF PassingInv

(* A hello under way changes nothing about who has the connection.         *)
LEMMA ClientSendKeeps ==
  ASSUME PassingInv, NEW c \in Clients, ClientSend(c)
  PROVE  PassingInv'
<1>1. /\ pc[c] = "sending" /\ pc' = [pc EXCEPT ![c] = "receiving"]
      /\ hello' \in {hello, hello \cup {c}}
      /\ UNCHANGED <<sender, receiver, cur, rcur, serverPath, backlog, rbacklog, holders, link,
                     reply, failed, crashes>>
  BY DEF ClientSend, ClientGoes, servers, queues
<1>2. PassingTypeOK'
  BY <1>1 DEF PassingInv, PassingTypeOK
<1>3. QueuesHold'
  BY <1>1 DEF PassingInv, QueuesHold
<1>4. SenderServes'
  BY <1>1 DEF PassingInv, SenderServes
<1>5. ReceiverServes'
  BY <1>1 DEF PassingInv, ReceiverServes
<1>6. LinksHold'
  BY <1>1 DEF PassingInv, LinksHold
<1>7. PassedOn'
  BY <1>1 DEF PassingInv, PassingTypeOK, PassedOn
<1>8. HandoverKeepsOpen'
  <2> SUFFICES ASSUME NEW d \in Clients, pc'[d] \in {"sending", "receiving"},
                      Released(d)', d \notin reply'
               PROVE  failed'[d] # {}
    BY DEF HandoverKeepsOpen
  <2>1. QED
    BY <1>1 DEF PassingInv, PassingTypeOK, HandoverKeepsOpen, Released
<1>9. QED
  BY <1>2, <1>3, <1>4, <1>5, <1>6, <1>7, <1>8 DEF PassingInv

(* The client stays connected and waits for nothing.                       *)
LEMMA ClientSendFailsKeeps ==
  ASSUME PassingInv, NEW c \in Clients, ClientSendFails(c)
  PROVE  PassingInv'
<1>1. /\ pc[c] = "sending" /\ pc' = [pc EXCEPT ![c] = "left"]
      /\ UNCHANGED <<sender, receiver, cur, rcur, serverPath, backlog, rbacklog, holders, link,
                     hello, reply, failed, crashes>>
  BY DEF ClientSendFails, ClientGoes, servers, queues, connVars
<1>2. PassingTypeOK'
  BY <1>1 DEF PassingInv, PassingTypeOK
<1>3. QueuesHold'
  BY <1>1 DEF PassingInv, QueuesHold
<1>4. SenderServes'
  BY <1>1 DEF PassingInv, SenderServes
<1>5. ReceiverServes'
  BY <1>1 DEF PassingInv, ReceiverServes
<1>6. LinksHold'
  BY <1>1 DEF PassingInv, LinksHold
<1>7. PassedOn'
  BY <1>1 DEF PassingInv, PassedOn
<1>8. HandoverKeepsOpen'
  <2> SUFFICES ASSUME NEW d \in Clients, pc'[d] \in {"sending", "receiving"},
                      Released(d)', d \notin reply'
               PROVE  failed'[d] # {}
    BY DEF HandoverKeepsOpen
  <2>1. QED
    BY <1>1 DEF PassingInv, PassingTypeOK, HandoverKeepsOpen, Released
<1>9. QED
  BY <1>2, <1>3, <1>4, <1>5, <1>6, <1>7, <1>8 DEF PassingInv

(* A client that has its answer, or the end, waits no longer.              *)
LEMMA ClientRecvKeeps ==
  ASSUME PassingInv, NEW c \in Clients, ClientRecv(c)
  PROVE  PassingInv'
<1>1. /\ pc[c] = "receiving"
      /\ pc' = [pc EXCEPT ![c] = IF c \in reply THEN "answered" ELSE "hungUp"]
      /\ UNCHANGED <<sender, receiver, cur, rcur, serverPath, backlog, rbacklog, holders, link,
                     hello, reply, failed, crashes>>
  BY DEF ClientRecv, ClientGoes, servers, queues, connVars
<1>2. PassingTypeOK'
  BY <1>1 DEF PassingInv, PassingTypeOK
<1>3. QueuesHold'
  BY <1>1 DEF PassingInv, QueuesHold
<1>4. SenderServes'
  BY <1>1 DEF PassingInv, SenderServes
<1>5. ReceiverServes'
  BY <1>1 DEF PassingInv, ReceiverServes
<1>6. LinksHold'
  BY <1>1 DEF PassingInv, LinksHold
<1>7. PassedOn'
  BY <1>1 DEF PassingInv, PassedOn
<1>8. HandoverKeepsOpen'
  <2> SUFFICES ASSUME NEW d \in Clients, pc'[d] \in {"sending", "receiving"},
                      Released(d)', d \notin reply'
               PROVE  failed'[d] # {}
    BY DEF HandoverKeepsOpen
  <2>1. QED
    BY <1>1 DEF PassingInv, HandoverKeepsOpen, Released
<1>9. QED
  BY <1>2, <1>3, <1>4, <1>5, <1>6, <1>7, <1>8 DEF PassingInv

(* What the servers have open of a dead client they close as ever.         *)
LEMMA ClientDiesKeeps ==
  ASSUME PassingInv, NEW c \in Clients, ClientDies(c)
  PROVE  PassingInv'
<1>1. /\ pc[c] \in {"sending", "receiving", "left"} /\ pc' = [pc EXCEPT ![c] = "dead"]
      /\ UNCHANGED <<sender, receiver, cur, rcur, serverPath, backlog, rbacklog, holders, link,
                     hello, reply, failed, crashes>>
  BY DEF ClientDies, ClientGoes, Connected, servers, queues, connVars
<1>2. PassingTypeOK'
  BY <1>1 DEF PassingInv, PassingTypeOK
<1>3. QueuesHold'
  BY <1>1 DEF PassingInv, QueuesHold
<1>4. SenderServes'
  BY <1>1 DEF PassingInv, SenderServes
<1>5. ReceiverServes'
  BY <1>1 DEF PassingInv, ReceiverServes
<1>6. LinksHold'
  BY <1>1 DEF PassingInv, LinksHold
<1>7. PassedOn'
  BY <1>1 DEF PassingInv, PassedOn
<1>8. HandoverKeepsOpen'
  <2> SUFFICES ASSUME NEW d \in Clients, pc'[d] \in {"sending", "receiving"},
                      Released(d)', d \notin reply'
               PROVE  failed'[d] # {}
    BY DEF HandoverKeepsOpen
  <2>1. QED
    BY <1>1 DEF PassingInv, HandoverKeepsOpen, Released
<1>9. QED
  BY <1>2, <1>3, <1>4, <1>5, <1>6, <1>7, <1>8 DEF PassingInv

LEMMA PassingStarts == PassingInit => PassingInv
<1> SUFFICES ASSUME PassingInit PROVE PassingInv
  OBVIOUS
<1>1. PassingTypeOK
  <2>1. /\ link \in [Clients -> LinkEnds]
        /\ backlog \in Seq(Clients)
        /\ rbacklog \in Seq(Clients)
        /\ crashes \in 0 .. MaxCrashes
    BY CrashesAssumption DEF PassingInit, LinkEnds, NoLink
  <2>2. QED
    BY <2>1 DEF PassingInit, PassingTypeOK, LinkEnds
<1>2. QueuesHold
  BY EmptyQueue, ClientsAssumption DEF PassingInit, QueuesHold, NoLink
<1>3. SenderServes /\ ReceiverServes /\ LinksHold
  BY ClientsAssumption DEF PassingInit, SenderServes, ReceiverServes, LinksHold, NoLink
<1>4. PassedOn /\ HandoverKeepsOpen
  BY DEF PassingInit, PassedOn, HandoverKeepsOpen
<1>5. QED
  BY <1>1, <1>2, <1>3, <1>4 DEF PassingInv

(* Together:                                                               *)
LEMMA PassingStep ==
  ASSUME PassingInv, [PassingNext]_passingVars
  PROVE  PassingInv'
<1>1. CASE SenderInit
  BY <1>1, SenderInitKeeps
<1>2. CASE SenderAccept
  BY <1>2, SenderAcceptKeeps
<1>3. CASE ConnectUnix
  BY <1>3, ConnectUnixKeeps
<1>4. CASE ConnectUnixFails
  BY <1>4, ConnectUnixFailsKeeps
<1>5. CASE SendMsg
  BY <1>5, SendMsgKeeps
<1>6. CASE SendMsgFails
  BY <1>6, SendMsgFailsKeeps
<1>7. CASE SendMsgRaises
  BY <1>7, SendMsgRaisesKeeps
<1>8. CASE CloseLink
  BY <1>8, CloseLinkKeeps
<1>9. CASE SenderClose
  BY <1>9, SenderCloseKeeps
<1>10. CASE ReceiverInit
  BY <1>10, ReceiverInitKeeps
<1>11. CASE ReceiverAccept
  BY <1>11, ReceiverAcceptKeeps
<1>12. CASE RecvMsg
  BY <1>12, RecvMsgKeeps
<1>13. CASE RecvMsgFails
  BY <1>13, RecvMsgFailsKeeps
<1>14. CASE Recv
  BY <1>14, RecvKeeps
<1>15. CASE RecvFails
  BY <1>15, RecvFailsKeeps
<1>16. CASE Send
  BY <1>16, SendKeeps
<1>17. CASE CloseFd
  BY <1>17, CloseFdKeeps
<1>18. CASE ReceiverClose
  BY <1>18, ReceiverCloseKeeps
<1>19. CASE ReceiverCrash
  BY <1>19, ReceiverCrashKeeps
<1>20. ASSUME NEW c \in Clients, Client(c) PROVE PassingInv'
  BY <1>20, ConnectKeeps, ClientSendKeeps, ClientSendFailsKeeps, ClientRecvKeeps,
     ClientDiesKeeps DEF Client
<1>21. CASE UNCHANGED passingVars
  <2>1. PassingTypeOK' /\ QueuesHold' /\ SenderServes'
    BY <1>21 DEF passingVars, servers, queues, connVars, PassingInv, PassingTypeOK,
       QueuesHold, SenderServes
  <2>2. ReceiverServes' /\ LinksHold'
    BY <1>21 DEF passingVars, servers, connVars, PassingInv, ReceiverServes, LinksHold
  <2>3. PassedOn' /\ HandoverKeepsOpen'
    BY <1>21 DEF passingVars, servers, queues, connVars, PassingInv, PassedOn,
       HandoverKeepsOpen, Released
  <2>4. QED
    BY <2>1, <2>2, <2>3 DEF PassingInv
<1>22. QED
  BY <1>1, <1>2, <1>3, <1>4, <1>5, <1>6, <1>7, <1>8, <1>9, <1>10, <1>11, <1>12, <1>13,
     <1>14, <1>15, <1>16, <1>17, <1>18, <1>19, <1>20, <1>21 DEF PassingNext, Sender,
     Receiver

(* The invariant from which both promises of the socket helper follow      *)
(* holds, with any clients and crashes.                                    *)
THEOREM PassingInvariance == PassingSpec => []PassingInv
BY PassingStarts, PassingStep, PTL DEF PassingSpec

(* Every variable of the passing of descriptors holds a value of its type. *)
THEOREM PassingTypeCorrect == PassingSpec => []PassingTypeOK
<1>1. PassingInv => PassingTypeOK
  BY DEF PassingInv
<1>2. QED
  BY <1>1, PassingInvariance, PTL

(* A connection that is handed over is never without a process that has it *)
(* open, or a message that carries it, before its client has been answered *)
(* or a call of a server has failed or a server ended while serving it.    *)
THEOREM HandoverNeverDrops == PassingSpec => []HandoverKeepsOpen
<1>1. PassingInv => HandoverKeepsOpen
  BY DEF PassingInv
<1>2. QED
  BY <1>1, PassingInvariance, PTL

(* A server that waits for its next client has nothing open of the ones    *)
(* before, but for the three error paths that forget to close: a socket    *)
(* that was not connected, a link whose message was not sent, a connection *)
(* that could not be read.                                                 *)
THEOREM ServersLeaveNothing == PassingSpec => []NothingLeft
<1>1. PassingInv => NothingLeft
  BY ClientsAssumption DEF PassingInv, NothingLeft, SenderServes, ReceiverServes
<1>2. QED
  BY <1>1, PassingInvariance, PTL
============================================================================
