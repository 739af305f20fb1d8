-------------------------- MODULE IOContextProofs --------------------------
(***************************************************************************)
(* Theorems about IOContextUtils for any clients, any number of calls and  *)
(* any number of stops, and about ReuseUdpSender, which runs in such a     *)
(* context, for any number of sends.                                       *)
(***************************************************************************)
EXTENDS IOContextUtils, ReuseUdpSender, SequenceTheorems, TLAPS

(* Calls not yet made have left no trace. *)
Fresh == \A t \in Tasks : t > tasks => state[t] = "none" /\ ret[t] = "none"

(* A caller in a call has a task of its own that has not been answered, and *)
(* only posts or dispatches what nobody has seen before.                    *)
InHand(c, t) ==
  /\ t \in 1 .. tasks /\ owner[t] = c /\ ret[t] = "none"
  /\ cpc[c].at = "checked" <=> state[t] = "none"
  /\ cpc[c].at = "checked" \/ kind[t] # "runAsync"
CallersWait == \A c \in Callers : cpc[c].at # "out" => InHand(c, cpc[c].task)

(* What is in the queue is queued once, what the thread executes runs.      *)
Distinct(s) == \A i, j \in DOMAIN s : s[i] = s[j] => i = j
QueueIsQueued == Distinct(queue) /\ \A i \in DOMAIN queue : state[queue[i]] = "queued"
CurRuns == Distinct(cur) /\ \A i \in DOMAIN cur : state[cur[i]] = "running"

(* An error code comes from an exception. *)
CodeFromThrow == \A t \in Tasks : ec[t] => threw[t]

IInv ==
  /\ TypeOK /\ Fresh /\ CallersWait /\ QueueIsQueued /\ CurRuns /\ CodeFromThrow
  /\ FrameAlive

----------------------------------------------------------------------------
(* Sequences without repetition: what is put behind, taken in front, or     *)
(* taken behind, and what the rest then holds.                              *)
LEMMA AppendDistinct ==
  ASSUME NEW S, NEW s \in Seq(S), NEW e \in S, Distinct(s), \A i \in DOMAIN s : s[i] # e
  PROVE  /\ Append(s, e) \in Seq(S) /\ Distinct(Append(s, e))
         /\ \A i \in DOMAIN Append(s, e) :
              Append(s, e)[i] = e \/ (i \in DOMAIN s /\ Append(s, e)[i] = s[i])
<1>1. /\ Append(s, e) \in Seq(S) /\ DOMAIN Append(s, e) = 1 .. Len(s) + 1
      /\ DOMAIN s = 1 .. Len(s) /\ Len(s) \in Nat
      /\ \A i \in 1 .. Len(s) : Append(s, e)[i] = s[i]
      /\ Append(s, e)[Len(s) + 1] = e
  OBVIOUS
<1>2. \A i \in DOMAIN Append(s, e) :
              Append(s, e)[i] = e \/ (i \in DOMAIN s /\ Append(s, e)[i] = s[i])
  OBVIOUS
<1>3. Distinct(Append(s, e))
  BY DEF Distinct
<1>4. QED
  BY <1>3

LEMMA TailDistinct ==
  ASSUME NEW S, NEW s \in Seq(S), s # <<>>, Distinct(s)
  PROVE  /\ Tail(s) \in Seq(S) /\ Distinct(Tail(s)) /\ Head(s) \in S
         /\ \A i \in DOMAIN Tail(s) : Tail(s)[i] # Head(s) /\ \E j \in DOMAIN s : Tail(s)[i] = s[j]
         /\ \E j \in DOMAIN s : Head(s) = s[j]
<1>1. /\ Tail(s) \in Seq(S) /\ Len(Tail(s)) = Len(s) - 1 /\ Head(s) \in S
      /\ \A i \in 1 .. Len(Tail(s)) : Tail(s)[i] = s[i + 1]
  OBVIOUS
<1>2. /\ DOMAIN s = 1 .. Len(s) /\ DOMAIN Tail(s) = 1 .. Len(s) - 1 /\ Len(s) \in Nat \ {0} /\ Head(s) = s[1]
  OBVIOUS
<1>3. QED
  BY DEF Distinct

LEMMA FrontDistinct ==
  ASSUME NEW S, NEW s \in Seq(S), s # <<>>, Distinct(s)
  PROVE  LET front == SubSeq(s, 1, Len(s) - 1)
             last == s[Len(s)]
         IN  /\ front \in Seq(S) /\ Distinct(front) /\ last \in S
             /\ \A i \in DOMAIN front : front[i] # last /\ i \in DOMAIN s /\ front[i] = s[i]
             /\ Len(s) \in DOMAIN s
<1> DEFINE front == SubSeq(s, 1, Len(s) - 1)
<1>1. /\ DOMAIN s = 1 .. Len(s) /\ Len(s) \in Nat \ {0} /\ \A i \in 1 .. Len(s) : s[i] \in S
  OBVIOUS
<1>2. /\ front \in Seq(S) /\ DOMAIN front = 1 .. Len(s) - 1
      /\ \A i \in 1 .. Len(s) - 1 : front[i] = s[i]
  OBVIOUS
<1>3. QED
  BY DEF Distinct
LEMMA InitIInv == Init => IInv
BY BoundsAssumption DEF Init, IInv, TypeOK, Fresh, CallersWait, QueueIsQueued, CurRuns,
   CodeFromThrow, FrameAlive, Callers, Out, Distinct

LEMMA RefusedIInv ==
  ASSUME IInv, NEW c \in Callers, NEW k \in {"runAsync", "runSync", "runSyncTimeout"}, Refused(c, k)
  PROVE  IInv'
<1> USE BoundsAssumption, CallersAssumption DEF IInv, Tasks, Callers
<1>1. TypeOK'
  BY DEF Refused, MayCall, Called, threadVars, TypeOK
<1>2. Fresh'
  BY DEF Refused, Called, TypeOK, Fresh
<1>3. CallersWait'
  BY DEF Refused, Called, TypeOK, CallersWait, InHand
<1>4. FrameAlive'
  BY DEF Refused, Called, TypeOK, Fresh, FrameAlive
<1>5. QueueIsQueued' /\ CurRuns' /\ CodeFromThrow'
  BY DEF Refused, threadVars, QueueIsQueued, CurRuns, CodeFromThrow
<1>6. QED
  BY <1>1, <1>2, <1>3, <1>4, <1>5

LEMMA CheckedIInv ==
  ASSUME IInv, NEW c \in Callers, NEW k \in {"runAsync", "runSync", "runSyncTimeout"}, Checked(c, k)
  PROVE  IInv'
<1> USE BoundsAssumption, CallersAssumption DEF IInv, Tasks, Callers
<1>1. TypeOK'
  BY DEF Checked, MayCall, Called, At, threadVars, TypeOK
<1>2. Fresh'
  BY DEF Checked, Called, TypeOK, Fresh
<1>3. CallersWait'
  BY DEF Checked, MayCall, Called, At, TypeOK, Fresh, CallersWait, InHand
<1>4. FrameAlive'
  BY DEF Checked, MayCall, Called, TypeOK, Fresh, FrameAlive
<1>5. QueueIsQueued' /\ CurRuns' /\ CodeFromThrow'
  BY DEF Checked, threadVars, QueueIsQueued, CurRuns, CodeFromThrow
<1>6. QED
  BY <1>1, <1>2, <1>3, <1>4, <1>5

LEMMA PostsIInv ==
  ASSUME IInv, NEW c \in Callers, Posts(c)
  PROVE  IInv'
<1> USE BoundsAssumption, CallersAssumption DEF IInv, Tasks, Callers
<1>1. TypeOK'
  BY DEF Posts, Becomes, Goes, Out, threadVars, TypeOK, Fresh, CallersWait, InHand
<1>2. Fresh'
  BY DEF Posts, Becomes, TypeOK, Fresh, CallersWait, InHand
<1>3. CallersWait'
  BY DEF Posts, Becomes, Goes, Out, TypeOK, CallersWait, InHand
<1>4. QueueIsQueued'
  <2> DEFINE t == cpc[c].task
  <2>1. /\ t \in Tasks /\ queue' = Append(queue, t) /\ state[t] = "none"
        /\ state' = [state EXCEPT ![t] = "queued"]
    BY DEF Posts, Becomes, TypeOK, CallersWait, InHand
  <2>2. /\ queue \in Seq(Tasks) /\ Distinct(queue)
        /\ state \in [Tasks -> {"none", "queued", "running", "done"}]
        /\ \A i \in DOMAIN queue : queue[i] # t
    <3>1. state[t] = "none"
      BY <2>1
    <3>2. QED
      BY <3>1 DEF QueueIsQueued, TypeOK
  <2> HIDE DEF t, Tasks, IInv
  <2>3. /\ Distinct(queue')
        /\ \A i \in DOMAIN queue' :
             queue'[i] = t \/ (i \in DOMAIN queue /\ queue'[i] = queue[i])
    BY <2>1, <2>2, AppendDistinct
  <2>4. QED
    BY <2>1, <2>2, <2>3 DEF QueueIsQueued, IInv
<1>5. CurRuns'
  <2>1. /\ cpc[c].task \in Tasks /\ state[cpc[c].task] = "none" /\ cur' = cur
        /\ state' = [state EXCEPT ![cpc[c].task] = "queued"]
    BY DEF Posts, Becomes, threadVars, TypeOK, CallersWait, InHand
  <2>2. QED
    BY <2>1 DEF CurRuns, TypeOK
<1>6. FrameAlive'
  BY DEF Posts, Becomes, Goes, FrameAlive
<1>7. CodeFromThrow'
  BY DEF Posts, CodeFromThrow
<1>8. QED
  BY <1>1, <1>2, <1>3, <1>4, <1>5, <1>6, <1>7

LEMMA DispatchesInlineIInv ==
  ASSUME IInv, NEW c \in Callers, Dispatches(c), c = IoThread
  PROVE  IInv'
<1> USE BoundsAssumption, CallersAssumption DEF IInv, Tasks, Callers
<1> DEFINE t == cpc[c].task
<1>1. /\ t \in Tasks /\ t <= tasks /\ state[t] = "none" /\ ret[t] = "none" /\ owner[t] = c
      /\ kind[t] \in {"runSync", "runSyncTimeout"} /\ cpc[c].at = "checked"
  BY DEF Dispatches, TypeOK, CallersWait, InHand
<1>2. /\ cur' = Append(cur, t) /\ state' = [state EXCEPT ![t] = "running"]
      /\ cpc' = [cpc EXCEPT ![c] = [at |-> "inline", task |-> t]]
      /\ UNCHANGED <<stopped, tpc, kind, owner, threw, ec, ret, tasks, stops, lost, queue>>
  BY DEF Dispatches, Becomes, Goes, At
<1> HIDE DEF t
<1>3. TypeOK'
  BY <1>1, <1>2 DEF TypeOK
<1>4. Fresh' /\ CodeFromThrow'
  BY <1>1, <1>2 DEF Fresh, CodeFromThrow, TypeOK
<1>5. CallersWait'
  BY <1>1, <1>2 DEF CallersWait, InHand, TypeOK
<1>6. QueueIsQueued'
  BY <1>1, <1>2 DEF QueueIsQueued
<1>7. CurRuns'
  <2>1. \A i \in DOMAIN cur : cur[i] # t
    BY <1>1 DEF CurRuns
  <2>2. /\ cur \in Seq(Tasks) /\ Distinct(cur)
        /\ state \in [Tasks -> {"none", "queued", "running", "done"}]
    BY DEF CurRuns, TypeOK
  <2> HIDE DEF IInv, Tasks
  <2>3. /\ Distinct(Append(cur, t))
        /\ \A i \in DOMAIN Append(cur, t) :
             Append(cur, t)[i] = t \/ (i \in DOMAIN cur /\ Append(cur, t)[i] = cur[i])
    BY <1>1, <2>1, <2>2, AppendDistinct
  <2>4. /\ Distinct(cur')
        /\ \A i \in DOMAIN cur' : cur'[i] = t \/ (i \in DOMAIN cur /\ cur'[i] = cur[i])
    BY <1>2, <2>3
  <2>5. QED
    BY <1>1, <1>2, <2>2, <2>4 DEF CurRuns, IInv, Tasks
<1>8. FrameAlive'
  BY <1>1, <1>2 DEF FrameAlive, TypeOK
<1>9. QED
  BY <1>3, <1>4, <1>5, <1>6, <1>7, <1>8

LEMMA DispatchesPostsIInv ==
  ASSUME IInv, NEW c \in Callers, Dispatches(c), c # IoThread
  PROVE  IInv'
<1> USE BoundsAssumption, CallersAssumption DEF IInv, Tasks, Callers
<1> DEFINE t == cpc[c].task
<1>1. /\ t \in Tasks /\ t <= tasks /\ state[t] = "none" /\ ret[t] = "none" /\ owner[t] = c
      /\ kind[t] \in {"runSync", "runSyncTimeout"} /\ cpc[c].at = "checked"
  BY DEF Dispatches, TypeOK, CallersWait, InHand
<1>2. /\ queue' = Append(queue, t) /\ state' = [state EXCEPT ![t] = "queued"]
      /\ cpc' = [cpc EXCEPT ![c] = [at |-> "wait", task |-> t]]
      /\ UNCHANGED <<stopped, tpc, kind, owner, threw, ec, ret, tasks, stops, lost, cur>>
  BY DEF Dispatches, Becomes, Goes, At
<1> HIDE DEF t
<1>3. TypeOK'
  BY <1>1, <1>2 DEF TypeOK
<1>4. Fresh' /\ CodeFromThrow'
  BY <1>1, <1>2 DEF Fresh, CodeFromThrow, TypeOK
<1>5. CallersWait'
  BY <1>1, <1>2 DEF CallersWait, InHand, TypeOK
<1>6. QueueIsQueued'
  <2>1. \A i \in DOMAIN queue : queue[i] # t
    BY <1>1 DEF QueueIsQueued
  <2>2. /\ queue \in Seq(Tasks) /\ Distinct(queue)
        /\ state \in [Tasks -> {"none", "queued", "running", "done"}]
    BY DEF QueueIsQueued, TypeOK
  <2> HIDE DEF IInv, Tasks
  <2>3. /\ Distinct(Append(queue, t))
        /\ \A i \in DOMAIN Append(queue, t) :
             Append(queue, t)[i] = t \/ (i \in DOMAIN queue /\ Append(queue, t)[i] = queue[i])
    BY <1>1, <2>1, <2>2, AppendDistinct
  <2>4. /\ Distinct(queue')
        /\ \A i \in DOMAIN queue' : queue'[i] = t \/ (i \in DOMAIN queue /\ queue'[i] = queue[i])
    BY <1>2, <2>3
  <2>5. QED
    BY <1>1, <1>2, <2>2, <2>4 DEF QueueIsQueued, IInv, Tasks
<1>7. CurRuns'
  BY <1>1, <1>2 DEF CurRuns
<1>8. FrameAlive'
  BY <1>1, <1>2 DEF FrameAlive, TypeOK
<1>9. QED
  BY <1>3, <1>4, <1>5, <1>6, <1>7, <1>8

LEMMA ReturnsIInv ==
  ASSUME IInv, NEW c \in Callers, Returns(c)
  PROVE  IInv'
<1> USE BoundsAssumption, CallersAssumption DEF IInv, Tasks, Callers
<1>1. TypeOK'
  BY DEF Returns, Goes, Out, threadVars, taskVars, TypeOK, CallersWait, InHand
<1>2. Fresh'
  BY DEF Returns, taskVars, Fresh
<1>3. CallersWait'
  BY DEF Returns, Goes, Out, taskVars, TypeOK, CallersWait, InHand
<1>4. FrameAlive'
  BY DEF Returns, Goes, taskVars, FrameAlive
<1>5. QueueIsQueued' /\ CurRuns' /\ CodeFromThrow'
  BY DEF Returns, threadVars, taskVars, QueueIsQueued, CurRuns, CodeFromThrow
<1>6. QED
  BY <1>1, <1>2, <1>3, <1>4, <1>5

LEMMA TimesOutIInv ==
  ASSUME IInv, NEW c \in Callers, TimesOut(c)
  PROVE  IInv'
<1> USE BoundsAssumption, CallersAssumption DEF IInv, Tasks, Callers
<1>1. TypeOK'
  BY DEF TimesOut, Goes, Out, threadVars, taskVars, TypeOK, CallersWait, InHand
<1>2. Fresh'
  BY DEF TimesOut, taskVars, TypeOK, Fresh, CallersWait, InHand
<1>3. CallersWait'
  BY DEF TimesOut, Goes, Out, taskVars, TypeOK, CallersWait, InHand
<1>4. FrameAlive'
  BY DEF TimesOut, Goes, taskVars, FrameAlive
<1>5. QueueIsQueued' /\ CurRuns' /\ CodeFromThrow'
  BY DEF TimesOut, threadVars, taskVars, QueueIsQueued, CurRuns, CodeFromThrow
<1>6. QED
  BY <1>1, <1>2, <1>3, <1>4, <1>5

LEMMA PostRawIInv ==
  ASSUME IInv, NEW c \in Callers, PostRaw(c)
  PROVE  IInv'
<1> USE BoundsAssumption, CallersAssumption DEF IInv, Tasks, Callers
<1>1. TypeOK'
  BY DEF PostRaw, MayCall, Called, Becomes, threadVars, TypeOK
<1>2. Fresh'
  BY DEF PostRaw, Called, Becomes, TypeOK, Fresh
<1>3. CallersWait'
  BY DEF PostRaw, Called, Becomes, TypeOK, CallersWait, InHand
<1>4. QueueIsQueued'
  <2>1. /\ tasks + 1 \in Tasks /\ queue' = Append(queue, tasks + 1)
        /\ state' = [state EXCEPT ![tasks + 1] = "queued"]
    BY DEF PostRaw, MayCall, Called, Becomes, TypeOK
  <2>2. /\ queue \in Seq(Tasks) /\ Distinct(queue)
        /\ state \in [Tasks -> {"none", "queued", "running", "done"}]
        /\ \A i \in DOMAIN queue : queue[i] # tasks + 1
    <3>1. state[tasks + 1] = "none"
      BY <2>1 DEF Fresh, TypeOK
    <3>2. QED
      BY <3>1 DEF QueueIsQueued, TypeOK
  <2> HIDE DEF Tasks, IInv
  <2>3. /\ Distinct(queue')
        /\ \A i \in DOMAIN queue' :
             queue'[i] = tasks + 1 \/ (i \in DOMAIN queue /\ queue'[i] = queue[i])
    BY <2>1, <2>2, AppendDistinct
  <2>4. QED
    BY <2>1, <2>2, <2>3 DEF QueueIsQueued, IInv
<1>5. CurRuns'
  BY DEF PostRaw, Called, Becomes, threadVars, TypeOK, Fresh, CurRuns
<1>6. FrameAlive'
  BY DEF PostRaw, Called, Becomes, TypeOK, FrameAlive
<1>7. CodeFromThrow'
  BY DEF PostRaw, CodeFromThrow
<1>8. QED
  BY <1>1, <1>2, <1>3, <1>4, <1>5, <1>6, <1>7

LEMMA TaskBeginsIInv ==
  ASSUME IInv, TaskBegins
  PROVE  IInv'
<1> USE BoundsAssumption, CallersAssumption DEF IInv, Tasks, Callers
<1>1. TypeOK'
  BY DEF TaskBegins, Becomes, TypeOK
<1>2. Fresh'
  BY DEF TaskBegins, Becomes, TypeOK, Fresh, QueueIsQueued
<1>3. CallersWait'
  BY DEF TaskBegins, Becomes, TypeOK, CallersWait, InHand, QueueIsQueued
<1>4. QueueIsQueued'
  <2>1. /\ queue # <<>> /\ queue' = Tail(queue)
        /\ state' = [state EXCEPT ![Head(queue)] = "running"]
    BY DEF TaskBegins, Becomes
  <2>2. /\ queue \in Seq(Tasks) /\ Distinct(queue)
        /\ \A i \in DOMAIN queue : queue[i] \in Tasks /\ state[queue[i]] = "queued"
        /\ state \in [Tasks -> {"none", "queued", "running", "done"}]
    BY DEF QueueIsQueued, TypeOK
  <2> HIDE DEF Tasks, IInv
  <2>3. /\ Distinct(queue')
        /\ \A i \in DOMAIN queue' :
             queue'[i] # Head(queue) /\ \E j \in DOMAIN queue : queue'[i] = queue[j]
    BY <2>1, <2>2, TailDistinct
  <2>4. QED
    BY <2>1, <2>2, <2>3 DEF QueueIsQueued
<1>5. CurRuns'
  <2>1. /\ cur' = <<Head(queue)>> /\ Head(queue) \in Tasks
        /\ state' = [state EXCEPT ![Head(queue)] = "running"]
    BY DEF TaskBegins, Becomes, TypeOK
  <2>2. DOMAIN cur' = {1} /\ cur'[1] = Head(queue)
    BY <2>1
  <2>3. QED
    BY <2>1 DEF CurRuns, Distinct, TypeOK
<1>6. FrameAlive'
  BY DEF TaskBegins, Becomes, TypeOK, QueueIsQueued, FrameAlive
<1>7. CodeFromThrow'
  BY DEF TaskBegins, CodeFromThrow
<1>8. QED
  BY <1>1, <1>2, <1>3, <1>4, <1>5, <1>6, <1>7

LEMMA TaskEndsIInv ==
  ASSUME IInv, TaskEnds
  PROVE  IInv'
<1> USE BoundsAssumption, CallersAssumption DEF IInv, Tasks, Callers
<1>1. TypeOK'
  <2>1. PICK t \in Tasks :
          /\ Ending(t) /\ Becomes(t, "done")
          /\ \/ UNCHANGED <<threw, ec>>
             \/ /\ threw' = [threw EXCEPT ![t] = TRUE]
                /\ \E coded \in BOOLEAN : ec' = [ec EXCEPT ![t] = coded]
    BY DEF TaskEnds
  <2>2. threw' \in [Tasks -> BOOLEAN] /\ ec' \in [Tasks -> BOOLEAN]
    BY <2>1 DEF TypeOK
  <2>3. cur' \in Seq(Tasks) /\ state' \in [Tasks -> {"none", "queued", "running", "done"}]
    BY <2>1, FrontDistinct DEF Ending, Becomes, TypeOK, CurRuns
  <2>4. QED
    BY <2>2, <2>3 DEF TaskEnds, TypeOK
<1>2. Fresh'
  BY DEF TaskEnds, Becomes, Ending, At, TypeOK, Fresh, CallersWait, InHand,
     QueueIsQueued, CurRuns, CodeFromThrow, FrameAlive
<1>3. CallersWait'
  BY DEF TaskEnds, Becomes, Ending, At, TypeOK, Fresh, CallersWait, InHand,
     QueueIsQueued, CurRuns, CodeFromThrow, FrameAlive
<1>4. QueueIsQueued'
  BY DEF TaskEnds, Becomes, Ending, At, TypeOK, Fresh, CallersWait, InHand,
     QueueIsQueued, CurRuns, CodeFromThrow, FrameAlive
<1>5. CurRuns'
  <2>1. /\ cur # <<>> /\ cur' = SubSeq(cur, 1, Len(cur) - 1)
        /\ state' = [state EXCEPT ![cur[Len(cur)]] = "done"]
    BY DEF TaskEnds, Becomes, Ending
  <2>2. QED
    BY <2>1, FrontDistinct DEF CurRuns, TypeOK
<1>6. CodeFromThrow'
  <2>1. PICK t \in Tasks :
          \/ UNCHANGED <<threw, ec>>
          \/ /\ threw' = [threw EXCEPT ![t] = TRUE]
             /\ \E coded \in BOOLEAN : ec' = [ec EXCEPT ![t] = coded]
    BY DEF TaskEnds
  <2>2. CASE UNCHANGED <<threw, ec>>
    BY <2>2 DEF CodeFromThrow
  <2>3. CASE /\ threw' = [threw EXCEPT ![t] = TRUE]
             /\ \E coded \in BOOLEAN : ec' = [ec EXCEPT ![t] = coded]
    <3>1. PICK coded \in BOOLEAN : ec' = [ec EXCEPT ![t] = coded]
      BY <2>3
    <3>2. ASSUME NEW u \in Tasks, ec'[u] PROVE threw'[u]
      BY <2>3, <3>2 DEF CodeFromThrow, TypeOK
    <3>3. QED
      BY <3>2 DEF CodeFromThrow
  <2>4. QED
    BY <2>1, <2>2, <2>3
<1>7. FrameAlive'
  BY DEF TaskEnds, Becomes, Ending, At, TypeOK, Fresh, CallersWait, InHand,
     QueueIsQueued, CurRuns, CodeFromThrow, FrameAlive
<1>8. QED
  BY <1>1, <1>2, <1>3, <1>4, <1>5, <1>6, <1>7

LEMMA RawThrowsIInv ==
  ASSUME IInv, RawThrows
  PROVE  IInv'
<1> USE BoundsAssumption, CallersAssumption DEF IInv, Tasks, Callers
<1>1. TypeOK'
  BY DEF RawThrows, Becomes, Ending, At, TypeOK, Fresh, CallersWait, InHand,
     QueueIsQueued, CurRuns, CodeFromThrow, FrameAlive
<1>2. Fresh'
  BY DEF RawThrows, Becomes, Ending, Fresh, CurRuns
<1>3. CallersWait'
  BY DEF RawThrows, Becomes, Ending, CallersWait, InHand, CurRuns
<1>4. QueueIsQueued'
  BY DEF RawThrows, Becomes, Ending, QueueIsQueued, CurRuns
<1>5. CurRuns'
  <2>1. /\ cur # <<>> /\ cur' = SubSeq(cur, 1, Len(cur) - 1)
        /\ state' = [state EXCEPT ![cur[Len(cur)]] = "done"]
    BY DEF RawThrows, Becomes, Ending
  <2>2. QED
    BY <2>1, FrontDistinct DEF CurRuns, TypeOK
<1>6. FrameAlive'
  BY DEF RawThrows, Becomes, FrameAlive
<1>7. CodeFromThrow'
  BY DEF RawThrows, CodeFromThrow
<1>8. QED
  BY <1>1, <1>2, <1>3, <1>4, <1>5, <1>6, <1>7

(* The steps that touch neither tasks nor callers. *)
LEMMA OthersIInv == ASSUME IInv, Stop \/ ThreadTop \/ RunReturns \/ UNCHANGED vars PROVE IInv'
<1> USE DEF IInv, Stop, ThreadTop, RunReturns, vars, threadVars, taskVars
<1>1. TypeOK'
  <2>1. CASE Stop
    BY <2>1, BoundsAssumption DEF TypeOK
  <2>2. CASE ThreadTop \/ RunReturns \/ UNCHANGED vars
    BY <2>2 DEF TypeOK
  <2>3. QED
    BY <2>1, <2>2
<1>2. Fresh' /\ CallersWait' /\ QueueIsQueued' /\ CurRuns' /\ CodeFromThrow'
  BY DEF Fresh, CallersWait, InHand, QueueIsQueued, CurRuns, CodeFromThrow
<1>3. FrameAlive'
  BY DEF FrameAlive
<1>4. QED
  BY <1>1, <1>2, <1>3

----------------------------------------------------------------------------
(* The invariant holds in every state. *)
THEOREM Invariance == Spec => []IInv
<1>1. ASSUME IInv, [Next]_vars PROVE IInv'
  <2>1. ASSUME NEW c \in Callers, NEW k \in {"runAsync", "runSync", "runSyncTimeout"},
               Refused(c, k) \/ Checked(c, k)
        PROVE  IInv'
    BY <1>1, <2>1, RefusedIInv, CheckedIInv
  <2>2. ASSUME NEW c \in Callers,
               Posts(c) \/ Dispatches(c) \/ Returns(c) \/ TimesOut(c) \/ PostRaw(c)
        PROVE  IInv'
    BY <1>1, <2>2, PostsIInv, DispatchesInlineIInv, DispatchesPostsIInv, ReturnsIInv,
       TimesOutIInv, PostRawIInv
  <2>3. CASE TaskBegins \/ TaskEnds \/ RawThrows
    BY <1>1, <2>3, TaskBeginsIInv, TaskEndsIInv, RawThrowsIInv
  <2>4. CASE Stop \/ ThreadTop \/ RunReturns \/ UNCHANGED vars
    BY <1>1, <2>4, OthersIInv
  <2>5. QED
    BY <1>1, <2>1, <2>2, <2>3, <2>4 DEF Next, Thread
<1>2. QED
  BY InitIInv, <1>1, PTL DEF Spec

(* Every variable keeps its type. *)
THEOREM TypeCorrect == Spec => []TypeOK
<1>1. IInv => TypeOK
  BY DEF IInv
<1>2. QED
  BY <1>1, Invariance, PTL

(* No handler of runSync ever writes into a frame that its caller has left: *)
(* a function called by any thread, also from inside a task of the          *)
(* io_context, whatever is stopped or thrown meanwhile.                     *)
THEOREM FramesLive == Spec => []FrameAlive
<1>1. IInv => FrameAlive
  BY DEF IInv
<1>2. QED
  BY <1>1, Invariance, PTL

(* A waiting call is answered once: true if its function has ended without  *)
(* leaving an error code, false if it threw one, had not ended when its     *)
(* caller gave up, or was never handed over.                                *)
THEOREM AnswersTrue == Spec => AnswerIsTrue
<1> DEFINE Answers(t) == kind'[t] \in {"runSync", "runSyncTimeout"} /\ ret'[t] # ret[t] => Answer(t)
<1>1. ASSUME IInv, Next, NEW t \in Tasks
      PROVE  Answers(t)
  <2>1. TypeOK /\ Fresh /\ CallersWait /\ CodeFromThrow
    BY <1>1 DEF IInv
  <2>2. ASSUME NEW c \in Callers, NEW k \in {"runAsync", "runSync", "runSyncTimeout"}, Refused(c, k)
        PROVE  Answers(t)
    <3>1. tasks + 1 \in Tasks /\ tasks + 1 > tasks
      BY <2>1, <2>2, BoundsAssumption DEF Refused, MayCall, TypeOK, Tasks
    <3>2. ret' = [ret EXCEPT ![tasks + 1] = "false"] /\ stopped
      BY <2>2 DEF Refused, Called
    <3>3. state[tasks + 1] = "none" /\ ret[tasks + 1] = "none"
      BY <2>1, <3>1 DEF Fresh
    <3>4. QED
      BY <2>1, <3>1, <3>2, <3>3 DEF TypeOK, Answer
  <2>3. ASSUME NEW c \in Callers, Posts(c)
        PROVE  Answers(t)
    BY <2>1, <2>3 DEF Posts, TypeOK, Answer
  <2>4. ASSUME NEW c \in Callers, Returns(c)
        PROVE  Answers(t)
    <3>1. ret[cpc[c].task] = "none" /\ state[cpc[c].task] = "done"
          /\ ret' = [ret EXCEPT ![cpc[c].task] = IF ec[cpc[c].task] THEN "false" ELSE "true"]
      BY <2>1, <2>4 DEF Returns, CallersWait, InHand
    <3>2. QED
      BY <2>1, <3>1 DEF TypeOK, CodeFromThrow, Answer
  <2>5. ASSUME NEW c \in Callers, TimesOut(c)
        PROVE  Answers(t)
    <3>1. /\ ret[cpc[c].task] = "none" /\ state[cpc[c].task] # "done"
          /\ kind[cpc[c].task] = "runSyncTimeout"
          /\ ret' = [ret EXCEPT ![cpc[c].task] = "false"]
      BY <2>1, <2>5 DEF TimesOut, CallersWait, InHand
    <3>2. state[cpc[c].task] # "none"
      BY <2>1, <2>5 DEF TimesOut, CallersWait, InHand
    <3>3. QED
      BY <2>1, <3>1, <3>2 DEF TypeOK, Answer
  <2>6. ASSUME UNCHANGED ret
        PROVE  Answers(t)
    BY <2>6
  <2>7. \/ UNCHANGED ret
        \/ \E c \in Callers : Posts(c) \/ Returns(c) \/ TimesOut(c)
        \/ \E c \in Callers, k \in {"runAsync", "runSync", "runSyncTimeout"} : Refused(c, k)
    BY <1>1 DEF Next, Thread, Checked, Dispatches, PostRaw, Stop, ThreadTop, TaskBegins, TaskEnds,
       RawThrows, RunReturns
  <2> HIDE DEF Answers
  <2>8. QED
    BY <2>2, <2>3, <2>4, <2>5, <2>6, <2>7
<1>2. IInv /\ [Next]_vars => [\A t \in Tasks : Answers(t)]_vars
  BY <1>1
<1>3. QED
  BY <1>2, Invariance, PTL DEF AnswerIsTrue, Spec

----------------------------------------------------------------------------
(* ReuseUdpSender                                                          *)

(* What a sequence of operations or handlers holds: the send with a number, *)
(* each send at most once, a receive, a send that was cancelled.            *)
Carries(q, s) == \E i \in DOMAIN q : q[i].op = "send" /\ q[i].send = s
SentOnce(q) ==
  \A i, j \in DOMAIN q :
    q[i].op = "send" /\ q[j].op = "send" /\ q[i].send = q[j].send => i = j
Receives(q) == \E i \in DOMAIN q : q[i].op = "recv"
Cut(q, s) == \E i \in DOMAIN q : q[i].op = "send" /\ q[i].send = s /\ q[i].ec = "aborted"

Receiving == alive /\ m_beginRecv => Receives(pending) \/ Receives(ready)

(* A send that has been called is waited for in one place, has been told or *)
(* was cut; what is waited for was cut just when its handler says aborted.  *)
EachOnce ==
  /\ SentOnce(pending) /\ SentOnce(ready)
  /\ \A s \in Int : ~(Carries(pending, s) /\ Carries(ready, s))
WaitUntold ==
  \A s \in Int : Carries(pending, s) \/ Carries(ready, s) => s \in 1 .. sends /\ told[s] = 0
Told ==
  \A s \in 1 .. sends :
    /\ told[s] <= 1
    /\ told[s] = 1 \/ s \in cut \/ ~alive \/ Carries(pending, s) \/ Carries(ready, s)
NotYetTold == \A s \in Sends : s > sends => told[s] = 0
CutUntold ==
  /\ \A s \in cut : s \in 1 .. sends /\ told[s] = 0
  /\ \A s \in Int : Carries(pending, s) => s \notin cut
  /\ \A s \in Int : Carries(ready, s) => (s \in cut <=> Cut(ready, s))

ReuseInv ==
  /\ ReuseTypeOK /\ Receiving
  /\ EachOnce /\ WaitUntold /\ Told /\ NotYetTold /\ CutUntold

----------------------------------------------------------------------------
(* What a sequence of operations holds when one more is put behind,        *)
LEMMA PutBehind ==
  ASSUME NEW S, NEW q \in Seq(S), NEW e \in S
  PROVE  /\ Append(q, e) \in Seq(S)
         /\ \A s : Carries(Append(q, e), s) <=> Carries(q, s) \/ (e.op = "send" /\ e.send = s)
         /\ SentOnce(q) /\ (e.op = "send" => ~Carries(q, e.send)) => SentOnce(Append(q, e))
         /\ Receives(Append(q, e)) <=> Receives(q) \/ e.op = "recv"
         /\ \A s : Cut(Append(q, e), s)
              <=> Cut(q, s) \/ (e.op = "send" /\ e.send = s /\ e.ec = "aborted")
<1>1. /\ Append(q, e) \in Seq(S) /\ DOMAIN Append(q, e) = 1 .. Len(q) + 1
      /\ DOMAIN q = 1 .. Len(q) /\ Len(q) \in Nat
      /\ \A i \in 1 .. Len(q) : Append(q, e)[i] = q[i]
      /\ Append(q, e)[Len(q) + 1] = e
  OBVIOUS
<1>2. /\ \A i \in DOMAIN Append(q, e) : i \in DOMAIN q \/ i = Len(q) + 1
      /\ \A i \in DOMAIN q : i \in DOMAIN Append(q, e) /\ i # Len(q) + 1
      /\ Len(q) + 1 \in DOMAIN Append(q, e)
  BY <1>1
<1> HIDE <1>1
<1>3. /\ \A i \in DOMAIN q : Append(q, e)[i] = q[i]
      /\ Append(q, e)[Len(q) + 1] = e /\ Append(q, e) \in Seq(S)
  BY <1>1
<1>4. \A s : Carries(Append(q, e), s) <=> Carries(q, s) \/ (e.op = "send" /\ e.send = s)
  BY <1>2, <1>3, Zenon DEF Carries
<1>5. SentOnce(q) /\ (e.op = "send" => ~Carries(q, e.send)) => SentOnce(Append(q, e))
  BY <1>2, <1>3 DEF Carries, SentOnce
<1>6. Receives(Append(q, e)) <=> Receives(q) \/ e.op = "recv"
  BY <1>2, <1>3, Zenon DEF Receives
<1>7. \A s : Cut(Append(q, e), s) <=> Cut(q, s) \/ (e.op = "send" /\ e.send = s /\ e.ec = "aborted")
  BY <1>2, <1>3, Zenon DEF Cut
<1>8. QED
  BY <1>3, <1>4, <1>5, <1>6, <1>7

(* when two such sequences are put together,                               *)
LEMMA PutTogether ==
  ASSUME NEW S, NEW q \in Seq(S), NEW r \in Seq(S)
  PROVE  /\ q \o r \in Seq(S)
         /\ \A s : Carries(q \o r, s) <=> Carries(q, s) \/ Carries(r, s)
         /\ SentOnce(q) /\ SentOnce(r) /\ (\A s : ~(Carries(q, s) /\ Carries(r, s)))
              => SentOnce(q \o r)
         /\ Receives(q \o r) <=> Receives(q) \/ Receives(r)
         /\ \A s : Cut(q \o r, s) <=> Cut(q, s) \/ Cut(r, s)
<1>1. /\ q \o r \in Seq(S) /\ DOMAIN (q \o r) = 1 .. Len(q) + Len(r)
      /\ DOMAIN q = 1 .. Len(q) /\ Len(q) \in Nat /\ DOMAIN r = 1 .. Len(r) /\ Len(r) \in Nat
      /\ \A i \in 1 .. Len(q) + Len(r) :
           (q \o r)[i] = IF i <= Len(q) THEN q[i] ELSE r[i - Len(q)]
  BY ConcatProperties, LenProperties
<1>2. ASSUME NEW i \in DOMAIN (q \o r)
      PROVE  \/ i \in DOMAIN q /\ (q \o r)[i] = q[i]
             \/ i - Len(q) \in DOMAIN r /\ (q \o r)[i] = r[i - Len(q)]
  BY <1>1
<1>3. ASSUME NEW i \in DOMAIN q PROVE i \in DOMAIN (q \o r) /\ (q \o r)[i] = q[i]
  BY <1>1
<1>4. ASSUME NEW i \in DOMAIN r
      PROVE  i + Len(q) \in DOMAIN (q \o r) /\ (q \o r)[i + Len(q)] = r[i]
  BY <1>1
<1>5. \A s : Carries(q \o r, s) <=> Carries(q, s) \/ Carries(r, s)
  <2>1. ASSUME NEW s, Carries(q \o r, s) PROVE Carries(q, s) \/ Carries(r, s)
    BY <2>1, <1>2, Zenon DEF Carries
  <2>2. ASSUME NEW s, Carries(q, s) PROVE Carries(q \o r, s)
    BY <2>2, <1>3, Zenon DEF Carries
  <2>3. ASSUME NEW s, Carries(r, s) PROVE Carries(q \o r, s)
    BY <2>3, <1>4, Zenon DEF Carries
  <2>4. QED
    BY <2>1, <2>2, <2>3
<1>6. Receives(q \o r) <=> Receives(q) \/ Receives(r)
  BY <1>2, <1>3, <1>4, Zenon DEF Receives
<1>7. \A s : Cut(q \o r, s) <=> Cut(q, s) \/ Cut(r, s)
  <2>1. ASSUME NEW s, Cut(q \o r, s) PROVE Cut(q, s) \/ Cut(r, s)
    BY <2>1, <1>2, Zenon DEF Cut
  <2>2. ASSUME NEW s, Cut(q, s) PROVE Cut(q \o r, s)
    BY <2>2, <1>3, Zenon DEF Cut
  <2>3. ASSUME NEW s, Cut(r, s) PROVE Cut(q \o r, s)
    BY <2>3, <1>4, Zenon DEF Cut
  <2>4. QED
    BY <2>1, <2>2, <2>3
<1>8. ASSUME SentOnce(q), SentOnce(r), \A s : ~(Carries(q, s) /\ Carries(r, s)),
             NEW i \in DOMAIN (q \o r), NEW j \in DOMAIN (q \o r),
             (q \o r)[i].op = "send", (q \o r)[j].op = "send",
             (q \o r)[i].send = (q \o r)[j].send
      PROVE  i = j
  <2>1. CASE /\ i \in DOMAIN q /\ (q \o r)[i] = q[i]
             /\ j \in DOMAIN q /\ (q \o r)[j] = q[j]
    BY <2>1, <1>8 DEF SentOnce
  <2>2. CASE /\ i - Len(q) \in DOMAIN r /\ (q \o r)[i] = r[i - Len(q)]
             /\ j - Len(q) \in DOMAIN r /\ (q \o r)[j] = r[j - Len(q)]
    <3>1. i - Len(q) = j - Len(q)
      BY <2>2, <1>8, Zenon DEF SentOnce
    <3>2. QED
      BY <3>1, <1>1
  <2>3. CASE /\ i \in DOMAIN q /\ (q \o r)[i] = q[i]
             /\ j - Len(q) \in DOMAIN r /\ (q \o r)[j] = r[j - Len(q)]
    BY <2>3, <1>8, Zenon DEF Carries
  <2>4. CASE /\ i - Len(q) \in DOMAIN r /\ (q \o r)[i] = r[i - Len(q)]
             /\ j \in DOMAIN q /\ (q \o r)[j] = q[j]
    BY <2>4, <1>8, Zenon DEF Carries
  <2>5. QED
    BY <2>1, <2>2, <2>3, <2>4, <1>2
<1>9. SentOnce(q) /\ SentOnce(r) /\ (\A s : ~(Carries(q, s) /\ Carries(r, s))) => SentOnce(q \o r)
  BY <1>8, Zenon DEF SentOnce
<1>10. QED
  BY <1>1, <1>5, <1>6, <1>7, <1>9

(* when one is taken out,                                                  *)
LEMMA TakenOut ==
  ASSUME NEW S, NEW q \in Seq(S), NEW k \in DOMAIN q
  PROVE  /\ q[k] \in S /\ RemoveAt(q, k) \in Seq(S)
         /\ \A s : Carries(q, s) <=> Carries(RemoveAt(q, k), s) \/ (q[k].op = "send" /\ q[k].send = s)
         /\ SentOnce(q) => /\ SentOnce(RemoveAt(q, k))
                           /\ q[k].op = "send" => ~Carries(RemoveAt(q, k), q[k].send)
         /\ Receives(q) <=> Receives(RemoveAt(q, k)) \/ q[k].op = "recv"
<1> DEFINE r == RemoveAt(q, k)
<1>1. /\ DOMAIN q = 1 .. Len(q) /\ Len(q) \in Nat /\ k \in 1 .. Len(q) /\ q[k] \in S
  BY LenProperties
<1>2. /\ SubSeq(q, 1, k - 1) \in Seq(S) /\ Len(SubSeq(q, 1, k - 1)) = k - 1
      /\ \A i \in 1 .. k - 1 : SubSeq(q, 1, k - 1)[i] = q[i]
  BY <1>1, SubSeqProperties
<1>3. /\ SubSeq(q, k + 1, Len(q)) \in Seq(S) /\ Len(SubSeq(q, k + 1, Len(q))) = Len(q) - k
      /\ \A i \in 1 .. Len(q) - k : SubSeq(q, k + 1, Len(q))[i] = q[k + i]
  BY <1>1, SubSeqProperties
<1>4. /\ r \in Seq(S) /\ Len(r) = Len(q) - 1 /\ DOMAIN r = 1 .. Len(q) - 1
      /\ \A i \in 1 .. Len(q) - 1 : r[i] = q[IF i < k THEN i ELSE i + 1]
  <2>1. /\ r \in Seq(S) /\ Len(r) = Len(q) - 1
        /\ \A i \in 1 .. Len(q) - 1 : r[i] = IF i <= k - 1 THEN SubSeq(q, 1, k - 1)[i]
                                      ELSE SubSeq(q, k + 1, Len(q))[i - (k - 1)]
    <3> DEFINE a == SubSeq(q, 1, k - 1)
               b == SubSeq(q, k + 1, Len(q))
    <3>1. /\ a \in Seq(S) /\ b \in Seq(S) /\ Len(a) = k - 1 /\ Len(b) = Len(q) - k
      BY <1>2, <1>3
    <3>2. r = a \o b
      BY DEF RemoveAt
    <3> HIDE DEF a, b, r
    <3>3. /\ r \in Seq(S) /\ Len(r) = Len(a) + Len(b)
          /\ \A i \in 1 .. Len(a) + Len(b) : r[i] = IF i <= Len(a) THEN a[i] ELSE b[i - Len(a)]
      BY <3>1, <3>2, ConcatProperties
    <3>4. Len(a) + Len(b) = Len(q) - 1
      BY <3>1, <1>1
    <3>5. QED
      BY <3>1, <3>3, <3>4 DEF a, b
  <2>2. DOMAIN r = 1 .. Len(q) - 1
    BY <2>1, LenProperties
  <2>3. ASSUME NEW i \in 1 .. Len(q) - 1
        PROVE  r[i] = q[IF i < k THEN i ELSE i + 1]
    <3>1. CASE i < k
      BY <3>1, <2>1, <1>1, <1>2
    <3>2. CASE ~(i < k)
      <4>1. i - (k - 1) \in 1 .. Len(q) - k /\ k + (i - (k - 1)) = i + 1 /\ ~(i <= k - 1)
        BY <3>2, <1>1
      <4>2. QED
        BY <4>1, <3>2, <2>1, <1>3
    <3>3. QED
      BY <3>1, <3>2
  <2>4. QED
    BY <2>1, <2>2, <2>3
<1> HIDE DEF r
<1> DEFINE up(i) == IF i < k THEN i ELSE i + 1
<1>5. ASSUME NEW i \in DOMAIN r
      PROVE  up(i) \in DOMAIN q /\ up(i) # k /\ r[i] = q[up(i)]
  BY <1>1, <1>4
<1>6. ASSUME NEW j \in DOMAIN q, j # k
      PROVE  \E i \in DOMAIN r : r[i] = q[j]
  <2>1. CASE j < k
    <3>1. j \in DOMAIN r /\ up(j) = j
      BY <2>1, <1>1, <1>4
    <3>2. QED
      BY <3>1, <1>5
  <2>2. CASE j > k
    <3>1. j - 1 \in DOMAIN r /\ up(j - 1) = j
      BY <2>2, <1>1, <1>4
    <3>2. QED
      BY <3>1, <1>5
  <2>3. QED
    BY <2>1, <2>2, <1>1, <1>6
<1>7. ASSUME NEW i \in DOMAIN r, NEW j \in DOMAIN r, up(i) = up(j)
      PROVE  i = j
  BY <1>1, <1>4, <1>7
<1> HIDE DEF up
<1>8. \A s : Carries(q, s) <=> Carries(r, s) \/ (q[k].op = "send" /\ q[k].send = s)
  BY <1>5, <1>6, Zenon DEF Carries
<1>9. Receives(q) <=> Receives(r) \/ q[k].op = "recv"
  BY <1>5, <1>6, Zenon DEF Receives
<1>10. ASSUME SentOnce(q) PROVE SentOnce(r)
  BY <1>10, <1>5, <1>7 DEF SentOnce
<1>11. ASSUME SentOnce(q), q[k].op = "send" PROVE ~Carries(r, q[k].send)
  BY <1>11, <1>5 DEF SentOnce, Carries
<1>12. QED
  BY <1>1, <1>4, <1>8, <1>9, <1>10, <1>11 DEF r

(* and when the first is.                                                  *)
LEMMA FirstOut ==
  ASSUME NEW S, NEW q \in Seq(S), q # <<>>
  PROVE  /\ Head(q) \in S /\ Tail(q) \in Seq(S)
         /\ \A s : Carries(q, s) <=> Carries(Tail(q), s) \/ (Head(q).op = "send" /\ Head(q).send = s)
         /\ SentOnce(q) => /\ SentOnce(Tail(q))
                           /\ Head(q).op = "send" => ~Carries(Tail(q), Head(q).send)
         /\ Receives(q) <=> Receives(Tail(q)) \/ Head(q).op = "recv"
         /\ \A s : Cut(q, s)
              <=> \/ Cut(Tail(q), s)
                  \/ Head(q).op = "send" /\ Head(q).send = s /\ Head(q).ec = "aborted"
<1> DEFINE r == Tail(q)
<1>1. /\ DOMAIN q = 1 .. Len(q) /\ Len(q) \in Nat \ {0} /\ Head(q) = q[1] /\ Head(q) \in S
      /\ r \in Seq(S) /\ DOMAIN r = 1 .. Len(q) - 1
      /\ \A i \in 1 .. Len(q) - 1 : r[i] = q[i + 1]
  OBVIOUS
<1> HIDE DEF r
<1>2. /\ \A i \in DOMAIN r : i + 1 \in DOMAIN q /\ i + 1 # 1 /\ r[i] = q[i + 1]
      /\ \A i, j \in DOMAIN r : i + 1 = j + 1 => i = j
      /\ 1 \in DOMAIN q
  BY <1>1
<1>3. ASSUME NEW j \in DOMAIN q, j # 1
      PROVE  \E i \in DOMAIN r : r[i] = q[j]
  <2>1. j - 1 \in DOMAIN r /\ (j - 1) + 1 = j
    BY <1>1, <1>3
  <2>2. QED
    BY <2>1, <1>2
<1>4. /\ \A s : Carries(q, s) <=> Carries(r, s) \/ (q[1].op = "send" /\ q[1].send = s)
      /\ Receives(q) <=> Receives(r) \/ q[1].op = "recv"
      /\ \A s : Cut(q, s) <=> Cut(r, s) \/ (q[1].op = "send" /\ q[1].send = s /\ q[1].ec = "aborted")
  <2>1. \A s : Carries(q, s) <=> Carries(r, s) \/ (q[1].op = "send" /\ q[1].send = s)
    BY <1>2, <1>3 DEF Carries
  <2>2. Receives(q) <=> Receives(r) \/ q[1].op = "recv"
    BY <1>2, <1>3 DEF Receives
  <2>3. \A s : Cut(q, s) <=> Cut(r, s) \/ (q[1].op = "send" /\ q[1].send = s /\ q[1].ec = "aborted")
    BY <1>2, <1>3 DEF Cut
  <2>4. QED
    BY <2>1, <2>2, <2>3
<1>5. ASSUME SentOnce(q) PROVE SentOnce(r)
  BY <1>5, <1>2 DEF SentOnce
<1>6. ASSUME SentOnce(q), q[1].op = "send" PROVE ~Carries(r, q[1].send)
  BY <1>6, <1>2 DEF SentOnce, Carries
<1>7. QED
  BY <1>1, <1>4, <1>5, <1>6 DEF r

(* Cancelling moves what was pending behind the handlers, as it is.        *)
LEMMA Cancelled ==
  ASSUME pending \in Seq(Operations), NEW q \in Seq(Handlers),
         SentOnce(pending), SentOnce(q),
         \A s \in Int : ~(Carries(pending, s) /\ Carries(q, s))
  PROVE  /\ q \o Aborted \in Seq(Handlers)
         /\ \A s : Carries(q \o Aborted, s) <=> Carries(q, s) \/ Carries(pending, s)
         /\ SentOnce(q \o Aborted)
         /\ Receives(q \o Aborted) <=> Receives(q) \/ Receives(pending)
         /\ \A s : Cut(q \o Aborted, s) <=> Cut(q, s) \/ Carries(pending, s)
<1>1. /\ DOMAIN pending = 1 .. Len(pending) /\ Len(pending) \in Nat
      /\ \A i \in DOMAIN pending : pending[i] \in Operations
  BY LenProperties
<1>2. \A i \in DOMAIN pending :
         /\ Aborted[i] \in Handlers
         /\ Aborted[i].op = pending[i].op /\ Aborted[i].send = pending[i].send
         /\ Aborted[i].ec = "aborted"
  BY <1>1 DEF Aborted, Handler, Handlers, Operations
<1>3. Aborted \in Seq(Handlers) /\ DOMAIN Aborted = DOMAIN pending
  BY <1>1, <1>2 DEF Aborted
<1>4. /\ \A s : Carries(Aborted, s) <=> Carries(pending, s)
      /\ SentOnce(Aborted)
      /\ Receives(Aborted) <=> Receives(pending)
      /\ \A s : Cut(Aborted, s) <=> Carries(pending, s)
  <2>1. \A s : Carries(Aborted, s) <=> Carries(pending, s)
    BY <1>2, <1>3, Zenon DEF Carries
  <2>2. SentOnce(Aborted)
    BY <1>2, <1>3, Zenon DEF SentOnce
  <2>3. Receives(Aborted) <=> Receives(pending)
    BY <1>2, <1>3, Zenon DEF Receives
  <2>4. \A s : Cut(Aborted, s) <=> Carries(pending, s)
    BY <1>2, <1>3, Zenon DEF Carries, Cut
  <2>5. QED
    BY <2>1, <2>2, <2>3, <2>4
<1>5. \A s : Carries(pending, s) => s \in Int
  BY <1>1 DEF Carries, Operations
<1>6. QED
  BY <1>3, <1>4, <1>5, PutTogether

LEMMA NothingInEmpty ==
  /\ \A s : ~Carries(<<>>, s)
  /\ SentOnce(<<>>) /\ ~Receives(<<>>)
BY DEF Carries, SentOnce, Receives

(* What was cancelled among the handlers was carried by one of them, and   *)
(* is the one send among many that says so.                                *)
LEMMA CutIsCarried ==
  ASSUME NEW q, NEW s, Cut(q, s)
  PROVE  Carries(q, s)
BY DEF Cut, Carries

(* The sends that a cancellation cuts are those that are pending.          *)
LEMMA SendingIs ==
  ASSUME ReuseInv
  PROVE  (\A s : s \in Sending <=> Carries(pending, s)) /\ Sending \in SUBSET Sends
<1>1. \A i \in DOMAIN pending : pending[i] \in Operations
  BY LenProperties DEF ReuseInv, ReuseTypeOK
<1>2. ASSUME NEW s, Carries(pending, s)
      PROVE  s \in Sending
  <2>1. PICK i \in DOMAIN pending : pending[i].op = "send" /\ pending[i].send = s
    BY <1>2 DEF Carries
  <2>2. pending[i] = Operation("send", s) /\ s \in Int
    BY <1>1, <2>1 DEF Operations, Operation
  <2>3. s \in 1 .. sends
    BY <1>2, <2>2 DEF ReuseInv, WaitUntold
  <2>4. QED
    BY <2>2, <2>3 DEF Sending
<1>3. ASSUME NEW s, s \in Sending
      PROVE  Carries(pending, s)
  BY <1>3 DEF Sending, Carries, Operation
<1>4. Sending \in SUBSET Sends
  <2>1. sends \in Nat /\ MaxSends \in Nat /\ sends <= MaxSends
    BY SendsAssumption DEF ReuseInv, ReuseTypeOK
  <2>2. QED
    BY <2>1 DEF Sending, Sends
<1>5. QED
  BY <1>2, <1>3, <1>4

LEMMA OperationType ==
  ASSUME NEW op \in {"send", "recv"}, NEW s \in 0 .. MaxSends, NEW code \in Codes \cup {"aborted"}
  PROVE  /\ Operation(op, s) \in Operations
         /\ Operation(op, s).op = op /\ Operation(op, s).send = s
         /\ Handler(Operation(op, s), code) \in Handlers
         /\ Handler(Operation(op, s), code).op = op /\ Handler(Operation(op, s), code).send = s
         /\ Handler(Operation(op, s), code).ec = code
BY DEF Operation, Operations, Handler, Handlers

----------------------------------------------------------------------------
LEMMA ReuseStarts == ReuseInit => ReuseInv
<1> SUFFICES ASSUME ReuseInit PROVE ReuseInv
  OBVIOUS
<1>1. ReuseTypeOK
  <2>1. 0 \in 0 .. MaxSends /\ told \in [Sends -> Nat] /\ pending \in Seq(Operations)
        /\ ready \in Seq(Handlers)
    BY SendsAssumption, EmptySeq DEF ReuseInit
  <2>2. QED
    BY <2>1 DEF ReuseInit, ReuseTypeOK
<1>2. Receiving /\ EachOnce /\ WaitUntold /\ CutUntold
  BY NothingInEmpty DEF ReuseInit, Receiving, EachOnce, WaitUntold, CutUntold
<1>3. Told /\ NotYetTold
  BY DEF ReuseInit, Told, NotYetTold
<1>4. QED
  BY <1>1, <1>2, <1>3 DEF ReuseInv

(* An operation completes: its handler takes its place.                    *)
LEMMA CompletesKeeps ==
  ASSUME ReuseInv, NEW op \in {"send", "recv"}, Completes(op)
  PROVE  ReuseInv'
<1>1. PICK i \in DOMAIN pending, code \in Codes :
        /\ pending[i].op = op
        /\ ready' = Append(ready, Handler(pending[i], code))
        /\ pending' = RemoveAt(pending, i)
        /\ UNCHANGED <<m_beginRecv, alive, isOpen, sends, told, cut>>
  BY DEF Completes
<1> DEFINE o == pending[i]
           h == Handler(o, code)
<1>2. pending \in Seq(Operations) /\ ready \in Seq(Handlers)
  BY DEF ReuseInv, ReuseTypeOK
<1>3. /\ o \in Operations /\ pending' \in Seq(Operations)
      /\ \A s : Carries(pending, s) <=> Carries(pending', s) \/ (o.op = "send" /\ o.send = s)
      /\ SentOnce(pending')
      /\ o.op = "send" => ~Carries(pending', o.send)
      /\ Receives(pending) <=> Receives(pending') \/ o.op = "recv"
  BY <1>1, <1>2, TakenOut, Zenon DEF ReuseInv, EachOnce
<1>4. h \in Handlers /\ h.op = o.op /\ h.send = o.send /\ h.ec # "aborted"
      /\ (o.op = "send" => o.send \in Int)
  BY <1>3 DEF Operations, Handlers, Handler, Codes
<1> HIDE DEF o, h
<1>5. /\ ready' \in Seq(Handlers)
      /\ \A s : Carries(ready', s) <=> Carries(ready, s) \/ (h.op = "send" /\ h.send = s)
      /\ SentOnce(ready) /\ (h.op = "send" => ~Carries(ready, h.send)) => SentOnce(ready')
      /\ Receives(ready') <=> Receives(ready) \/ h.op = "recv"
      /\ \A s : Cut(ready', s) <=> Cut(ready, s) \/ (h.op = "send" /\ h.send = s /\ h.ec = "aborted")
  BY <1>1, <1>2, <1>4, PutBehind, Zenon DEF h, o
<1>6. SentOnce(ready')
  BY <1>3, <1>4, <1>5 DEF ReuseInv, EachOnce
<1>7. \A s \in Int : ~(Carries(pending', s) /\ Carries(ready', s))
  BY <1>3, <1>4, <1>5 DEF ReuseInv, EachOnce
<1>8. \A s : Carries(pending', s) \/ Carries(ready', s) <=> Carries(pending, s) \/ Carries(ready, s)
  BY <1>3, <1>4, <1>5
<1>9. ReuseTypeOK'
  BY <1>1, <1>3, <1>5 DEF ReuseInv, ReuseTypeOK
<1>10. Receiving'
  BY <1>1, <1>3, <1>4, <1>5 DEF ReuseInv, Receiving
<1>11. WaitUntold' /\ Told' /\ NotYetTold'
  BY <1>1, <1>8 DEF ReuseInv, WaitUntold, Told, NotYetTold
<1>12. CutUntold'
  <2>1. ASSUME NEW s \in Int, Carries(ready', s) PROVE s \in cut <=> Cut(ready', s)
    <3>1. CASE Carries(ready, s)
      BY <3>1, <1>4, <1>5 DEF ReuseInv, CutUntold
    <3>2. CASE ~Carries(ready, s)
      <4>1. Carries(pending, s) /\ ~Cut(ready', s)
        BY <2>1, <3>2, <1>3, <1>4, <1>5, CutIsCarried
      <4>2. QED
        BY <4>1 DEF ReuseInv, CutUntold
    <3>3. QED
      BY <3>1, <3>2
  <2>2. \A s \in Int : Carries(pending', s) => s \notin cut
    BY <1>3 DEF ReuseInv, CutUntold
  <2>3. QED
    BY <2>1, <2>2, <1>1 DEF ReuseInv, CutUntold
<1>13. QED
  BY <1>3, <1>6, <1>7, <1>9, <1>10, <1>11, <1>12 DEF ReuseInv, EachOnce

(* After a cancellation the sends that were cut are told nothing, and their *)
(* handlers say so.                                                        *)
LEMMA CancelCuts ==
  ASSUME ReuseInv
  PROVE  /\ \A s \in cut \cup Sending : s \in 1 .. sends /\ told[s] = 0
         /\ \A s \in Int : Carries(ready, s) \/ Carries(pending, s) =>
              (s \in cut \cup Sending <=> Cut(ready, s) \/ Carries(pending, s))
<1>1. \A s : s \in Sending <=> Carries(pending, s)
  BY SendingIs
<1>2. \A s \in Sending : s \in 1 .. sends /\ told[s] = 0
  <2>1. \A s \in Sending : s \in 1 .. sends /\ s \in Int
    BY DEF ReuseInv, ReuseTypeOK, Sending
  <2>2. QED
    BY <2>1, <1>1 DEF ReuseInv, WaitUntold
<1>3. ASSUME NEW s \in Int, Carries(ready, s) \/ Carries(pending, s)
      PROVE  s \in cut \cup Sending <=> Cut(ready, s) \/ Carries(pending, s)
  <2>1. CASE Carries(pending, s)
    BY <2>1, <1>1
  <2>2. CASE ~Carries(pending, s)
    BY <2>2, <1>1, <1>3 DEF ReuseInv, CutUntold
  <2>3. QED
    BY <2>1, <2>2
<1>4. QED
  BY <1>2, <1>3 DEF ReuseInv, CutUntold

(* A call that cancels what is pending, and tells nobody.                  *)
LEMMA CancelKeeps ==
  ASSUME ReuseInv, CancelAll(ready), UNCHANGED <<sends, told>>,
         alive' => alive, alive' /\ m_beginRecv' => m_beginRecv,
         alive' \in BOOLEAN, m_beginRecv' \in BOOLEAN, isOpen' \in BOOLEAN
  PROVE  ReuseInv'
<1>1. pending \in Seq(Operations) /\ ready \in Seq(Handlers)
  BY DEF ReuseInv, ReuseTypeOK
<1>2. ready' = ready \o Aborted /\ pending' = <<>> /\ cut' = cut \cup Sending
  BY DEF CancelAll
<1>3. /\ ready' \in Seq(Handlers)
      /\ \A s : Carries(ready', s) <=> Carries(ready, s) \/ Carries(pending, s)
      /\ SentOnce(ready')
      /\ Receives(ready') <=> Receives(ready) \/ Receives(pending)
      /\ \A s : Cut(ready', s) <=> Cut(ready, s) \/ Carries(pending, s)
  <2>1. /\ ready \o Aborted \in Seq(Handlers)
        /\ \A s : Carries(ready \o Aborted, s) <=> Carries(ready, s) \/ Carries(pending, s)
        /\ SentOnce(ready \o Aborted)
        /\ Receives(ready \o Aborted) <=> Receives(ready) \/ Receives(pending)
        /\ \A s : Cut(ready \o Aborted, s) <=> Cut(ready, s) \/ Carries(pending, s)
    BY <1>1, Cancelled DEF ReuseInv, EachOnce
  <2>2. QED
    BY <2>1, <1>2
<1>4. /\ \A s : ~Carries(pending', s)
      /\ SentOnce(pending') /\ ~Receives(pending')
  BY <1>2, NothingInEmpty
<1>5. ReuseTypeOK'
  <2>1. cut' \in SUBSET Sends /\ pending' \in Seq(Operations)
    BY <1>2, SendingIs, EmptySeq DEF ReuseInv, ReuseTypeOK
  <2>2. QED
    BY <2>1, <1>3 DEF ReuseInv, ReuseTypeOK
<1>6. Receiving'
  BY <1>3 DEF ReuseInv, Receiving
<1>7. EachOnce'
  BY <1>3, <1>4 DEF EachOnce
<1>8. WaitUntold' /\ Told' /\ NotYetTold'
  BY <1>2, <1>3, <1>4 DEF ReuseInv, WaitUntold, Told, NotYetTold
<1>9. CutUntold'
  BY <1>2, <1>3, <1>4, CancelCuts DEF CutUntold
<1>10. QED
  BY <1>5, <1>6, <1>7, <1>8, <1>9 DEF ReuseInv

LEMMA AsyncSendKeeps ==
  ASSUME ReuseInv, asyncSend
  PROVE  ReuseInv'
<1> DEFINE n == sends + 1
           o == Operation("send", n)
<1>1. /\ pending \in Seq(Operations) /\ ready \in Seq(Handlers)
      /\ sends \in 0 .. MaxSends /\ n \in Sends /\ n \in 0 .. MaxSends /\ n \in Int
      /\ sends' = n /\ n > sends /\ n \notin 1 .. sends
      /\ \A s \in 1 .. n : s \in 1 .. sends \/ s = n
      /\ \A s \in 1 .. sends : s \in 1 .. n
  BY SendsAssumption DEF ReuseInv, ReuseTypeOK, asyncSend, Sends
<1>2. pending' = Append(pending, o)
      /\ UNCHANGED <<m_beginRecv, alive, isOpen, ready, told, cut>>
  BY DEF asyncSend
<1>3. o \in Operations /\ o.op = "send" /\ o.send = n
  BY <1>1, OperationType
<1>4. told[n] = 0 /\ ~Carries(pending, n) /\ ~Carries(ready, n)
  BY <1>1 DEF ReuseInv, NotYetTold, WaitUntold
<1> HIDE DEF o, n
<1>5. /\ pending' \in Seq(Operations)
      /\ \A s : Carries(pending', s) <=> Carries(pending, s) \/ s = n
      /\ SentOnce(pending')
      /\ Receives(pending') <=> Receives(pending)
  BY <1>1, <1>2, <1>3, <1>4, PutBehind DEF ReuseInv, EachOnce
<1>6. ReuseTypeOK'
  BY <1>1, <1>2, <1>5 DEF ReuseInv, ReuseTypeOK
<1>7. Receiving' /\ CutUntold'
  BY <1>1, <1>2, <1>5 DEF ReuseInv, Receiving, CutUntold
<1>8. EachOnce'
  BY <1>2, <1>5, <1>4 DEF ReuseInv, EachOnce
<1>9. WaitUntold'
  <2>1. n \in 1 .. n
    BY <1>1
  <2>2. QED
    BY <2>1, <1>1, <1>2, <1>5, <1>4 DEF ReuseInv, WaitUntold
<1>10. Told'
  <2>1. \A s \in 1 .. n : told[s] <= 1 /\ (told[s] = 1 \/ s \in cut \/ ~alive \/ Carries(pending', s) \/ Carries(ready, s))
    BY <1>1, <1>5, <1>4 DEF ReuseInv, Told
  <2>2. QED
    BY <2>1, <1>1, <1>2 DEF Told
<1>11. NotYetTold'
  <2>1. \A s \in Sends : s > n => s > sends
    BY <1>1 DEF Sends
  <2>2. QED
    BY <2>1, <1>1, <1>2 DEF ReuseInv, NotYetTold
<1>12. QED
  BY <1>6, <1>7, <1>8, <1>9, <1>10, <1>11 DEF ReuseInv

(* A send on a closed socket is told at once, and what was pending is cut. *)
LEMMA AsyncSendClosedKeeps ==
  ASSUME ReuseInv, asyncSendClosed
  PROVE  ReuseInv'
<1> DEFINE n == sends + 1
<1>1. /\ pending \in Seq(Operations) /\ ready \in Seq(Handlers)
      /\ sends \in 0 .. MaxSends /\ n \in Sends /\ n \in 0 .. MaxSends /\ n \in Int
      /\ sends' = n /\ n > sends /\ n \notin 1 .. sends
      /\ \A s \in 1 .. n : s \in 1 .. sends \/ s = n
      /\ \A s \in 1 .. sends : s \in 1 .. n /\ s \in Sends /\ s # n
      /\ told \in [Sends -> Nat]
  BY SendsAssumption DEF ReuseInv, ReuseTypeOK, asyncSendClosed, Sends
<1>2. /\ told' = [told EXCEPT ![n] = @ + 1]
      /\ CancelAll(ready) /\ m_beginRecv' = FALSE /\ isOpen' \in BOOLEAN /\ UNCHANGED alive
  BY DEF asyncSendClosed, ReconnectOpens, ReconnectThrows
<1>3. told[n] = 0 /\ ~Carries(pending, n) /\ ~Carries(ready, n)
  BY <1>1 DEF ReuseInv, NotYetTold, WaitUntold
<1>4. /\ told' \in [Sends -> Nat] /\ told'[n] = 1
      /\ \A s \in Sends : s # n => told'[s] = told[s]
  BY <1>1, <1>2, <1>3
<1> HIDE DEF n
<1>5. ready' = ready \o Aborted /\ pending' = <<>> /\ cut' = cut \cup Sending
  BY <1>2 DEF CancelAll
<1>6. /\ ready' \in Seq(Handlers)
      /\ \A s : Carries(ready', s) <=> Carries(ready, s) \/ Carries(pending, s)
      /\ SentOnce(ready')
      /\ \A s : Cut(ready', s) <=> Cut(ready, s) \/ Carries(pending, s)
  <2>1. /\ ready \o Aborted \in Seq(Handlers)
        /\ \A s : Carries(ready \o Aborted, s) <=> Carries(ready, s) \/ Carries(pending, s)
        /\ SentOnce(ready \o Aborted)
        /\ \A s : Cut(ready \o Aborted, s) <=> Cut(ready, s) \/ Carries(pending, s)
    BY <1>1, Cancelled DEF ReuseInv, EachOnce
  <2>2. QED
    BY <2>1, <1>5
<1>7. /\ \A s : ~Carries(pending', s)
      /\ SentOnce(pending')
  BY <1>5, NothingInEmpty
<1>8. ReuseTypeOK'
  <2>1. pending' \in Seq(Operations) /\ sends' \in 0 .. MaxSends /\ cut' \in SUBSET Sends
        /\ m_beginRecv' \in BOOLEAN /\ alive' \in BOOLEAN
    BY <1>1, <1>2, <1>5, EmptySeq DEF ReuseInv, ReuseTypeOK, Sending
  <2>2. QED
    BY <2>1, <1>2, <1>4, <1>6 DEF ReuseTypeOK
<1>9. Receiving' /\ CutUntold'
  <2>1. Receiving'
    BY <1>2 DEF Receiving
  <2>2. /\ \A s \in cut \cup Sending : s \in 1 .. sends /\ told[s] = 0
        /\ \A s \in Int : Carries(ready, s) \/ Carries(pending, s) =>
             (s \in cut \cup Sending <=> Cut(ready, s) \/ Carries(pending, s))
    BY CancelCuts
  <2>3. \A s \in cut' : s \in 1 .. n /\ told'[s] = 0
    BY <2>2, <1>1, <1>4, <1>5
  <2>4. QED
    BY <2>1, <2>2, <2>3, <1>1, <1>5, <1>6, <1>7 DEF CutUntold
<1>10. EachOnce'
  BY <1>6, <1>7 DEF EachOnce
<1>11. WaitUntold'
  BY <1>1, <1>4, <1>6, <1>7, <1>3 DEF ReuseInv, WaitUntold
<1>12. Told'
  <2>1. ASSUME NEW s \in 1 .. sends
        PROVE  /\ told'[s] <= 1
               /\ told'[s] = 1 \/ s \in cut' \/ ~alive' \/ Carries(ready', s)
    BY <1>1, <1>2, <1>4, <1>5, <1>6 DEF ReuseInv, Told
  <2>2. QED
    BY <2>1, <1>1, <1>4 DEF Told
<1>13. NotYetTold'
  <2>1. \A s \in Sends : s > n => s > sends /\ s # n
    BY <1>1 DEF Sends
  <2>2. QED
    BY <2>1, <1>1, <1>4 DEF ReuseInv, NotYetTold
<1>14. QED
  BY <1>8, <1>9, <1>10, <1>11, <1>12, <1>13 DEF ReuseInv

(* A handler that does nothing, after a cancellation or in a dead object.  *)
LEMMA DroppedKeeps ==
  ASSUME ReuseInv, ready # <<>>, ready' = Tail(ready),
         ~alive \/ (Head(ready).ec = "aborted" /\ m_beginRecv' = FALSE),
         m_beginRecv' \in BOOLEAN,
         UNCHANGED <<alive, isOpen, pending, sends, told, cut>>
  PROVE  ReuseInv'
<1>1. pending \in Seq(Operations) /\ ready \in Seq(Handlers)
  BY DEF ReuseInv, ReuseTypeOK
<1>2. /\ Tail(ready) \in Seq(Handlers)
      /\ \A s : Carries(ready, s) <=> Carries(Tail(ready), s) \/ (Head(ready).op = "send" /\ Head(ready).send = s)
      /\ SentOnce(Tail(ready))
      /\ Head(ready).op = "send" => ~Carries(Tail(ready), Head(ready).send)
      /\ \A s : Cut(ready, s)
           <=> \/ Cut(Tail(ready), s)
               \/ Head(ready).op = "send" /\ Head(ready).send = s /\ Head(ready).ec = "aborted"
  BY <1>1, FirstOut DEF ReuseInv, EachOnce
<1>3. ASSUME NEW s \in Int
      PROVE  s \in cut \/ ~alive \/ (Carries(ready, s) => Carries(Tail(ready), s))
  BY <1>2 DEF ReuseInv, CutUntold
<1>4. ReuseTypeOK'
  BY <1>2 DEF ReuseInv, ReuseTypeOK
<1>5. Receiving' /\ CutUntold'
  BY <1>2 DEF ReuseInv, Receiving, CutUntold
<1>6. EachOnce'
  BY <1>2 DEF ReuseInv, EachOnce
<1>7. WaitUntold' /\ Told' /\ NotYetTold'
  <2>1. Told'
    <3>1. \A s \in 1 .. sends : s \in Int
      BY DEF ReuseInv, ReuseTypeOK
    <3>2. QED
      BY <3>1, <1>3 DEF ReuseInv, Told
  <2>2. QED
    BY <2>1, <1>2 DEF ReuseInv, WaitUntold, NotYetTold
<1>8. QED
  BY <1>4, <1>5, <1>6, <1>7 DEF ReuseInv

(* Receiving is started again in the handler that ready begins with.       *)
LEMMA AsyncRecvKeeps ==
  ASSUME ReuseInv, ready # <<>>, asyncRecv
  PROVE  /\ pending' \in Seq(Operations) /\ ready' \in Seq(Handlers)
         /\ \A s : Carries(pending', s) <=> Carries(pending, s)
         /\ \A s : Carries(ready', s) <=> Carries(Tail(ready), s)
         /\ SentOnce(pending') /\ SentOnce(ready')
         /\ Receives(pending') \/ Receives(ready')
         /\ \A s : Cut(ready', s) <=> Cut(Tail(ready), s)
<1> DEFINE o == Operation("recv", 0)
           h == Handler(o, "broken")
           r == Tail(ready)
<1>1. pending \in Seq(Operations) /\ ready \in Seq(Handlers)
      /\ SentOnce(pending) /\ SentOnce(ready)
  BY DEF ReuseInv, ReuseTypeOK, EachOnce
<1>2. o \in Operations /\ o.op = "recv" /\ h \in Handlers /\ h.op = "recv" /\ h.ec # "aborted"
  BY SendsAssumption, OperationType DEF Codes
<1>3. r \in Seq(Handlers) /\ SentOnce(r)
  BY <1>1, FirstOut
<1>4. \/ pending' = Append(pending, o) /\ ready' = r
      \/ ready' = Append(r, h) /\ pending' = pending
  BY DEF asyncRecv
<1> HIDE DEF o, h, r
<1>5. CASE pending' = Append(pending, o) /\ ready' = r
  <2>1. /\ Append(pending, o) \in Seq(Operations)
        /\ \A s : Carries(Append(pending, o), s) <=> Carries(pending, s)
        /\ SentOnce(Append(pending, o)) /\ Receives(Append(pending, o))
    BY <1>1, <1>2, PutBehind
  <2>2. QED
    BY <2>1, <1>1, <1>3, <1>5 DEF r
<1>6. CASE ready' = Append(r, h) /\ pending' = pending
  <2>1. /\ Append(r, h) \in Seq(Handlers)
        /\ \A s : Carries(Append(r, h), s) <=> Carries(r, s)
        /\ SentOnce(Append(r, h)) /\ Receives(Append(r, h))
        /\ \A s : Cut(Append(r, h), s) <=> Cut(r, s)
    BY <1>2, <1>3, PutBehind
  <2>2. QED
    BY <2>1, <1>1, <1>3, <1>6 DEF r
<1>7. QED
  BY <1>4, <1>5, <1>6

(* The callback hears of the send that ready begins with, and of it alone. *)
LEMMA TellKeeps ==
  ASSUME ReuseInv, Runs("send"), Tell(Head(ready).send),
         cut' = cut \/ cut' = cut \cup Sending,
         \A s : Carries(pending', s) \/ Carries(ready', s)
                  <=> Carries(pending, s) \/ Carries(Tail(ready), s)
  PROVE  /\ WaitUntold' /\ Told' /\ NotYetTold' /\ told' \in [Sends -> Nat]
         /\ \A s \in cut' : s \in 1 .. sends' /\ told'[s] = 0
<1> DEFINE n == Head(ready).send
<1>1. pending \in Seq(Operations) /\ ready \in Seq(Handlers) /\ ready # <<>>
      /\ Head(ready).op = "send" /\ SentOnce(ready) /\ sends \in 0 .. MaxSends
      /\ told \in [Sends -> Nat] /\ sends' = sends
      /\ told' = [told EXCEPT ![n] = @ + 1] /\ alive' = alive
      /\ Head(ready).ec # "aborted"
  BY DEF ReuseInv, ReuseTypeOK, EachOnce, Runs, Tell
<1>2. /\ \A s : Carries(ready, s) <=> Carries(Tail(ready), s) \/ n = s
      /\ ~Carries(Tail(ready), n)
      /\ \A s : Cut(ready, s) <=> Cut(Tail(ready), s)
      /\ Head(ready) \in Handlers
  BY <1>1, FirstOut
<1>3. n \in Int
  BY <1>2 DEF Handlers
<1>4. Carries(ready, n) /\ ~Carries(pending, n)
  BY <1>2, <1>3 DEF ReuseInv, EachOnce
<1>5. n \in 1 .. sends /\ told[n] = 0 /\ 1 .. sends \subseteq Sends
  BY <1>1, <1>3, <1>4, SendsAssumption DEF ReuseInv, WaitUntold, Sends
<1> HIDE DEF n
<1>6. /\ told' \in [Sends -> Nat] /\ told'[n] = 1
      /\ \A s \in Sends : s # n => told'[s] = told[s]
  BY <1>1, <1>5
<1>7. \A s : Carries(pending', s) \/ Carries(ready', s)
               <=> s # n /\ (Carries(pending, s) \/ Carries(ready, s))
  BY <1>2, <1>4
<1>8. WaitUntold'
  BY <1>1, <1>5, <1>6, <1>7 DEF ReuseInv, WaitUntold
<1>9. Told'
  BY <1>1, <1>5, <1>6, <1>7 DEF ReuseInv, Told
<1>10. NotYetTold'
  BY <1>1, <1>3, <1>5, <1>6 DEF ReuseInv, NotYetTold, Sends
<1>11. n \notin cut
  BY <1>2, <1>3, <1>4, CutIsCarried DEF ReuseInv, CutUntold
<1>12. \A s \in cut \cup Sending : s \in 1 .. sends /\ told[s] = 0 /\ s # n
  BY <1>4, <1>11, CancelCuts, SendingIs
<1>13. \A s \in cut' : s \in 1 .. sends' /\ told'[s] = 0
  BY <1>1, <1>5, <1>6, <1>12
<1>14. QED
  BY <1>6, <1>8, <1>9, <1>10, <1>13

LEMMA SendDoneKeeps ==
  ASSUME ReuseInv, SendDone
  PROVE  ReuseInv'
<1>1. /\ pending \in Seq(Operations) /\ ready \in Seq(Handlers) /\ ready # <<>>
      /\ SentOnce(pending) /\ SentOnce(ready)
      /\ Runs("send") /\ Head(ready).op = "send" /\ Tell(Head(ready).send)
      /\ UNCHANGED <<alive, isOpen, sends, cut>> /\ m_beginRecv' = TRUE
  BY DEF ReuseInv, ReuseTypeOK, EachOnce, SendDone, Runs
<1>2. /\ Tail(ready) \in Seq(Handlers) /\ SentOnce(Tail(ready))
      /\ \A s : Carries(Tail(ready), s) => Carries(ready, s)
      /\ Receives(ready) <=> Receives(Tail(ready))
      /\ \A s : Cut(Tail(ready), s) <=> Cut(ready, s)
  BY <1>1, FirstOut DEF Runs
<1>3. /\ pending' \in Seq(Operations) /\ ready' \in Seq(Handlers)
      /\ \A s : Carries(pending', s) <=> Carries(pending, s)
      /\ \A s : Carries(ready', s) <=> Carries(Tail(ready), s)
      /\ SentOnce(pending') /\ SentOnce(ready')
      /\ alive => Receives(pending') \/ Receives(ready')
      /\ \A s : Cut(ready', s) <=> Cut(ready, s)
  <2>1. CASE m_beginRecv
    <3>1. ready' = Tail(ready) /\ pending' = pending
      BY <2>1 DEF SendDone
    <3>2. QED
      BY <3>1, <2>1, <1>1, <1>2 DEF ReuseInv, Receiving
  <2>2. CASE ~m_beginRecv
    BY <2>2, <1>1, <1>2, AsyncRecvKeeps DEF SendDone
  <2>3. QED
    BY <2>1, <2>2
<1>4. /\ WaitUntold' /\ Told' /\ NotYetTold' /\ told' \in [Sends -> Nat]
      /\ \A s \in cut' : s \in 1 .. sends' /\ told'[s] = 0
  BY <1>1, <1>3, TellKeeps
<1>5. EachOnce'
  BY <1>2, <1>3 DEF ReuseInv, EachOnce
<1>6. ReuseTypeOK'
  BY <1>1, <1>3, <1>4 DEF ReuseInv, ReuseTypeOK
<1>7. Receiving' /\ CutUntold'
  BY <1>1, <1>2, <1>3, <1>4 DEF ReuseInv, Receiving, CutUntold
<1>8. QED
  BY <1>4, <1>5, <1>6, <1>7 DEF ReuseInv

(* The socket is replaced in the handler, or cannot be.                    *)
LEMMA SendBrokenKeeps ==
  ASSUME ReuseInv, SendBroken
  PROVE  ReuseInv'
<1> DEFINE o == Operation("recv", 0)
<1>1. /\ pending \in Seq(Operations) /\ ready \in Seq(Handlers) /\ ready # <<>>
      /\ SentOnce(pending) /\ SentOnce(ready)
      /\ \A s \in Int : ~(Carries(pending, s) /\ Carries(ready, s))
      /\ Runs("send") /\ Head(ready).op = "send" /\ Head(ready).ec # "aborted"
      /\ UNCHANGED <<alive, sends>> /\ ready' = Tail(ready) \o Aborted
  BY DEF ReuseInv, ReuseTypeOK, EachOnce, SendBroken, Runs
<1>2. /\ Tail(ready) \in Seq(Handlers) /\ SentOnce(Tail(ready))
      /\ \A s : Carries(ready, s) <=> Carries(Tail(ready), s) \/ s = Head(ready).send
      /\ ~Carries(Tail(ready), Head(ready).send) /\ Head(ready) \in Handlers
      /\ \A s : Cut(ready, s) <=> Cut(Tail(ready), s)
  BY <1>1, FirstOut
<1>3. \A s \in Int : ~(Carries(pending, s) /\ Carries(Tail(ready), s))
  BY <1>1, <1>2
<1>4. /\ ready' \in Seq(Handlers)
      /\ \A s : Carries(ready', s) <=> Carries(Tail(ready), s) \/ Carries(pending, s)
      /\ SentOnce(ready')
      /\ \A s : Cut(ready', s) <=> Cut(ready, s) \/ Carries(pending, s)
  <2>1. /\ Tail(ready) \o Aborted \in Seq(Handlers)
        /\ \A s : Carries(Tail(ready) \o Aborted, s) <=> Carries(Tail(ready), s) \/ Carries(pending, s)
        /\ SentOnce(Tail(ready) \o Aborted)
        /\ \A s : Cut(Tail(ready) \o Aborted, s) <=> Cut(Tail(ready), s) \/ Carries(pending, s)
    BY <1>1, <1>2, <1>3, Cancelled
  <2>2. QED
    BY <2>1, <1>1, <1>2
<1>5. /\ \A s \in cut \cup Sending : s \in 1 .. sends /\ told[s] = 0
      /\ \A s \in Int : Carries(ready, s) \/ Carries(pending, s) =>
           (s \in cut \cup Sending <=> Cut(ready, s) \/ Carries(pending, s))
      /\ \A s : s \in Sending <=> Carries(pending, s)
  BY CancelCuts, SendingIs
<1>6. CASE /\ isOpen' = TRUE /\ pending' = <<o>> /\ m_beginRecv' = TRUE
           /\ Tell(Head(ready).send) /\ cut' = cut \cup Sending
  <2>1. o \in Operations /\ o.op = "recv" /\ <<>> \in Seq(Operations) /\ <<o>> = Append(<<>>, o)
    BY SendsAssumption, OperationType, EmptySeq
  <2> HIDE DEF o
  <2>2. /\ pending' \in Seq(Operations) /\ SentOnce(pending') /\ Receives(pending')
        /\ \A s : ~Carries(pending', s)
    <3>1. /\ Append(<<>>, o) \in Seq(Operations) /\ SentOnce(Append(<<>>, o))
          /\ Receives(Append(<<>>, o)) /\ \A s : ~Carries(Append(<<>>, o), s)
      BY <2>1, PutBehind, NothingInEmpty
    <3>2. QED
      BY <3>1, <2>1, <1>6
  <2>3. /\ WaitUntold' /\ Told' /\ NotYetTold' /\ told' \in [Sends -> Nat]
        /\ \A s \in cut' : s \in 1 .. sends' /\ told'[s] = 0
    BY <1>1, <1>4, <1>6, <2>2, TellKeeps
  <2>4. EachOnce' /\ Receiving'
    BY <2>2, <1>4 DEF EachOnce, Receiving
  <2>5. ReuseTypeOK'
    BY <1>1, <1>4, <1>6, <2>2, <2>3, SendingIs DEF ReuseInv, ReuseTypeOK
  <2>6. CutUntold'
    BY <1>2, <1>4, <1>5, <1>6, <2>2, <2>3 DEF CutUntold
  <2>7. QED
    BY <2>3, <2>4, <2>5, <2>6 DEF ReuseInv
<1>7. CASE /\ isOpen' = FALSE /\ pending' = <<>> /\ m_beginRecv' = FALSE
           /\ UNCHANGED told /\ cut' = cut \cup Sending \cup {Head(ready).send}
  <2> DEFINE n == Head(ready).send
  <2>1. /\ pending' \in Seq(Operations) /\ SentOnce(pending')
        /\ \A s : ~Carries(pending', s)
    BY <1>7, EmptySeq, NothingInEmpty
  <2>2. WaitUntold' /\ Told' /\ NotYetTold'
    BY <1>1, <1>2, <1>4, <1>7, <2>1 DEF ReuseInv, WaitUntold, Told, NotYetTold
  <2>3. EachOnce' /\ Receiving'
    BY <2>1, <1>4, <1>7 DEF EachOnce, Receiving
  <2>4. n \in Int /\ Carries(ready, n) /\ ~Carries(pending, n)
    BY <1>1, <1>2 DEF Handlers
  <2>5. n \in 1 .. sends /\ told[n] = 0
    BY <2>4 DEF ReuseInv, WaitUntold
  <2> HIDE DEF n
  <2>6. cut' = cut \cup Sending \cup {n} /\ ~Carries(Tail(ready), n)
        /\ \A s : Carries(Tail(ready), s) => Carries(ready, s)
    BY <1>2, <1>7 DEF n
  <2>7. cut' \in SUBSET Sends
    <3>1. n \in Sends
      BY <2>5, SendsAssumption DEF ReuseInv, ReuseTypeOK, Sends
    <3>2. QED
      BY <3>1, <2>6, SendingIs DEF ReuseInv, ReuseTypeOK
  <2>8. ReuseTypeOK'
    BY <1>1, <1>4, <1>7, <2>1, <2>7 DEF ReuseInv, ReuseTypeOK
  <2>9. \A s \in cut' : s \in 1 .. sends' /\ told'[s] = 0
    BY <1>1, <1>5, <1>7, <2>5, <2>6
  <2>10. \A s \in Int : Carries(ready', s) => s # n
    BY <1>4, <2>4, <2>6
  <2>11. CutUntold'
    BY <1>4, <1>5, <2>1, <2>6, <2>9, <2>10 DEF CutUntold
  <2>12. QED
    BY <2>2, <2>3, <2>8, <2>11 DEF ReuseInv
<1>8. QED
  BY <1>6, <1>7 DEF SendBroken

LEMMA RecvDoneKeeps ==
  ASSUME ReuseInv, RecvDone
  PROVE  ReuseInv'
<1>1. /\ pending \in Seq(Operations) /\ ready \in Seq(Handlers) /\ ready # <<>>
      /\ SentOnce(pending) /\ SentOnce(ready)
      /\ Head(ready).op # "send" /\ asyncRecv
      /\ UNCHANGED <<m_beginRecv, alive, isOpen, sends, told, cut>>
  BY DEF ReuseInv, ReuseTypeOK, EachOnce, RecvDone, Runs
<1>2. /\ \A s : Carries(Tail(ready), s) <=> Carries(ready, s)
      /\ \A s : Cut(Tail(ready), s) <=> Cut(ready, s)
  BY <1>1, FirstOut
<1>3. /\ pending' \in Seq(Operations) /\ ready' \in Seq(Handlers)
      /\ \A s : Carries(pending', s) <=> Carries(pending, s)
      /\ \A s : Carries(ready', s) <=> Carries(ready, s)
      /\ SentOnce(pending') /\ SentOnce(ready')
      /\ Receives(pending') \/ Receives(ready')
      /\ \A s : Cut(ready', s) <=> Cut(ready, s)
  BY <1>1, <1>2, AsyncRecvKeeps
<1>4. ReuseTypeOK'
  BY <1>1, <1>3 DEF ReuseInv, ReuseTypeOK
<1>5. Receiving' /\ CutUntold'
  BY <1>1, <1>3 DEF ReuseInv, Receiving, CutUntold
<1>6. EachOnce'
  BY <1>3 DEF ReuseInv, EachOnce
<1>7. WaitUntold' /\ Told' /\ NotYetTold'
  BY <1>1, <1>3 DEF ReuseInv, WaitUntold, Told, NotYetTold
<1>8. QED
  BY <1>4, <1>5, <1>6, <1>7 DEF ReuseInv

LEMMA ReuseStep ==
  ASSUME ReuseInv, [ReuseNext]_reuseVars
  PROVE  ReuseInv'
<1>1. alive \in BOOLEAN /\ m_beginRecv \in BOOLEAN /\ isOpen \in BOOLEAN
  BY DEF ReuseInv, ReuseTypeOK
<1>2. CASE asyncSend
  BY <1>2, AsyncSendKeeps
<1>3. CASE asyncSendClosed
  BY <1>3, AsyncSendClosedKeeps
<1>4. CASE cancel
  BY <1>4, <1>1, CancelKeeps DEF cancel
<1>5. CASE Reconnect
  BY <1>5, <1>1, CancelKeeps DEF Reconnect, ReconnectOpens, ReconnectThrows
<1>6. CASE CloseSocket
  BY <1>6, <1>1, CancelKeeps DEF CloseSocket
<1>7. CASE Destroy
  BY <1>7, <1>1, CancelKeeps DEF Destroy
<1>8. CASE HandlerOfDead
  BY <1>8, <1>1, DroppedKeeps DEF HandlerOfDead
<1>9. CASE HandlerAborted
  BY <1>9, <1>1, DroppedKeeps DEF HandlerAborted
<1>10. CASE SendDone
  BY <1>10, SendDoneKeeps
<1>11. CASE SendBroken
  BY <1>11, SendBrokenKeeps
<1>12. CASE RecvDone
  BY <1>12, RecvDoneKeeps
<1>13. CASE Completes("send") \/ Completes("recv")
  BY <1>13, CompletesKeeps
<1>14. CASE UNCHANGED reuseVars
  <2>1. UNCHANGED <<m_beginRecv, alive, isOpen, pending, ready, sends, told, cut>>
    BY <1>14 DEF reuseVars, socketVars
  <2>2. QED
    BY <2>1 DEF ReuseInv, ReuseTypeOK, Receiving, EachOnce, WaitUntold, Told, NotYetTold,
         CutUntold, Carries, SentOnce, Receives, Cut
<1>15. QED
  BY <1>2, <1>3, <1>4, <1>5, <1>6, <1>7, <1>8, <1>9, <1>10, <1>11, <1>12, <1>13, <1>14
     DEF ReuseNext, HandlerRuns

THEOREM ReuseInvariance == ReuseSpec => []ReuseInv
BY ReuseStarts, ReuseStep, PTL DEF ReuseSpec

(* Every variable of a ReuseUdpSender holds a value of its type.           *)
THEOREM ReuseTypeCorrect == ReuseSpec => []ReuseTypeOK
<1>1. ReuseInv => ReuseTypeOK
  BY DEF ReuseInv
<1>2. QED
  BY <1>1, ReuseInvariance, PTL

(* While the object believes that it receives, a receive is under way or   *)
(* its handler queued, however many sends, cancellations, closings and     *)
(* replacements of the socket lie before.                                  *)
THEOREM ReuseNeverDeaf == ReuseSpec => []NotDeaf
<1>1. ReuseInv => NotDeaf
  <2> SUFFICES ASSUME ReuseInv, alive, m_beginRecv PROVE Outstanding("recv") # {}
    BY DEF NotDeaf
  <2>1. Receives(pending) \/ Receives(ready)
    BY DEF ReuseInv, Receiving
  <2>2. CASE Receives(pending)
    BY <2>2 DEF Receives, Outstanding
  <2>3. CASE Receives(ready)
    <3>1. PICK i \in DOMAIN ready : ready[i].op = "recv"
      BY <2>3 DEF Receives
    <3>2. -i \in {-k : k \in {j \in DOMAIN ready : ready[j].op = "recv"}}
      BY <3>1
    <3>3. QED
      BY <3>2 DEF Outstanding
  <2>4. QED
    BY <2>1, <2>2, <2>3
<1>2. QED
  BY <1>1, ReuseInvariance, PTL

(* A send is told at most once; one that is not is pending, its handler     *)
(* queued, or was cut: cancelled itself, or its handler threw.             *)
THEOREM ReuseToldOnce == ReuseSpec => []ToldOnce
<1>1. ReuseInv => ToldOnce
  <2> SUFFICES ASSUME ReuseInv, NEW s \in 1 .. sends
               PROVE  /\ told[s] <= 1
                      /\ s \in cut => told[s] = 0
                      /\ \/ told[s] = 1 \/ s \in cut \/ ~alive
                         \/ \E i \in DOMAIN pending : pending[i] = Operation("send", s)
                         \/ \E i \in DOMAIN ready : ready[i].op = "send" /\ ready[i].send = s
    BY DEF ToldOnce
  <2>1. told[s] <= 1 /\ (told[s] = 1 \/ s \in cut \/ ~alive \/ Carries(pending, s) \/ Carries(ready, s))
    BY DEF ReuseInv, Told
  <2>2. s \in cut => told[s] = 0
    BY DEF ReuseInv, CutUntold
  <2>3. ASSUME Carries(pending, s)
        PROVE  \E i \in DOMAIN pending : pending[i] = Operation("send", s)
    BY <2>3, SendingIs DEF Sending
  <2>4. QED
    BY <2>1, <2>2, <2>3 DEF Carries
<1>2. QED
  BY <1>1, ReuseInvariance, PTL
====
