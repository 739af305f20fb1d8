--------------------------- MODULE IOContextUtils ---------------------------
(***************************************************************************)
(* The class IOContextUtils (src/include/iocontextutils.hpp): functions    *)
(* handed to an io_context, waited for or not, and the thread that runs    *)
(* the io_context.  Clients call from their own threads, and a function    *)
(* that runs in the io_context may call too (one level deep here).  The    *)
(* io_context itself is modelled from how the class uses it.               *)
(*                                                                         *)
(* What counts of an error code is whether it is one: where the code takes *)
(* errno, which no call here sets, both are possible.                      *)
(***************************************************************************)
EXTENDS Integers, Sequences, FiniteSets

CONSTANTS
  Clients,   \* threads that call
  IoThread,  \* the thread of startIOContextThread
  MaxTasks,  \* bound on the calls
  MaxStops   \* bound on the calls of stop

ASSUME CallersAssumption == IoThread \notin Clients
ASSUME BoundsAssumption == MaxTasks \in Nat /\ MaxStops \in Nat

Callers == Clients \cup {IoThread}
Tasks == 1 .. MaxTasks

VARIABLES
  stopped,  \* ioContext.stopped()
  queue,    \* tasks posted and not begun
  tpc,      \* where the thread is in startIOContextThread
  cur,      \* tasks it executes: a call from inside one nests
  cpc,      \* where each caller is, and for which task
  kind,     \* "runAsync", "runSync", "runSyncTimeout", or "raw" for a post of others
  owner,    \* who called
  state,    \* what has become of the task
  threw,    \* its function threw while its caller waited
  ec,       \* the error code that the handler then left is one
  ret,      \* what the call returned: "true", "false" or, not yet, "none"
  tasks, stops,
  lost      \* a stop met the thread outside run, or an exception took it out

threadVars == <<tpc, cur>>
taskVars == <<kind, owner, state, threw, ec>>
vars == <<stopped, queue, threadVars, cpc, taskVars, ret, tasks, stops, lost>>

Out == [at |-> "out", task |-> 0]
At(place, t) == [at |-> place, task |-> t]

Init ==
  /\ stopped \in BOOLEAN
  /\ queue = <<>> /\ tpc = "begin" /\ cur = <<>>
  /\ cpc = [c \in Callers |-> Out]
  /\ kind = [t \in Tasks |-> "none"] /\ owner = [t \in Tasks |-> IoThread]
  /\ state = [t \in Tasks |-> "none"]
  /\ threw = [t \in Tasks |-> FALSE] /\ ec = [t \in Tasks |-> FALSE]
  /\ ret = [t \in Tasks |-> "none"]
  /\ tasks = 0 /\ stops = 0 /\ lost = stopped

----------------------------------------------------------------------------
(* A caller                                                                *)

MayCall(c) ==
  /\ cpc[c].at = "out"
  /\ c = IoThread => Len(cur) = 1
  /\ tasks < MaxTasks

Called(c, k) ==
  /\ tasks' = tasks + 1
  /\ kind' = [kind EXCEPT ![tasks'] = k]
  /\ owner' = [owner EXCEPT ![tasks'] = c]

(* checkIOContext: a stopped io_context is refused, with errno as the code. *)
Refused(c, k) ==
  /\ MayCall(c)
  /\ stopped
  /\ Called(c, k)
  /\ ret' = [ret EXCEPT ![tasks'] = "false"]
  /\ UNCHANGED <<stopped, queue, threadVars, cpc, state, threw, ec, stops, lost>>

Checked(c, k) ==
  /\ MayCall(c)
  /\ ~stopped
  /\ Called(c, k)
  /\ cpc' = [cpc EXCEPT ![c] = At("checked", tasks')]
  /\ UNCHANGED <<stopped, queue, threadVars, state, threw, ec, ret, stops, lost>>

Goes(c, place) == cpc' = [cpc EXCEPT ![c] = place]
Becomes(t, s) == state' = [state EXCEPT ![t] = s]

Posts(c) ==
  /\ cpc[c].at = "checked"
  /\ LET t == cpc[c].task
     IN  /\ kind[t] = "runAsync"
         /\ queue' = Append(queue, t) /\ Becomes(t, "queued")
         /\ ret' = [ret EXCEPT ![t] = "true"]
         /\ Goes(c, Out)
  /\ UNCHANGED <<stopped, threadVars, kind, owner, threw, ec, tasks, stops, lost>>

(* Mutant: the function is always posted. *)
DispatchesPosted(c) ==
  /\ cpc[c].at = "checked"
  /\ LET t == cpc[c].task
     IN  /\ kind[t] \in {"runSync", "runSyncTimeout"}
         /\ queue' = Append(queue, t) /\ Becomes(t, "queued")
         /\ Goes(c, At("wait", t))
  /\ UNCHANGED <<stopped, threadVars, kind, owner, threw, ec, ret, tasks, stops, lost>>

(* dispatch runs the function at once in the thread of the io_context,     *)
(* else it posts it and the caller waits.                                  *)
Dispatches(c) ==
  /\ cpc[c].at = "checked"
  /\ LET t == cpc[c].task
     IN  /\ kind[t] \in {"runSync", "runSyncTimeout"}
         /\ IF c = IoThread
            THEN cur' = Append(cur, t) /\ Becomes(t, "running") /\ Goes(c, At("inline", t)) /\ UNCHANGED queue
            ELSE queue' = Append(queue, t) /\ Becomes(t, "queued") /\ Goes(c, At("wait", t)) /\ UNCHANGED cur
  /\ UNCHANGED <<stopped, tpc, kind, owner, threw, ec, ret, tasks, stops, lost>>

(* The future is ready: !ec is returned.                                   *)
Returns(c) ==
  /\ cpc[c].at \in {"wait", "inline"}
  /\ LET t == cpc[c].task
     IN  /\ state[t] = "done"
         /\ ret' = [ret EXCEPT ![t] = IF ec[t] THEN "false" ELSE "true"]
  /\ Goes(c, Out)
  /\ UNCHANGED <<stopped, queue, threadVars, taskVars, tasks, stops, lost>>

(* Mutant: runSync, too, gives up after a time. *)
TimesOutAlways(c) ==
  /\ cpc[c].at = "wait"
  /\ state[cpc[c].task] # "done"
  /\ ret' = [ret EXCEPT ![cpc[c].task] = "false"]
  /\ Goes(c, Out)
  /\ UNCHANGED <<stopped, queue, threadVars, taskVars, tasks, stops, lost>>

(* Mutant: what is returned after a time-out is the code, which is clear.  *)
TimesOutClear(c) ==
  /\ cpc[c].at = "wait"
  /\ LET t == cpc[c].task
     IN  /\ kind[t] = "runSyncTimeout"
         /\ state[t] # "done"
         /\ ret' = [ret EXCEPT ![t] = "true"]
  /\ Goes(c, Out)
  /\ UNCHANGED <<stopped, queue, threadVars, taskVars, tasks, stops, lost>>

(* wait_for gives up; the task stays and will run without its caller.      *)
TimesOut(c) ==
  /\ cpc[c].at = "wait"
  /\ LET t == cpc[c].task
     IN  /\ kind[t] = "runSyncTimeout"
         /\ state[t] # "done"
         /\ ret' = [ret EXCEPT ![t] = "false"]
  /\ Goes(c, Out)
  /\ UNCHANGED <<stopped, queue, threadVars, taskVars, tasks, stops, lost>>

(* Other code posts a function of its own, or stops the io_context.        *)
PostRaw(c) ==
  /\ MayCall(c)
  /\ Called(c, "raw")
  /\ queue' = Append(queue, tasks') /\ Becomes(tasks', "queued")
  /\ UNCHANGED <<stopped, threadVars, cpc, threw, ec, ret, stops, lost>>

Stop ==
  /\ stops < MaxStops
  /\ stops' = stops + 1
  /\ stopped' = TRUE
  /\ lost' = (lost \/ tpc \in {"begin", "sleep"})
  /\ UNCHANGED <<queue, threadVars, cpc, taskVars, ret, tasks>>

----------------------------------------------------------------------------
(* The thread of startIOContextThread                                      *)

(* A stopped io_context is restarted, also if it was stopped just now.     *)
ThreadTop ==
  /\ tpc \in {"begin", "sleep"}
  /\ stopped' = FALSE
  /\ tpc' = "run"
  /\ UNCHANGED <<queue, cur, cpc, taskVars, ret, tasks, stops, lost>>

TaskBegins ==
  /\ tpc = "run"
  /\ ~stopped
  /\ queue # <<>>
  /\ queue' = Tail(queue)
  /\ cur' = <<Head(queue)>>
  /\ Becomes(Head(queue), "running")
  /\ tpc' = "task"
  /\ UNCHANGED <<stopped, cpc, kind, owner, threw, ec, ret, tasks, stops, lost>>

Ending(t) ==
  /\ tpc = "task"
  /\ cur # <<>> /\ t = cur[Len(cur)]
  /\ cpc[IoThread].at = "out" \/ cpc[IoThread] = At("inline", t)
  /\ cur' = SubSeq(cur, 1, Len(cur) - 1)

(* The function returns, or throws and is caught; then the promise is set. *)
(* Whether it threw is kept while its caller waits: nobody else hears it.  *)
TaskEnds ==
  /\ \E t \in Tasks :
       /\ Ending(t)
       /\ Becomes(t, "done")
       /\ \/ UNCHANGED <<threw, ec>>
          \/ /\ cpc[owner[t]].task = t
             /\ threw' = [threw EXCEPT ![t] = TRUE]
             /\ \E coded \in BOOLEAN : ec' = [ec EXCEPT ![t] = coded]
  /\ tpc' = IF cur' = <<>> THEN "run" ELSE "task"
  /\ UNCHANGED <<stopped, queue, cpc, kind, owner, ret, tasks, stops, lost>>

(* A function that others posted throws out of run(): the thread sleeps    *)
(* for five seconds.                                                       *)
RawThrows ==
  /\ \E t \in Tasks :
       /\ Ending(t)
       /\ kind[t] = "raw"
       /\ Becomes(t, "done")
  /\ tpc' = "sleep"
  /\ lost' = (lost \/ stopped)
  /\ UNCHANGED <<stopped, queue, cpc, kind, owner, threw, ec, ret, tasks, stops>>

(* Mutant: the thread loops when run() has returned. *)
RunReturnsLoops ==
  /\ tpc = "run"
  /\ stopped
  /\ tpc' = "sleep"
  /\ UNCHANGED <<stopped, queue, cur, cpc, taskVars, ret, tasks, stops, lost>>

RunReturns ==
  /\ tpc = "run"
  /\ stopped
  /\ tpc' = "end"
  /\ UNCHANGED <<stopped, queue, cur, cpc, taskVars, ret, tasks, stops, lost>>

Thread == ThreadTop \/ TaskBegins \/ TaskEnds \/ RawThrows \/ RunReturns

Next ==
  \/ \E c \in Callers :
       \/ \E k \in {"runAsync", "runSync", "runSyncTimeout"} : Refused(c, k) \/ Checked(c, k)
       \/ Posts(c) \/ Dispatches(c) \/ Returns(c) \/ TimesOut(c) \/ PostRaw(c)
  \/ Stop
  \/ Thread

Spec == Init /\ [][Next]_vars

(* Threads are scheduled, functions end and a time-out passes.             *)
Fairness ==
  /\ WF_vars(Thread)
  /\ \A c \in Callers : WF_vars(Posts(c) \/ Dispatches(c) \/ Returns(c) \/ TimesOut(c))

FairSpec == Spec /\ Fairness

----------------------------------------------------------------------------
(* Every variable holds a value of its type.                               *)
TypeOK ==
  /\ stopped \in BOOLEAN /\ lost \in BOOLEAN
  /\ queue \in Seq(Tasks) /\ cur \in Seq(Tasks)
  /\ tpc \in {"begin", "run", "task", "sleep", "end"}
  /\ cpc \in [Callers -> [at : {"out", "checked", "wait", "inline"}, task : 0 .. MaxTasks]]
  /\ kind \in [Tasks -> {"none", "runAsync", "runSync", "runSyncTimeout", "raw"}]
  /\ owner \in [Tasks -> Callers]
  /\ state \in [Tasks -> {"none", "queued", "running", "done"}]
  /\ threw \in [Tasks -> BOOLEAN] /\ ec \in [Tasks -> BOOLEAN]
  /\ ret \in [Tasks -> {"none", "true", "false"}]
  /\ tasks \in 0 .. MaxTasks /\ stops \in 0 .. MaxStops

(* The handler of runSync writes through references into its caller's      *)
(* frame: as long as it is queued or runs, the caller is there, waiting.   *)
FrameAlive ==
  \A t \in Tasks :
    kind[t] = "runSync" /\ state[t] \in {"queued", "running"} =>
      cpc[owner[t]].at \in {"wait", "inline"} /\ cpc[owner[t]].task = t

Answer(t) ==
  /\ ret[t] = "none"
  /\ \/ ret'[t] = "true" /\ state[t] = "done" /\ ~ec[t]
     \/ ret'[t] = "false" /\ state[t] = "done" /\ threw[t] /\ ec[t]
     \/ ret'[t] = "false" /\ kind[t] = "runSyncTimeout" /\ state[t] \in {"queued", "running"}
     \/ ret'[t] = "false" /\ stopped /\ state[t] = "none"

(* A call that waits is answered once.  True: its function has come to an  *)
(* end, by itself or by an exception that left no error code.  False: it   *)
(* threw and left a code, or was still queued or running when its caller   *)
(* gave up, or was never handed over.                                      *)
AnswerIsTrue ==
  [][\A t \in Tasks :
       kind'[t] \in {"runSync", "runSyncTimeout"} /\ ret'[t] # ret[t] => Answer(t)]_vars

(* runSync returns; but it waits for ever if the io_context is stopped     *)
(* after it looked and the thread has ended.                               *)
SyncReturns ==
  \A c \in Callers : cpc[c].at \in {"checked", "wait", "inline"} ~> (cpc[c].at = "out" \/ tpc = "end")

(* stop ends the thread, except one that came before the thread entered    *)
(* run, or before a function of others threw out of it: restart undoes it. *)
StopEnds == stopped ~> (tpc = "end" \/ lost)

=============================================================================
