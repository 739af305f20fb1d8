----------------------------- MODULE UdpSender -----------------------------
(***************************************************************************)
(* The class UdpSender (src/src/include/udp_sender/UdpSender.hpp): one     *)
(* datagram out, answers in, one request at a time, with a timer that      *)
(* cancels a request nobody answers.  Callers use it from their own        *)
(* threads; the handlers run on the threads of an io_context.  Socket,     *)
(* timer and io_context are modelled from how the class uses them.         *)
(*                                                                         *)
(* A step is what a thread does between two accesses to what it shares     *)
(* with the others: m_running, the socket, the timer, a user's callback.   *)
(* An operation of the socket or the timer is one step.                    *)
(***************************************************************************)
EXTENDS Integers, Sequences, FiniteSets, SequencesExt

CONSTANTS
  Callers,      \* threads that call asyncSend
  IoThreads,    \* threads that run the io_context
  MaxRequests   \* bound on the requests asyncSend accepts

ASSUME RequestsAssumption == MaxRequests \in Nat

Requests == 1 .. MaxRequests

VARIABLES
  m_running,
  m_in_use,   \* handler_memory: the storage is taken
  m_timeout,  \* whether the timeout is positive
  cpc,        \* where each caller is in asyncSend
  hpc,        \* what each io thread does: a handler's place and its request
  pending,    \* operations of the socket that have not completed
  ready,      \* their handlers that wait for a thread
  waits,      \* requests whose timer runs
  fired,      \* timer handlers that wait for a thread
  requests,   \* requests accepted so far: the last one is the current
  ends        \* how often each request has been told that it is over

socketVars == <<m_in_use, pending, ready>>
timerVars == <<waits, fired>>
vars == <<m_running, m_timeout, cpc, hpc, socketVars, timerVars, requests, ends>>

Idle == [at |-> "idle", req |-> 0]
At(place, r) == [at |-> place, req |-> r]

Init ==
  /\ m_running = FALSE /\ m_in_use = FALSE
  /\ m_timeout \in BOOLEAN
  /\ cpc = [c \in Callers |-> "out"]
  /\ hpc = [t \in IoThreads |-> Idle]
  /\ pending = <<>> /\ ready = <<>>
  /\ waits = {} /\ fired = {}
  /\ requests = 0
  /\ ends = [r \in Requests |-> 0]

----------------------------------------------------------------------------
(* The socket.  An operation takes the storage of handler_memory, or the   *)
(* heap when the storage is in use; it gives it back before its handler    *)
(* runs.                                                                   *)
Operation(op, r) == [op |-> op, req |-> r, onHeap |-> m_in_use]
Handler(o, ec) == [op |-> o.op, req |-> o.req, onHeap |-> o.onHeap, ec |-> ec]

Post(op, r) ==
  /\ pending' = Append(pending, Operation(op, r))
  /\ m_in_use' = TRUE

(* A pending operation succeeds or fails.                                  *)
Completes ==
  \E i \in DOMAIN pending, ec \in {"ok", "error"} :
    /\ ready' = Append(ready, Handler(pending[i], ec))
    /\ pending' = RemoveAt(pending, i)
    /\ UNCHANGED <<m_running, m_in_use, m_timeout, cpc, hpc, timerVars, requests, ends>>

(* cancel completes all pending operations with operation_aborted.         *)
CancelSocket ==
  /\ ready' = ready \o [i \in DOMAIN pending |-> Handler(pending[i], "aborted")]
  /\ pending' = <<>>

(* expires_after and cancel abort the waits that still run, not those      *)
(* whose handler is already queued.                                        *)
CancelledWaits == {[req |-> r, ec |-> "aborted"] : r \in waits}

(* An io thread between two handlers notices the expiry.                   *)
TimerExpires ==
  \E r \in waits :
    /\ \E t \in IoThreads : hpc[t] = Idle
    /\ waits' = waits \ {r}
    /\ fired' = fired \cup {[req |-> r, ec |-> "ok"]}
    /\ UNCHANGED <<m_running, m_timeout, cpc, hpc, socketVars, requests, ends>>

----------------------------------------------------------------------------
(* The callers.  A call made while a request runs is refused.              *)

(* Mutant: asyncSend does not look at m_running.                           *)
SendUnchecked(c) ==
  /\ cpc[c] = "out"
  /\ requests + Cardinality({d \in Callers : cpc[d] = "start"}) < MaxRequests
  /\ cpc' = [cpc EXCEPT ![c] = "start"]
  /\ UNCHANGED <<m_running, m_timeout, hpc, socketVars, timerVars, requests, ends>>

SendAccepted(c) ==
  /\ cpc[c] = "out"
  /\ ~m_running
  /\ requests + Cardinality({d \in Callers : cpc[d] = "start"}) < MaxRequests
  /\ cpc' = [cpc EXCEPT ![c] = "start"]
  /\ UNCHANGED <<m_running, m_timeout, hpc, socketVars, timerVars, requests, ends>>

SendStarts(c) ==
  /\ cpc[c] = "start"
  /\ cpc' = [cpc EXCEPT ![c] = "out"]
  /\ m_running' = TRUE
  /\ requests' = requests + 1
  /\ Post("send", requests')
  /\ UNCHANGED <<m_timeout, hpc, ready, timerVars, ends>>

cancel ==
  /\ CancelSocket
  /\ UNCHANGED <<m_running, m_in_use, m_timeout, cpc, hpc, timerVars, requests, ends>>

----------------------------------------------------------------------------
(* The handlers                                                            *)

Goes(t, next) == hpc' = [hpc EXCEPT ![t] = next]

Ends(r) == ends' = [ends EXCEPT ![r] = @ + 1]

(* Thread t takes the first handler of the socket.                         *)
Take(t, op) ==
  /\ hpc[t] = Idle
  /\ ready # <<>> /\ Head(ready).op = op
  /\ ready' = Tail(ready)
  /\ m_in_use' = IF Head(ready).onHeap THEN m_in_use ELSE FALSE
  /\ UNCHANGED <<m_timeout, cpc, pending, requests>>

(* The handler of async_send_to: sendDone is called, then a failed request *)
(* is over and another one has its timer armed and receives.               *)
SendDone(t) ==
  /\ Take(t, "send")
  /\ LET h == Head(ready)
     IN  IF h.ec = "ok"
         THEN Goes(t, At(IF m_timeout THEN "arm" ELSE "receive", h.req)) /\ UNCHANGED ends
         ELSE Goes(t, At("stop", h.req)) /\ Ends(h.req)
  /\ UNCHANGED <<m_running, timerVars>>

SendFailed(t) ==
  /\ hpc[t].at = "stop"
  /\ m_running' = FALSE
  /\ Goes(t, Idle)
  /\ UNCHANGED <<m_timeout, cpc, socketVars, timerVars, requests, ends>>

ArmTimer(t) ==
  /\ hpc[t].at = "arm"
  /\ fired' = fired \cup CancelledWaits
  /\ waits' = {hpc[t].req}
  /\ Goes(t, At("receive", hpc[t].req))
  /\ UNCHANGED <<m_running, m_timeout, cpc, socketVars, requests, ends>>

asyncRecv(t) ==
  /\ hpc[t].at = "receive"
  /\ Post("recv", hpc[t].req)
  /\ Goes(t, Idle)
  /\ UNCHANGED <<m_running, m_timeout, cpc, ready, timerVars, requests, ends>>

(* The handler of async_receive_from: one that finds the request stopped   *)
(* does nothing, one that was cancelled stops it.                          *)
RecvAborted(t) ==
  /\ Take(t, "recv")
  /\ ~m_running \/ Head(ready).ec = "aborted"
  /\ m_running' = FALSE
  /\ Goes(t, IF m_running THEN At("abort", Head(ready).req) ELSE Idle)
  /\ UNCHANGED <<timerVars, ends>>

(* Mutant: an aborted receive is answered and then received again.         *)
RecvDoneAnyway(t) ==
  /\ Take(t, "recv")
  /\ m_running
  /\ LET r == Head(ready).req
     IN  Ends(r) /\ Goes(t, At("receive", r))
  /\ UNCHANGED <<m_running, timerVars>>

(* The callback tells whether it has what it wants; if not, or if it wants *)
(* no more after an error, the receive is started again.                   *)
RecvDone(t) ==
  /\ Take(t, "recv")
  /\ m_running
  /\ Head(ready).ec # "aborted"
  /\ LET r == Head(ready).req
     IN  \/ Ends(r) /\ Goes(t, At("answered", r))
         \/ Goes(t, At("receive", r)) /\ UNCHANGED ends
  /\ UNCHANGED <<m_running, timerVars>>

Answered(t) ==
  /\ hpc[t].at = "answered"
  /\ m_running' = FALSE
  /\ Goes(t, At("disarm", hpc[t].req))
  /\ UNCHANGED <<m_timeout, cpc, socketVars, timerVars, requests, ends>>

(* ignoreCancel(m_timeoutTimer); an aborted request then hears of it.      *)
CancelTimer(t) ==
  /\ hpc[t].at \in {"disarm", "abort"}
  /\ fired' = fired \cup CancelledWaits
  /\ waits' = {}
  /\ IF hpc[t].at = "abort" THEN Ends(hpc[t].req) ELSE UNCHANGED ends
  /\ Goes(t, Idle)
  /\ UNCHANGED <<m_running, m_timeout, cpc, socketVars, requests>>

(* Mutant: the handler of the timer mistakes the expiry for the cancel.    *)
TimerHandlerOnAbort(t) ==
  /\ hpc[t] = Idle
  /\ \E w \in fired :
       /\ fired' = fired \ {w}
       /\ Goes(t, IF w.ec # "ok" /\ m_running THEN At("cancel", w.req) ELSE Idle)
  /\ UNCHANGED <<m_running, m_timeout, cpc, socketVars, waits, requests, ends>>

(* The handler of the timer: one that was cancelled does nothing.          *)
TimerHandler(t) ==
  /\ hpc[t] = Idle
  /\ \E w \in fired :
       /\ fired' = fired \ {w}
       /\ Goes(t, IF w.ec = "ok" /\ m_running THEN At("cancel", w.req) ELSE Idle)
  /\ UNCHANGED <<m_running, m_timeout, cpc, socketVars, waits, requests, ends>>

TimerCancels(t) ==
  /\ hpc[t].at = "cancel"
  /\ CancelSocket
  /\ Goes(t, Idle)
  /\ UNCHANGED <<m_running, m_in_use, m_timeout, cpc, timerVars, requests, ends>>

Io(t) ==
  \/ SendDone(t) \/ SendFailed(t) \/ ArmTimer(t) \/ asyncRecv(t)
  \/ RecvAborted(t) \/ RecvDone(t) \/ Answered(t) \/ CancelTimer(t)
  \/ TimerHandler(t) \/ TimerCancels(t)

Next ==
  \/ \E c \in Callers : SendAccepted(c) \/ SendStarts(c)
  \/ cancel
  \/ \E t \in IoThreads : Io(t)
  \/ Completes \/ TimerExpires

Spec == Init /\ [][Next]_vars

(* The io_context runs, a datagram is sent or fails, a timer expires.  The *)
(* handlers of timers and sockets wait in one queue, so other handlers,    *)
(* however many come, pass over none of them for ever.  Nobody has to      *)
(* answer.                                                                 *)
Sends == \E i \in DOMAIN pending : pending[i].op = "send" /\ Completes

Fairness ==
  /\ \A t \in IoThreads : WF_vars(Io(t))
  /\ WF_vars(Sends) /\ SF_vars(TimerExpires)
  /\ SF_vars(\E t \in IoThreads : TimerHandler(t))

FairSpec == Spec /\ Fairness

----------------------------------------------------------------------------
Places == {"idle", "stop", "arm", "receive", "abort", "answered", "disarm", "cancel"}
Operations == [op : {"send", "recv"}, req : Requests, onHeap : BOOLEAN]
Handlers == [op : {"send", "recv"}, req : Requests, onHeap : BOOLEAN, ec : {"ok", "error", "aborted"}]

(* Every variable holds a value of its type.                               *)
TypeOK ==
  /\ m_running \in BOOLEAN /\ m_in_use \in BOOLEAN /\ m_timeout \in BOOLEAN
  /\ cpc \in [Callers -> {"out", "start"}]
  /\ hpc \in [IoThreads -> [at : Places, req : 0 .. MaxRequests]]
  /\ pending \in Seq(Operations) /\ ready \in Seq(Handlers)
  /\ waits \in SUBSET Requests
  /\ fired \in SUBSET [req : Requests, ec : {"ok", "aborted"}]
  /\ requests \in 0 .. MaxRequests
  /\ ends \in [Requests -> Nat]

Working == {t \in IoThreads : hpc[t].at \in {"stop", "arm", "receive", "answered"}}

(* While a request runs there is exactly one operation, handler to run or  *)
(* handler running that carries it on, and none when no request runs: the  *)
(* socket never has two receives, m_running never stays set with nobody    *)
(* left to clear it, and the storage for one handler is enough.            *)
OneOperation ==
  /\ Len(pending) + Len(ready) + Cardinality(Working) = IF m_running THEN 1 ELSE 0
  /\ m_in_use <=> Len(pending) + Len(ready) = 1
  /\ \A i \in DOMAIN pending : ~pending[i].onHeap

(* Its receive was aborted: m_running is clear, the callback still to come.*)
Aborting(r) == \E t \in IoThreads : hpc[t] = At("abort", r)

(* Each request that asyncSend has accepted is told once, by sendDone or   *)
(* by the callback, that it is over: it has been told, or it is the one    *)
(* that runs, or a thread is about to tell it that it was cancelled.  Only *)
(* in this last case may the next request have begun before.  What the     *)
(* socket has under way is for the current request alone.                  *)
EndsOnce ==
  /\ \A r \in Requests : ends[r] <= 1
  /\ \A r \in 1 .. requests : ends[r] = 1 \/ (r = requests /\ m_running) \/ Aborting(r)
  /\ \A i \in DOMAIN pending : pending[i].req = requests /\ ends[requests] = 0
  /\ \A i \in DOMAIN ready : ready[i].req = requests /\ ends[requests] = 0

(* The two ways in which a request loses its timer: the timer's handler    *)
(* cancels while nothing is pending, or a thread that ends an earlier      *)
(* request has yet to cancel the timer, which by now is that of this one.  *)
CancelsNothing(r) == \E t \in IoThreads : hpc[t] = At("cancel", r) /\ pending = <<>>
CancelledByOther(r) ==
  \E t \in IoThreads :
    hpc[t].at \in {"disarm", "abort"} /\ hpc[t].req # r /\ r \in waits

(* With a timeout every request is told that it is over, whether anybody   *)
(* answers it, and however often the callback wants more, unless it loses  *)
(* its timer in one of these two ways.                                     *)
Sending(r) == \E i \in DOMAIN pending : pending[i].op = "send" /\ pending[i].req = r
RequestEnds ==
  \A r \in Requests :
    m_timeout /\ Sending(r) ~> ends[r] = 1 \/ CancelsNothing(r) \/ CancelledByOther(r)

=============================================================================
