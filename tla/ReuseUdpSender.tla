--------------------------- MODULE ReuseUdpSender ---------------------------
(***************************************************************************)
(* The class ReuseUdpSender                                                *)
(* (src/src/include/udp_sender/ReuseUdpSender.hpp): one socket for many    *)
(* datagrams, received from after the first one is sent and replaced by a  *)
(* new one when sending fails.                                             *)
(*                                                                         *)
(* As the comment of reconnect demands, every call is made in the context  *)
(* of the one thread that runs the io_context, which is not stopped: a     *)
(* step is a call or a handler, and dispatch runs its function at once.    *)
(* Socket and io_context are modelled from how the class uses them.        *)
(***************************************************************************)
EXTENDS Integers, Sequences, SequencesExt

CONSTANT MaxSends   \* bound on the calls of asyncSend

ASSUME SendsAssumption == MaxSends \in Nat

Sends == 1 .. MaxSends

VARIABLES
  m_beginRecv,
  alive,        \* the object has not been destroyed
  isOpen,       \* m_udpSock.is_open()
  pending,      \* operations of m_udpSock that have not completed
  ready,        \* their handlers, in the order they will run
  sends,        \* calls of asyncSend so far
  told,         \* calls of sendDone for each
  cut           \* sends cancelled before they were done, or whose handler threw

socketVars == <<isOpen, pending, ready>>
reuseVars == <<m_beginRecv, alive, socketVars, sends, told, cut>>

(* The constructor has opened the socket.                                  *)
ReuseInit ==
  /\ m_beginRecv = FALSE /\ alive = TRUE /\ isOpen = TRUE
  /\ pending = <<>> /\ ready = <<>>
  /\ sends = 0 /\ told = [s \in Sends |-> 0] /\ cut = {}

----------------------------------------------------------------------------
(* Errors of a send: checkNeedReconnect wants a new socket for "broken",   *)
(* but not for "passing", the codes on its list.                           *)
Codes == {"ok", "passing", "broken"}

checkNeedReconnect(ec) == ec = "broken"

Operation(op, s) == [op |-> op, send |-> s]
Handler(o, ec) == [op |-> o.op, send |-> o.send, ec |-> ec]

Aborted == [i \in DOMAIN pending |-> Handler(pending[i], "aborted")]
Sending == {s \in 1 .. sends : \E i \in DOMAIN pending : pending[i] = Operation("send", s)}

Completes(op) ==
  \E i \in DOMAIN pending, ec \in Codes :
    /\ pending[i].op = op
    /\ ready' = Append(ready, Handler(pending[i], ec))
    /\ pending' = RemoveAt(pending, i)
    /\ UNCHANGED <<m_beginRecv, alive, isOpen, sends, told, cut>>

(* cancel, also a part of reconnect and of the destructor: all pending     *)
(* operations complete with operation_aborted.                             *)
CancelAll(queue) == ready' = queue \o Aborted /\ pending' = <<>> /\ cut' = cut \cup Sending

----------------------------------------------------------------------------
(* reconnect, run inside a step that leaves queue of the handlers: the new *)
(* socket opens, or open throws and the socket stays closed.               *)
ReconnectOpens(queue) ==
  /\ CancelAll(queue)
  /\ m_beginRecv' = FALSE /\ isOpen' = TRUE

ReconnectThrows(queue) ==
  /\ CancelAll(queue)
  /\ m_beginRecv' = FALSE /\ isOpen' = FALSE

asyncSend ==
  /\ alive /\ isOpen
  /\ sends < MaxSends
  /\ sends' = sends + 1
  /\ pending' = Append(pending, Operation("send", sends'))
  /\ UNCHANGED <<m_beginRecv, alive, isOpen, ready, told, cut>>

(* The socket is closed: sendDone hears not_socket and a new one is made.  *)
asyncSendClosed ==
  /\ alive /\ ~isOpen
  /\ sends < MaxSends
  /\ sends' = sends + 1
  /\ told' = [told EXCEPT ![sends'] = @ + 1]
  /\ ReconnectOpens(ready) \/ ReconnectThrows(ready)
  /\ UNCHANGED alive

cancel ==
  /\ alive
  /\ CancelAll(ready)
  /\ UNCHANGED <<m_beginRecv, alive, isOpen, sends, told>>

Reconnect ==
  /\ alive
  /\ ReconnectOpens(ready) \/ ReconnectThrows(ready)
  /\ UNCHANGED <<alive, sends, told>>

(* A user closes the socket that getSocket hands out.                      *)
CloseSocket ==
  /\ alive
  /\ CancelAll(ready)
  /\ isOpen' = FALSE
  /\ UNCHANGED <<m_beginRecv, alive, sends, told>>

Destroy ==
  /\ alive
  /\ alive' = FALSE
  /\ CancelAll(ready)
  /\ isOpen' = FALSE
  /\ UNCHANGED <<m_beginRecv, sends, told>>

----------------------------------------------------------------------------
(* The handlers.  Each holds a weak pointer and does nothing for an object *)
(* that is gone.                                                           *)

Runs(op) ==
  /\ alive
  /\ ready # <<>> /\ Head(ready).op = op /\ Head(ready).ec # "aborted"
  /\ UNCHANGED <<alive, sends>>

Tell(s) == told' = [told EXCEPT ![s] = @ + 1]

(* asyncRecv; an operation started on a closed socket fails at once.       *)
asyncRecv ==
  LET receive == Operation("recv", 0)
  IN  IF isOpen
      THEN pending' = Append(pending, receive) /\ ready' = Tail(ready)
      ELSE ready' = Append(Tail(ready), Handler(receive, "broken")) /\ UNCHANGED pending

HandlerOfDead ==
  /\ ready # <<>>
  /\ ~alive
  /\ ready' = Tail(ready)
  /\ UNCHANGED <<m_beginRecv, alive, isOpen, pending, sends, told, cut>>

(* Mutant: only an aborted send clears m_beginRecv.                        *)
HandlerAbortedSend ==
  /\ ready # <<>>
  /\ alive
  /\ Head(ready).ec = "aborted"
  /\ ready' = Tail(ready)
  /\ m_beginRecv' = (m_beginRecv /\ Head(ready).op # "send")
  /\ UNCHANGED <<alive, isOpen, pending, sends, told, cut>>

(* Either operation was cancelled; a send that was is not told.            *)
HandlerAborted ==
  /\ ready # <<>>
  /\ alive
  /\ Head(ready).ec = "aborted"
  /\ ready' = Tail(ready)
  /\ m_beginRecv' = FALSE
  /\ UNCHANGED <<alive, isOpen, pending, sends, told, cut>>

(* Mutant: only a send without any error is told.                          *)
SendDoneUntold ==
  /\ Runs("send")
  /\ ~checkNeedReconnect(Head(ready).ec)
  /\ IF Head(ready).ec = "ok" THEN Tell(Head(ready).send) ELSE UNCHANGED told
  /\ m_beginRecv' = TRUE
  /\ IF m_beginRecv THEN ready' = Tail(ready) /\ UNCHANGED pending ELSE asyncRecv
  /\ UNCHANGED <<isOpen, cut>>

(* The first send that is done starts the receiving.                       *)
SendDone ==
  /\ Runs("send")
  /\ ~checkNeedReconnect(Head(ready).ec)
  /\ Tell(Head(ready).send)
  /\ m_beginRecv' = TRUE
  /\ IF m_beginRecv THEN ready' = Tail(ready) /\ UNCHANGED pending ELSE asyncRecv
  /\ UNCHANGED <<isOpen, cut>>

(* A broken socket is replaced within the handler, which receives from the *)
(* new one; if that does not open, the exception ends the handler.         *)
SendBroken ==
  /\ Runs("send")
  /\ checkNeedReconnect(Head(ready).ec)
  /\ ready' = Tail(ready) \o Aborted
  /\ \/ /\ isOpen' = TRUE
        /\ pending' = <<Operation("recv", 0)>>
        /\ m_beginRecv' = TRUE
        /\ Tell(Head(ready).send)
        /\ cut' = cut \cup Sending
     \/ /\ isOpen' = FALSE
        /\ pending' = <<>>
        /\ m_beginRecv' = FALSE
        /\ cut' = cut \cup Sending \cup {Head(ready).send}
        /\ UNCHANGED told

(* A datagram goes to the callback, an error is ignored; in both cases the *)
(* receive is started again.  Assumed: m_recvCallback returns; an exception*)
(* of it leaves run with m_beginRecv set and no receive.                   *)
RecvDone ==
  /\ Runs("recv")
  /\ asyncRecv
  /\ UNCHANGED <<m_beginRecv, isOpen, told, cut>>

HandlerRuns == HandlerOfDead \/ HandlerAborted \/ SendDone \/ SendBroken \/ RecvDone

ReuseNext ==
  \/ asyncSend \/ asyncSendClosed \/ cancel \/ Reconnect \/ CloseSocket \/ Destroy
  \/ HandlerRuns
  \/ Completes("send") \/ Completes("recv")

ReuseSpec == ReuseInit /\ [][ReuseNext]_reuseVars

----------------------------------------------------------------------------
Operations == [op : {"send", "recv"}, send : 0 .. MaxSends]
Handlers == [op : {"send", "recv"}, send : 0 .. MaxSends, ec : Codes \cup {"aborted"}]

Outstanding(op) ==
  {i \in DOMAIN pending : pending[i].op = op} \cup {-i : i \in {j \in DOMAIN ready : ready[j].op = op}}

(* Every variable holds a value of its type.                               *)
ReuseTypeOK ==
  /\ m_beginRecv \in BOOLEAN /\ alive \in BOOLEAN /\ isOpen \in BOOLEAN
  /\ pending \in Seq(Operations) /\ ready \in Seq(Handlers)
  /\ sends \in 0 .. MaxSends /\ told \in [Sends -> Nat] /\ cut \in SUBSET Sends

(* While the object believes that it receives, it does: some receive is    *)
(* under way or its handler queued, whatever was cancelled, closed or      *)
(* replaced meanwhile.  Otherwise no later send would start one.           *)
NotDeaf == alive /\ m_beginRecv => Outstanding("recv") # {}

(* A send is told once, with whatever error, unless it was cut: its own    *)
(* operation was cancelled before it was done, or the open of a new socket *)
(* threw within its own handler; a send that was cut is not told.  What    *)
(* happens to other sends, a broken one that has the socket replaced say,  *)
(* is no excuse.  A destroyed object tells nothing more.                   *)
ToldOnce ==
  \A s \in 1 .. sends :
    /\ told[s] <= 1
    /\ s \in cut => told[s] = 0
    /\ \/ told[s] = 1 \/ s \in cut \/ ~alive
       \/ \E i \in DOMAIN pending : pending[i] = Operation("send", s)
       \/ \E i \in DOMAIN ready : ready[i].op = "send" /\ ready[i].send = s

=============================================================================
