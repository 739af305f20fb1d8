----------------------------- MODULE FdPassing -----------------------------
(***************************************************************************)
(* Passing a connection to another process (src/src/app/socketHelper.cpp): *)
(* the sender (sendMsgServerRun) accepts a client over TCP and passes the  *)
(* descriptor over a socket of the UNIX domain, opened for that one        *)
(* message; the receiver (recvMsgServerRun) answers the client.  Clients   *)
(* (clientRunPort) are processes of their own.                             *)
(*                                                                         *)
(* The kernel is external: a connection lives while a process has it open  *)
(* or a message that carries it is on its way; a UNIX socket's path        *)
(* outlives the process that bound it.  The connection of a client and the *)
(* link that its descriptor takes both bear the client's name.  A step is  *)
(* a system call.                                                          *)
(***************************************************************************)
EXTENDS Integers, Sequences, FiniteSets, SequencesExt

CONSTANTS
  Clients, Nobody,
  MaxCrashes   \* bound on the receiver's crashes

ASSUME ClientsAssumption == Nobody \notin Clients
ASSUME CrashesAssumption == MaxCrashes \in Nat

VARIABLES
  sender, receiver,   \* where each server is, or how it ended
  cur, rcur,          \* whom each of them serves: clientFd of serverRun
  serverPath,         \* /tmp/test.sock exists
  backlog, rbacklog,  \* connections and links that wait for accept
  pc,                 \* where each client is
  holders,            \* the servers that have each connection open
  link,               \* ends of each link, and whether it carries the descriptor
  hello, reply,       \* what is under way from and to each client
  failed,             \* history: the calls that failed while serving each
  crashes

servers == <<sender, receiver, cur, rcur>>
queues == <<backlog, rbacklog>>
connVars == <<holders, link, hello, reply>>
passingVars == <<servers, serverPath, queues, pc, connVars, failed, crashes>>

NoLink == [out |-> "none", in |-> "none", fd |-> FALSE]

PassingInit ==
  /\ sender = "off" /\ receiver = "off" /\ cur = Nobody /\ rcur = Nobody
  /\ serverPath = FALSE
  /\ backlog = <<>> /\ rbacklog = <<>>
  /\ pc = [c \in Clients |-> "out"]
  /\ holders = [c \in Clients |-> {}] /\ link = [c \in Clients |-> NoLink]
  /\ hello = {} /\ reply = {}
  /\ failed = [c \in Clients |-> {}]
  /\ crashes = 0

----------------------------------------------------------------------------
(* The kernel                                                              *)

Connected(c) == pc[c] \in {"sending", "receiving", "left"}

(* Nobody has the server's end of the connection any more.                 *)
Released(c) == holders[c] = {} /\ ~link[c].fd /\ ~Contains(backlog, c)

SenderUp == sender \notin {"off", "returned", "killed"}
ReceiverUp == receiver \notin {"off", "returned"}

Fails(c, call) == failed' = [failed EXCEPT ![c] = @ \cup {call}]

(* Closing the last end that could read it drops a descriptor on its way.  *)
EndsIn(l) == [l EXCEPT !.in = "closed", !.fd = FALSE]

----------------------------------------------------------------------------
(* The sender                                                              *)

SenderGoes(place) == sender' = place /\ UNCHANGED <<receiver, rcur>>

(* serverInitPort *)
SenderInit ==
  /\ sender = "off"
  /\ SenderGoes("accept") \/ SenderGoes("returned")
  /\ UNCHANGED <<cur, serverPath, queues, pc, connVars, failed, crashes>>

(* serverRun; after an error accept is called again. *)
SenderAccept ==
  /\ sender = "accept" /\ backlog # <<>>
  /\ cur' = Head(backlog) /\ backlog' = Tail(backlog)
  /\ holders' = [holders EXCEPT ![cur'] = @ \cup {"sender"}]
  /\ SenderGoes("connect")
  /\ UNCHANGED <<serverPath, rbacklog, pc, link, hello, reply, failed, crashes>>

(* sendFd: clientInitUnix, *)
ConnectUnix ==
  /\ sender = "connect" /\ ReceiverUp
  /\ link' = [link EXCEPT ![cur] = [out |-> "open", in |-> "queued", fd |-> FALSE]]
  /\ rbacklog' = Append(rbacklog, cur)
  /\ SenderGoes("sendmsg")
  /\ UNCHANGED <<cur, serverPath, backlog, pc, holders, hello, reply, failed, crashes>>

(* Mutant: the connection stays open when there is no receiver. *)
ConnectUnixGivesUp ==
  /\ sender = "connect"
  /\ Fails(cur, "connect")
  /\ SenderGoes("accept") /\ cur' = Nobody
  /\ UNCHANGED <<serverPath, queues, pc, connVars, crashes>>

(* which has no socket, or leaves it open when connect fails; *)
ConnectUnixFails ==
  /\ sender = "connect"
  /\ link' \in {link, [link EXCEPT ![cur].out = "unconnected"]}
  /\ Fails(cur, "connect")
  /\ SenderGoes("close")
  /\ UNCHANGED <<cur, serverPath, queues, pc, holders, hello, reply, crashes>>

(* sendmsg, *)
SendMsg ==
  /\ sender = "sendmsg" /\ link[cur].in # "closed"
  /\ link' = [link EXCEPT ![cur].fd = TRUE]
  /\ SenderGoes("closeLink")
  /\ UNCHANGED <<cur, serverPath, queues, pc, holders, hello, reply, failed, crashes>>

(* which leaves the link open when it fails, *)
SendMsgFails ==
  /\ sender = "sendmsg" /\ link[cur].in # "closed"
  /\ Fails(cur, "sendmsg")
  /\ SenderGoes("close")
  /\ UNCHANGED <<cur, serverPath, queues, pc, connVars, crashes>>

(* and ends the process by SIGPIPE when the receiver has gone.             *)
SendMsgRaises ==
  /\ sender = "sendmsg" /\ link[cur].in = "closed"
  /\ SenderGoes("killed") /\ cur' = Nobody
  /\ failed' = [c \in Clients |->
                  IF "sender" \in holders[c] \/ Contains(backlog, c)
                    THEN failed[c] \cup {"crash"} ELSE failed[c]]
  /\ backlog' = <<>>
  /\ holders' = [c \in Clients |-> holders[c] \ {"sender"}]
  /\ link' = [c \in Clients |-> IF link[c].out \in {"open", "unconnected"}
                                  THEN [link[c] EXCEPT !.out = "closed"] ELSE link[c]]
  /\ UNCHANGED <<serverPath, rbacklog, pc, hello, reply, crashes>>

CloseLink ==
  /\ sender = "closeLink"
  /\ link' = [link EXCEPT ![cur].out = "closed"]
  /\ SenderGoes("close")
  /\ UNCHANGED <<cur, serverPath, queues, pc, holders, hello, reply, failed, crashes>>

(* serverRun closes what it has passed on. *)
SenderClose ==
  /\ sender = "close"
  /\ holders' = [holders EXCEPT ![cur] = @ \ {"sender"}]
  /\ SenderGoes("accept") /\ cur' = Nobody
  /\ UNCHANGED <<serverPath, queues, pc, link, hello, reply, failed, crashes>>

----------------------------------------------------------------------------
(* The receiver                                                            *)

ReceiverGoes(place) == receiver' = place /\ UNCHANGED <<sender, cur>>

(* serverInitUnix: bind fails on a path that exists, and nobody unlinks it.*)
ReceiverInit ==
  /\ receiver = "off"
  /\ \/ ~serverPath /\ serverPath' = TRUE /\ ReceiverGoes("accept")
     \/ serverPath' \in {serverPath, TRUE} /\ ReceiverGoes("returned")
  /\ UNCHANGED <<rcur, queues, pc, connVars, failed, crashes>>

ReceiverAccept ==
  /\ receiver = "accept" /\ rbacklog # <<>>
  /\ rcur' = Head(rbacklog) /\ rbacklog' = Tail(rbacklog)
  /\ link' = [link EXCEPT ![rcur'].in = "open"]
  /\ ReceiverGoes("recvmsg")
  /\ UNCHANGED <<serverPath, backlog, pc, holders, hello, reply, failed, crashes>>

(* Mutant: there is no room for the descriptor, and the kernel drops it. *)
RecvMsgTruncates ==
  /\ receiver = "recvmsg" /\ link[rcur].fd
  /\ link' = [link EXCEPT ![rcur].fd = FALSE]
  /\ ReceiverGoes("recv")
  /\ UNCHANGED <<rcur, serverPath, queues, pc, holders, hello, reply, failed, crashes>>

(* recvFd waits for the message, *)
RecvMsg ==
  /\ receiver = "recvmsg" /\ link[rcur].fd
  /\ link' = [link EXCEPT ![rcur].fd = FALSE]
  /\ holders' = [holders EXCEPT ![rcur] = @ \cup {"receiver"}]
  /\ ReceiverGoes("recv")
  /\ UNCHANGED <<rcur, serverPath, queues, pc, hello, reply, failed, crashes>>

(* and fails on one without a descriptor, or at the end of the link.       *)
RecvMsgFails ==
  /\ receiver = "recvmsg" /\ (link[rcur].fd \/ link[rcur].out = "closed")
  /\ link' = [link EXCEPT ![rcur].fd = FALSE]
  /\ Fails(rcur, "recvmsg")
  /\ ReceiverGoes("closeLink")
  /\ UNCHANGED <<rcur, serverPath, queues, pc, holders, hello, reply, crashes>>

(* recv ends when the client has sent or has gone.                         *)
CanRecv(c) == c \in hello \/ ~Connected(c)

Recv ==
  /\ receiver = "recv" /\ CanRecv(rcur)
  /\ hello' = hello \ {rcur}
  /\ ReceiverGoes("send")
  /\ UNCHANGED <<rcur, serverPath, queues, pc, holders, link, reply, failed, crashes>>

(* Its error path does not close the connection.                           *)
RecvFails ==
  /\ receiver = "recv" /\ CanRecv(rcur)
  /\ Fails(rcur, "recv")
  /\ ReceiverGoes("closeLink")
  /\ UNCHANGED <<rcur, serverPath, queues, pc, connVars, crashes>>

(* Nobody looks whether the answer could be sent.                          *)
Send ==
  /\ receiver = "send"
  /\ \/ reply' = (IF pc[rcur] = "receiving" THEN reply \cup {rcur} ELSE reply) /\ UNCHANGED failed
     \/ UNCHANGED reply /\ Fails(rcur, "send")
  /\ ReceiverGoes("closeFd")
  /\ UNCHANGED <<rcur, serverPath, queues, pc, holders, link, hello, crashes>>

(* Mutant: the received descriptor is not closed. *)
CloseFdForgets ==
  /\ receiver = "closeFd"
  /\ ReceiverGoes("closeLink")
  /\ UNCHANGED <<rcur, serverPath, queues, pc, connVars, failed, crashes>>

CloseFd ==
  /\ receiver = "closeFd"
  /\ holders' = [holders EXCEPT ![rcur] = @ \ {"receiver"}]
  /\ ReceiverGoes("closeLink")
  /\ UNCHANGED <<rcur, serverPath, queues, pc, link, hello, reply, failed, crashes>>

ReceiverClose ==
  /\ receiver = "closeLink"
  /\ link' = [link EXCEPT ![rcur] = EndsIn(@)]
  /\ ReceiverGoes("accept") /\ rcur' = Nobody
  /\ UNCHANGED <<serverPath, queues, pc, holders, hello, reply, failed, crashes>>

(* The process ends; it may be started again.                              *)
ReceiverCrash ==
  /\ ReceiverUp /\ crashes < MaxCrashes
  /\ crashes' = crashes + 1
  /\ ReceiverGoes("off") /\ rcur' = Nobody
  /\ failed' = [c \in Clients |->
                  IF link[c].in \in {"queued", "open"} \/ "receiver" \in holders[c]
                    THEN failed[c] \cup {"crash"} ELSE failed[c]]
  /\ rbacklog' = <<>>
  /\ holders' = [c \in Clients |-> holders[c] \ {"receiver"}]
  /\ link' = [c \in Clients |-> IF link[c].in \in {"queued", "open"} THEN EndsIn(link[c])
                                                                     ELSE link[c]]
  /\ UNCHANGED <<serverPath, backlog, pc, hello, reply>>

----------------------------------------------------------------------------
(* clientRunPort                                                           *)

ClientGoes(c, place) == pc' = [pc EXCEPT ![c] = place]

Connect(c) ==
  /\ pc[c] = "out"
  /\ IF SenderUp THEN ClientGoes(c, "sending") /\ backlog' = Append(backlog, c)
                 ELSE ClientGoes(c, "refused") /\ UNCHANGED backlog
  /\ UNCHANGED <<servers, serverPath, rbacklog, connVars, failed, crashes>>

ClientSend(c) ==
  /\ pc[c] = "sending"
  /\ ClientGoes(c, "receiving")
  /\ hello' = IF Released(c) THEN hello ELSE hello \cup {c}
  /\ UNCHANGED <<servers, serverPath, queues, holders, link, reply, failed, crashes>>

(* The error path leaves the connection open. *)
ClientSendFails(c) ==
  /\ pc[c] = "sending"
  /\ ClientGoes(c, "left")
  /\ UNCHANGED <<servers, serverPath, queues, connVars, failed, crashes>>

(* The answer, or the end of the connection.                               *)
ClientRecv(c) ==
  /\ pc[c] = "receiving" /\ (c \in reply \/ Released(c))
  /\ ClientGoes(c, IF c \in reply THEN "answered" ELSE "hungUp")
  /\ UNCHANGED <<servers, serverPath, queues, connVars, failed, crashes>>

(* The process ends, and its connection with it. *)
ClientDies(c) ==
  /\ Connected(c)
  /\ ClientGoes(c, "dead")
  /\ UNCHANGED <<servers, serverPath, queues, connVars, failed, crashes>>

----------------------------------------------------------------------------
Sender ==
  \/ SenderAccept \/ ConnectUnix \/ ConnectUnixFails
  \/ SendMsg \/ SendMsgFails \/ SendMsgRaises \/ CloseLink \/ SenderClose
Receiver ==
  \/ ReceiverAccept \/ RecvMsg \/ RecvMsgFails \/ Recv \/ RecvFails
  \/ Send \/ CloseFd \/ ReceiverClose
Client(c) == Connect(c) \/ ClientSend(c) \/ ClientSendFails(c) \/ ClientRecv(c) \/ ClientDies(c)

PassingNext ==
  \/ SenderInit \/ Sender
  \/ ReceiverInit \/ Receiver \/ ReceiverCrash
  \/ \E c \in Clients : Client(c)

PassingSpec == PassingInit /\ [][PassingNext]_passingVars

(* The three programs run on; nobody has to start, to connect or to die.   *)
PassingFairness ==
  /\ WF_passingVars(Sender) /\ WF_passingVars(Receiver)
  /\ \A c \in Clients : WF_passingVars(ClientSend(c) \/ ClientSendFails(c) \/ ClientRecv(c))

FairPassingSpec == PassingSpec /\ PassingFairness

----------------------------------------------------------------------------
(* Every variable holds a value of its type. *)
PassingTypeOK ==
  /\ sender \in {"off", "accept", "connect", "sendmsg", "closeLink", "close", "returned", "killed"}
  /\ receiver \in {"off", "accept", "recvmsg", "recv", "send", "closeFd", "closeLink", "returned"}
  /\ cur \in Clients \cup {Nobody} /\ rcur \in Clients \cup {Nobody}
  /\ serverPath \in BOOLEAN
  /\ backlog \in Seq(Clients) /\ rbacklog \in Seq(Clients)
  /\ pc \in [Clients -> {"out", "sending", "receiving", "left", "answered", "hungUp",
                         "refused", "dead"}]
  /\ holders \in [Clients -> SUBSET {"sender", "receiver"}]
  /\ link \in [Clients -> [out : {"none", "unconnected", "open", "closed"},
                           in : {"none", "queued", "open", "closed"}, fd : BOOLEAN]]
  /\ hello \subseteq Clients /\ reply \subseteq Clients
  /\ failed \in [Clients -> SUBSET {"connect", "sendmsg", "recvmsg", "recv", "send", "crash"}]
  /\ crashes \in 0 .. MaxCrashes

(* A connection on its way from one process to the other is never without  *)
(* somebody who has it open: its client is hung up on unanswered only      *)
(* after a call failed or a process ended that had a part in serving it.   *)
HandoverKeepsOpen ==
  \A c \in Clients :
    pc[c] \in {"sending", "receiving"} /\ Released(c) /\ c \notin reply => failed[c] # {}

(* Between two clients a server has closed everything it opened for the    *)
(* one before, but for three error paths: clientInitUnix keeps a socket    *)
(* that could not be connected, sendFd the link of a message that could    *)
(* not be sent, and the receiver a connection that it could not read.      *)
NothingLeft ==
  /\ sender = "accept" =>
       \A c \in Clients :
         /\ "sender" \notin holders[c]
         /\ link[c].out = "unconnected" => "connect" \in failed[c]
         /\ link[c].out = "open" => "sendmsg" \in failed[c]
  /\ receiver = "accept" =>
       \A c \in Clients :
         /\ link[c].in # "open"
         /\ "receiver" \in holders[c] => "recv" \in failed[c]

(* A client that waits gets its answer or is hung up on, whatever becomes  *)
(* of the others and of the two servers.  Not so when the receiver has     *)
(* kept its connection after an error, or waits itself for ever: for the   *)
(* message of a link that sendFd left open, or for a client that has       *)
(* neither sent nor closed.                                                *)
Kept(c) == "recv" \in failed[c] /\ "receiver" \in holders[c]
ReceiverStuck ==
  \/ receiver = "recvmsg" /\ "sendmsg" \in failed[rcur]
  \/ receiver = "recv" /\ pc[rcur] = "left"

ClientReturns ==
  \A c \in Clients :
    pc[c] = "receiving" ~> (pc[c] # "receiving" \/ Kept(c) \/ ReceiverStuck)
============================================================================
