---------------------------- MODULE EpollWorker ----------------------------
(***************************************************************************)
(* The echo server on epoll and its clients (src/src/app/epollWorker.cpp): *)
(* a server with one thread, and any number of client processes, over      *)
(* stream sockets of the UNIX domain.                                      *)
(*                                                                         *)
(* The kernel (descriptors, the queue of the listener, the two directions  *)
(* of a connection, epoll) is external.  A word is counted in buffers of   *)
(* the server; one of none is what a client sends that never read a word.  *)
(* A step is what a process does up to a system call that meets another.   *)
(***************************************************************************)
EXTENDS Integers, Sequences, FiniteSets, SequencesExt

CONSTANTS
  Clients,
  MaxFds,    \* the server's limit of descriptors
  Free       \* a descriptor that is not open

ASSUME FdsAssumption == MaxFds \in Nat \ {0}
ASSUME ClientsAssumption ==
  Clients \cap {Free, "epoll", "listener"} = {} /\ Free \notin {"epoll", "listener"}

Fds == 1 .. MaxFds

(* MAX_RECV_BUF_LEN, and a word that does not fit.                         *)
ServerTakes == 1
MaxWord == 2

VARIABLES
  server,   \* where the server is in serverRun, or how it ended
  table,    \* what each of its descriptors is open on
  watched,  \* the descriptors in g_iEpfd
  batch,    \* events not yet handled; each with what it was reported for
  nHaveRcvLen, \* of _DoHandleMsg
  backlog,  \* connections that wait for accept
  conn,     \* the server's end of each client's connection
  pc,       \* where each client is in clientRun
  ended,    \* clients whose input has ended
  str,      \* the last word each client has read
  up, down, \* what is under way to the server and to the client
  echoed,   \* history: what each client has been sent
  lost      \* history: connections that epoll_ctl refused

serverVars == <<server, table, watched, batch, nHaveRcvLen>>
clientVars == <<pc, ended, str>>
vars == <<serverVars, backlog, conn, clientVars, up, down, echoed, lost>>

Init ==
  /\ server = "start"
  /\ table = [f \in Fds |-> Free] /\ watched = {} /\ batch = <<>>
  /\ nHaveRcvLen = 0
  /\ backlog = <<>> /\ conn = [c \in Clients |-> "none"]
  /\ pc = [c \in Clients |-> "out"] /\ ended = {} /\ str = [c \in Clients |-> 0]
  /\ up = [c \in Clients |-> 0] /\ down = [c \in Clients |-> 0]
  /\ echoed = [c \in Clients |-> 0] /\ lost = {}

----------------------------------------------------------------------------
(* The kernel                                                              *)

Unused == {f \in Fds : table[f] = Free}
Opened(what) == [table EXCEPT ![Min(Unused)] = what]

Listening == \E f \in Fds : table[f] = "listener"
ClientOpen(c) == pc[c] \in {"typing", "receiving"}

(* What is unread when an end closes is dropped.                           *)
Gone(c) ==
  /\ pc' = [pc EXCEPT ![c] = "dead"]
  /\ down' = [down EXCEPT ![c] = 0]
  /\ ended' = ended \ {c} /\ str' = [str EXCEPT ![c] = 0]

(* A connection can be read when it holds bytes or the client has closed   *)
(* it, the listener when it has somebody to accept.                        *)
Readable(f) ==
  \/ table[f] = "listener" /\ backlog # <<>>
  \/ table[f] \in Clients /\ (up[table[f]] > 0 \/ ~ClientOpen(table[f]))

Ready == {f \in watched : Readable(f)}

(* The process ends: every descriptor is closed, and the queue with them.  *)
Dies ==
  /\ server' = "killed"
  /\ table' = [f \in Fds |-> Free] /\ watched' = {} /\ batch' = <<>>
  /\ nHaveRcvLen' = 0
  /\ backlog' = <<>>
  /\ conn' = [c \in Clients |-> IF conn[c] = "none" THEN "none" ELSE "closed"]
  /\ up' = [c \in Clients |-> 0]

----------------------------------------------------------------------------
(* serverRun                                                               *)

Returns == server' = "returned"

(* epoll_create *)
CreateEpoll ==
  /\ server = "start"
  /\ \/ Unused # {} /\ server' = "epoll" /\ table' = Opened("epoll")
     \/ Returns /\ UNCHANGED table
  /\ UNCHANGED <<watched, batch, nHaveRcvLen, backlog, conn, clientVars, up, down, echoed, lost>>

(* Its error paths close the socket, and leave g_iEpfd to the caller. *)
CreateAsyncTcpListener ==
  /\ server = "epoll"
  /\ \/ Unused # {} /\ server' = "listen" /\ table' = Opened("listener")
     \/ Returns /\ UNCHANGED table
  /\ UNCHANGED <<watched, batch, nHaveRcvLen, backlog, conn, clientVars, up, down, echoed, lost>>

(* When it fails the listener stays, and nobody serves it. *)
AddListener ==
  /\ server = "listen"
  /\ \/ server' = "loop" /\ watched' = {f \in Fds : table[f] = "listener"}
     \/ Returns /\ UNCHANGED watched
  /\ UNCHANGED <<table, batch, nHaveRcvLen, backlog, conn, clientVars, up, down, echoed, lost>>

Event(f) == [fd |-> f, of |-> table[f]]

(* A time-out and EINTR change nothing. *)
EpollWait ==
  /\ server = "loop" /\ batch = <<>>
  /\ Ready # {}
  /\ batch' \in SetToSeqs({Event(f) : f \in Ready})
  /\ UNCHANGED <<server, table, watched, nHaveRcvLen, backlog, conn, clientVars, up, down,
                 echoed, lost>>

WaitFails ==
  /\ server = "loop" /\ batch = <<>>
  /\ Returns
  /\ UNCHANGED <<table, watched, batch, nHaveRcvLen, backlog, conn, clientVars, up, down,
                 echoed, lost>>

(* The event in hand is about the listener, or about a connection. *)
AtListener == server = "loop" /\ batch # <<>> /\ table[Head(batch).fd] = "listener"
AtConnection == server = "loop" /\ batch # <<>> /\ table[Head(batch).fd] # "listener"

(* accept gives the lowest descriptor, AddSockToEv adds it or fails.       *)
Accepts ==
  LET c == Head(backlog)
      f == Min(Unused)
  IN  /\ Unused # {}
      /\ backlog' = Tail(backlog)
      /\ table' = Opened(c)
      /\ conn' = [conn EXCEPT ![c] = "accepted"]
      /\ \/ watched' = watched \cup {f} /\ UNCHANGED lost
         \/ lost' = lost \cup {c} /\ UNCHANGED watched

(* SetNonblockFD fails: the connection is closed, and -1 is not added. *)
AcceptsBlocking ==
  /\ Unused # {}
  /\ backlog' = Tail(backlog)
  /\ conn' = [conn EXCEPT ![Head(backlog)] = "closed"]
  /\ lost' = lost \cup {Head(backlog)}
  /\ UNCHANGED <<table, watched>>

(* There is no descriptor left: accept fails, and -1 is not added.         *)
AcceptFails == Unused = {} /\ UNCHANGED <<table, watched, backlog, conn, lost>>

(* Mutant: a full table makes room by closing the oldest connection. *)
ListenerMsgEvicts ==
  /\ AtListener
  /\ backlog # <<>>
  /\ \/ Accepts
     \/ \E f \in watched :
          /\ Unused = {} /\ table[f] \in Clients
          /\ backlog' = Tail(backlog)
          /\ table' = [table EXCEPT ![f] = Head(backlog)]
          /\ conn' = [conn EXCEPT ![table[f]] = "closed", ![Head(backlog)] = "accepted"]
          /\ UNCHANGED <<watched, lost>>
  /\ batch' = Tail(batch)
  /\ UNCHANGED <<server, nHaveRcvLen, clientVars, up, down, echoed>>

(* Mutant: accepts until nobody is left, with a listener that blocks. *)
ListenerMsgAll ==
  /\ AtListener
  /\ backlog # <<>>
  /\ Accepts \/ AcceptsBlocking \/ AcceptFails
  /\ UNCHANGED <<batch, server, nHaveRcvLen, clientVars, up, down, echoed>>

(* _DoHandleListenerMsg: one connection for one event. *)
ListenerMsg ==
  /\ AtListener
  /\ backlog # <<>>
  /\ Accepts \/ AcceptsBlocking \/ AcceptFails
  /\ batch' = Tail(batch)
  /\ UNCHANGED <<server, nHaveRcvLen, clientVars, up, down, echoed>>

(* Mutant: a connection is closed before it is answered. *)
MsgRecvOnly ==
  /\ AtConnection
  /\ LET c == table[Head(batch).fd]
     IN  up' = [up EXCEPT ![c] = Max({0, @ - ServerTakes})]
  /\ server' = "close"
  /\ UNCHANGED <<table, watched, batch, nHaveRcvLen, backlog, conn, clientVars, down, echoed, lost>>

(* _DoHandleMsg: recv, of one buffer at most, *)
MsgRecv ==
  /\ AtConnection
  /\ LET c == table[Head(batch).fd]
         n == Min({up[c], ServerTakes})
     IN  nHaveRcvLen' = n /\ up' = [up EXCEPT ![c] = @ - n]
  /\ server' = "echo"
  /\ UNCHANGED <<table, watched, batch, backlog, conn, clientVars, down, echoed, lost>>

(* then SocketSend, of as much, which is one attempt; a client that has    *)
(* gone makes it raise SIGPIPE, also when there is nothing to send,        *)
MsgEcho ==
  /\ server = "echo"
  /\ LET c == table[Head(batch).fd]
     IN  IF ClientOpen(c)
           THEN /\ down' = [down EXCEPT ![c] = @ + nHaveRcvLen]
                /\ echoed' = [echoed EXCEPT ![c] = @ + nHaveRcvLen]
                /\ server' = "close"
                /\ UNCHANGED <<table, watched, batch, nHaveRcvLen, backlog, conn, up>>
           ELSE Dies /\ UNCHANGED <<down, echoed>>
  /\ UNCHANGED <<clientVars, lost>>

(* Mutant: the descriptor is taken out of the epoll set, and not closed. *)
MsgCloseForgets ==
  /\ server = "close"
  /\ watched' = watched \ {Head(batch).fd}
  /\ batch' = Tail(batch) /\ server' = "loop" /\ nHaveRcvLen' = 0
  /\ UNCHANGED <<table, conn, backlog, clientVars, up, down, echoed, lost>>

(* and whatever came of it, the end of the connection. *)
MsgClose ==
  /\ server = "close"
  /\ LET f == Head(batch).fd
     IN  /\ watched' = watched \ {f}
         /\ table' = [table EXCEPT ![f] = Free]
         /\ conn' = [conn EXCEPT ![table[f]] = "closed"]
         /\ up' = [up EXCEPT ![table[f]] = 0]
  /\ batch' = Tail(batch) /\ server' = "loop" /\ nHaveRcvLen' = 0
  /\ UNCHANGED <<backlog, clientVars, down, echoed, lost>>

----------------------------------------------------------------------------
(* clientRun                                                               *)

Goes(c, place) == pc' = [pc EXCEPT ![c] = place]

Connect(c) ==
  /\ pc[c] = "out"
  /\ IF Listening
       THEN /\ Goes(c, "typing")
            /\ backlog' = Append(backlog, c)
            /\ conn' = [conn EXCEPT ![c] = "queued"]
       ELSE Goes(c, "returned") /\ UNCHANGED <<backlog, conn>>
  /\ UNCHANGED <<serverVars, ended, str, up, down, echoed, lost>>

(* cin >> str, which leaves str alone when the input has ended; then send, *)
Send(c) ==
  /\ pc[c] = "typing" /\ conn[c] # "closed"
  /\ Goes(c, "receiving")
  /\ \/ c \notin ended /\ (\E n \in 1 .. MaxWord : str' = [str EXCEPT ![c] = n]) /\ UNCHANGED ended
     \/ ended' = ended \cup {c} /\ UNCHANGED str
  /\ up' = [up EXCEPT ![c] = @ + str'[c]]
  /\ UNCHANGED <<serverVars, backlog, conn, down, echoed, lost>>

(* which ends the client if the server has closed the connection.          *)
SendRaises(c) ==
  /\ pc[c] = "typing" /\ conn[c] = "closed"
  /\ Gone(c)
  /\ UNCHANGED <<serverVars, backlog, conn, up, echoed, lost>>

(* recv waits for the answer or for the end of the connection.  (What does *)
(* not fit its 255 bytes would be left to the next recv.)                  *)
Recv(c) ==
  /\ pc[c] = "receiving"
  /\ down[c] > 0 \/ conn[c] = "closed"
  /\ down' = [down EXCEPT ![c] = 0]
  /\ Goes(c, "typing")
  /\ UNCHANGED <<serverVars, backlog, conn, ended, str, up, echoed, lost>>

(* Its user ends a client at any time. *)
Quit(c) ==
  /\ ClientOpen(c)
  /\ Gone(c)
  /\ UNCHANGED <<serverVars, backlog, conn, up, echoed, lost>>

----------------------------------------------------------------------------
Serves ==
  \/ CreateEpoll \/ CreateAsyncTcpListener \/ AddListener
  \/ EpollWait \/ ListenerMsg \/ MsgRecv \/ MsgEcho \/ MsgClose
Server == Serves \/ WaitFails
Client(c) == Connect(c) \/ Send(c) \/ SendRaises(c) \/ Recv(c) \/ Quit(c)

Next == Server \/ \E c \in Clients : Client(c)

Spec == Init /\ [][Next]_vars

(* The server goes on while it has something to do: a wait with nothing    *)
(* to report goes on, it need not fail.  So does a client that has an      *)
(* answer; nobody has to connect, to type or to leave.                     *)
Fairness ==
  /\ WF_vars(Serves)
  /\ \A c \in Clients : WF_vars(Recv(c))

FairSpec == Spec /\ Fairness

----------------------------------------------------------------------------
(* Every variable holds a value of its type. *)
TypeOK ==
  /\ server \in {"start", "epoll", "listen", "loop", "echo", "close", "returned", "killed"}
  /\ table \in [Fds -> Clients \cup {Free, "epoll", "listener"}]
  /\ watched \subseteq Fds
  /\ batch \in Seq([fd : Fds, of : Clients \cup {"listener"}])
  /\ nHaveRcvLen \in 0 .. ServerTakes
  /\ backlog \in Seq(Clients)
  /\ conn \in [Clients -> {"none", "queued", "accepted", "closed"}]
  /\ pc \in [Clients -> {"out", "typing", "receiving", "returned", "dead"}]
  /\ ended \subseteq Clients /\ str \in [Clients -> 0 .. MaxWord] /\ lost \subseteq Clients
  /\ up \in [Clients -> Nat] /\ down \in [Clients -> Nat] /\ echoed \in [Clients -> Nat]

(* An event that waits in the array of serverRun still concerns the        *)
(* connection it was reported for, although descriptors are closed, and    *)
(* their numbers given out again, while the array is worked through; and   *)
(* no descriptor is in it twice.                                           *)
EventsCurrent ==
  /\ \A i \in DOMAIN batch : table[batch[i].fd] = batch[i].of
  /\ \A i, j \in DOMAIN batch : i # j => batch[i].fd # batch[j].fd

(* A connection that was accepted has one descriptor until it is closed    *)
(* and none after, one that waits is in the queue once, and all but those  *)
(* that epoll_ctl refused are watched.                                     *)
ConnectionsKept ==
  /\ \A c \in Clients :
       LET held == {f \in Fds : table[f] = c}
           queued == {i \in DOMAIN backlog : backlog[i] = c}
       IN  /\ Cardinality(held) = (IF conn[c] = "accepted" THEN 1 ELSE 0)
           /\ Cardinality(queued) = (IF conn[c] = "queued" THEN 1 ELSE 0)
           /\ c \notin lost => held \subseteq watched
  /\ \A f \in watched : table[f] \in Clients \cup {"listener"}

(* The server hangs up on a client that is still there only after it has   *)
(* answered it (one buffer of its first word), unless the connection       *)
(* could not be set up or the server was killed; and it is killed only by  *)
(* a client that left with the connection open.                            *)
ClosedAfterEcho ==
  /\ \A c \in Clients :
       conn[c] = "closed" /\ ClientOpen(c) /\ server # "killed" /\ c \notin lost
         => echoed[c] \in 1 .. ServerTakes
  /\ server = "killed" => \E c \in Clients : pc[c] = "dead" /\ echoed[c] = 0

(* A client that has sent a word and waits gets its answer or is hung up   *)
(* on, whatever the others do or leave undone.  Not so when serverRun has  *)
(* returned with the listener open, when epoll does not know the           *)
(* connection, or when all descriptors are taken and none comes free.      *)
Unwatched(c) == conn[c] = "accepted" /\ c \in lost

EchoArrives ==
  \A c \in Clients :
    []<>(Unused # {}) =>
      ((pc[c] = "receiving" /\ up[c] > 0)
         ~> (pc[c] # "receiving" \/ server = "returned" \/ Unwatched(c)))
============================================================================
