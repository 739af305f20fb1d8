------------------------- MODULE EpollWorkerProofs -------------------------
(***************************************************************************)
(* Theorems about EpollWorker for any clients and any limit of             *)
(* descriptors.                                                            *)
(***************************************************************************)
EXTENDS EpollWorker, FiniteSetTheorems, SequenceTheorems, WellFoundedInduction, TLAPS

(* A connection has one descriptor while it is accepted, and no other time; *)
(* one that is queued is so once.                                           *)
TableIsApart == \A f, g \in Fds : table[f] = table[g] => table[f] = Free \/ f = g
AcceptedIsOpen == \A c \in Clients : conn[c] = "accepted" <=> \E f \in Fds : table[f] = c
QueuedOnce ==
  /\ \A i, j \in DOMAIN backlog : backlog[i] = backlog[j] => i = j
  /\ \A c \in Clients : conn[c] = "queued" <=> \E i \in DOMAIN backlog : backlog[i] = c

(* What epoll knows, and that it knows nothing before the loop.             *)
Watched ==
  /\ \A f \in watched : table[f] \in Clients \cup {"listener"}
  /\ \A f \in Fds : table[f] \in Clients \ lost => f \in watched
Preparing ==
  /\ server \in {"start", "epoll", "listen"} => watched = {} /\ \A f \in Fds : table[f] \notin Clients
  /\ server = "start" => \A f \in Fds : table[f] = Free
  /\ server = "epoll" => \A f \in Fds : table[f] # "listener"

(* The connection that the server has in hand. *)
Busy == server \in {"echo", "close"}
Served == batch[1].of
InHand == Busy => batch # <<>> /\ Served \in Clients

(* Who is connected has connected, and who has not been served has not been *)
(* sent anything.                                                           *)
Connected == \A c \in Clients : conn[c] = "none" <=> pc[c] \in {"out", "returned"}
Unanswered ==
  \A c \in Clients :
    conn[c] # "closed" /\ ~(server = "close" /\ Served = c) => echoed[c] = 0

(* An event stays worth its report: there is something to read, or nobody   *)
(* at the other end any more.                                               *)
EventsReadable ==
  \A i \in DOMAIN batch :
    batch[i].of \in Clients /\ ~(Busy /\ i = 1) => up[batch[i].of] > 0 \/ ~ClientOpen(batch[i].of)
Answering ==
  /\ server = "echo" => nHaveRcvLen = ServerTakes \/ ~ClientOpen(Served)
  /\ server = "close" => echoed[Served] = ServerTakes
ClosedAnswered ==
  \A c \in Clients : conn[c] = "closed" /\ server # "killed" /\ c \notin lost => echoed[c] = ServerTakes
KilledByLeaver == server = "killed" => \E c \in Clients : pc[c] = "dead" /\ echoed[c] = 0

IInv ==
  /\ TypeOK /\ EventsCurrent
  /\ TableIsApart /\ AcceptedIsOpen /\ QueuedOnce /\ Watched /\ Preparing
  /\ InHand /\ Connected /\ Unanswered
  /\ EventsReadable /\ Answering /\ ClosedAnswered /\ KilledByLeaver

----------------------------------------------------------------------------
(* A set of natural numbers has a least one.                                *)
LEMMA MinInSet ==
  ASSUME NEW S \in SUBSET Nat, S # {}
  PROVE  Min(S) \in S /\ \A n \in S : Min(S) <= n
<1>1. PICK m \in S : \A n \in S : ~ (<<n, m>> \in OpToRel(<, Nat))
  BY NatLessThanWellFounded, WFMin, Zenon
<1>2. \A n \in S : m <= n
  <2>1. ASSUME NEW n \in S, n < m PROVE FALSE
    <3>1. <<n, m>> \in OpToRel(<, Nat)
      BY <2>1 DEF OpToRel
    <3>2. QED
      BY <1>1, <3>1
  <2>2. QED
    BY <2>1
<1>3. QED
  BY <1>2 DEF Min

(* The lowest descriptor that is not open is one that is not open.          *)
LEMMA UnusedMin == Unused # {} => Min(Unused) \in Fds /\ table[Min(Unused)] = Free
BY MinInSet, FdsAssumption DEF Unused, Fds

(* What is left of a sequence without its head.                             *)
LEMMA TailOf ==
  ASSUME NEW T, NEW s \in Seq(T), s # <<>>
  PROVE  /\ 1 \in DOMAIN s /\ Head(s) = s[1] /\ s[1] \in T
         /\ Tail(s) \in Seq(T)
         /\ \A i \in DOMAIN Tail(s) : Tail(s)[i] = s[i + 1] /\ i + 1 \in DOMAIN s /\ i + 1 # 1
         /\ \A i \in DOMAIN s : i # 1 => i - 1 \in DOMAIN Tail(s) /\ Tail(s)[i - 1] = s[i]
<1>1. Len(s) \in Nat /\ Len(s) >= 1 /\ DOMAIN s = 1 .. Len(s)
  BY EmptySeq
<1>2. Tail(s) \in Seq(T) /\ Len(Tail(s)) = Len(s) - 1 /\ \A i \in 1 .. Len(Tail(s)) : Tail(s)[i] = s[i + 1]
  BY HeadTailProperties
<1>3. DOMAIN Tail(s) = 1 .. Len(s) - 1
  BY <1>1, <1>2
<1>4. \A i \in 2 .. Len(s) : i - 1 \in 1 .. Len(s) - 1 /\ Tail(s)[i - 1] = s[i]
  BY <1>1, <1>2
<1>5. QED
  BY <1>1, <1>2, <1>3, <1>4

(* What the lists of a state hold.                                          *)
LEMMA Entries == ASSUME NEW T, NEW s \in Seq(T) PROVE \A i \in DOMAIN s : s[i] \in T
OBVIOUS

LEMMA Lists ==
  ASSUME TypeOK
  PROVE  /\ \A i \in DOMAIN batch : batch[i].fd \in Fds /\ batch[i].of \in Clients \cup {"listener"}
         /\ \A i \in DOMAIN backlog : backlog[i] \in Clients
<1>1. batch \in Seq([fd : Fds, of : Clients \cup {"listener"}]) /\ backlog \in Seq(Clients)
  BY DEF TypeOK
<1>2. /\ \A i \in DOMAIN batch : batch[i] \in [fd : Fds, of : Clients \cup {"listener"}]
      /\ \A i \in DOMAIN backlog : backlog[i] \in Clients
  BY <1>1, Entries
<1>3. QED
  BY <1>2

(* The server has an event in hand, and knows what it is open on.           *)
LEMMA HeadEvent ==
  ASSUME IInv, batch # <<>>
  PROVE  /\ 1 \in DOMAIN batch /\ Head(batch) = batch[1]
         /\ batch[1].fd \in Fds /\ table[batch[1].fd] = Served
         /\ Served \in Clients \cup {"listener"}
         /\ Served \in Clients => conn[Served] = "accepted"
         /\ \A i \in DOMAIN batch : i # 1 => batch[i].of # Served
         /\ Tail(batch) \in Seq([fd : Fds, of : Clients \cup {"listener"}])
         /\ \A i \in DOMAIN Tail(batch) :
              /\ Tail(batch)[i] = batch[i + 1] /\ i + 1 \in DOMAIN batch
              /\ Tail(batch)[i].fd \in Fds /\ Tail(batch)[i].fd # batch[1].fd
              /\ Tail(batch)[i].of \in Clients \cup {"listener"}
              /\ Tail(batch)[i].of # Served /\ table[Tail(batch)[i].fd] = Tail(batch)[i].of
         /\ \A i, j \in DOMAIN Tail(batch) : i # j => Tail(batch)[i].fd # Tail(batch)[j].fd
<1>1. batch \in Seq([fd : Fds, of : Clients \cup {"listener"}])
  BY DEF IInv, TypeOK
<1>2. /\ 1 \in DOMAIN batch /\ Head(batch) = batch[1]
      /\ Tail(batch) \in Seq([fd : Fds, of : Clients \cup {"listener"}])
      /\ \A i \in DOMAIN Tail(batch) : /\ Tail(batch)[i] = batch[i + 1]
                                       /\ i + 1 \in DOMAIN batch /\ i + 1 # 1
  BY <1>1, TailOf
<1>3. \A i \in DOMAIN batch : batch[i].fd \in Fds /\ batch[i].of \in Clients \cup {"listener"}
  BY Lists DEF IInv
<1>4. table[batch[1].fd] = Served /\ (Served \in Clients => conn[Served] = "accepted")
  BY <1>2, <1>3 DEF IInv, EventsCurrent, AcceptedIsOpen, Served
<1>5. \A i \in DOMAIN batch : i # 1 => batch[i].fd # batch[1].fd /\ table[batch[i].fd] = batch[i].of
  BY <1>2 DEF IInv, EventsCurrent
<1>6. \A i \in DOMAIN batch : i # 1 => batch[i].of # Served
  <2>1. \A i \in DOMAIN batch : batch[i].of # Free
    BY <1>3, ClientsAssumption
  <2>2. QED
    BY <1>2, <1>3, <1>4, <1>5, <2>1 DEF IInv, TableIsApart
<1>7. \A i, j \in DOMAIN Tail(batch) : i # j => Tail(batch)[i].fd # Tail(batch)[j].fd
  <2>1. DOMAIN Tail(batch) \subseteq Int
    BY <1>2
  <2>2. QED
    BY <1>2, <2>1 DEF IInv, EventsCurrent
<1>8. QED
  BY <1>2, <1>3, <1>4, <1>5, <1>6, <1>7 DEF Served

(* Only connections that are open have been reported.                       *)
LEMMA EventsOpen ==
  ASSUME IInv
  PROVE  \A i \in DOMAIN batch : batch[i].of \in Clients => conn[batch[i].of] = "accepted"
BY Lists DEF IInv, EventsCurrent, AcceptedIsOpen

(* Who waits longest for accept.                                            *)
LEMMA HeadWaiting ==
  ASSUME IInv, backlog # <<>>
  PROVE  /\ Head(backlog) = backlog[1] /\ 1 \in DOMAIN backlog /\ backlog[1] \in Clients
         /\ conn[backlog[1]] = "queued" /\ echoed[backlog[1]] = 0
         /\ \A f \in Fds : table[f] # backlog[1]
         /\ Tail(backlog) \in Seq(Clients)
         /\ \A i \in DOMAIN Tail(backlog) :
              /\ Tail(backlog)[i] = backlog[i + 1] /\ i + 1 \in DOMAIN backlog
              /\ Tail(backlog)[i] \in Clients /\ Tail(backlog)[i] # backlog[1]
         /\ \A i, j \in DOMAIN Tail(backlog) : Tail(backlog)[i] = Tail(backlog)[j] => i = j
         /\ \A i \in DOMAIN backlog :
              backlog[i] # backlog[1] => i - 1 \in DOMAIN Tail(backlog) /\ Tail(backlog)[i - 1] = backlog[i]
<1>1. backlog \in Seq(Clients)
  BY DEF IInv, TypeOK
<1>2. /\ 1 \in DOMAIN backlog /\ Head(backlog) = backlog[1] /\ backlog[1] \in Clients
      /\ Tail(backlog) \in Seq(Clients)
      /\ \A i \in DOMAIN Tail(backlog) : /\ Tail(backlog)[i] = backlog[i + 1]
                                         /\ i + 1 \in DOMAIN backlog /\ i + 1 # 1
      /\ \A i \in DOMAIN backlog :
           i # 1 => i - 1 \in DOMAIN Tail(backlog) /\ Tail(backlog)[i - 1] = backlog[i]
  BY <1>1, TailOf
<1>3. conn[backlog[1]] = "queued" /\ \A i \in DOMAIN backlog : backlog[i] = backlog[1] => i = 1
  BY <1>2 DEF IInv, QueuedOnce
<1>4. \A f \in Fds : table[f] # backlog[1]
  BY <1>2, <1>3 DEF IInv, AcceptedIsOpen
<1>5. echoed[backlog[1]] = 0
  <2>1. server = "close" => Served # backlog[1]
    BY <1>3, HeadEvent DEF IInv, InHand, Busy
  <2>2. QED
    BY <1>2, <1>3, <2>1 DEF IInv, Unanswered
<1>6. \A i, j \in DOMAIN Tail(backlog) : Tail(backlog)[i] = Tail(backlog)[j] => i = j
  <2>1. DOMAIN Tail(backlog) \subseteq Int
    BY <1>2
  <2>2. QED
    BY <1>2, <2>1 DEF IInv, QueuedOnce
<1>7. \A i \in DOMAIN Tail(backlog) : Tail(backlog)[i] \in Clients
  BY <1>1, <1>2
<1>8. QED
  BY <1>2, <1>3, <1>4, <1>5, <1>6, <1>7

(* A descriptor is opened before the loop, on epoll and then on the         *)
(* listener.                                                                *)
LEMMA OpensIInv ==
  ASSUME IInv, NEW what, NEW next, NEW f \in Fds, table[f] = Free,
         \/ server = "start" /\ what = "epoll" /\ next = "epoll"
         \/ server = "epoll" /\ what = "listener" /\ next = "listen",
         server' = next /\ table' = [table EXCEPT ![f] = what],
         UNCHANGED <<watched, batch, nHaveRcvLen, backlog, conn, clientVars, up, down, echoed, lost>>
  PROVE  IInv'
<1> USE FdsAssumption, ClientsAssumption DEF IInv, clientVars
<1>1. TypeOK'
  BY DEF TypeOK
<1>2. EventsCurrent'
  <2>1. \A i \in DOMAIN batch : batch[i].fd \in Fds /\ batch[i].of # Free
    BY Lists
  <2>2. \A i \in DOMAIN batch : batch[i].fd # f
    BY <2>1 DEF EventsCurrent
  <2>3. QED
    BY <2>1, <2>2 DEF EventsCurrent, TypeOK
<1>3. TableIsApart'
  BY DEF TableIsApart, Preparing, TypeOK
<1>4. AcceptedIsOpen'
  BY DEF AcceptedIsOpen, TypeOK
<1>5. Watched'
  BY DEF Watched, Preparing, TypeOK
<1>6. Preparing'
  BY DEF Preparing, TypeOK
<1>7. QueuedOnce' /\ InHand' /\ Connected' /\ Unanswered'
  BY DEF QueuedOnce, InHand, Busy, Served, Connected, Unanswered
<1>8. EventsReadable' /\ Answering' /\ ClosedAnswered' /\ KilledByLeaver'
  BY DEF EventsReadable, Busy, ClientOpen, Answering, Served, ClosedAnswered, KilledByLeaver
<1>9. QED
  BY <1>1, <1>2, <1>3, <1>4, <1>5, <1>6, <1>7, <1>8

(* serverRun returns.                                                       *)
LEMMA ReturnsIInv ==
  ASSUME IInv, ~Busy, server # "killed", Returns,
         UNCHANGED <<table, watched, batch, nHaveRcvLen, backlog, conn, clientVars, up, down, echoed, lost>>
  PROVE  IInv'
<1> USE DEF IInv, Returns, clientVars
<1>1. TypeOK' /\ EventsCurrent' /\ TableIsApart' /\ AcceptedIsOpen' /\ QueuedOnce'
  BY DEF TypeOK, EventsCurrent, TableIsApart, AcceptedIsOpen, QueuedOnce
<1>2. Watched' /\ Preparing' /\ InHand' /\ Connected' /\ Unanswered'
  BY DEF Watched, Preparing, InHand, Busy, Served, Connected, Unanswered
<1>3. EventsReadable' /\ Answering' /\ ClosedAnswered' /\ KilledByLeaver'
  BY DEF EventsReadable, Busy, ClientOpen, Answering, Served, ClosedAnswered, KilledByLeaver
<1>4. QED
  BY <1>1, <1>2, <1>3

LEMMA CreateEpollIInv == ASSUME IInv, CreateEpoll PROVE IInv'
<1>1. CASE Unused # {} /\ server' = "epoll" /\ table' = Opened("epoll")
  BY <1>1, UnusedMin, OpensIInv DEF CreateEpoll, Opened
<1>2. CASE Returns /\ UNCHANGED table
  BY <1>2, ReturnsIInv DEF CreateEpoll, Busy
<1>3. QED
  BY <1>1, <1>2 DEF CreateEpoll

LEMMA CreateAsyncTcpListenerIInv == ASSUME IInv, CreateAsyncTcpListener PROVE IInv'
<1>1. CASE Unused # {} /\ server' = "listen" /\ table' = Opened("listener")
  BY <1>1, UnusedMin, OpensIInv DEF CreateAsyncTcpListener, Opened
<1>2. CASE Returns /\ UNCHANGED table
  BY <1>2, ReturnsIInv DEF CreateAsyncTcpListener, Busy
<1>3. QED
  BY <1>1, <1>2 DEF CreateAsyncTcpListener

LEMMA WaitFailsIInv == ASSUME IInv, WaitFails PROVE IInv'
BY ReturnsIInv DEF WaitFails, Busy

LEMMA AddListenerIInv == ASSUME IInv, AddListener PROVE IInv'
<1>1. CASE Returns /\ UNCHANGED watched
  BY <1>1, ReturnsIInv DEF AddListener, Busy
<1>2. CASE server' = "loop" /\ watched' = {f \in Fds : table[f] = "listener"}
  <2> USE <1>2, ClientsAssumption DEF IInv, AddListener, clientVars
  <2>1. TypeOK' /\ EventsCurrent' /\ TableIsApart' /\ AcceptedIsOpen' /\ QueuedOnce'
    BY DEF TypeOK, EventsCurrent, TableIsApart, AcceptedIsOpen, QueuedOnce
  <2>2. Watched' /\ Preparing' /\ InHand' /\ Connected' /\ Unanswered'
    BY DEF Watched, Preparing, InHand, Busy, Served, Connected, Unanswered
  <2>3. EventsReadable' /\ Answering' /\ ClosedAnswered' /\ KilledByLeaver'
    BY DEF EventsReadable, Busy, ClientOpen, Answering, Served, ClosedAnswered, KilledByLeaver
  <2>4. QED
    BY <2>1, <2>2, <2>3
<1>3. QED
  BY <1>1, <1>2 DEF AddListener

(* What epoll_wait reports is ready, and reported once.                     *)
LEMMA Reported ==
  ASSUME TypeOK, Watched, NEW b, b \in SetToSeqs({Event(f) : f \in Ready})
  PROVE  /\ b \in Seq([fd : Fds, of : Clients \cup {"listener"}])
         /\ \A i \in DOMAIN b : b[i].fd \in Ready /\ b[i].of = table[b[i].fd]
         /\ \A i, j \in DOMAIN b : i # j => b[i].fd # b[j].fd
<1> DEFINE S == {Event(f) : f \in Ready}
<1>1. IsFiniteSet(S)
  <2>1. IsFiniteSet(Fds)
    BY FS_Interval, FdsAssumption DEF Fds
  <2>2. Ready \subseteq Fds
    BY DEF Ready, TypeOK
  <2>3. IsFiniteSet(Ready)
    BY <2>1, <2>2, FS_Subset
  <2> DEFINE F == [f \in Ready |-> Event(f)]
  <2>4. F \in Surjection(Ready, S)
    BY DEF Surjection
  <2>5. QED
    BY <2>3, <2>4, FS_Surjection
<1>2. S \subseteq [fd : Fds, of : Clients \cup {"listener"}]
  BY DEF Event, Ready, Watched, TypeOK
<1>3. PICK n \in Nat : b \in [1 .. n -> S] /\ \A i, j \in 1 .. n : i # j => b[i] # b[j]
  <2> HIDE DEF S
  <2>1. Cardinality(S) \in Nat
    BY <1>1, FS_CardinalityType
  <2>2. b \in SetToSeqs(S)
    BY DEF S
  <2>3. QED
    BY <2>1, <2>2 DEF SetToSeqs
<1>4. b \in Seq(S)
  BY <1>3
<1>5. b \in Seq([fd : Fds, of : Clients \cup {"listener"}])
  <2> DEFINE R == [fd : Fds, of : Clients \cup {"listener"}]
  <2>1. S \subseteq R
    BY <1>2
  <2> HIDE DEF S, R
  <2>2. b \in [1 .. n -> R]
    BY <1>3, <2>1
  <2>3. b \in Seq(R)
    BY <2>2
  <2>4. QED
    BY <2>3 DEF R
<1>6. \A i \in DOMAIN b : \E f \in Ready : b[i] = [fd |-> f, of |-> table[f]]
  BY <1>3 DEF Event
<1>7. \A i, j \in DOMAIN b : i # j => b[i] # b[j]
  BY <1>3
<1>8. QED
  BY <1>5, <1>6, <1>7

LEMMA EpollWaitIInv == ASSUME IInv, EpollWait PROVE IInv'
<1> USE DEF IInv, clientVars
<1>1. /\ server = "loop" /\ server' = "loop"
      /\ UNCHANGED <<table, watched, nHaveRcvLen, backlog, conn, clientVars, up, down, echoed, lost>>
  BY DEF EpollWait
<1>2. /\ batch' \in Seq([fd : Fds, of : Clients \cup {"listener"}])
      /\ \A i \in DOMAIN batch' : batch'[i].fd \in Ready /\ batch'[i].of = table[batch'[i].fd]
      /\ \A i, j \in DOMAIN batch' : i # j => batch'[i].fd # batch'[j].fd
  BY Reported DEF EpollWait
<1>3. TypeOK'
  BY <1>1, <1>2 DEF TypeOK
<1>4. EventsCurrent'
  BY <1>1, <1>2 DEF EventsCurrent
<1>5. EventsReadable'
  BY <1>1, <1>2, ClientsAssumption DEF EventsReadable, Ready, Readable, ClientOpen
<1>6. TableIsApart' /\ AcceptedIsOpen' /\ QueuedOnce' /\ Watched' /\ Preparing'
  BY <1>1 DEF TableIsApart, AcceptedIsOpen, QueuedOnce, Watched, Preparing
<1>7. InHand' /\ Connected' /\ Unanswered' /\ Answering' /\ ClosedAnswered' /\ KilledByLeaver'
  BY <1>1 DEF InHand, Busy, Connected, Unanswered, Answering, ClosedAnswered, KilledByLeaver
<1>8. QED
  BY <1>3, <1>4, <1>5, <1>6, <1>7

(* What all ways to handle an event of the listener have in common.         *)
LEMMA ListenerMsgDoes ==
  ASSUME IInv, ListenerMsg
  PROVE  /\ server = "loop" /\ server' = "loop" /\ batch # <<>> /\ batch' = Tail(batch) /\ backlog # <<>>
         /\ UNCHANGED <<nHaveRcvLen, clientVars, up, down, echoed>>
         /\ EventsReadable' /\ Preparing' /\ InHand' /\ Answering' /\ KilledByLeaver'
<1>1. /\ server = "loop" /\ server' = "loop" /\ batch # <<>> /\ batch' = Tail(batch) /\ backlog # <<>>
      /\ UNCHANGED <<nHaveRcvLen, clientVars, up, down, echoed>>
  BY DEF ListenerMsg, AtListener
<1>2. EventsReadable'
  BY <1>1, HeadEvent DEF IInv, EventsReadable, Busy, ClientOpen, clientVars
<1>3. Preparing' /\ InHand' /\ Answering' /\ KilledByLeaver'
  BY <1>1 DEF Preparing, InHand, Busy, Answering, KilledByLeaver
<1>4. QED
  BY <1>1, <1>2, <1>3

LEMMA AcceptsIInv == ASSUME IInv, ListenerMsg, Accepts PROVE IInv'
<1> USE ClientsAssumption DEF IInv, clientVars
<1> DEFINE c == backlog[1]
           f == Min(Unused)
<1>1. /\ server = "loop" /\ server' = "loop" /\ batch' = Tail(batch)
      /\ UNCHANGED <<nHaveRcvLen, clientVars, up, down, echoed>>
      /\ EventsReadable' /\ Preparing' /\ InHand' /\ Answering' /\ KilledByLeaver'
  BY ListenerMsgDoes
<1>2. /\ c \in Clients /\ conn[c] = "queued" /\ echoed[c] = 0 /\ \A g \in Fds : table[g] # c
      /\ f \in Fds /\ table[f] = Free
  BY HeadWaiting, ListenerMsgDoes, UnusedMin DEF Accepts
<1>3. /\ backlog' = Tail(backlog)
      /\ table' = [table EXCEPT ![f] = c] /\ conn' = [conn EXCEPT ![c] = "accepted"]
      /\ \/ watched' = watched \cup {f} /\ lost' = lost
         \/ watched' = watched /\ lost' = lost \cup {c}
  BY HeadWaiting, ListenerMsgDoes DEF Accepts, Opened
<1>4. /\ batch' \in Seq([fd : Fds, of : Clients \cup {"listener"}])
      /\ \A i \in DOMAIN batch' : /\ batch'[i] = batch[i + 1] /\ i + 1 \in DOMAIN batch
                                  /\ batch'[i].fd \in Fds /\ batch'[i].of # Free
                                  /\ table[batch'[i].fd] = batch'[i].of
  BY <1>1, HeadEvent, ListenerMsgDoes
<1>5. /\ backlog' \in Seq(Clients)
      /\ \A i \in DOMAIN backlog' :
           backlog'[i] = backlog[i + 1] /\ i + 1 \in DOMAIN backlog /\ backlog'[i] # c
      /\ \A i, j \in DOMAIN backlog' : backlog'[i] = backlog'[j] => i = j
      /\ \A i \in DOMAIN backlog : backlog[i] # c => i - 1 \in DOMAIN backlog' /\ backlog'[i - 1] = backlog[i]
  BY <1>3, HeadWaiting, ListenerMsgDoes
<1> HIDE DEF c, f
<1>6. TypeOK'
  BY <1>1, <1>2, <1>3, <1>4, <1>5 DEF TypeOK
<1>7. EventsCurrent'
  <2>1. \A i, j \in DOMAIN batch' : i # j => batch'[i].fd # batch'[j].fd
    BY <1>1, HeadEvent, ListenerMsgDoes
  <2>2. \A i \in DOMAIN batch' : batch'[i].fd # f
    BY <1>2, <1>4
  <2>3. QED
    BY <1>2, <1>3, <1>4, <2>1, <2>2 DEF EventsCurrent, TypeOK
<1>8. TableIsApart'
  BY <1>2, <1>3 DEF TableIsApart, TypeOK
<1>9. AcceptedIsOpen'
  BY <1>2, <1>3 DEF AcceptedIsOpen, TypeOK
<1>10. QueuedOnce'
  <2>1. \A x \in Clients \ {c} : conn'[x] = "queued" <=> \E i \in DOMAIN backlog : backlog[i] = x
    BY <1>3 DEF QueuedOnce, TypeOK
  <2>2. conn'[c] # "queued"
    BY <1>2, <1>3 DEF TypeOK
  <2>3. \A x \in Clients \ {c} :
          (\E i \in DOMAIN backlog : backlog[i] = x) <=> \E i \in DOMAIN backlog' : backlog'[i] = x
    BY <1>5
  <2>4. QED
    BY <1>5, <2>1, <2>2, <2>3 DEF QueuedOnce
<1>11. Watched'
  BY <1>2, <1>3 DEF Watched, TypeOK
<1>12. Connected' /\ Unanswered' /\ ClosedAnswered'
  BY <1>1, <1>2, <1>3 DEF Connected, Unanswered, ClosedAnswered, TypeOK
<1>13. QED
  BY <1>1, <1>6, <1>7, <1>8, <1>9, <1>10, <1>11, <1>12

LEMMA AcceptsBlockingIInv == ASSUME IInv, ListenerMsg, AcceptsBlocking PROVE IInv'
<1> USE ClientsAssumption DEF IInv, clientVars
<1> DEFINE c == backlog[1]
<1>1. /\ server = "loop" /\ server' = "loop" /\ batch' = Tail(batch)
      /\ UNCHANGED <<nHaveRcvLen, clientVars, up, down, echoed>>
      /\ EventsReadable' /\ Preparing' /\ InHand' /\ Answering' /\ KilledByLeaver'
  BY ListenerMsgDoes
<1>2. c \in Clients /\ conn[c] = "queued" /\ echoed[c] = 0 /\ \A g \in Fds : table[g] # c
  BY HeadWaiting, ListenerMsgDoes
<1>3. /\ backlog' = Tail(backlog) /\ conn' = [conn EXCEPT ![c] = "closed"]
      /\ lost' = lost \cup {c} /\ UNCHANGED <<table, watched>>
  BY HeadWaiting, ListenerMsgDoes DEF AcceptsBlocking
<1>4. /\ batch' \in Seq([fd : Fds, of : Clients \cup {"listener"}])
      /\ \A i \in DOMAIN batch' : batch'[i] = batch[i + 1] /\ i + 1 \in DOMAIN batch
  BY <1>1, HeadEvent, ListenerMsgDoes
<1>5. /\ backlog' \in Seq(Clients)
      /\ \A i \in DOMAIN backlog' :
           backlog'[i] = backlog[i + 1] /\ i + 1 \in DOMAIN backlog /\ backlog'[i] # c
      /\ \A i, j \in DOMAIN backlog' : backlog'[i] = backlog'[j] => i = j
      /\ \A i \in DOMAIN backlog : backlog[i] # c => i - 1 \in DOMAIN backlog' /\ backlog'[i - 1] = backlog[i]
  BY <1>3, HeadWaiting, ListenerMsgDoes
<1> HIDE DEF c
<1>6. TypeOK'
  BY <1>1, <1>2, <1>3, <1>4, <1>5 DEF TypeOK
<1>7. EventsCurrent'
  BY <1>1, <1>3, HeadEvent, ListenerMsgDoes DEF EventsCurrent
<1>8. TableIsApart' /\ AcceptedIsOpen' /\ Watched'
  BY <1>2, <1>3 DEF TableIsApart, AcceptedIsOpen, Watched, TypeOK
<1>9. QueuedOnce'
  <2>1. \A x \in Clients \ {c} : conn'[x] = "queued" <=> \E i \in DOMAIN backlog : backlog[i] = x
    BY <1>3 DEF QueuedOnce, TypeOK
  <2>2. conn'[c] # "queued"
    BY <1>2, <1>3 DEF TypeOK
  <2>3. \A x \in Clients \ {c} :
          (\E i \in DOMAIN backlog : backlog[i] = x) <=> \E i \in DOMAIN backlog' : backlog'[i] = x
    BY <1>5
  <2>4. QED
    BY <1>5, <2>1, <2>2, <2>3 DEF QueuedOnce
<1>10. Connected' /\ Unanswered' /\ ClosedAnswered'
  BY <1>1, <1>2, <1>3 DEF Connected, Unanswered, ClosedAnswered, TypeOK
<1>11. QED
  BY <1>1, <1>6, <1>7, <1>8, <1>9, <1>10

LEMMA AcceptFailsIInv == ASSUME IInv, ListenerMsg, AcceptFails PROVE IInv'
<1> USE DEF IInv, clientVars
<1>1. /\ server = "loop" /\ server' = "loop" /\ batch' = Tail(batch)
      /\ UNCHANGED <<nHaveRcvLen, clientVars, up, down, echoed, table, watched, backlog, conn, lost>>
      /\ EventsReadable' /\ Preparing' /\ InHand' /\ Answering' /\ KilledByLeaver'
  BY ListenerMsgDoes DEF AcceptFails
<1>2. TypeOK' /\ EventsCurrent'
  <2>1. /\ batch' \in Seq([fd : Fds, of : Clients \cup {"listener"}])
        /\ \A i \in DOMAIN batch' : table[batch'[i].fd] = batch'[i].of
        /\ \A i, j \in DOMAIN batch' : i # j => batch'[i].fd # batch'[j].fd
    BY <1>1, HeadEvent, ListenerMsgDoes
  <2>2. QED
    BY <1>1, <2>1 DEF TypeOK, EventsCurrent
<1>3. TableIsApart' /\ AcceptedIsOpen' /\ QueuedOnce' /\ Watched'
  BY <1>1 DEF TableIsApart, AcceptedIsOpen, QueuedOnce, Watched
<1>4. Connected' /\ Unanswered' /\ ClosedAnswered'
  BY <1>1 DEF Connected, Unanswered, ClosedAnswered
<1>5. QED
  BY <1>1, <1>2, <1>3, <1>4

(* The rest of _DoHandleMsg.                                                *)
LEMMA MsgRecvIInv == ASSUME IInv, MsgRecv PROVE IInv'
<1> USE DEF IInv, clientVars
<1> DEFINE n == IF up[Served] > 0 THEN 1 ELSE 0
<1>1. /\ server = "loop" /\ batch # <<>> /\ Served \in Clients /\ 1 \in DOMAIN batch
      /\ up[Served] \in Nat /\ \A i \in DOMAIN batch : i # 1 => batch[i].of # Served
  <2>1. /\ server = "loop" /\ batch # <<>> /\ table[Head(batch).fd] # "listener"
    BY DEF MsgRecv, AtConnection
  <2>2. QED
    BY <2>1, HeadEvent DEF TypeOK
<1>2. Min({up[Served], ServerTakes}) = n
  <2>1. {up[Served], ServerTakes} \in SUBSET Nat
    BY <1>1 DEF ServerTakes
  <2>2. /\ Min({up[Served], ServerTakes}) \in {up[Served], ServerTakes}
        /\ \A m \in {up[Served], ServerTakes} : Min({up[Served], ServerTakes}) <= m
    BY <2>1, MinInSet
  <2>3. QED
    BY <1>1, <2>2 DEF ServerTakes
<1>3. /\ nHaveRcvLen' = n /\ up' = [up EXCEPT ![Served] = @ - n] /\ server' = "echo"
      /\ UNCHANGED <<table, watched, batch, backlog, conn, clientVars, down, echoed, lost>>
  BY <1>1, <1>2, HeadEvent DEF MsgRecv
<1>4. TypeOK'
  BY <1>1, <1>3 DEF TypeOK, ServerTakes
<1>5. EventsReadable'
  BY <1>1, <1>3 DEF EventsReadable, Busy, ClientOpen, TypeOK
<1>6. InHand' /\ Answering'
  BY <1>1, <1>3 DEF InHand, EventsReadable, Busy, ClientOpen, Answering, Served, ServerTakes
<1>7. EventsCurrent' /\ TableIsApart' /\ AcceptedIsOpen' /\ QueuedOnce' /\ Watched'
  BY <1>3 DEF EventsCurrent, TableIsApart, AcceptedIsOpen, QueuedOnce, Watched
<1>8. Preparing' /\ Connected' /\ Unanswered' /\ ClosedAnswered' /\ KilledByLeaver'
  BY <1>1, <1>3 DEF Preparing, Connected, Unanswered, Served, ClosedAnswered, KilledByLeaver
<1>9. QED
  BY <1>4, <1>5, <1>6, <1>7, <1>8

LEMMA MsgEchoesIInv == ASSUME IInv, MsgEcho, ClientOpen(Served) PROVE IInv'
<1> USE DEF IInv, clientVars
<1>1. /\ server = "echo" /\ batch # <<>> /\ Served \in Clients
      /\ conn[Served] = "accepted" /\ echoed[Served] = 0
  <2>1. server = "echo" /\ batch # <<>> /\ Served \in Clients
    BY DEF MsgEcho, InHand, Busy
  <2>2. QED
    BY <2>1, HeadEvent DEF Unanswered
<1>2. /\ down' = [down EXCEPT ![Served] = @ + nHaveRcvLen]
      /\ echoed' = [echoed EXCEPT ![Served] = @ + nHaveRcvLen] /\ server' = "close"
      /\ UNCHANGED <<table, watched, batch, nHaveRcvLen, backlog, conn, up, clientVars, lost>>
  BY <1>1, HeadEvent DEF MsgEcho
<1>3. nHaveRcvLen = ServerTakes
  BY <1>1 DEF Answering
<1>4. TypeOK'
  BY <1>1, <1>2 DEF TypeOK, ServerTakes
<1>5. echoed'[Served] = ServerTakes /\ \A c \in Clients \ {Served} : echoed'[c] = echoed[c]
  BY <1>1, <1>2, <1>3 DEF TypeOK, ServerTakes
<1>6. Unanswered' /\ Answering' /\ ClosedAnswered' /\ KilledByLeaver'
  BY <1>1, <1>2, <1>5 DEF Unanswered, Answering, ClosedAnswered, KilledByLeaver, Served
<1>7. EventsCurrent' /\ TableIsApart' /\ AcceptedIsOpen' /\ QueuedOnce' /\ Watched' /\ Connected'
  BY <1>2 DEF EventsCurrent, TableIsApart, AcceptedIsOpen, QueuedOnce, Watched, Connected
<1>8. InHand' /\ EventsReadable' /\ Preparing'
  BY <1>1, <1>2 DEF InHand, EventsReadable, Busy, ClientOpen, Served, Preparing
<1>9. QED
  BY <1>4, <1>6, <1>7, <1>8

LEMMA MsgKillsIInv == ASSUME IInv, MsgEcho, ~ClientOpen(Served) PROVE IInv'
<1> USE ClientsAssumption DEF IInv, clientVars
<1>1. /\ server = "echo" /\ batch # <<>> /\ Served \in Clients
      /\ conn[Served] = "accepted" /\ echoed[Served] = 0 /\ pc[Served] = "dead"
  <2>1. server = "echo" /\ batch # <<>> /\ Served \in Clients
    BY DEF MsgEcho, InHand, Busy
  <2>2. conn[Served] = "accepted" /\ echoed[Served] = 0
    BY <2>1, HeadEvent DEF Unanswered
  <2>3. pc[Served] = "dead"
    BY <2>1, <2>2 DEF Connected, ClientOpen, TypeOK
  <2>4. QED
    BY <2>1, <2>2, <2>3
<1>2. Dies /\ UNCHANGED <<clientVars, down, echoed, lost>>
  BY <1>1, HeadEvent DEF MsgEcho
<1>3. TypeOK'
  BY <1>2 DEF Dies, TypeOK, ServerTakes
<1>4. \A c \in Clients : conn'[c] = IF conn[c] = "none" THEN "none" ELSE "closed"
  BY <1>2 DEF Dies
<1>5. Connected' /\ Unanswered'
  BY <1>1, <1>2, <1>4 DEF Connected, Unanswered, Dies
<1>6. AcceptedIsOpen' /\ QueuedOnce'
  BY <1>2, <1>4 DEF Dies, AcceptedIsOpen, QueuedOnce
<1>7. EventsCurrent' /\ TableIsApart' /\ Watched' /\ Preparing'
  BY <1>2 DEF Dies, EventsCurrent, TableIsApart, Watched, Preparing
<1>8. InHand' /\ EventsReadable' /\ Answering' /\ ClosedAnswered' /\ KilledByLeaver'
  BY <1>1, <1>2 DEF Dies, InHand, Busy, EventsReadable, Answering, ClosedAnswered, KilledByLeaver
<1>9. QED
  BY <1>3, <1>5, <1>6, <1>7, <1>8

LEMMA MsgCloseIInv == ASSUME IInv, MsgClose PROVE IInv'
<1> USE ClientsAssumption DEF IInv, clientVars
<1> DEFINE k == Served
           f == batch[1].fd
<1>1. /\ server = "close" /\ batch # <<>> /\ k \in Clients /\ f \in Fds /\ table[f] = k
      /\ conn[k] = "accepted" /\ echoed[k] = ServerTakes
  <2>1. server = "close" /\ batch # <<>> /\ Served \in Clients
    BY DEF MsgClose, InHand, Busy
  <2>2. QED
    BY <2>1, HeadEvent DEF Answering
<1>2. /\ server' = "loop" /\ nHaveRcvLen' = 0 /\ batch' = Tail(batch)
      /\ watched' = watched \ {f} /\ table' = [table EXCEPT ![f] = Free]
      /\ conn' = [conn EXCEPT ![k] = "closed"] /\ up' = [up EXCEPT ![k] = 0]
      /\ UNCHANGED <<backlog, clientVars, down, echoed, lost>>
  BY <1>1, HeadEvent DEF MsgClose
<1>3. /\ batch' \in Seq([fd : Fds, of : Clients \cup {"listener"}])
      /\ \A i \in DOMAIN batch' : /\ batch'[i] = batch[i + 1] /\ i + 1 \in DOMAIN batch /\ i + 1 # 1
                                  /\ batch'[i].fd \in Fds /\ batch'[i].fd # f /\ batch'[i].of # k
                                  /\ table[batch'[i].fd] = batch'[i].of
      /\ \A i, j \in DOMAIN batch' : i # j => batch'[i].fd # batch'[j].fd
  BY <1>1, <1>2, HeadEvent
<1> HIDE DEF k, f
<1>4. TypeOK'
  BY <1>1, <1>2, <1>3 DEF TypeOK, ServerTakes
<1>5. EventsCurrent'
  BY <1>1, <1>2, <1>3 DEF EventsCurrent, TypeOK
<1>6. TableIsApart' /\ Watched' /\ Preparing'
  BY <1>1, <1>2 DEF TableIsApart, Watched, Preparing, TypeOK
<1>7. AcceptedIsOpen'
  BY <1>1, <1>2 DEF AcceptedIsOpen, TableIsApart, TypeOK
<1>8. QueuedOnce'
  BY <1>1, <1>2 DEF QueuedOnce, TypeOK
<1>9. EventsReadable'
  BY <1>1, <1>2, <1>3 DEF EventsReadable, Busy, ClientOpen, TypeOK
<1>10. InHand' /\ Answering' /\ KilledByLeaver'
  BY <1>2 DEF InHand, Busy, Answering, KilledByLeaver
<1>11. Connected' /\ Unanswered' /\ ClosedAnswered'
  BY <1>1, <1>2 DEF Connected, Unanswered, ClosedAnswered, TypeOK, k
<1>12. QED
  BY <1>4, <1>5, <1>6, <1>7, <1>8, <1>9, <1>10, <1>11

(* The clients.                                                             *)
LEMMA ConnectIInv == ASSUME IInv, NEW c \in Clients, Connect(c) PROVE IInv'
<1> USE ClientsAssumption DEF IInv, serverVars
<1>1. /\ pc[c] = "out" /\ conn[c] = "none" /\ echoed[c] = 0
      /\ UNCHANGED <<server, table, watched, batch, nHaveRcvLen, ended, str, up, down, echoed, lost>>
  <2>1. pc[c] = "out" /\ conn[c] = "none"
    BY DEF Connect, Connected
  <2>2. server = "close" => Served # c
    BY <2>1, HeadEvent DEF InHand, Busy
  <2>3. QED
    BY <2>1, <2>2 DEF Unanswered, Connect
<1>2. /\ \A f \in Fds : table[f] # c
      /\ \A i \in DOMAIN backlog : backlog[i] # c
      /\ \A i \in DOMAIN batch : batch[i].of # c
  BY <1>1, EventsOpen DEF AcceptedIsOpen, QueuedOnce
<1>3. \/ pc' = [pc EXCEPT ![c] = "typing"] /\ backlog' = Append(backlog, c) /\ conn' = [conn EXCEPT ![c] = "queued"]
      \/ pc' = [pc EXCEPT ![c] = "returned"] /\ UNCHANGED <<backlog, conn>>
  BY DEF Connect, Goes
<1>4. TypeOK'
  <2>1. backlog' \in Seq(Clients)
    <3>1. backlog \in Seq(Clients)
      BY DEF TypeOK
    <3>2. Append(backlog, c) \in Seq(Clients)
      BY <3>1, AppendProperties
    <3>3. QED
      BY <1>3, <3>1, <3>2
  <2>2. QED
    BY <1>1, <1>3, <2>1 DEF TypeOK
<1>5. QueuedOnce'
  <2>1. CASE UNCHANGED <<backlog, conn>>
    BY <2>1 DEF QueuedOnce
  <2>2. CASE backlog' = Append(backlog, c) /\ conn' = [conn EXCEPT ![c] = "queued"]
    <3>1. /\ backlog \in Seq(Clients) /\ Len(backlog) \in Nat /\ DOMAIN backlog = 1 .. Len(backlog)
          /\ DOMAIN backlog' = 1 .. Len(backlog) + 1 /\ backlog'[Len(backlog) + 1] = c
          /\ \A i \in DOMAIN backlog : backlog'[i] = backlog[i]
      <4>1. backlog \in Seq(Clients)
        BY DEF TypeOK
      <4> HIDE DEF IInv
      <4>2. QED
        BY <2>2, <4>1
    <3>2. \A i \in DOMAIN backlog' : i \in DOMAIN backlog \/ i = Len(backlog) + 1
      BY <3>1
    <3>3. \A i, j \in DOMAIN backlog' : backlog'[i] = backlog'[j] => i = j
      BY <1>2, <3>1, <3>2 DEF QueuedOnce
    <3>4. \A x \in Clients : conn'[x] = "queued" <=> \E i \in DOMAIN backlog' : backlog'[i] = x
      <4>1. TAKE x \in Clients
      <4>2. CASE x = c
        <5>1. Len(backlog) + 1 \in DOMAIN backlog' /\ conn'[c] = "queued"
          BY <2>2, <3>1 DEF TypeOK
        <5>2. QED
          BY <3>1, <4>2, <5>1
      <4>3. CASE x # c
        BY <2>2, <3>1, <3>2, <4>3 DEF TypeOK, QueuedOnce
      <4>4. QED
        BY <4>2, <4>3
    <3>5. QED
      BY <3>3, <3>4 DEF QueuedOnce
  <2>3. QED
    BY <1>3, <2>1, <2>2
<1>6. AcceptedIsOpen' /\ Connected' /\ Unanswered' /\ ClosedAnswered'
  <2>1. /\ \A x \in Clients \ {c} : conn'[x] = conn[x] /\ pc'[x] = pc[x]
        /\ conn'[c] \in {"none", "queued"} /\ pc'[c] \in {"typing", "returned"}
        /\ conn'[c] = "none" <=> pc'[c] = "returned"
    BY <1>1, <1>3 DEF TypeOK
  <2>2. AcceptedIsOpen' /\ Connected'
    BY <1>1, <1>2, <2>1 DEF AcceptedIsOpen, Connected
  <2>3. Unanswered' /\ ClosedAnswered'
    BY <1>1, <2>1 DEF Unanswered, ClosedAnswered, Served
  <2>4. QED
    BY <2>2, <2>3
<1>7. EventsReadable'
  BY <1>1, <1>2, <1>3 DEF EventsReadable, Busy, ClientOpen, TypeOK
<1>8. InHand' /\ Answering' /\ KilledByLeaver'
  <2>1. Busy => Served # c
    BY <1>1, HeadEvent DEF InHand
  <2>2. QED
    BY <1>1, <1>3, <2>1 DEF InHand, Busy, Answering, Served, ClientOpen, KilledByLeaver, TypeOK
<1>9. EventsCurrent' /\ TableIsApart' /\ Watched' /\ Preparing'
  BY <1>1 DEF EventsCurrent, TableIsApart, Watched, Preparing
<1>10. QED
  BY <1>4, <1>5, <1>6, <1>7, <1>8, <1>9

(* A client that is connected goes on, or goes.                             *)
LEMMA ClientIInv ==
  ASSUME IInv, NEW c \in Clients, ClientOpen(c), TypeOK',
         \/ \E p \in {"typing", "receiving"} : pc' = [pc EXCEPT ![c] = p] /\ \A x \in Clients : up'[x] >= up[x]
         \/ pc' = [pc EXCEPT ![c] = "dead"] /\ UNCHANGED up,
         UNCHANGED <<serverVars, backlog, conn, echoed, lost>>
  PROVE  IInv'
<1> USE DEF IInv, serverVars
<1>1. /\ pc[c] \in {"typing", "receiving"}
      /\ \A x \in Clients \ {c} : pc'[x] = pc[x]
      /\ pc'[c] \in {"typing", "receiving", "dead"}
      /\ \A x \in Clients : up[x] > 0 => up'[x] > 0
  BY DEF ClientOpen, TypeOK
<1>2. Connected' /\ KilledByLeaver'
  BY <1>1 DEF Connected, KilledByLeaver
<1>3. EventsReadable' /\ Answering'
  <2>1. \A x \in Clients : ~ClientOpen(x) => ~ClientOpen(x)'
    BY <1>1 DEF ClientOpen
  <2>2. QED
    BY <1>1, <2>1 DEF EventsReadable, Busy, Answering, Served, InHand
<1>4. EventsCurrent' /\ TableIsApart' /\ AcceptedIsOpen' /\ QueuedOnce' /\ Watched' /\ Preparing'
  BY DEF EventsCurrent, TableIsApart, AcceptedIsOpen, QueuedOnce, Watched, Preparing
<1>5. InHand' /\ Unanswered' /\ ClosedAnswered'
  BY DEF InHand, Busy, Served, Unanswered, ClosedAnswered
<1>6. QED
  BY <1>2, <1>3, <1>4, <1>5

LEMMA OpenClientIInv ==
  ASSUME IInv, NEW c \in Clients, Send(c) \/ SendRaises(c) \/ Recv(c) \/ Quit(c)
  PROVE  IInv'
<1> USE DEF IInv, serverVars, TypeOK, ClientOpen
<1>1. CASE Send(c)
  <2>1. ended' \subseteq Clients /\ str' \in [Clients -> 0 .. MaxWord]
    <3>1. ended \subseteq Clients /\ str \in [Clients -> 0 .. MaxWord]
      BY DEF TypeOK
    <3> HIDE DEF IInv, TypeOK
    <3>2. CASE \E n \in 1 .. MaxWord : str' = [str EXCEPT ![c] = n]
      BY <1>1, <3>1, <3>2 DEF Send, MaxWord
    <3>3. CASE UNCHANGED str
      BY <1>1, <3>1, <3>3 DEF Send
    <3>4. QED
      BY <1>1, <3>2, <3>3 DEF Send
  <2>2. up' = [up EXCEPT ![c] = @ + str'[c]] /\ str'[c] \in 0 .. MaxWord
    BY <1>1, <2>1 DEF Send
  <2>3. up' \in [Clients -> Nat] /\ \A x \in Clients : up'[x] >= up[x]
    BY <2>2 DEF MaxWord
  <2>4. TypeOK'
    BY <1>1, <2>1, <2>3 DEF Send, Goes
  <2>5. QED
    BY <1>1, <2>3, <2>4, ClientIInv DEF Send, Goes
<1>2. CASE SendRaises(c)
  <2>1. TypeOK'
    BY <1>2 DEF SendRaises, Gone, MaxWord
  <2>2. QED
    BY <1>2, <2>1, ClientIInv DEF SendRaises, Gone
<1>3. CASE Recv(c)
  <2>1. TypeOK' /\ \A x \in Clients : up'[x] >= up[x]
    BY <1>3 DEF Recv, Goes
  <2>2. QED
    BY <1>3, <2>1, ClientIInv DEF Recv, Goes
<1>4. CASE Quit(c)
  <2>1. TypeOK'
    BY <1>4 DEF Quit, Gone, MaxWord
  <2>2. QED
    BY <1>4, <2>1, ClientIInv DEF Quit, Gone
<1>5. QED
  BY <1>1, <1>2, <1>3, <1>4

LEMMA InitIInv == Init => IInv
<1> SUFFICES ASSUME Init PROVE IInv
  OBVIOUS
<1> USE FdsAssumption, ClientsAssumption DEF Init
<1>1. TypeOK /\ EventsCurrent /\ TableIsApart /\ AcceptedIsOpen /\ QueuedOnce
  BY DEF TypeOK, EventsCurrent, TableIsApart, AcceptedIsOpen, QueuedOnce, ServerTakes, MaxWord
<1>2. Watched /\ Preparing /\ InHand /\ Connected /\ Unanswered
  BY DEF Watched, Preparing, InHand, Busy, Connected, Unanswered
<1>3. EventsReadable /\ Answering /\ ClosedAnswered /\ KilledByLeaver
  BY DEF EventsReadable, Answering, ClosedAnswered, KilledByLeaver
<1>4. QED
  BY <1>1, <1>2, <1>3 DEF IInv

LEMMA NextIInv == IInv /\ [Next]_vars => IInv'
<1> SUFFICES ASSUME IInv, [Next]_vars PROVE IInv'
  OBVIOUS
<1>1. CASE CreateEpoll \/ CreateAsyncTcpListener \/ AddListener \/ EpollWait \/ WaitFails
  BY <1>1, CreateEpollIInv, CreateAsyncTcpListenerIInv, AddListenerIInv, EpollWaitIInv, WaitFailsIInv
<1>2. CASE ListenerMsg
  BY <1>2, AcceptsIInv, AcceptsBlockingIInv, AcceptFailsIInv DEF ListenerMsg
<1>3. CASE MsgRecv \/ MsgEcho \/ MsgClose
  BY <1>3, MsgRecvIInv, MsgEchoesIInv, MsgKillsIInv, MsgCloseIInv
<1>4. ASSUME NEW c \in Clients, Client(c) PROVE IInv'
  BY <1>4, ConnectIInv, OpenClientIInv DEF Client
<1>5. CASE UNCHANGED vars
  <2> USE <1>5 DEF IInv, vars, serverVars, clientVars
  <2>1. TypeOK' /\ EventsCurrent' /\ TableIsApart' /\ AcceptedIsOpen' /\ QueuedOnce'
    BY DEF TypeOK, EventsCurrent, TableIsApart, AcceptedIsOpen, QueuedOnce
  <2>2. Watched' /\ Preparing' /\ InHand' /\ Connected' /\ Unanswered'
    BY DEF Watched, Preparing, InHand, Busy, Served, Connected, Unanswered
  <2>3. EventsReadable' /\ Answering' /\ ClosedAnswered' /\ KilledByLeaver'
    BY DEF EventsReadable, Busy, ClientOpen, Answering, Served, ClosedAnswered, KilledByLeaver
  <2>4. QED
    BY <2>1, <2>2, <2>3
<1>6. QED
  BY <1>1, <1>2, <1>3, <1>4, <1>5 DEF Next, Server, Serves

----------------------------------------------------------------------------
(* The invariant holds in every state.                                      *)
THEOREM Invariance == Spec => []IInv
BY InitIInv, NextIInv, PTL DEF Spec

(* Every variable keeps its type.                                           *)
THEOREM TypeCorrect == Spec => []TypeOK
<1>1. IInv => TypeOK
  BY DEF IInv
<1>2. QED
  BY <1>1, Invariance, PTL

(* An event never reaches another connection than the one it was reported   *)
(* for, although descriptors are closed, and their numbers given out again, *)
(* while the array of serverRun is worked through.                          *)
THEOREM EventsStayCurrent == Spec => []EventsCurrent
<1>1. IInv => EventsCurrent
  BY DEF IInv
<1>2. QED
  BY <1>1, Invariance, PTL

(* A connection has exactly one descriptor from accept to close, is queued  *)
(* once before, and is watched unless epoll_ctl refused it.                 *)
THEOREM ConnectionsStayKept == Spec => []ConnectionsKept
<1>1. IInv => ConnectionsKept
  <2> SUFFICES ASSUME IInv PROVE ConnectionsKept
    OBVIOUS
  <2> USE ClientsAssumption DEF IInv
  <2>1. ASSUME NEW c \in Clients
        PROVE  Cardinality({f \in Fds : table[f] = c}) = IF conn[c] = "accepted" THEN 1 ELSE 0
    <3>1. CASE conn[c] = "accepted"
      <4>1. PICK f \in Fds : table[f] = c
        BY <3>1 DEF AcceptedIsOpen
      <4>2. {g \in Fds : table[g] = c} = {f}
        BY <4>1 DEF TableIsApart
      <4>3. QED
        BY <3>1, <4>2, FS_Singleton
    <3>2. CASE conn[c] # "accepted"
      <4>1. {g \in Fds : table[g] = c} = {}
        BY <3>2 DEF AcceptedIsOpen
      <4>2. QED
        BY <3>2, <4>1, FS_EmptySet
    <3>3. QED
      BY <3>1, <3>2
  <2>2. ASSUME NEW c \in Clients
        PROVE  Cardinality({i \in DOMAIN backlog : backlog[i] = c}) = IF conn[c] = "queued" THEN 1 ELSE 0
    <3>1. CASE conn[c] = "queued"
      <4>1. PICK i \in DOMAIN backlog : backlog[i] = c
        BY <3>1 DEF QueuedOnce
      <4>2. {j \in DOMAIN backlog : backlog[j] = c} = {i}
        BY <4>1 DEF QueuedOnce
      <4>3. QED
        BY <3>1, <4>2, FS_Singleton
    <3>2. CASE conn[c] # "queued"
      <4>1. {j \in DOMAIN backlog : backlog[j] = c} = {}
        BY <3>2 DEF QueuedOnce
      <4>2. QED
        BY <3>2, <4>1, FS_EmptySet
    <3>3. QED
      BY <3>1, <3>2
  <2>3. \A c \in Clients : c \notin lost => {f \in Fds : table[f] = c} \subseteq watched
    BY DEF Watched
  <2>4. QED
    BY <2>1, <2>2, <2>3 DEF ConnectionsKept, Watched
<1>2. QED
  BY <1>1, Invariance, PTL

(* Nobody who is still there is hung up on without his answer, unless the  *)
(* server was killed or his connection could not be watched; and only one  *)
(* who left with his connection open kills the server.                     *)
THEOREM HangsUpAfterEcho == Spec => []ClosedAfterEcho
<1>1. IInv => ClosedAfterEcho
  BY DEF IInv, ClosedAfterEcho, ClosedAnswered, KilledByLeaver, ServerTakes
<1>2. QED
  BY <1>1, Invariance, PTL
============================================================================
