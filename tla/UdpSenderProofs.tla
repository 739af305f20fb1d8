-------------------------- MODULE UdpSenderProofs --------------------------
(***************************************************************************)
(* Theorems about UdpSender for one caller (asyncSend does not take two at *)
(* a time), any number of threads of the io_context, and any number of     *)
(* requests.                                                               *)
(***************************************************************************)
EXTENDS UdpSender, FiniteSetTheorems, SequenceTheorems, TLAPS

(* asyncSend is called by one thread at a time. *)
OneCaller == \A c, d \in Callers : c = d

(* The one thing that carries the current request on: an operation of the  *)
(* socket, its handler, or a thread that has taken it.                     *)
Nobody == pending = <<>> /\ ready = <<>> /\ Working = {}
InOperation == \E o \in Operations : pending = <<o>> /\ ~o.onHeap /\ o.req = requests
InReady == \E h \in Handlers : ready = <<h>> /\ ~h.onHeap /\ h.req = requests
InThread == \E t \in IoThreads : Working = {t} /\ hpc[t].req = requests
Carried ==
  \/ ~m_running /\ ~m_in_use /\ Nobody
  \/ m_running /\ m_in_use /\ ready = <<>> /\ Working = {} /\ InOperation
  \/ m_running /\ m_in_use /\ pending = <<>> /\ Working = {} /\ InReady
  \/ m_running /\ ~m_in_use /\ pending = <<>> /\ ready = <<>> /\ InThread

(* A call that has found the object free will find it so when it starts.   *)
Starting == \A c \in Callers : cpc[c] = "start" => ~m_running /\ requests < MaxRequests

(* Who still has to be told: the current request while it is carried on, and *)
(* one whose receive was aborted by the thread that has its timer to cancel. *)
Unended ==
  /\ m_running => requests > 0
  /\ \A r \in Requests : ends[r] <= 1 /\ (r > requests => ends[r] = 0)
  /\ pending # <<>> \/ ready # <<>> => ends[requests] = 0
  /\ \A t \in IoThreads :
       /\ hpc[t].at \in {"arm", "receive"} => ends[requests] = 0
       /\ hpc[t].at = "abort" =>
            /\ hpc[t].req \in 1 .. requests /\ ends[hpc[t].req] = 0
            /\ m_running => hpc[t].req # requests
            /\ \A u \in IoThreads : hpc[u].at = "abort" /\ hpc[u].req = hpc[t].req => u = t

IInv == TypeOK /\ Carried /\ Starting /\ Unended

----------------------------------------------------------------------------
(* The threads that carry the request on, when one of them moves.          *)
LEMMA WorkingMoves ==
  ASSUME TypeOK, NEW t \in IoThreads, NEW x, hpc' = [hpc EXCEPT ![t] = x]
  PROVE  /\ x.at \in {"stop", "arm", "receive", "answered"} => Working' = Working \cup {t}
         /\ x.at \notin {"stop", "arm", "receive", "answered"} => Working' = Working \ {t}
         /\ hpc'[t] = x /\ \A u \in IoThreads \ {t} : hpc'[u] = hpc[u]
BY DEF Working, TypeOK

LEMMA PlacesAreTyped ==
  ASSUME NEW place \in Places, NEW r \in 0 .. MaxRequests
  PROVE  At(place, r) \in [at : Places, req : 0 .. MaxRequests] /\ At(place, r).at = place /\ At(place, r).req = r
BY DEF At

(* The request in hand is the current one and has not been told.           *)
LEMMA WorkingIsCurrent ==
  ASSUME IInv, NEW t \in IoThreads, hpc[t].at \in {"stop", "arm", "receive", "answered"}
  PROVE  /\ m_running = TRUE /\ m_in_use = FALSE /\ pending = <<>> /\ ready = <<>> /\ Working = {t}
         /\ hpc[t].req = requests /\ requests \in Requests
<1>1. t \in Working
  BY DEF Working
<1>2. /\ m_running = TRUE /\ m_in_use = FALSE /\ pending = <<>> /\ ready = <<>> /\ InThread
  BY <1>1 DEF IInv, Carried, Nobody, TypeOK
<1>3. Working = {t} /\ hpc[t].req = requests
  BY <1>1, <1>2 DEF InThread
<1>4. requests \in Requests
  BY <1>2, RequestsAssumption DEF IInv, TypeOK, Unended, Requests
<1>5. QED
  BY <1>2, <1>3, <1>4

(* A handler that a thread takes is the only one, and for the request.     *)
LEMMA TakeDoes ==
  ASSUME IInv, NEW t \in IoThreads, NEW op, Take(t, op)
  PROVE  /\ m_running = TRUE /\ m_in_use' = FALSE /\ pending = <<>> /\ pending' = <<>> /\ ready' = <<>>
         /\ ready # <<>> /\ Head(ready) \in Handlers /\ Head(ready).req = requests
         /\ Working = {} /\ hpc[t] = Idle /\ ends[requests] = 0 /\ requests \in Requests
         /\ UNCHANGED <<m_timeout, cpc, requests>>
<1>1. ready # <<>> /\ ready' = Tail(ready) /\ hpc[t] = Idle /\ UNCHANGED <<m_timeout, cpc, pending, requests>>
  BY DEF Take
<1>2. m_running = TRUE /\ m_in_use = TRUE /\ pending = <<>> /\ Working = {} /\ InReady
  <2>1. \A h : <<h>> # <<>>
    OBVIOUS
  <2>2. QED
    BY <1>1, <2>1 DEF IInv, Carried, Nobody, TypeOK
<1>3. PICK h \in Handlers : ready = <<h>> /\ ~h.onHeap /\ h.req = requests
  BY <1>2 DEF InReady
<1>4. Head(ready) = h /\ Tail(ready) = <<>>
  BY <1>3
<1>5. m_in_use' = FALSE
  BY <1>3, <1>4 DEF Take
<1>6. requests \in Requests /\ ends[requests] = 0
  BY <1>1, <1>2, RequestsAssumption DEF IInv, TypeOK, Unended, Requests
<1>7. QED
  BY <1>1, <1>2, <1>3, <1>4, <1>5, <1>6

(* What is pending when the socket is cancelled, or completes.             *)
LEMMA CancelDoes ==
  ASSUME IInv, CancelSocket
  PROVE  /\ pending' = <<>>
         /\ pending = <<>> => ready' = ready
         /\ pending # <<>> =>
              \E h \in Handlers : ready' = <<h>> /\ ~h.onHeap /\ h.req = requests
<1>1. pending' = <<>> /\ ready' = ready \o [i \in DOMAIN pending |-> Handler(pending[i], "aborted")]
  BY DEF CancelSocket
<1>2. CASE pending = <<>>
  <2>1. [i \in DOMAIN pending |-> Handler(pending[i], "aborted")] = <<>>
    BY <1>2
  <2>2. ready \in Seq(Handlers)
    BY DEF IInv, TypeOK
  <2>3. QED
    BY <1>1, <1>2, <2>1, <2>2
<1>3. CASE pending # <<>>
  <2>1. ready = <<>> /\ InOperation
    BY <1>3 DEF IInv, Carried, Nobody
  <2>2. PICK o \in Operations : pending = <<o>> /\ ~o.onHeap /\ o.req = requests
    BY <2>1 DEF InOperation
  <2> DEFINE h == Handler(o, "aborted")
  <2>3. h \in Handlers /\ ~h.onHeap /\ h.req = requests
    BY <2>2 DEF Handler, Operations, Handlers
  <2>4. [i \in DOMAIN pending |-> Handler(pending[i], "aborted")] = <<h>>
    BY <2>2
  <2> HIDE DEF h
  <2>5. ready' = <<h>>
    BY <1>1, <2>1, <2>4
  <2>6. QED
    BY <1>1, <1>3, <2>3, <2>5
<1>4. QED
  BY <1>2, <1>3

LEMMA CompletesDoes ==
  ASSUME IInv, Completes
  PROVE  /\ m_running = TRUE /\ m_in_use = TRUE /\ Working = {} /\ pending # <<>> /\ pending' = <<>>
         /\ \E h \in Handlers : ready' = <<h>> /\ ~h.onHeap /\ h.req = requests
<1>1. PICK i \in DOMAIN pending, ec \in {"ok", "error"} :
        /\ ready' = Append(ready, Handler(pending[i], ec)) /\ pending' = RemoveAt(pending, i)
  BY DEF Completes
<1>2. pending # <<>>
  BY <1>1
<1>3. m_running = TRUE /\ m_in_use = TRUE /\ ready = <<>> /\ Working = {} /\ InOperation
  BY <1>2 DEF IInv, Carried, Nobody, TypeOK
<1>4. PICK o \in Operations : pending = <<o>> /\ ~o.onHeap /\ o.req = requests
  BY <1>3 DEF InOperation
<1>5. i = 1 /\ pending[i] = o
  BY <1>1, <1>4
<1>6. pending' = <<>>
  BY <1>1, <1>4, <1>5 DEF RemoveAt
<1> DEFINE h == Handler(o, ec)
<1>7. h \in Handlers /\ ~h.onHeap /\ h.req = requests
  BY <1>4 DEF Handler, Operations, Handlers
<1>8. ready' = <<h>>
  BY <1>1, <1>3, <1>5
<1>9. QED
  BY <1>2, <1>3, <1>6, <1>7, <1>8

----------------------------------------------------------------------------
(* asyncSend takes the object: nobody else has found it free.              *)
LEMMA SendAcceptedStep ==
  ASSUME IInv, OneCaller, NEW c \in Callers, SendAccepted(c)
  PROVE  IInv'
<1>1. /\ cpc[c] = "out" /\ ~m_running /\ cpc' = [cpc EXCEPT ![c] = "start"]
      /\ requests + Cardinality({d \in Callers : cpc[d] = "start"}) < MaxRequests
      /\ UNCHANGED <<m_running, m_in_use, m_timeout, hpc, pending, ready, waits, fired, requests, ends>>
  BY DEF SendAccepted, socketVars, timerVars
<1>2. requests < MaxRequests
  <2>1. {d \in Callers : cpc[d] = "start"} = {}
    BY <1>1 DEF OneCaller
  <2>2. Cardinality({d \in Callers : cpc[d] = "start"}) = 0
    BY <2>1, FS_EmptySet
  <2>3. QED
    BY <1>1, <2>2 DEF IInv, TypeOK
<1>3. TypeOK'
  BY <1>1 DEF IInv, TypeOK
<1>4. Carried'
  BY <1>1 DEF IInv, Carried, Nobody, InOperation, InReady, InThread, Working
<1>5. Starting'
  BY <1>1, <1>2 DEF IInv, Starting
<1>6. Unended'
  BY <1>1 DEF IInv, Unended
<1>7. QED
  BY <1>3, <1>4, <1>5, <1>6 DEF IInv

(* The request is sent: nothing was left of the one before it.             *)
LEMMA SendStartsStep ==
  ASSUME IInv, OneCaller, NEW c \in Callers, SendStarts(c)
  PROVE  IInv'
<1>1. /\ cpc[c] = "start" /\ cpc' = [cpc EXCEPT ![c] = "out"] /\ m_running' = TRUE
      /\ requests' = requests + 1 /\ pending' = Append(pending, Operation("send", requests'))
      /\ m_in_use' = TRUE /\ UNCHANGED <<m_timeout, hpc, ready, waits, fired, ends>>
  BY DEF SendStarts, Post, timerVars
<1>2. m_running = FALSE /\ requests < MaxRequests
  BY <1>1 DEF IInv, TypeOK, Starting
<1>3. m_in_use = FALSE /\ Nobody
  BY <1>2 DEF IInv, Carried, TypeOK
<1>4. requests' \in Requests /\ requests' > requests /\ requests \in 0 .. MaxRequests
  BY <1>1, <1>2, RequestsAssumption DEF IInv, TypeOK, Requests
<1> DEFINE o == Operation("send", requests')
<1>5. o \in Operations /\ ~o.onHeap /\ o.req = requests'
  BY <1>3, <1>4 DEF Operation, Operations
<1> HIDE DEF o
<1>6. pending' = <<o>>
  BY <1>1, <1>3 DEF o, Nobody
<1>7. TypeOK'
  <2>1. pending' \in Seq(Operations)
    BY <1>5, <1>6
  <2>2. cpc' \in [Callers -> {"out", "start"}]
    BY <1>1 DEF IInv, TypeOK
  <2>3. requests' \in 0 .. MaxRequests
    BY <1>4 DEF Requests
  <2>4. QED
    BY <1>1, <2>1, <2>2, <2>3 DEF IInv, TypeOK
<1>8. Carried'
  <2>1. ready' = <<>> /\ Working' = {}
    BY <1>1, <1>3 DEF Nobody, Working
  <2>2. InOperation'
    BY <1>5, <1>6 DEF InOperation
  <2>3. QED
    BY <1>1, <2>1, <2>2 DEF Carried
<1>9. Starting'
  BY <1>1 DEF IInv, TypeOK, Starting, OneCaller
<1>10. Unended'
  <2>1. \A t \in IoThreads : hpc[t].at \notin {"arm", "receive"}
    BY <1>3 DEF Nobody, Working
  <2>2. ends[requests'] = 0
    BY <1>4 DEF IInv, Unended
  <2>3. m_running' => requests' > 0
    BY <1>4 DEF Requests
  <2>4. \A r \in Requests : ends[r] <= 1 /\ (r > requests' => ends[r] = 0)
    <3>1. SUFFICES ASSUME NEW r \in Requests PROVE ends[r] <= 1 /\ (r > requests' => ends[r] = 0)
      OBVIOUS
    <3>2. r > requests' => r > requests
      BY <1>1, <1>4 DEF Requests
    <3>3. QED
      BY <3>2 DEF IInv, Unended
  <2>5. \A t \in IoThreads : hpc[t].at = "abort" =>
          /\ hpc[t].req \in 1 .. requests' /\ ends[hpc[t].req] = 0 /\ hpc[t].req # requests'
          /\ \A u \in IoThreads : hpc[u].at = "abort" /\ hpc[u].req = hpc[t].req => u = t
    <3>1. SUFFICES ASSUME NEW t \in IoThreads, hpc[t].at = "abort"
                   PROVE  /\ hpc[t].req \in 1 .. requests' /\ ends[hpc[t].req] = 0 /\ hpc[t].req # requests'
                          /\ \A u \in IoThreads : hpc[u].at = "abort" /\ hpc[u].req = hpc[t].req => u = t
      OBVIOUS
    <3>2. hpc[t].req \in 1 .. requests
      BY <3>1 DEF IInv, Unended
    <3>3. hpc[t].req \in 1 .. requests' /\ hpc[t].req # requests'
      BY <1>1, <1>4, <3>2
    <3>4. QED
      BY <3>1, <3>3 DEF IInv, Unended
  <2>6. QED
    BY <1>1, <2>1, <2>2, <2>3, <2>4, <2>5 DEF Unended
<1>11. QED
  BY <1>7, <1>8, <1>9, <1>10 DEF IInv

(* The socket is cancelled: the operation becomes a handler to run.        *)
LEMMA CancelKeeps ==
  ASSUME IInv, CancelSocket, UNCHANGED <<m_running, m_in_use, requests>>,
         Working' = Working, \A u \in Working : hpc'[u] = hpc[u]
  PROVE  /\ pending' \in Seq(Operations) /\ ready' \in Seq(Handlers) /\ Carried'
         /\ pending' # <<>> \/ ready' # <<>> => pending # <<>> \/ ready # <<>>
<1>1. CASE pending = <<>>
  <2>1. pending' = pending /\ ready' = ready
    BY <1>1, CancelDoes
  <2>2. Carried'
    BY <2>1 DEF IInv, Carried, Nobody, InOperation, InReady, InThread
  <2>3. QED
    BY <2>1, <2>2 DEF IInv, TypeOK
<1>2. CASE pending # <<>>
  <2>1. m_running = TRUE /\ m_in_use = TRUE /\ Working = {}
    BY <1>2 DEF IInv, TypeOK, Carried, Nobody
  <2>2. PICK h \in Handlers : ready' = <<h>> /\ ~h.onHeap /\ h.req = requests
    BY <1>2, CancelDoes
  <2>3. pending' = <<>> /\ ready' \in Seq(Handlers) /\ pending' \in Seq(Operations)
    BY <2>2, CancelDoes
  <2>4. InReady'
    BY <2>2 DEF InReady
  <2>5. QED
    BY <1>2, <2>1, <2>3, <2>4 DEF Carried
<1>3. QED
  BY <1>1, <1>2

LEMMA cancelStep ==
  ASSUME IInv, cancel
  PROVE  IInv'
<1>1. /\ CancelSocket
      /\ UNCHANGED <<m_running, m_in_use, m_timeout, cpc, hpc, waits, fired, requests, ends>>
  BY DEF cancel, timerVars
<1>2. Working' = Working
  BY <1>1 DEF Working
<1>3. /\ pending' \in Seq(Operations) /\ ready' \in Seq(Handlers) /\ Carried'
      /\ pending' # <<>> \/ ready' # <<>> => pending # <<>> \/ ready # <<>>
  BY <1>1, <1>2, CancelKeeps
<1>4. TypeOK'
  BY <1>1, <1>3 DEF IInv, TypeOK
<1>5. Starting'
  BY <1>1 DEF IInv, Starting
<1>6. Unended'
  BY <1>1, <1>3 DEF IInv, Unended
<1>7. QED
  BY <1>3, <1>4, <1>5, <1>6 DEF IInv

LEMMA CompletesStep ==
  ASSUME IInv, Completes
  PROVE  IInv'
<1>1. UNCHANGED <<m_running, m_in_use, m_timeout, cpc, hpc, waits, fired, requests, ends>>
  BY DEF Completes, timerVars
<1>2. /\ m_running = TRUE /\ m_in_use = TRUE /\ Working = {} /\ pending # <<>> /\ pending' = <<>>
  BY CompletesDoes
<1>3. PICK h \in Handlers : ready' = <<h>> /\ ~h.onHeap /\ h.req = requests
  BY CompletesDoes
<1>4. TypeOK'
  <2>1. pending' \in Seq(Operations) /\ ready' \in Seq(Handlers)
    BY <1>2, <1>3
  <2>2. QED
    BY <1>1, <2>1 DEF IInv, TypeOK
<1>5. Carried'
  <2>1. InReady'
    BY <1>1, <1>3 DEF InReady
  <2>2. Working' = {}
    BY <1>1, <1>2 DEF Working
  <2>3. QED
    BY <1>1, <1>2, <2>1, <2>2 DEF Carried
<1>6. Starting'
  BY <1>1 DEF IInv, Starting
<1>7. Unended'
  BY <1>1, <1>2 DEF IInv, Unended
<1>8. QED
  BY <1>4, <1>5, <1>6, <1>7 DEF IInv

LEMMA TimerExpiresStep ==
  ASSUME IInv, TimerExpires
  PROVE  IInv'
<1>1. PICK r \in waits : waits' = waits \ {r} /\ fired' = fired \cup {[req |-> r, ec |-> "ok"]}
  BY DEF TimerExpires
<1>2. UNCHANGED <<m_running, m_timeout, cpc, hpc, m_in_use, pending, ready, requests, ends>>
  BY DEF TimerExpires, socketVars
<1>3. TypeOK'
  BY <1>1, <1>2 DEF IInv, TypeOK
<1>4. Carried' /\ Starting' /\ Unended'
  BY <1>2 DEF IInv, Carried, Nobody, InOperation, InReady, InThread, Working, Starting, Unended
<1>5. QED
  BY <1>3, <1>4 DEF IInv

----------------------------------------------------------------------------
(* The thread that carries the request on keeps it for the next step.      *)
LEMMA ThreadCarries ==
  ASSUME TypeOK, NEW t \in IoThreads, NEW place \in {"stop", "arm", "receive", "answered"},
         hpc' = [hpc EXCEPT ![t] = At(place, requests)], Working \subseteq {t},
         m_running' = TRUE, m_in_use' = FALSE, pending' = <<>>, ready' = <<>>, requests' = requests
  PROVE  Carried'
<1>1. At(place, requests).at = place /\ At(place, requests).req = requests
  BY DEF At
<1>2. Working' = Working \cup {t} /\ hpc'[t].req = requests
  BY <1>1, WorkingMoves
<1>3. InThread'
  BY <1>2 DEF InThread
<1>4. QED
  BY <1>3 DEF Carried

(* A thread that leaves the request, or never had it, leaves nobody.       *)
LEMMA ThreadLeaves ==
  ASSUME TypeOK, NEW t \in IoThreads, NEW place \in {"idle", "abort", "disarm", "cancel"}, NEW r,
         hpc' = [hpc EXCEPT ![t] = At(place, r)], Working \subseteq {t},
         m_running' = FALSE, m_in_use' = FALSE, pending' = <<>>, ready' = <<>>
  PROVE  Carried'
<1>1. At(place, r).at = place
  BY DEF At
<1>2. Working' = {}
  BY <1>1, WorkingMoves
<1>3. QED
  BY <1>2 DEF Carried, Nobody

(* A thread that is told nothing by its request leaves every place but its *)
(* own as it was.                                                          *)
LEMMA StillUnended ==
  ASSUME IInv, NEW t \in IoThreads, NEW place \in Places, NEW r \in 0 .. MaxRequests,
         hpc' = [hpc EXCEPT ![t] = At(place, r)], place # "abort", ends' = ends, requests' = requests,
         m_running' => m_running,
         pending' # <<>> \/ ready' # <<>> \/ place \in {"arm", "receive"} => ends[requests] = 0
  PROVE  Unended'
<1>1. /\ hpc'[t].at = place /\ hpc'[t].req = r /\ \A u \in IoThreads \ {t} : hpc'[u] = hpc[u]
  BY DEF IInv, TypeOK, At
<1>2. \A u \in IoThreads : hpc'[u].at = "abort" => u # t /\ hpc'[u] = hpc[u]
  BY <1>1
<1>3. \A u \in IoThreads : hpc'[u].at \in {"arm", "receive"} => ends'[requests'] = 0
  BY <1>1 DEF IInv, Unended
<1>4. \A u \in IoThreads : hpc'[u].at = "abort" =>
        /\ hpc'[u].req \in 1 .. requests' /\ ends'[hpc'[u].req] = 0
        /\ m_running' => hpc'[u].req # requests'
        /\ \A v \in IoThreads : hpc'[v].at = "abort" /\ hpc'[v].req = hpc'[u].req => v = u
  BY <1>2 DEF IInv, Unended
<1>5. QED
  BY <1>3, <1>4 DEF IInv, Unended

(* A request is told that it is over by the thread that carries it on.     *)
LEMMA NowEnded ==
  ASSUME IInv, NEW t \in IoThreads, NEW place \in {"stop", "answered", "idle"}, NEW r \in 0 .. MaxRequests,
         hpc' = [hpc EXCEPT ![t] = At(place, r)], UNCHANGED <<m_running, requests>>, m_running = TRUE,
         Working \subseteq {t}, requests \in Requests, ends[requests] = 0,
         ends' = [ends EXCEPT ![requests] = @ + 1], pending' = <<>>, ready' = <<>>
  PROVE  Unended'
<1>1. /\ hpc'[t].at = place /\ \A u \in IoThreads \ {t} : hpc'[u] = hpc[u]
  BY DEF IInv, TypeOK, At
<1>2. \A u \in IoThreads : hpc'[u].at = "abort" => u # t /\ hpc'[u] = hpc[u]
  BY <1>1
<1>3. \A u \in IoThreads : hpc'[u].at \notin {"arm", "receive"}
  BY <1>1 DEF Working
<1>4. \A q \in Requests : ends'[q] = IF q = requests THEN 1 ELSE ends[q]
  BY DEF IInv, TypeOK
<1>5. \A q \in Requests : ends'[q] <= 1 /\ (q > requests => ends'[q] = 0)
  BY <1>4 DEF IInv, Unended, Requests
<1>6. \A u \in IoThreads : hpc'[u].at = "abort" =>
        /\ hpc'[u].req \in 1 .. requests' /\ ends'[hpc'[u].req] = 0 /\ hpc'[u].req # requests'
        /\ \A v \in IoThreads : hpc'[v].at = "abort" /\ hpc'[v].req = hpc'[u].req => v = u
  <2>1. SUFFICES ASSUME NEW u \in IoThreads, hpc'[u].at = "abort"
                 PROVE  /\ hpc'[u].req \in 1 .. requests' /\ ends'[hpc'[u].req] = 0 /\ hpc'[u].req # requests'
                        /\ \A v \in IoThreads : hpc'[v].at = "abort" /\ hpc'[v].req = hpc'[u].req => v = u
    OBVIOUS
  <2>2. /\ hpc[u].at = "abort" /\ hpc'[u] = hpc[u] /\ hpc[u].req \in 1 .. requests
        /\ ends[hpc[u].req] = 0 /\ hpc[u].req # requests
    BY <1>2, <2>1 DEF IInv, Unended
  <2>3. ends'[hpc[u].req] = 0
    BY <1>4, <2>2, RequestsAssumption DEF Requests
  <2>4. QED
    BY <1>2, <2>2, <2>3 DEF IInv, Unended
<1>7. QED
  BY <1>3, <1>5, <1>6 DEF IInv, Unended, Requests

(* A thread that is busy with something else than the request.             *)
LEMMA ThreadAside ==
  ASSUME TypeOK, NEW t \in IoThreads, NEW place \in {"idle", "abort", "disarm", "cancel"},
         NEW r \in 0 .. MaxRequests, hpc[t].at \in {"idle", "abort", "disarm", "cancel"}, hpc' = [hpc EXCEPT ![t] = At(place, r)]
  PROVE  Working' = Working /\ t \notin Working /\ \A u \in Working : hpc'[u] = hpc[u]
<1>1. At(place, r).at = place
  BY DEF At
<1>2. Working' = Working \ {t} /\ \A u \in IoThreads \ {t} : hpc'[u] = hpc[u]
  BY <1>1, WorkingMoves
<1>3. QED
  BY <1>2 DEF Working

(* What a thread does leaves the types and the callers as they were.       *)
LEMMA ThreadTyped ==
  ASSUME IInv, NEW t \in IoThreads, NEW place \in Places, NEW r \in 0 .. MaxRequests,
         hpc' = [hpc EXCEPT ![t] = At(place, r)], UNCHANGED <<m_timeout, cpc, requests>>,
         m_running' \in BOOLEAN, m_running' => m_running, m_in_use' \in BOOLEAN,
         pending' \in Seq(Operations), ready' \in Seq(Handlers),
         waits' \in SUBSET Requests, fired' \in SUBSET [req : Requests, ec : {"ok", "aborted"}],
         ends' \in [Requests -> Nat]
  PROVE  TypeOK' /\ Starting'
<1>1. hpc' \in [IoThreads -> [at : Places, req : 0 .. MaxRequests]]
  BY PlacesAreTyped DEF IInv, TypeOK
<1>2. TypeOK'
  BY <1>1 DEF IInv, TypeOK
<1>3. QED
  BY <1>2 DEF IInv, Starting

LEMMA SendDoneStep ==
  ASSUME IInv, NEW t \in IoThreads, SendDone(t)
  PROVE  IInv'
<1>1. Take(t, "send") /\ UNCHANGED <<m_running, waits, fired>>
  BY DEF SendDone, timerVars
<1>2. /\ m_running = TRUE /\ m_in_use' = FALSE /\ pending' = <<>> /\ ready' = <<>>
      /\ Head(ready).req = requests /\ Working = {} /\ ends[requests] = 0 /\ requests \in Requests
      /\ UNCHANGED <<m_timeout, cpc, requests>>
  BY <1>1, TakeDoes
<1>3. requests \in 0 .. MaxRequests /\ pending' \in Seq(Operations) /\ ready' \in Seq(Handlers)
  BY <1>2 DEF IInv, TypeOK
<1>4. CASE Head(ready).ec = "ok"
  <2>1. PICK place \in {"arm", "receive"} : hpc' = [hpc EXCEPT ![t] = At(place, requests)]
    BY <1>2, <1>4 DEF SendDone, Goes
  <2>2. ends' = ends
    BY <1>4 DEF SendDone
  <2>3. place \in Places /\ place \in {"stop", "arm", "receive", "answered"} /\ place # "abort"
    BY DEF Places
  <2>4. Carried'
    BY <1>1, <1>2, <2>1, <2>3, ThreadCarries DEF IInv
  <2>5. Unended'
    BY <1>1, <1>2, <1>3, <2>1, <2>2, <2>3, StillUnended
  <2>6. TypeOK' /\ Starting'
    <3>1. ends' \in [Requests -> Nat] /\ waits' \in SUBSET Requests /\ fired' \in SUBSET [req : Requests, ec : {"ok", "aborted"}]
      BY <1>1, <2>2 DEF IInv, TypeOK
    <3>2. QED
      BY <1>1, <1>2, <1>3, <2>1, <2>3, <3>1, ThreadTyped
  <2>7. QED
    BY <2>4, <2>5, <2>6 DEF IInv
<1>5. CASE Head(ready).ec # "ok"
  <2>1. hpc' = [hpc EXCEPT ![t] = At("stop", requests)]
    BY <1>2, <1>5 DEF SendDone, Goes
  <2>2. ends' = [ends EXCEPT ![requests] = @ + 1]
    BY <1>2, <1>5 DEF SendDone, Ends
  <2>3. "stop" \in Places
    BY DEF Places
  <2>4. Carried'
    BY <1>1, <1>2, <2>1, ThreadCarries DEF IInv
  <2>5. Unended'
    BY <1>1, <1>2, <1>3, <2>1, <2>2, NowEnded
  <2>6. TypeOK' /\ Starting'
    <3>1. ends' \in [Requests -> Nat] /\ waits' \in SUBSET Requests /\ fired' \in SUBSET [req : Requests, ec : {"ok", "aborted"}]
      BY <1>1, <1>2, <2>2 DEF IInv, TypeOK
    <3>2. QED
      BY <1>1, <1>2, <1>3, <2>1, <2>3, <3>1, ThreadTyped
  <2>7. QED
    BY <2>4, <2>5, <2>6 DEF IInv
<1>6. QED
  BY <1>4, <1>5

LEMMA SendFailedStep ==
  ASSUME IInv, NEW t \in IoThreads, SendFailed(t)
  PROVE  IInv'
<1>1. /\ hpc[t].at = "stop" /\ m_running' = FALSE /\ hpc' = [hpc EXCEPT ![t] = At("idle", 0)]
      /\ UNCHANGED <<m_timeout, cpc, m_in_use, pending, ready, waits, fired, requests, ends>>
  BY DEF SendFailed, Goes, Idle, At, socketVars, timerVars
<1>2. m_in_use = FALSE /\ pending = <<>> /\ ready = <<>> /\ Working = {t}
  BY <1>1, WorkingIsCurrent
<1>3. "idle" \in Places /\ 0 \in 0 .. MaxRequests
  BY RequestsAssumption DEF Places
<1>4. Carried'
  BY <1>1, <1>2, ThreadLeaves DEF IInv
<1>5. Unended'
  BY <1>1, <1>2, <1>3, StillUnended
<1>6. TypeOK' /\ Starting'
  <2>1. /\ m_in_use' \in BOOLEAN /\ pending' \in Seq(Operations) /\ ready' \in Seq(Handlers)
        /\ ends' \in [Requests -> Nat] /\ waits' \in SUBSET Requests /\ fired' \in SUBSET [req : Requests, ec : {"ok", "aborted"}]
    BY <1>1 DEF IInv, TypeOK
  <2>2. QED
    BY <1>1, <1>3, <2>1, ThreadTyped
<1>7. QED
  BY <1>4, <1>5, <1>6 DEF IInv

LEMMA ArmTimerStep ==
  ASSUME IInv, NEW t \in IoThreads, ArmTimer(t)
  PROVE  IInv'
<1>1. /\ hpc[t].at = "arm" /\ fired' = fired \cup CancelledWaits /\ waits' = {hpc[t].req}
      /\ hpc' = [hpc EXCEPT ![t] = At("receive", hpc[t].req)]
      /\ UNCHANGED <<m_running, m_timeout, cpc, m_in_use, pending, ready, requests, ends>>
  BY DEF ArmTimer, Goes, socketVars
<1>2. /\ m_running = TRUE /\ m_in_use = FALSE /\ pending = <<>> /\ ready = <<>> /\ Working = {t}
      /\ hpc[t].req = requests /\ requests \in Requests
  BY <1>1, WorkingIsCurrent
<1>3. "receive" \in Places /\ requests \in 0 .. MaxRequests /\ ends[requests] = 0
  BY <1>1 DEF Places, IInv, TypeOK, Unended
<1>4. Carried'
  BY <1>1, <1>2, ThreadCarries DEF IInv
<1>5. Unended'
  BY <1>1, <1>2, <1>3, StillUnended
<1>6. TypeOK' /\ Starting'
  <2>1. /\ m_in_use' \in BOOLEAN /\ pending' \in Seq(Operations) /\ ready' \in Seq(Handlers)
        /\ ends' \in [Requests -> Nat] /\ waits' \in SUBSET Requests
    BY <1>1, <1>2 DEF IInv, TypeOK
  <2>2. fired' \in SUBSET [req : Requests, ec : {"ok", "aborted"}]
    BY <1>1 DEF IInv, TypeOK, CancelledWaits
  <2>3. m_running' \in BOOLEAN /\ (m_running' => m_running)
    BY <1>1 DEF IInv, TypeOK
  <2>4. hpc' = [hpc EXCEPT ![t] = At("receive", requests)] /\ UNCHANGED <<m_timeout, cpc, requests>>
    BY <1>1, <1>2
  <2>5. QED
    BY <1>3, <2>1, <2>2, <2>3, <2>4, ThreadTyped
<1>7. QED
  BY <1>4, <1>5, <1>6 DEF IInv

LEMMA asyncRecvStep ==
  ASSUME IInv, NEW t \in IoThreads, asyncRecv(t)
  PROVE  IInv'
<1>1. /\ hpc[t].at = "receive" /\ pending' = Append(pending, Operation("recv", hpc[t].req)) /\ m_in_use' = TRUE
      /\ hpc' = [hpc EXCEPT ![t] = At("idle", 0)]
      /\ UNCHANGED <<m_running, m_timeout, cpc, ready, waits, fired, requests, ends>>
  BY DEF asyncRecv, Post, Goes, Idle, At, timerVars
<1>2. /\ m_running = TRUE /\ m_in_use = FALSE /\ pending = <<>> /\ ready = <<>> /\ Working = {t}
      /\ hpc[t].req = requests /\ requests \in Requests
  BY <1>1, WorkingIsCurrent
<1>3. "idle" \in Places /\ 0 \in 0 .. MaxRequests /\ ends[requests] = 0
  BY <1>1, RequestsAssumption DEF Places, IInv, TypeOK, Unended
<1> DEFINE o == Operation("recv", requests)
<1>4. o \in Operations /\ ~o.onHeap /\ o.req = requests
  BY <1>2 DEF Operation, Operations
<1> HIDE DEF o
<1>5. pending' = <<o>>
  BY <1>1, <1>2 DEF o
<1>6. Carried'
  <2>1. At("idle", 0).at = "idle"
    BY DEF At
  <2>2. Working' = {}
    BY <1>1, <1>2, <2>1, WorkingMoves DEF IInv
  <2>3. InOperation'
    BY <1>1, <1>4, <1>5 DEF InOperation
  <2>4. QED
    BY <1>1, <1>2, <2>2, <2>3 DEF Carried
<1>7. Unended'
  BY <1>1, <1>3, StillUnended
<1>8. TypeOK' /\ Starting'
  <2>1. pending' \in Seq(Operations)
    BY <1>4, <1>5
  <2>2. /\ m_in_use' \in BOOLEAN /\ ready' \in Seq(Handlers)
        /\ ends' \in [Requests -> Nat] /\ waits' \in SUBSET Requests /\ fired' \in SUBSET [req : Requests, ec : {"ok", "aborted"}]
    BY <1>1 DEF IInv, TypeOK
  <2>3. m_running' \in BOOLEAN /\ (m_running' => m_running)
    BY <1>1 DEF IInv, TypeOK
  <2>4. QED
    BY <1>1, <1>3, <2>1, <2>2, <2>3, ThreadTyped
<1>9. QED
  BY <1>6, <1>7, <1>8 DEF IInv

LEMMA RecvAbortedStep ==
  ASSUME IInv, NEW t \in IoThreads, RecvAborted(t)
  PROVE  IInv'
<1>1. Take(t, "recv") /\ m_running' = FALSE /\ UNCHANGED <<waits, fired, ends>>
  BY DEF RecvAborted, timerVars
<1>2. /\ m_running = TRUE /\ m_in_use' = FALSE /\ pending' = <<>> /\ ready' = <<>>
      /\ Head(ready).req = requests /\ Working = {} /\ ends[requests] = 0 /\ requests \in Requests
      /\ UNCHANGED <<m_timeout, cpc, requests>>
  BY <1>1, TakeDoes
<1>3. hpc' = [hpc EXCEPT ![t] = At("abort", requests)]
  BY <1>2 DEF RecvAborted, Goes
<1>4. "abort" \in Places /\ requests \in 0 .. MaxRequests
  BY DEF Places, IInv, TypeOK
<1>5. Carried'
  BY <1>1, <1>2, <1>3, ThreadLeaves DEF IInv
<1>6. Unended'
  <2>1. /\ hpc'[t].at = "abort" /\ hpc'[t].req = requests /\ \A u \in IoThreads \ {t} : hpc'[u] = hpc[u]
    BY <1>3 DEF IInv, TypeOK, At
  <2>2. \A u \in IoThreads \ {t} : hpc'[u].at = "abort" =>
          /\ hpc[u].at = "abort" /\ hpc'[u].req = hpc[u].req /\ hpc[u].req # requests
          /\ hpc[u].req \in 1 .. requests /\ ends[hpc[u].req] = 0
    BY <1>2, <2>1 DEF IInv, Unended
  <2>3. \A u \in IoThreads : hpc'[u].at = "abort" =>
          /\ hpc'[u].req \in 1 .. requests /\ ends[hpc'[u].req] = 0
          /\ \A v \in IoThreads : hpc'[v].at = "abort" /\ hpc'[v].req = hpc'[u].req => v = u
    <3>1. requests \in 1 .. requests
      BY <1>2, RequestsAssumption DEF Requests
    <3>2. \A u, v \in IoThreads : hpc'[u].at = "abort" /\ hpc'[v].at = "abort" /\ hpc'[v].req = hpc'[u].req => v = u
      BY <2>1, <2>2 DEF IInv, Unended
    <3>3. QED
      BY <1>2, <2>1, <2>2, <3>1, <3>2
  <2>4. \A u \in IoThreads : hpc'[u].at \in {"arm", "receive"} => ends[requests] = 0
    BY <1>2
  <2>5. QED
    BY <1>1, <1>2, <2>3, <2>4 DEF IInv, Unended
<1>7. TypeOK' /\ Starting'
  <2>1. /\ pending' \in Seq(Operations) /\ ready' \in Seq(Handlers)
        /\ ends' \in [Requests -> Nat] /\ waits' \in SUBSET Requests /\ fired' \in SUBSET [req : Requests, ec : {"ok", "aborted"}]
    BY <1>1, <1>2 DEF IInv, TypeOK
  <2>2. QED
    BY <1>1, <1>2, <1>3, <1>4, <2>1, ThreadTyped
<1>8. QED
  BY <1>5, <1>6, <1>7 DEF IInv

LEMMA RecvDoneStep ==
  ASSUME IInv, NEW t \in IoThreads, RecvDone(t)
  PROVE  IInv'
<1>1. Take(t, "recv") /\ UNCHANGED <<m_running, waits, fired>>
  BY DEF RecvDone, timerVars
<1>2. /\ m_running = TRUE /\ m_in_use' = FALSE /\ pending' = <<>> /\ ready' = <<>>
      /\ Head(ready).req = requests /\ Working = {} /\ ends[requests] = 0 /\ requests \in Requests
      /\ UNCHANGED <<m_timeout, cpc, requests>>
  BY <1>1, TakeDoes
<1>3. requests \in 0 .. MaxRequests /\ pending' \in Seq(Operations) /\ ready' \in Seq(Handlers)
  BY <1>2 DEF IInv, TypeOK
<1>4. PICK place \in {"receive", "answered"} : hpc' = [hpc EXCEPT ![t] = At(place, requests)] /\
         \/ place = "answered" /\ ends' = [ends EXCEPT ![requests] = @ + 1]
         \/ place = "receive" /\ ends' = ends
  BY <1>2 DEF RecvDone, Goes, Ends
<1>5. place \in Places /\ place # "abort"
  BY DEF Places
<1>6. Carried'
  BY <1>1, <1>2, <1>4, ThreadCarries DEF IInv
<1>7. Unended'
  <2>1. CASE ends' = ends
    BY <1>1, <1>2, <1>3, <1>4, <1>5, <2>1, StillUnended
  <2>2. CASE place = "answered" /\ ends' = [ends EXCEPT ![requests] = @ + 1]
    BY <1>1, <1>2, <1>3, <1>4, <2>2, NowEnded
  <2>3. QED
    BY <1>4, <2>1, <2>2
<1>8. TypeOK' /\ Starting'
  <2>1. ends' \in [Requests -> Nat] /\ waits' \in SUBSET Requests /\ fired' \in SUBSET [req : Requests, ec : {"ok", "aborted"}]
    BY <1>1, <1>2, <1>4 DEF IInv, TypeOK
  <2>2. QED
    BY <1>1, <1>2, <1>3, <1>4, <1>5, <2>1, ThreadTyped
<1>9. QED
  BY <1>6, <1>7, <1>8 DEF IInv

LEMMA AnsweredStep ==
  ASSUME IInv, NEW t \in IoThreads, Answered(t)
  PROVE  IInv'
<1>1. /\ hpc[t].at = "answered" /\ m_running' = FALSE /\ hpc' = [hpc EXCEPT ![t] = At("disarm", hpc[t].req)]
      /\ UNCHANGED <<m_timeout, cpc, m_in_use, pending, ready, waits, fired, requests, ends>>
  BY DEF Answered, Goes, socketVars, timerVars
<1>2. m_in_use = FALSE /\ pending = <<>> /\ ready = <<>> /\ Working = {t} /\ hpc[t].req = requests
  BY <1>1, WorkingIsCurrent
<1>3. "disarm" \in Places /\ requests \in 0 .. MaxRequests
  BY DEF Places, IInv, TypeOK
<1>4. Carried'
  BY <1>1, <1>2, ThreadLeaves DEF IInv
<1>5. Unended'
  BY <1>1, <1>2, <1>3, StillUnended
<1>6. TypeOK' /\ Starting'
  <2>1. /\ m_in_use' \in BOOLEAN /\ pending' \in Seq(Operations) /\ ready' \in Seq(Handlers)
        /\ ends' \in [Requests -> Nat] /\ waits' \in SUBSET Requests /\ fired' \in SUBSET [req : Requests, ec : {"ok", "aborted"}]
    BY <1>1 DEF IInv, TypeOK
  <2>2. QED
    BY <1>1, <1>2, <1>3, <2>1, ThreadTyped
<1>7. QED
  BY <1>4, <1>5, <1>6 DEF IInv

LEMMA CancelTimerStep ==
  ASSUME IInv, NEW t \in IoThreads, CancelTimer(t)
  PROVE  IInv'
<1>1. /\ hpc[t].at \in {"disarm", "abort"} /\ fired' = fired \cup CancelledWaits /\ waits' = {}
      /\ hpc' = [hpc EXCEPT ![t] = At("idle", 0)]
      /\ UNCHANGED <<m_running, m_timeout, cpc, m_in_use, pending, ready, requests>>
  BY DEF CancelTimer, Goes, Idle, At, socketVars
<1>2. ends' = IF hpc[t].at = "abort" THEN [ends EXCEPT ![hpc[t].req] = @ + 1] ELSE ends
  BY DEF CancelTimer, Ends
<1>3. "idle" \in Places /\ 0 \in 0 .. MaxRequests
  BY RequestsAssumption DEF Places
<1>4. Working' = Working /\ \A u \in Working : hpc'[u] = hpc[u]
  <2>1. TypeOK /\ hpc[t].at \in {"idle", "abort", "disarm", "cancel"}
    BY <1>1 DEF IInv
  <2>2. QED
    BY <1>1, <1>3, <2>1, ThreadAside
<1>5. Carried'
  BY <1>1, <1>4 DEF IInv, Carried, Nobody, InOperation, InReady, InThread
<1>6. ASSUME hpc[t].at = "disarm"
      PROVE  Unended' /\ ends' \in [Requests -> Nat]
  <2>1. ends' = ends
    BY <1>2, <1>6
  <2>2. pending' # <<>> \/ ready' # <<>> => ends[requests] = 0
    BY <1>1 DEF IInv, Unended
  <2>3. Unended'
    BY <1>1, <1>3, <2>1, <2>2, StillUnended
  <2>4. QED
    BY <2>1, <2>3 DEF IInv, TypeOK
<1>7. ASSUME hpc[t].at = "abort"
      PROVE  Unended' /\ ends' \in [Requests -> Nat]
  <2> DEFINE q == hpc[t].req
  <2>1. /\ q \in 1 .. requests /\ ends[q] = 0 /\ (m_running => q # requests)
        /\ \A u \in IoThreads : hpc[u].at = "abort" /\ hpc[u].req = q => u = t
    BY <1>7 DEF IInv, Unended
  <2>2. q \in Requests /\ requests \in 0 .. MaxRequests
    BY <2>1, RequestsAssumption DEF IInv, TypeOK, Requests
  <2>3. ends' = [ends EXCEPT ![q] = @ + 1]
    BY <1>2, <1>7
  <2> HIDE DEF q
  <2>4. ends' \in [Requests -> Nat] /\ \A r \in Requests : ends'[r] = IF r = q THEN 1 ELSE ends[r]
    BY <2>1, <2>2, <2>3 DEF IInv, TypeOK
  <2>5. \A r \in Requests : ends'[r] <= 1 /\ (r > requests => ends'[r] = 0)
    <3>1. SUFFICES ASSUME NEW r \in Requests PROVE ends'[r] <= 1 /\ (r > requests => ends'[r] = 0)
      OBVIOUS
    <3>2. r = q => ~(r > requests)
      BY <2>1, <2>2
    <3>3. QED
      BY <2>4, <3>2 DEF IInv, Unended
  <2>6. m_running /\ ends[requests] = 0 => ends'[requests] = 0
    <3>1. SUFFICES ASSUME m_running, ends[requests] = 0 PROVE ends'[requests] = 0
      OBVIOUS
    <3>2. requests \in Requests /\ requests # q
      BY <2>1, <2>2, <3>1 DEF Requests
    <3>3. QED
      BY <2>4, <3>1, <3>2
  <2>7. pending # <<>> \/ ready # <<>> => m_running /\ ends[requests] = 0
    BY DEF IInv, Unended, Carried, Nobody
  <2>8. /\ hpc'[t].at = "idle" /\ \A u \in IoThreads \ {t} : hpc'[u] = hpc[u]
    BY <1>1 DEF IInv, TypeOK, At
  <2>9. \A u \in IoThreads : hpc'[u].at \in {"arm", "receive"} => m_running /\ ends[requests] = 0
    <3>1. SUFFICES ASSUME NEW u \in IoThreads, hpc'[u].at \in {"arm", "receive"}
                   PROVE  m_running /\ ends[requests] = 0
      OBVIOUS
    <3>2. hpc[u].at \in {"arm", "receive"}
      BY <2>8, <3>1
    <3>3. m_running
      BY <3>2, WorkingIsCurrent
    <3>4. QED
      BY <3>2, <3>3 DEF IInv, Unended
  <2>10. \A u \in IoThreads : hpc'[u].at = "abort" =>
          /\ hpc'[u].req \in 1 .. requests /\ ends'[hpc'[u].req] = 0
          /\ m_running => hpc'[u].req # requests
          /\ \A v \in IoThreads : hpc'[v].at = "abort" /\ hpc'[v].req = hpc'[u].req => v = u
    <3>1. SUFFICES ASSUME NEW u \in IoThreads, hpc'[u].at = "abort"
                   PROVE  /\ hpc'[u].req \in 1 .. requests /\ ends'[hpc'[u].req] = 0
                          /\ m_running => hpc'[u].req # requests
                          /\ \A v \in IoThreads : hpc'[v].at = "abort" /\ hpc'[v].req = hpc'[u].req => v = u
      OBVIOUS
    <3>2. u # t /\ hpc'[u] = hpc[u] /\ hpc[u].at = "abort"
      BY <2>8, <3>1
    <3>3. /\ hpc[u].req \in 1 .. requests /\ ends[hpc[u].req] = 0 /\ (m_running => hpc[u].req # requests)
          /\ \A v \in IoThreads : hpc[v].at = "abort" /\ hpc[v].req = hpc[u].req => v = u
      BY <3>2 DEF IInv, Unended
    <3>4. hpc[u].req # q
      BY <2>1, <3>2
    <3>5. hpc[u].req \in Requests
      BY <2>2, <3>3, RequestsAssumption DEF Requests
    <3>6. ends'[hpc[u].req] = 0
      BY <2>4, <3>3, <3>4, <3>5
    <3>7. \A v \in IoThreads : hpc'[v].at = "abort" => v # t /\ hpc'[v] = hpc[v]
      BY <2>8
    <3>8. QED
      BY <3>2, <3>3, <3>6, <3>7
  <2>11. m_running => requests > 0
    BY DEF IInv, Unended
  <2>12. Unended'
    BY <1>1, <2>5, <2>6, <2>7, <2>9, <2>10, <2>11 DEF Unended
  <2>13. QED
    BY <2>4, <2>12
<1>8. TypeOK' /\ Starting'
  <2>1. /\ m_in_use' \in BOOLEAN /\ pending' \in Seq(Operations) /\ ready' \in Seq(Handlers)
        /\ ends' \in [Requests -> Nat] /\ waits' \in SUBSET Requests
    BY <1>1, <1>6, <1>7 DEF IInv, TypeOK
  <2>2. fired' \in SUBSET [req : Requests, ec : {"ok", "aborted"}]
    BY <1>1 DEF IInv, TypeOK, CancelledWaits
  <2>3. m_running' \in BOOLEAN /\ (m_running' => m_running)
    BY <1>1 DEF IInv, TypeOK
  <2>4. QED
    BY <1>1, <1>3, <2>1, <2>2, <2>3, ThreadTyped
<1>9. QED
  BY <1>1, <1>5, <1>6, <1>7, <1>8 DEF IInv

LEMMA TimerHandlerStep ==
  ASSUME IInv, NEW t \in IoThreads, TimerHandler(t)
  PROVE  IInv'
<1>1. /\ hpc[t] = Idle
      /\ UNCHANGED <<m_running, m_timeout, cpc, m_in_use, pending, ready, waits, requests, ends>>
  BY DEF TimerHandler, socketVars
<1>2. PICK w \in fired :
        /\ fired' = fired \ {w}
        /\ Goes(t, IF w.ec = "ok" /\ m_running THEN At("cancel", w.req) ELSE Idle)
  BY DEF TimerHandler
<1>3. w.req \in 0 .. MaxRequests /\ 0 \in 0 .. MaxRequests
  BY RequestsAssumption DEF IInv, TypeOK, Requests
<1>4. PICK place \in {"idle", "cancel"}, r \in 0 .. MaxRequests : hpc' = [hpc EXCEPT ![t] = At(place, r)]
  BY <1>2, <1>3 DEF Goes, Idle, At
<1>5. place \in Places /\ place # "abort" /\ hpc[t].at = "idle"
  BY <1>1 DEF Places, Idle
<1>6. Working' = Working /\ \A u \in Working : hpc'[u] = hpc[u]
  <2>1. TypeOK /\ hpc[t].at \in {"idle", "abort", "disarm", "cancel"}
    BY <1>4, <1>5 DEF IInv
  <2>2. QED
    BY <1>4, <1>5, <2>1, ThreadAside
<1>7. Carried'
  BY <1>1, <1>6 DEF IInv, Carried, Nobody, InOperation, InReady, InThread
<1>8. Unended'
  <2>1. pending' # <<>> \/ ready' # <<>> => ends[requests] = 0
    BY <1>1 DEF IInv, Unended
  <2>2. QED
    BY <1>1, <1>4, <1>5, <2>1, StillUnended
<1>9. TypeOK' /\ Starting'
  <2>1. /\ m_in_use' \in BOOLEAN /\ pending' \in Seq(Operations) /\ ready' \in Seq(Handlers)
        /\ ends' \in [Requests -> Nat] /\ waits' \in SUBSET Requests
        /\ fired' \in SUBSET [req : Requests, ec : {"ok", "aborted"}]
    BY <1>1, <1>2 DEF IInv, TypeOK
  <2>2. m_running' \in BOOLEAN /\ (m_running' => m_running)
    BY <1>1 DEF IInv, TypeOK
  <2>3. QED
    BY <1>1, <1>4, <1>5, <2>1, <2>2, ThreadTyped
<1>10. QED
  BY <1>7, <1>8, <1>9 DEF IInv

LEMMA TimerCancelsStep ==
  ASSUME IInv, NEW t \in IoThreads, TimerCancels(t)
  PROVE  IInv'
<1>1. /\ hpc[t].at = "cancel" /\ CancelSocket /\ hpc' = [hpc EXCEPT ![t] = At("idle", 0)]
      /\ UNCHANGED <<m_running, m_in_use, m_timeout, cpc, waits, fired, requests, ends>>
  BY DEF TimerCancels, Goes, Idle, At, timerVars
<1>2. "idle" \in Places /\ 0 \in 0 .. MaxRequests
  BY RequestsAssumption DEF Places
<1>3. Working' = Working /\ \A u \in Working : hpc'[u] = hpc[u]
  <2>1. TypeOK /\ hpc[t].at \in {"idle", "abort", "disarm", "cancel"}
    BY <1>1 DEF IInv
  <2>2. QED
    BY <1>1, <1>2, <2>1, ThreadAside
<1>4. /\ pending' \in Seq(Operations) /\ ready' \in Seq(Handlers) /\ Carried'
      /\ pending' # <<>> \/ ready' # <<>> => pending # <<>> \/ ready # <<>>
  BY <1>1, <1>3, CancelKeeps
<1>5. Unended'
  <2>1. pending' # <<>> \/ ready' # <<>> => ends[requests] = 0
    BY <1>4 DEF IInv, Unended
  <2>2. QED
    BY <1>1, <1>2, <2>1, StillUnended
<1>6. TypeOK' /\ Starting'
  <2>1. /\ m_in_use' \in BOOLEAN /\ ends' \in [Requests -> Nat] /\ waits' \in SUBSET Requests
        /\ fired' \in SUBSET [req : Requests, ec : {"ok", "aborted"}]
        /\ m_running' \in BOOLEAN /\ (m_running' => m_running)
    BY <1>1 DEF IInv, TypeOK
  <2>2. QED
    BY <1>1, <1>2, <1>4, <2>1, ThreadTyped
<1>7. QED
  BY <1>4, <1>5, <1>6 DEF IInv

----------------------------------------------------------------------------
(* Nothing runs, nobody has called.                                        *)
LEMMA InitIInv == Init => IInv
<1>1. SUFFICES ASSUME Init PROVE IInv
  OBVIOUS
<1>2. /\ m_running = FALSE /\ m_in_use = FALSE /\ m_timeout \in BOOLEAN
      /\ cpc = [c \in Callers |-> "out"] /\ hpc = [t \in IoThreads |-> At("idle", 0)]
      /\ pending = <<>> /\ ready = <<>> /\ waits = {} /\ fired = {} /\ requests = 0
      /\ ends = [r \in Requests |-> 0]
  BY <1>1 DEF Init, Idle, At
<1>3. At("idle", 0) \in [at : Places, req : 0 .. MaxRequests] /\ At("idle", 0).at = "idle"
  BY RequestsAssumption DEF Places, At
<1>4. TypeOK
  <2>1. pending \in Seq(Operations) /\ ready \in Seq(Handlers)
    BY <1>2
  <2>2. hpc \in [IoThreads -> [at : Places, req : 0 .. MaxRequests]]
    BY <1>2, <1>3
  <2>3. /\ cpc \in [Callers -> {"out", "start"}] /\ ends \in [Requests -> Nat]
        /\ requests \in 0 .. MaxRequests
    BY <1>2, RequestsAssumption
  <2>4. QED
    BY <1>2, <2>1, <2>2, <2>3 DEF TypeOK
<1>5. Carried
  BY <1>2, <1>3 DEF Carried, Nobody, Working
<1>6. Starting
  BY <1>2 DEF Starting
<1>7. Unended
  BY <1>2, <1>3 DEF Unended
<1>8. QED
  BY <1>4, <1>5, <1>6, <1>7 DEF IInv

(* A step of any thread keeps the invariant.                               *)
LEMMA StepIInv == ASSUME IInv, OneCaller, [Next]_vars PROVE IInv'
<1>1. ASSUME NEW c \in Callers, SendAccepted(c) \/ SendStarts(c)
      PROVE  IInv'
  BY <1>1, SendAcceptedStep, SendStartsStep
<1>2. ASSUME NEW t \in IoThreads, Io(t)
      PROVE  IInv'
  BY <1>2, SendDoneStep, SendFailedStep, ArmTimerStep, asyncRecvStep, RecvAbortedStep, RecvDoneStep,
     AnsweredStep, CancelTimerStep, TimerHandlerStep, TimerCancelsStep DEF Io
<1>3. CASE UNCHANGED vars
  BY <1>3 DEF vars, socketVars, timerVars, IInv, TypeOK, Carried, Nobody, InOperation, InReady, InThread,
     Working, Starting, Unended
<1>4. QED
  BY <1>1, <1>2, <1>3, cancelStep, CompletesStep, TimerExpiresStep DEF Next

(* What keeps one request at a time going, for one caller.                 *)
THEOREM Invariance == ASSUME OneCaller PROVE Spec => []IInv
<1>1. OneCaller
  OBVIOUS
<1>2. IInv /\ [Next]_vars => IInv'
  BY <1>1, StepIInv
<1>3. QED
  BY <1>2, InitIInv, PTL DEF Spec

(* Every variable always holds a value of its type, for one caller.        *)
THEOREM TypeCorrect == ASSUME OneCaller PROVE Spec => []TypeOK
<1>1. IInv => TypeOK
  BY DEF IInv
<1>2. QED
  BY <1>1, Invariance, PTL

(* One caller's request has one operation, handler or thread that carries  *)
(* it on, and the storage for one handler is enough: OneOperation of       *)
(* UdpSender.                                                              *)
THEOREM OneAtATime == ASSUME OneCaller PROVE Spec => []OneOperation
<1>1. IInv => OneOperation
  <2>1. SUFFICES ASSUME IInv PROVE OneOperation
    OBVIOUS
  <2>2. Cardinality({}) = 0 /\ \A t : Cardinality({t}) = 1
    BY FS_EmptySet, FS_Singleton
  <2>3. m_in_use \in BOOLEAN /\ m_running \in BOOLEAN
    BY <2>1 DEF IInv, TypeOK
  <2>4. CASE ~m_running /\ ~m_in_use /\ Nobody
    BY <2>2, <2>4 DEF OneOperation, Nobody
  <2>5. CASE m_running /\ m_in_use /\ ready = <<>> /\ Working = {} /\ InOperation
    <3>1. PICK o \in Operations : pending = <<o>> /\ ~o.onHeap
      BY <2>5 DEF InOperation
    <3>2. Len(pending) = 1 /\ Len(ready) = 0 /\ Cardinality(Working) = 0
      BY <2>2, <2>5, <3>1
    <3>3. \A i \in DOMAIN pending : ~pending[i].onHeap
      BY <3>1
    <3>4. QED
      BY <2>5, <3>2, <3>3 DEF OneOperation
  <2>6. CASE m_running /\ m_in_use /\ pending = <<>> /\ Working = {} /\ InReady
    <3>1. Len(pending) = 0 /\ Len(ready) = 1 /\ Cardinality(Working) = 0
      BY <2>2, <2>6 DEF InReady
    <3>2. QED
      BY <2>6, <3>1 DEF OneOperation
  <2>7. CASE m_running /\ ~m_in_use /\ pending = <<>> /\ ready = <<>> /\ InThread
    <3>1. Len(pending) = 0 /\ Len(ready) = 0 /\ Cardinality(Working) = 1
      BY <2>2, <2>7 DEF InThread
    <3>2. QED
      BY <2>7, <3>1 DEF OneOperation
  <2>8. QED
    BY <2>1, <2>4, <2>5, <2>6, <2>7 DEF IInv, Carried
<1>2. QED
  BY <1>1, Invariance, PTL

----------------------------------------------------------------------------
(* Who has heard: every accepted request but the one that runs has been    *)
(* told or has a thread that is about to tell it, and a thread stops the   *)
(* current request only after it has told it.                              *)
Heard ==
  /\ \A r \in 1 .. requests : ends[r] = 1 \/ (r = requests /\ m_running) \/ Aborting(r)
  /\ \A t \in IoThreads : hpc[t].at \in {"stop", "answered"} => ends[hpc[t].req] = 1

(* A thread that tells nobody anything and had nobody to tell.             *)
LEMMA NobodyHears ==
  ASSUME IInv, Heard, NEW t \in IoThreads, NEW place \in Places, NEW q \in 0 .. MaxRequests,
         hpc' = [hpc EXCEPT ![t] = At(place, q)], hpc[t].at # "abort", place \notin {"stop", "answered"},
         UNCHANGED <<m_running, requests, ends>>
  PROVE  Heard'
<1>1. hpc'[t].at = place /\ \A u \in IoThreads \ {t} : hpc'[u] = hpc[u]
  BY DEF IInv, TypeOK, At
<1>2. \A r \in 1 .. requests : Aborting(r) => Aborting(r)'
  <2>1. SUFFICES ASSUME NEW r \in 1 .. requests, Aborting(r) PROVE Aborting(r)'
    OBVIOUS
  <2>2. PICK u \in IoThreads : hpc[u] = At("abort", r)
    BY <2>1 DEF Aborting
  <2>3. u # t
    BY <2>2 DEF At
  <2>4. hpc'[u] = At("abort", r)
    BY <1>1, <2>2, <2>3
  <2>5. QED
    BY <2>4 DEF Aborting
<1>3. \A u \in IoThreads : hpc'[u].at \in {"stop", "answered"} => ends'[hpc'[u].req] = 1
  BY <1>1 DEF Heard
<1>4. QED
  BY <1>2, <1>3 DEF Heard

(* A thread tells a request, and stops it next or goes away.               *)
LEMMA OneHears ==
  ASSUME IInv, Heard, NEW t \in IoThreads, NEW place \in {"stop", "answered", "idle"}, NEW q \in 0 .. MaxRequests,
         hpc' = [hpc EXCEPT ![t] = At(place, q)], NEW r \in Requests, ends[r] = 0,
         ends' = [ends EXCEPT ![r] = @ + 1], place # "idle" => q = r,
         hpc[t].at = "abort" => hpc[t].req = r, UNCHANGED <<m_running, requests>>
  PROVE  Heard'
<1>1. hpc'[t].at = place /\ hpc'[t].req = q /\ \A u \in IoThreads \ {t} : hpc'[u] = hpc[u]
  BY DEF IInv, TypeOK, At
<1>2. \A p \in Requests : ends'[p] = IF p = r THEN 1 ELSE ends[p]
  BY DEF IInv, TypeOK
<1>3. 1 .. requests \subseteq Requests
  BY RequestsAssumption DEF IInv, TypeOK, Requests
<1>4. \A p \in 1 .. requests : ends'[p] = 1 \/ (p = requests /\ m_running) \/ Aborting(p)'
  <2>1. SUFFICES ASSUME NEW p \in 1 .. requests, p # r, ends[p] # 1, ~(p = requests /\ m_running)
                 PROVE  Aborting(p)'
    BY <1>2, <1>3
  <2>2. PICK u \in IoThreads : hpc[u] = At("abort", p)
    BY <2>1 DEF Heard, Aborting
  <2>3. hpc[u].at = "abort" /\ hpc[u].req = p
    BY <2>2 DEF At
  <2>4. u # t
    BY <2>1, <2>3
  <2>5. hpc'[u] = At("abort", p)
    BY <1>1, <2>2, <2>4
  <2>6. QED
    BY <2>5 DEF Aborting
<1>5. \A u \in IoThreads : hpc'[u].at \in {"stop", "answered"} => ends'[hpc'[u].req] = 1
  <2>1. SUFFICES ASSUME NEW u \in IoThreads, hpc'[u].at \in {"stop", "answered"}
                 PROVE  ends'[hpc'[u].req] = 1
    OBVIOUS
  <2>2. CASE u = t
    BY <1>1, <1>2, <2>1, <2>2
  <2>3. CASE u # t
    <3>1. hpc'[u] = hpc[u] /\ hpc[u].at \in {"stop", "answered"} /\ ends[hpc[u].req] = 1
      BY <1>1, <2>1, <2>3 DEF Heard
    <3>2. hpc[u].at \in {"stop", "arm", "receive", "answered"}
      BY <3>1
    <3>3. hpc[u].req \in Requests
      BY <3>2, WorkingIsCurrent
    <3>4. QED
      BY <1>2, <3>1, <3>3
  <2>4. QED
    BY <2>2, <2>3
<1>6. QED
  BY <1>4, <1>5 DEF Heard

(* The current request is stopped: it has been told, or will be next.      *)
LEMMA OneStops ==
  ASSUME IInv, Heard, NEW t \in IoThreads, NEW place \in {"idle", "disarm", "abort"}, NEW q \in 0 .. MaxRequests,
         hpc' = [hpc EXCEPT ![t] = At(place, q)], hpc[t].at # "abort",
         ends[requests] = 1 \/ (place = "abort" /\ q = requests),
         UNCHANGED <<requests, ends>>
  PROVE  Heard'
<1>1. hpc'[t] = At(place, q) /\ hpc'[t].at = place /\ \A u \in IoThreads \ {t} : hpc'[u] = hpc[u]
  BY DEF IInv, TypeOK, At
<1>2. \A p \in 1 .. requests : ends[p] = 1 \/ Aborting(p)'
  <2>1. SUFFICES ASSUME NEW p \in 1 .. requests, ends[p] # 1 PROVE Aborting(p)'
    OBVIOUS
  <2>2. CASE p = requests
    BY <1>1, <2>1, <2>2 DEF Aborting
  <2>3. CASE p # requests
    <3>1. PICK u \in IoThreads : hpc[u] = At("abort", p)
      BY <2>1, <2>3 DEF Heard, Aborting
    <3>2. u # t
      BY <3>1 DEF At
    <3>3. hpc'[u] = At("abort", p)
      BY <1>1, <3>1, <3>2
    <3>4. QED
      BY <3>3 DEF Aborting
  <2>4. QED
    BY <2>2, <2>3
<1>3. \A u \in IoThreads : hpc'[u].at \in {"stop", "answered"} => ends'[hpc'[u].req] = 1
  BY <1>1 DEF Heard
<1>4. QED
  BY <1>2, <1>3 DEF Heard

LEMMA StepHeard == ASSUME IInv, Heard, OneCaller, [Next]_vars PROVE Heard'
<1> USE DEF Places
<1>1. 0 \in 0 .. MaxRequests /\ requests \in 0 .. MaxRequests /\ \A t \in IoThreads : hpc[t].req \in 0 .. MaxRequests
      /\ Idle.at # "abort"
  BY RequestsAssumption DEF IInv, TypeOK, Idle
<1>2. ASSUME NEW c \in Callers, SendStarts(c)
      PROVE  Heard'
  <2>1. requests' = requests + 1 /\ m_running' = TRUE /\ UNCHANGED <<hpc, ends>> /\ m_running = FALSE
    BY <1>2 DEF SendStarts, IInv, TypeOK, Starting
  <2>2. \A r \in 1 .. requests' : r \in 1 .. requests \/ r = requests'
    BY <1>1, <2>1
  <2>3. QED
    BY <2>1, <2>2 DEF Heard, Aborting
<1>3. ASSUME NEW t \in IoThreads, SendDone(t)
      PROVE  Heard'
  <2>1. /\ Take(t, "send") /\ UNCHANGED m_running
    BY <1>3 DEF SendDone
  <2>2. /\ Head(ready).req = requests /\ hpc[t].at # "abort" /\ ends[requests] = 0
        /\ requests \in Requests /\ UNCHANGED requests
    BY <1>1, <2>1, TakeDoes
  <2>3. CASE Head(ready).ec = "ok"
    <3>1. PICK place \in {"arm", "receive"} : hpc' = [hpc EXCEPT ![t] = At(place, requests)] /\ ends' = ends
      BY <1>3, <2>2, <2>3 DEF SendDone, Goes
    <3>2. QED
      BY <1>1, <2>1, <2>2, <3>1, NobodyHears
  <2>4. CASE Head(ready).ec # "ok"
    <3>1. hpc' = [hpc EXCEPT ![t] = At("stop", requests)] /\ ends' = [ends EXCEPT ![requests] = @ + 1]
      BY <1>3, <2>2, <2>4 DEF SendDone, Goes, Ends
    <3>2. QED
      BY <1>1, <2>1, <2>2, <3>1, OneHears
  <2>5. QED
    BY <2>3, <2>4
<1>4. ASSUME NEW t \in IoThreads, SendFailed(t) \/ Answered(t)
      PROVE  Heard'
  <2>1. /\ hpc[t].at \in {"stop", "answered"} /\ UNCHANGED <<requests, ends>>
        /\ \E place \in {"idle", "disarm"}, q \in 0 .. MaxRequests : hpc' = [hpc EXCEPT ![t] = At(place, q)]
    BY <1>1, <1>4 DEF SendFailed, Answered, Goes, Idle, At
  <2>2. ends[requests] = 1
    BY <2>1, WorkingIsCurrent DEF Heard
  <2>3. QED
    BY <2>1, <2>2, OneStops
<1>5. ASSUME NEW t \in IoThreads, ArmTimer(t) \/ asyncRecv(t) \/ TimerCancels(t)
      PROVE  Heard'
  <2>1. /\ hpc[t].at # "abort" /\ UNCHANGED <<m_running, requests, ends>>
        /\ \E place \in {"receive", "idle"}, q \in 0 .. MaxRequests : hpc' = [hpc EXCEPT ![t] = At(place, q)]
    BY <1>1, <1>5 DEF ArmTimer, asyncRecv, TimerCancels, Goes, Idle, At
  <2>2. QED
    BY <2>1, NobodyHears
<1>6. ASSUME NEW t \in IoThreads, RecvAborted(t)
      PROVE  Heard'
  <2>1. Take(t, "recv") /\ UNCHANGED ends
    BY <1>6 DEF RecvAborted
  <2>2. m_running /\ Head(ready).req = requests /\ hpc[t].at # "abort" /\ UNCHANGED requests
    BY <1>1, <2>1, TakeDoes
  <2>3. hpc' = [hpc EXCEPT ![t] = At("abort", requests)]
    BY <1>6, <2>2 DEF RecvAborted, Goes
  <2>4. QED
    BY <1>1, <2>1, <2>2, <2>3, OneStops
<1>7. ASSUME NEW t \in IoThreads, RecvDone(t)
      PROVE  Heard'
  <2>1. Take(t, "recv") /\ UNCHANGED m_running
    BY <1>7 DEF RecvDone
  <2>2. /\ Head(ready).req = requests /\ hpc[t].at # "abort" /\ ends[requests] = 0
        /\ requests \in Requests /\ UNCHANGED requests
    BY <1>1, <2>1, TakeDoes
  <2>3. \/ hpc' = [hpc EXCEPT ![t] = At("answered", requests)] /\ ends' = [ends EXCEPT ![requests] = @ + 1]
        \/ hpc' = [hpc EXCEPT ![t] = At("receive", requests)] /\ ends' = ends
    BY <1>7, <2>2 DEF RecvDone, Goes, Ends
  <2>4. CASE hpc' = [hpc EXCEPT ![t] = At("answered", requests)] /\ ends' = [ends EXCEPT ![requests] = @ + 1]
    BY <1>1, <2>1, <2>2, <2>4, OneHears
  <2>5. CASE hpc' = [hpc EXCEPT ![t] = At("receive", requests)] /\ ends' = ends
    BY <1>1, <2>1, <2>2, <2>5, NobodyHears
  <2>6. QED
    BY <2>3, <2>4, <2>5
<1>8. ASSUME NEW t \in IoThreads, CancelTimer(t)
      PROVE  Heard'
  <2>1. hpc[t].at \in {"disarm", "abort"} /\ hpc' = [hpc EXCEPT ![t] = At("idle", 0)] /\ UNCHANGED <<m_running, requests>>
    BY <1>8 DEF CancelTimer, Goes, Idle, At
  <2>2. CASE hpc[t].at = "disarm"
    <3>1. UNCHANGED ends
      BY <1>8, <2>2 DEF CancelTimer
    <3>2. QED
      BY <1>1, <2>1, <2>2, <3>1, NobodyHears
  <2>3. CASE hpc[t].at = "abort"
    <3>1. ends' = [ends EXCEPT ![hpc[t].req] = @ + 1]
      BY <1>8, <2>3 DEF CancelTimer, Ends
    <3>2. hpc[t].req \in Requests /\ ends[hpc[t].req] = 0
      BY <2>3, RequestsAssumption DEF IInv, TypeOK, Unended, Requests
    <3>3. QED
      BY <1>1, <2>1, <3>1, <3>2, OneHears
  <2>4. QED
    BY <2>1, <2>2, <2>3
<1>9. ASSUME NEW t \in IoThreads, TimerHandler(t)
      PROVE  Heard'
  <2>1. hpc[t].at # "abort" /\ UNCHANGED <<m_running, requests, ends>>
    BY <1>9 DEF TimerHandler, Idle
  <2>2. PICK w \in fired : Goes(t, IF w.ec = "ok" /\ m_running THEN At("cancel", w.req) ELSE Idle)
    BY <1>9 DEF TimerHandler
  <2>3. w.req \in 0 .. MaxRequests
    BY RequestsAssumption DEF IInv, TypeOK, Requests
  <2>4. PICK place \in {"idle", "cancel"}, q \in 0 .. MaxRequests : hpc' = [hpc EXCEPT ![t] = At(place, q)]
    BY <1>1, <2>2, <2>3 DEF Goes, Idle, At
  <2>5. QED
    BY <2>1, <2>4, NobodyHears
<1>10. CASE UNCHANGED <<m_running, requests, ends, hpc>>
  BY <1>10 DEF Heard, Aborting
<1>11. QED
  BY <1>2, <1>3, <1>4, <1>5, <1>6, <1>7, <1>8, <1>9, <1>10
     DEF Next, Io, SendAccepted, cancel, Completes, TimerExpires, vars

(* One caller's request is told once that it is over, and every accepted   *)
(* one has been told, runs, or is about to hear that it was cancelled:     *)
(* EndsOnce of UdpSender.                                                  *)
THEOREM ToldOnce == ASSUME OneCaller PROVE Spec => []EndsOnce
<1>1. OneCaller
  OBVIOUS
<1>2. IInv /\ Heard => EndsOnce
  <2>1. SUFFICES ASSUME IInv, Heard PROVE EndsOnce
    OBVIOUS
  <2>2. \A r \in Requests : ends[r] <= 1
    BY <2>1 DEF IInv, Unended
  <2>3. \A i \in DOMAIN pending : pending[i].req = requests /\ ends[requests] = 0
    BY <2>1 DEF IInv, Carried, Nobody, InOperation, Unended
  <2>4. \A i \in DOMAIN ready : ready[i].req = requests /\ ends[requests] = 0
    BY <2>1 DEF IInv, Carried, Nobody, InReady, Unended
  <2>5. QED
    BY <2>1, <2>2, <2>3, <2>4 DEF EndsOnce, Heard
<1>3. Init => Heard
  BY DEF Init, Heard, Idle
<1>4. IInv /\ Heard /\ [Next]_vars => Heard'
  BY <1>1, StepHeard
<1>5. QED
  BY <1>2, <1>3, <1>4, Invariance, PTL DEF Spec

=============================================================================
