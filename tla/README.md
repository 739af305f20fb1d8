# Verification of Clion_cppStudy

TLA+ specifications of the concurrent and stateful parts of this repository,
the TLC runs that check them on small instances, and proofs, checked by TLAPS,
of what holds for every size. Paths below are those of the repository, seen
from its root as `src/`.

## 1. The system

The repository is a collection of C++ classes for daemons and clients, not one
program. They share conventions (callbacks, `std::error_code`, a background
thread behind a `std::future`) and little else; the two programs `main.cpp` are
demonstrations that call one part after the other.

| component | source | state it keeps | operations | who calls whom |
|---|---|---|---|---|
| thread pool | `src/src/include/threadPool.hpp`, `src/src/utils/threadPool.cpp` | `m_stoped`, `m_tasks`, `m_lock`, `m_cv`, the threads | `init`, `commit`, `run`, destructor | clients commit from any thread, a task may commit again |
| file monitor | `src/src/app/FileMonitor.hpp` | the inotify and watch descriptors, the callbacks, the future of its thread | `start`, `stop`, `registerChangeCallback`, `unregisterChangeCallback`, the thread with `addFileWatch` | owner, monitor thread, and through callbacks the client |
| hash map in shared memory | `src/include/libutils/hashMap.hpp` | blocks in memory of the caller | `put`, `get`, `find`, `clear` | one caller at a time |
| request sender | `src/src/include/udp_sender/UdpSender.hpp` | `m_running`, socket, timer, storage for one handler | `asyncSend`, `cancel`, handlers of send, receive and timer | callers on any thread, handlers on the threads of an io_context |
| socket sender | `src/src/include/udp_sender/ReuseUdpSender.hpp` | `m_beginRecv`, the socket | `asyncSend`, `cancel`, `reconnect`, destructor, handlers | everything in the thread of the io_context, as the comment of `reconnect` demands |
| io_context utilities | `src/include/iocontextutils.hpp` | the io_context, its thread | `runAsync`, `runSync`, `runSyncTimeout`, `startIOContextThread` | callers on any thread, also inside a task |
| SKF key library | `src/lib/skfApi` | the cache of vendors' libraries, the library in use, the handles of device, application and container | the engine for OpenSSL (`initApi`, `initEngine`, `uninitEngine`, signing, verifying, export) on one global key; the utilities (`enumAllInfo`, `checkCertByCAIssuer`) with handles of their own | applications and OpenSSL; both parts share the cache |
| shared memory | `src/include/libutils/shmManager.hpp` | key, segment id, attached address | `openShm`, `connectShm`, `getShmSize`, `unattachShm`, `removeShm` | several processes; nothing in the repository calls it |
| ring | `src/include/libutils/circleList.hpp` | `headPos` and elements, in memory of the caller | `insert`, `checkValueExist`, `size`, `clear` | one writer ("只用于单进程单线程操作") and readers, over shared memory; nothing in the repository calls it |
| epoll server | `src/src/app/epollWorker.cpp` | the epoll instance and its descriptors | listen, accept, one echo, close | clients (`clientRun`) over stream sockets of the UNIX domain |
| socket helper | `src/src/app/socketHelper.cpp` | descriptors, and the path of a UNIX socket | connect, listen, pass a descriptor to another process | three programs: a sender, a receiver, a client |
| crash report | `src/src/include/bugReport.hpp` | `s_first`, `BR_dumping_stack`, the jump buffer | register, signal handler | the kernel, on any thread |
| addresses | `src/include/ip_address.hpp`, `src/include/target_address.h` | none | comparison, arithmetic, formatting | callers |
| sorting | `src/src/include/algorithm.hpp` | none | `insertionSort`, `shellSort` | callers |
| rest | logging macros, `baseInstance.hpp`, hook and example libraries, main programs, build files, tests | | | |

What is hard in them, and what makes each correct:

- **Thread pool.** `m_stoped` is atomic and read without the lock by `commit`
  and written without it by the destructor; `notify_one` comes after the
  unlock. Correct: a task is run once and in order or refused; no queued task
  is left with every worker asleep; `init` by two clients starts one pool; the
  destructor drains the queue and returns.
- **File monitor.** Owner and thread share two descriptors under one mutex, but
  in several critical sections; the file is replaced while events of the old
  one are queued. Correct: one inotify instance at most, `stop` returns and
  leaves nothing, a change is followed by callbacks, unregistering removes the
  callback it was given.
- **Hash map.** A put walks one step of a chain; `clear` leaves keys and values
  in the blocks. Correct: searches end, chains do not meet, `get` returns what
  was put.
- **UdpSender.** A cancel or an expiry meets handlers that are already queued.
  Correct: one operation per request, one end told per request, every request
  ends, a timer concerns its own request only.
- **ReuseUdpSender.** `reconnect` replaces the socket under queued handlers and
  may throw in the middle. Correct: the object is never deaf, receives once, a
  send is told once, a destroyed object is silent.
- **io_context utilities.** A handler writes into the frame of the caller that
  waits for it; `stop` and `restart` race; a task calls `runSync` of its own
  io_context. Correct: frames outlive their handlers, answers are true, calls
  return, the thread ends.
- **SKF key library.** Three handles opened in order and closed in reverse, with
  an error at any step; a library loaded anew under an open key; two threads
  and one global key. Correct: handles are closed once and used only while
  open, nothing leaks when a step fails.
- **Shared memory and ring.** Several processes create, attach and remove one
  segment, a call of the class being several system calls; a reader searches
  the ring while it is written, and a writer may end within an insertion or a
  clear.
  Correct: an address is of the segment the object names and has room for the
  list made of it; the ring holds the newest elements, and what stays is found.
- **Epoll server.** Events are handled from an array while descriptors are
  closed and their numbers given out again; descriptors run out; any call may
  fail; a client that leaves kills the server. Correct: an event concerns the
  connection it was reported for, a connection has one descriptor until it is
  closed, who is hung up on was answered, who waits is served.
- **Socket helper.** A connection is on its way between two processes, held by
  a message only; either process may end, any call may fail. Correct: it is
  not dropped on the way, both close what they opened, the client's wait ends.
- **Crash report.** The handler is entered by several threads, and from itself,
  and leaves by a jump. Correct: a fault while the stack is printed costs a part
  of it only, the jump lands in a frame that waits, the process ends.
- **Addresses, sorting.** Boundaries. Correct: a strict total order that agrees
  with equality; increments carry; the result is a sorted permutation.

`PROJECT.json` lists the components with their state, and each hazard at the
line where it bites with the properties that would catch it. Hazards that no
property covers, and that are not listed there: tasks of a pool that wait for
tasks of the same pool; a callback of the file monitor that stops its monitor,
or that still runs after it was unregistered; an overflow of inotify's queue,
which the monitor does not recognise (`ChangeNotified` excepts it); two threads
on the one global key of the key library.

## 2. Modules

| module | models | step |
|---|---|---|
| `Executor` | what a pool promises: accepted tasks start once and in order, a refused one never starts | an event |
| `ThreadPool` | the thread pool; implements `Executor` | between two accesses to `m_stoped`, `m_lock`, `m_cv` |
| `ThreadProofs` | theorems of `ThreadPool` and `BugReport` | |
| `FileMonitor` | the file monitor with inotify and the watched path | a critical section of `m_fdMutex` or `m_callbackMutex`, or what lies between two |
| `DescriptorProofs` | theorems of `FileMonitor` and `FdPassing` | |
| `HashMap` | the hash map | a call |
| `HashMapProofs` | theorems of `HashMap` | |
| `UdpSender` | the request sender with socket, timer and io_context | between two accesses to what threads share |
| `UdpSenderProofs` | theorems of `UdpSender` | |
| `ReuseUdpSender` | the socket sender | a call or a handler, since all run in one thread |
| `KeyEngine` | what the engine of the key library promises: ready from the success of `initEngine` to the next call, and nothing succeeds on an engine that is not | an event |
| `Skf` | the key library, engine and utilities; implements `KeyEngine` | a call of the vendor's library, or what lies between two |
| `SkfProofs` | theorems of `Skf` | |
| `IOContextUtils` | the four functions and the thread of an io_context | between two accesses to the io_context or a promise |
| `IOContextProofs` | theorems of `IOContextUtils` and `ReuseUdpSender` | |
| `EpollWorker` | the echo server with its clients, descriptors and epoll | what a process does up to a system call that meets another process |
| `EpollWorkerProofs` | theorems of `EpollWorker` | |
| `FdPassing` | sender, receiver and clients of the socket helper, with the links between the two | a system call |
| `BugReport` | the signal handler on the stacks of several threads | between two accesses to what threads or handlers share |
| `SharedMemory` | `shmManager` in several processes, with the segments | a system call |
| `CircleList` | `circleList` as operators over the memory of a ring | |
| `SharedRing` | composes the two: a writer and readers of a ring in a segment | a system call, a write of the ring, a read of an element |
| `SharedRingProofs` | theorems of `SharedRing` | |

Three modules hold the theorems of two components each, which share nothing but
what is proved about sequences and finite sets. The second component of such a
pair (`BugReport`, `FdPassing`, `ReuseUdpSender`) has names of its own for what
others call `Init`, `Next`, `Spec` and `TypeOK`: `ReportInit`, `PassingInit`,
`ReuseInit` and so on.

`MC*.tla` give the constants their values; `*.cfg` are the runs. A definition
called `...` *Mutant* in its comment is not part of a specification: put in the
place of the definition after it, it is a bug of a plausible kind, and the
property that names it in `PROJECT.json` must then fail.

Names of variables and actions are those of the source where there is one:
`m_tasks` is the member, `CommitPush` the emplace of `commit` under its lock.
`wpc`, `cpc`, `tpc`, `hpc` say where a thread is in a function. Variables that no
code keeps are named in the module as such: `late` and `done` in `ThreadPool`,
`armed` and `seen` in `FileMonitor`, `last` and `given` in
`HashMap`, `ends`, `told`, `cut`, `threw` and `lost` in the senders
and `IOContextUtils`, `echoed` and `lost` in `EpollWorker`, `failed` in
`FdPassing`, `faults`, `harsh`, `failed` and `told` in `BugReport`, `past`,
`lengths`, `torn`, `broken`, `overlooked` and the field `kept` of a search in
`SharedRing`; they record what happened, for the properties, and no
action's guard depends on them but for the bounds on faults, on insertions and
on clears (of a ring that is empty already). `told` in `Skf` is one of these but for one
entry: whether the walk keeps a name it leaves, which the code knows from the
branch it is in.

Correspondence in short (`PROJECT.json` "map" has every definition's lines):

- **ThreadPool.** `commit` is `CommitRejected` or `CommitAccepted`, `CommitPush`,
  `CommitNotify`; `init` is `InitCheck` ... `InitReturn` (the return may be an
  exception of a thread's constructor); `run` is `RunTop` ... `RunTaskReturns`,
  with the evaluation of the predicate of `wait` and the entry into the wait
  set as steps of their own; the destructor is `DtorStop`, `DtorNotifyAll`,
  `DtorJoin`. `m_idleThreadNum` is never initialised (it starts as the constant
  `IdleGarbage`), is decreased by a thread that is about to idle and increased
  by one that has worked, against the comment at its declaration; nothing reads
  it. `m_poolName` and `m_threadNum` are only logged.
- **FileMonitor.** inotify is modelled from how the class uses it: identical
  neighbouring events merge, a full queue drops events and says so with watch
  descriptor -1, closing the instance drops everything, an unlinked file
  reports its end only when nobody has it open. `Cleanup` may close descriptors
  as the code does, but they always are closed by then. The retry counter of
  `addFileWatch` is taken as endless (2^32 - 1 tries, ten milliseconds apart).
- **HashMap.** `getPoint` is a recursive function, `PutBucket`, `PutChained` and
  `PutFull` are the ways out of `put`. The constructor marks every block free (`isUsed` false,
  `nextPos` 0) and leaves keys and values as the memory has them (`Garbage`).
- **UdpSender.** Handlers of the socket run in the order they became ready;
  handlers of the timer are in a set of their own, since an io_context promises
  no order between the two. The destructor is left out: every handler owns the
  object, so it runs when nothing is under way. What a thread has left to do at
  the end of a request (`disarm`, `abort`, `cancel` in `hpc`) names the request,
  since another one may have been accepted by then.
- **ReuseUdpSender.** The handlers run in order, and operations complete in any
  order. `SendBroken` contains the whole of the nested `reconnect`; its second
  alternative is the exception that ends the handler before `sendDone`. `cut`
  keeps the sends that are never told: those whose own operation was cancelled
  (the code returns at line 135), and those whose handler threw. An exception of
  `m_recvCallback`, which would leave `m_beginRecv` set and no receive, is
  assumed away.
- **IOContextUtils.** `dispatch` is inline in the io_context's thread and posts
  elsewhere. Where the code takes `errno`, both an error and none are possible,
  as nothing there sets it. Calls nest one level deep.
- **Skf.** The vendor's library is external: each call may fail, a handle is a
  number that may come again once it is closed, and a close may be refused.
  `key` is a `Usbkey`, or the local handles of `enumAllInfo`. `closeUsbkey` is
  `CloseKey` ... `KeyClosed`; `openUsbkey` is `OpenNext` and `VerifyPin`, with
  `OpenFails` at each of its steps. `Loads` is `initApi` from the lock of the
  cache on; of an incomplete library (`Incomplete`) the Windows code frees what
  the Linux code leaves mapped, so both are possible. `EnumAll` ... `EnumDone`
  walk the libraries, devices, applications and containers as the loops of
  `enumAllInfo` do; `found` is `tempApp`, `tempDev` and `devInfoList`. The engine
  is called by one thread, the utilities by another. `aborted` is the assertion
  in `check_cert_issuer`, reached with the first byte of an empty certificate.
- **EpollWorker.** `serverRun` is `CreateEpoll`, `CreateAsyncTcpListener`,
  `AddListener` and then the loop: `EpollWait` fills `batch` in any order, the
  listener's event is `ListenerMsg` (with `_DoRecvConnect` and `AddSockToEv` in
  it), a connection's is `MsgRecv`, `MsgEcho`, `MsgClose`. `table` is the
  process's table of descriptors, where the lowest free one is taken. A word
  fits one buffer of the server or takes two. `clientRun` is `Connect`, then
  `Send` and `Recv` in turn: at the end of its input `cin >> str` leaves `str`
  alone, so it sends its last word again, or nothing if it never read one. `send` to a connection the other side has closed
  ends the process (SIGPIPE), in the server too (`Dies`).
- **FdPassing.** `sendMsgServerRun` is `SenderInit` ... `SenderClose`, with
  `sendFd` between accept and close; `recvMsgServerRun` is `ReceiverInit` ...
  `ReceiverClose`; `clientRunPort` the actions with `Client` in their name. `holders`
  says which server has a connection open, `link[c].fd` that a message carries
  it. Each call has its error path as an action: after a `connect` that failed
  the sender may keep the socket (`unconnected`), and of an answer that could not
  be sent nobody takes notice (`Send`). The receiver may end at any
  point and be started again.
- **BugReport.** `frames` is the stack of handler frames of each thread, with the
  place each is at; `Fault` pushes one or ends the process. `WriteHeader` is
  `BR_WriteErrorMsg` up to the stack, `DumpBegins` ... `DumpEnds` are
  `BR_DumpStack1K`, one `PrintLine` a round of its loop (both sections of the
  stack together have `Lines`), `Again` is the branch that jumps, `Reset`,
  `Raise`, `Return` the end of the handler. `BugReportRegister` may be called
  again by any thread at any time, and `SignalRegister` then sets the handler of
  one signal after the other, also between the `SIG_DFL` of `Reset` and the
  delivery of what `Raise` sent, which so enters the handler once more. A fault
  of a blocked signal ends the process, but for `abort`, which unblocks its own
  (`Lethal`). Where the jump buffer names no frame
  of this thread that waits, the outcome is undefined and the model stops.
- **SharedMemory, CircleList, SharedRing.** `ShmGet`, `Stat`, `Create`, `Attach` are
  the system calls of `openShm` and `connectShm` in order; sizes are counted in
  elements, so that the size of a segment is the `maxLength` of a list made of
  it. `insert` is `InsertData` and `InsertHead`, `checkValueExist` is `Search` and
  one `Look` for each element. `clear` is `Clear`, where the call begins, and a
  `ClearPiece` for `headPos` and each element, in any order, since nothing
  promises the order of a `memset`; readers look in between, and the writer may
  end there. A process makes its list anew whenever it gets an
  address. `shmat` may fail whether or not the segment is still there. A user
  who does not compare the address with -1 fails at once, so
  such a process does nothing with it but ask again or leave.

## 3. Runs

| run | instance | states | checks |
|---|---|---|---|
| `threadpool` | 2 clients, 2 workers, 3 tasks, 1 spurious wake-up | about 250,000 | no lost wake-up, drained before exit, `init` clears no thread, refinement of `Executor`, queued tasks run, the destructor returns |
| `threadpool_stop` | the same | | finds that the destructor may wait for ever |
| `filemonitor` | 3 changes of the path, 2 starts, reads of 2 events, a kernel queue of 3 | about 550,000 | one instance, clean after stop, stop returns, changes are notified |
| `hashmap` | 4 keys (3 of them collide), 2 values, 7 blocks | about 62,000 | ascending chains, soundness of `get`, new keys found |
| `udpsender` | 1 caller, 2 io threads, 3 requests | about 6,500 | one operation, told once, requests are told their end |
| `reuse` | 3 sends, any errors and calls between | about 15,000 | not deaf, told once |
| `iocontext` | 1 client and the thread's own tasks, 3 calls, 1 stop | about 104,000 | frames alive, answers fit what became of the function, `runSync` returns, stop ends the thread |
| `skf` | 2 whole libraries and an incomplete one, 2 devices with at most an application and a container each, 1 refused close | about 2,000,000 | handles valid and of the library in use, none leaks, the cache holds what is mapped, an enumeration tells what the vendor told, refinement of `KeyEngine` |
| `epoll` | 3 clients, 4 descriptors | about 698,000 | events current, connections kept, answered before hung up on, words are answered |
| `fdpassing` | 2 clients, 1 crash of the receiver | about 58,000 | nothing dropped between the processes, nothing left open, clients return |
| `bugreport` | 2 threads, 2 signals, 3 faults, 2 lines, 2 calls of `BugReportRegister` | about 597,000 | the report survives a fault while the stack is printed, the jump is valid, the process ends |
| `sharedring` | a writer and a reader, lists of 1 and 2, 3 values, 2 segments of which one at a time is written, 4 insertions and clears, `headPos` modulo 2 | about 1,543,000 | addresses good, the ring holds the newest, searches find what stays |

Every module has its type invariant as well; the proofs use it, the runs spend their
time on the other properties.

Why the bounds are enough for the cases that matter:

- *threadpool*: a lost wake-up takes a sleeper, a notifier and a second task;
  the double `init` takes two clients; the race of `commit` with the destructor
  takes one task committed while both workers leave, and a task that commits
  has a third to compete with.
- *filemonitor*: one change that removes the file, one that brings it back and
  one after; two starts, so that a stop meets the thread of the first in every
  place; a queue of three overflows with three changes, as one makes two events.
- *hashmap*: four buckets and three spare blocks. A third key in a bucket
  meets the step that walks one link, a fourth put meets the full second half.
- *udpsender*: the second request meets the leftovers of the first, the third
  those of both; with two threads every pair of handlers interleaves. One caller:
  two that start a request at once is a known hazard, and the mutant of
  `OneOperation` shows what it does.
- *reuse*: two sends meet one `reconnect`, the third meets what it left.
- *iocontext*: a call, a call nested in it and a function of others; one stop,
  at any moment. Two clients were run once (about 850,000 states): nothing new.
- *skf*: two whole libraries make a switch under an open key, the third is the
  one that must not enter the cache; the second device is what a failing one
  must not spoil; one close that the vendor refuses leaves a handle open that
  no key knows. The two whole libraries, and the two devices, are symmetric, and
  the run has no liveness property.
- *epoll*: four descriptors are epoll, the listener and two connections, so the
  third client meets a full table, and then a number that was used before; two
  connections and the listener make arrays of three events in any order.
- *fdpassing*: one client is on its way while the other waits behind it in
  either queue. One crash meets every place of both; a second start never gets
  past `bind`. Three clients do not fit the time.
- *bugreport*: three faults are one of each thread and one nested in either, or
  three nested ones; with two signals a nested one is blocked or not. Two lines
  have a jump before and after the first `sigsetjmp` of a loop that goes on. The
  second call of `BugReportRegister` sets a handler again that `Reset` has taken.
- *sharedring*: the writer may take the reader's segment away and make another
  of another size, which takes two of each; three insertions turn a ring of two
  over, and the fourth write is the clear, or the insertion into what a clear
  that was cut off has left. `headPos` just fits such a ring, as 256 just fits the largest ring the code
  supports (`LengthsFit`). A constraint of the run, `OneRing`, leaves out states
  where two segments hold written rings at once; a segment is written again
  after the one before is freed. Values are symmetric; no liveness property. Two
  readers see nothing of each other: no step of one changes what another reads.

Deadlock is not checked in runs where the system may come to rest: a pool that
is destroyed or idle, a stopped thread, a sender nobody uses, a server that
has returned or been killed, clients that have left. `hashmap`, `skf` and
`sharedring` check it.

### Fairness

- Threads that can run are run: weak fairness of a worker's, an owner's or an
  io thread's next step. For `m_lock` weak fairness is enough as each instance
  takes it finitely often; so nothing is claimed about a lock taken for ever.
- User code returns: a task, a callback, a function handed to an io_context.
- An expired timer is noticed and a datagram is sent or fails, within finite
  time. Nobody has to answer a datagram. For the expiry and for the timer's
  handler this is strong fairness: a request whose callback always wants more
  keeps the threads of the io_context busy with its receives, so that each of the
  two is enabled again and again but not for ever. The time of an expiry does not
  move away, and the io_context runs its handlers from one queue and passes over
  none for ever.
- A process that has an unlinked file open closes it some day; nobody has to
  change a file. No client has to call anything, and `stop`, the destructor
  and `cancel` may never come.
- The epoll server, the sender and the receiver make their next system call when
  it does not block, one action each for weak fairness: all three are loops of
  one thread. An `epoll_wait` that has nothing to report blocks; that it fails
  (`WaitFails`) is possible and never forced, so the fairness is that of `Serves`.
  A client that has an answer takes it; the clients of the socket
  helper also send, as `clientRunPort` does without waiting. Nobody has to
  connect, type, leave or crash. `EchoArrives` also supposes that a descriptor comes free
  again and again, which clients can prevent by saying nothing.
- A thread in the signal handler goes on. A fault never has to happen.
- `hashmap`, `reuse`, `skf` and `sharedring` assume no fairness.

### What the violated property says

The destructor of `threadPool` stores `m_stoped` and notifies without the lock: a
worker that has just seen the predicate of `wait` false sleeps after the
notification, and `join` never returns. `DestructorReturns` shows that this is
the only way: without such a worker it does return.

### Other disagreements of code and comments

`PROJECT.json` "findings" quotes the lines. No run is about them, but where a
module meets one, its action shows it or a property names it as an exception:

- `unregisterChangeCallback` removes the first callback, whichever it is given,
  since `target<void *>()` is null on both sides of its comparison
  (`FileMonitor`).
- `put` of a key that sits in a chain takes a new block instead of its own
  (`HashMap`, `PutChained`; `GetIsSound` and `NewKeyFound` say what remains true).
- The timer of a finished `UdpSender` request, its handler queued already,
  cancels the next request. A request that is cancelled clears `m_running` before
  it is told, so its successor may begin first, and lose its timer to it
  (`EndsOnce` and `RequestEnds` name the two).
- After `reconnect` a `ReuseUdpSender` may have two receives on one socket, and
  the sends that are cut never hear `sendDone` (`ToldOnce`).
- `runSync` answers true after an exception that left no error code
  (`AnswerIsTrue`).
- The crash handler does not keep threads apart, kills the process where its
  comment promises a jump (the signal is blocked), and leaves its flag set when
  a write fails: the exceptions `thread`, `blocked` and `failed` of
  `ReportSurvivesDump` and `JumpIsValid`.
- `openShm` takes a segment that is too large, a stale identifier hides a new
  one, and a failing `shmat` counts as an address (`Failed`).
- The receiver of descriptors cannot be started twice, a `sendmsg` that fails
  leaves the receiver waiting, and `clientInitUnix` leaves the socket open that it
  could not connect: exceptions of `NothingLeft` and `ClientReturns`.

What the properties except. Some hazards are what the code does: a
property then names the case, and says that there is no other. The exceptions are
`late` (`DrainedBeforeExit`), `CancelsNothing` and `CancelledByOther`
(`RequestEnds`), `cut` (`ToldOnce`), `lost` (`StopEnds`, and another one in
`ConnectionsKept` and `ClosedAfterEcho`), a killed server (`ClosedAfterEcho`), the
three error paths of `NothingLeft`, `Kept` and `ReceiverStuck` (`ClientReturns`),
`harsh` and `failed` (`ReportSurvivesDump`, `JumpIsValid`, `ProcessEnds`), and
`broken` (`RingHoldsNewest`, `SearchFindsSettled`): from the begin of a clear to
the completion of one, what the `memset` has not reached may come back. The
notes of the hazards in `PROJECT.json` say for each what is so not excluded.

## 4. Proofs

Every theorem holds for all values of the constants, under the named
assumptions of its module and nothing else.

**ThreadProofs, the thread pool.** Assumed: clients and workers are disjoint and finite sets,
`NoThread` is none of them, `NoTask` is no task (`ThreadsAssumption`,
`TasksAssumption`, `CountersAssumption`). The type invariant and the lock
invariant are inductive together; the others need more, since a step of one
thread moves another's knowledge:

- `LockCorrect` (`LockHeld`) is the base: exactly the thread between taking and
  releasing `m_lock` holds it, so a worker that has evaluated the predicate
  sees no push before it sleeps.
- `TasksOnce` (`ExactlyOnce`) adds that a thread commits a task only in its
  push, and a worker has a task only while it runs one.
- `QueueDrained` (`DrainedBeforeExit`) adds that nothing exits or is late while
  the destructor has not begun, and that a push under way is late after it.
- `ClearsSafely` (`ClearsNoThread`) is an action property: while `m_stoped` is set
  and the destructor has not begun, no worker exists.
- `WakeupsKept` (`NoLostWakeup`) counts: queued tasks are at most the commits
  about to notify and the workers on their way to look, while somebody sleeps.
  It rests on lemmas about the cardinality of these sets under each step.
- `Implements` (`ImplementsExecutor`): every step is a step of `Executor` under
  the mapping (the queue is `pending`, tasks in hand are `running`, ...) or a
  stutter.

**ThreadProofs, the crash handler.** Assumed: the threads are a finite set,
there is at least one line, and `Nothing` is no signal and no place to jump to
(`SignalsAssumption`, `LinesAssumption`, `TidsAssumption`). There may be any
number of threads, signals, lines, faults and calls of `BugReportRegister`; a step changes one stack only, so
the invariant speaks of stacks by their depth, their first frame and the one
above it:

- `Stacks`: a thread has two frames at most, and the upper one never reports. A
  fault in the report finds `s_first` counted, so the frame it pushes goes to
  `again`; that only `user code`, the report and the callbacks fault is what the
  kernel's blocking of signals leaves. `CountedOnce` bounds `s_first`, which threads
  read and count without a lock, by the threads that can still count.
- `Calm`, for as long as one thread alone is in the handler and no write has
  failed: `BR_dumping_stack` is set only while that thread's first frame prints,
  and then the jump buffer names this frame. It gives `JumpIsValid`.
- `Quiet`, for as long as nothing unusual has happened at all: the first frame
  is that of the first fault, faults come only from its printing, it cannot reach
  its end before the callbacks, and what delivers a signal is this frame's
  return. It gives `ReportSurvivesDump`. `Begun` (before the first fault nothing
  is set; after it somebody is in the handler) is needed for both, since a first
  fault must not find a flag set.
- Theorems: `ReportTypeCorrect`, `ReportOutlivesFaults` (`ReportSurvivesDump`),
  `JumpsAreValid` (`JumpIsValid`).

**HashMapProofs.** Assumed: at least one block, hashes are natural numbers, the
filler is neither key nor value. `Invariance` proves the inductive invariant
(the parts of `TypeOK`, `ChainsAscend` and `BucketsApart`, which need each other:
a link goes up *because* the second half fills from its start and a free block
has no link). From it: `TypeCorrect`, `SearchEnds` (chains ascend inside the
memory, so the loop of `getPoint` ends) and `ChainsDisjoint`. What `getPoint`
computes takes an induction over the chain. The library's induction theorems
have the predicate as a parameter and cannot be used here, so the proofs take the
least counterexample instead (`LeastOf`, from the well-foundedness of the natural
numbers): that the search is defined, which block it ends at, and that a put
which does not touch the chain of a key does not change what is found for it.
On this rest `GetSound` (`GetIsSound`), with the invariant that a block in use
holds a value that was given for its key (`ValuesKept`), and the action
property `NewKeysFound` (`NewKeyFound`).

**DescriptorProofs, the file monitor.** Assumed: bounds are natural numbers, buffer and queue hold
at least one event. `OneInstance` and `StoppedIsClean` are about two descriptors
that owner and thread write in turn. They become inductive with where the two
are (`Phases`: a future exactly while there is a thread), what they leave
(`Closed`: no instance before the thread opens one and after it ends), and a
count (`Counted`: each `start` opens one instance at most, later). The type
invariant, with the numbers of watches and the lengths of queue and buffer, also
needs how files succeed each other (`Newest`, `Rewatched`: a file is watched anew
only after it was replaced). Theorems: `TypeCorrect`, `NoInstanceLeaks`,
`StopLeavesNothing`.

**DescriptorProofs, the socket helper.** Assumed: `Nobody` is no client, crashes
are bounded by some number. There may be any number of clients, and they need
not be finitely many. Who holds a connection follows from where the two servers
are, and from nothing a single process knows:

- `SenderServes` and `ReceiverServes`: whom a server serves and what it has open,
  by its place; a link it has open otherwise is one that an error path left.
- `QueuesHold`: nobody waits twice, who waits in `backlog` has no link yet, and who
  waits in `rbacklog` has one whose receiving end is queued. Leaving a queue at
  its head keeps this because nobody is in it twice (`LeavesQueue`).
- `LinksHold`: a link has both ends or none, and carries a descriptor only to a
  receiver that has yet to take it.
- `PassedOn` is the heart of the handover: once the sender is past `sendmsg`, the
  message or the receiver holds the connection of a client that still waits, or
  one of the calls for it failed. Without it the sender's `close` could be the
  last one.
- Theorems: `PassingTypeCorrect`, `HandoverNeverDrops` (`HandoverKeepsOpen`),
  `ServersLeaveNothing` (`NothingLeft`).

**UdpSenderProofs.** Every theorem has the hypothesis `OneCaller`: `asyncSend` is
called by one thread at a time. The code does not hold without it: two callers
may both find `m_running` false. The run has one caller for the same reason.
There may be any number of io threads. `Carried` says that one thing carries the request on: an operation of
the socket, the handler of one that has completed, or one thread; `Unended` says
who has still to be told, among them a thread that is about to cancel the timer
of a request whose successor already runs. `Heard` is the other half: a request
that is accepted has been told, runs, or has a thread that is about to tell it.
Theorems: `TypeCorrect`, `OneAtATime` (`OneOperation`), `ToldOnce` (`EndsOnce`).

**IOContextProofs, the io_context.** Assumed: the io thread is no client, bounds are natural
numbers. `FrameAlive` needs that a caller inside a call has a task of its own with
no answer yet (`CallersWait`), that the queue holds a task once
(`QueueIsQueued`), and that the thread's stack of nested tasks holds only running
ones, each once (`CurRuns`). `AnswerIsTrue` is about the step that answers, and
needs that only an exception leaves an error code (`CodeFromThrow`). Theorems:
`TypeCorrect`, `FramesLive`, `AnswersTrue` (`AnswerIsTrue`).

**IOContextProofs, the socket sender.** Assumed: sends are bounded by some
number. The two queues of operations and handlers are sequences of any length,
from which `cancel`, `reconnect` and the destructor take many elements at once
(`CancelAll`) and a completion takes one from anywhere; the lemmas `PutBehind`,
`PutTogether`, `TakenOut` and `FirstOut` say what a sequence then still holds.

- `Receiving` is `NotDeaf` in terms of these: a receive moves from one queue to the
  other and is made anew by the handler that takes it out.
- `ToldOnce` becomes inductive with `EachOnce` (a send is in one of the queues, and
  once), `WaitUntold` (what is in a queue was called and is not told yet),
  `NotYetTold`, and `CutUntold`: a send that was cut is not told, is not under way
  any more, and its handler, if it still waits, says `aborted`, which no other
  handler of a send does.
- Theorems: `ReuseTypeCorrect`, `ReuseNeverDeaf` (`NotDeaf`), `ReuseToldOnce`
  (`ToldOnce`).

**EpollWorkerProofs.** Assumed: at least one descriptor; clients are none of the
names in the table. An event stays current because nothing between
`epoll_wait` and its handling closes another descriptor: that needs the table as
a bijection with accepted connections (`TableIsApart`, `AcceptedIsOpen`), the
backlog (`QueuedOnce`), the set epoll watches (`Watched`, `Preparing`), and the
event in hand (`InHand`). Hanging up needs the conversation: `Connected`,
`Unanswered`, `EventsReadable` (what was reported stays to be read),
`Answering`, `ClosedAnswered`, `KilledByLeaver`. Theorems: `TypeCorrect`,
`EventsStayCurrent`, `ConnectionsStayKept`, `HangsUpAfterEcho`
(`ClosedAfterEcho`).

**SkfProofs.** Assumed: complete libraries are libraries and `NoLib` is none
(`LibsAssumption`), the vendor refuses finitely many closes (`BoundAssumption`),
the marks of the model are apart (`MarksAssumption`).

- The invariant says for every handle in a key that the vendor has it open under
  the handle above it and for the library in use (`Nested`, `Valid`), that what
  the vendor has open is in a key (`Held`), and how much of a key is open at
  each place of a call (`Phases`, `Walking`, `EngineCalls`). `KeyValid` and
  `NothingLeaks` are what of it a user sees. `Held` is needed for the first
  already: the vendor reuses numbers, and only what is in no key is free. The
  step from one handle to the next also needs that a free number always exists,
  a count of the open and the refused ones against `MaxAbandoned`.
- Theorems: `TypeCorrect`, `KeysValid`, `NoLeak`, `CacheStaysMapped`.
- `Implements` (`ImplementsEngine`): closing an engine's whole key is the abstract
  drop of the key, the step that ends a call is its return; everything else, and
  everything the utilities do, is a stutter.
- `EnumerationIsTrue` (`EnumerationTrue`) rests on a second invariant,
  `Enumerating`, for the walk through devices, applications and containers. A
  listed name is still to be tried or is the one in hand (`Pending`); what is
  already collected at each level is exactly what was good and has left the open
  path (`Sorted`); names to be tried have brought nothing yet (`Untried`); what
  lies above the path is good (`Opening`); between two libraries nothing is left
  over (`Reported`).

**SharedRingProofs.** Assumed: sizes are positive, at least one, and none above
the width of `headPos` (`SizesAssumption`, `LengthsFit`, `ByteAssumption`), bounds
are natural numbers, NULL and -1 are no addresses (`AddressesAssumption`), the
writer is a process and inserts no element with ip 0 (`WriterAssumption`). There
may be any number of readers and segments. The invariant has three parts:

- Segments: they are numbered in the order of their creation (`Numbered`), and an
  object has an identifier of one that was created, and nothing mapped until a
  call has found a segment that is large enough (`Identified`). `AddressGood`
  becomes inductive with these. The kernel's freeing concerns only what nobody
  has mapped, so it leaves every ring alone that is in use (`Staying`).
- `Contents`: the head is in the ring and nothing lies beyond its length,
  whatever was cleared (`Within`). In a ring of one length that no clear has
  broken, the cell of the last element but k holds it, but for the one behind the
  head while an insertion is under way or was cut off (`Holds`). While a clear is
  under way, all but what it has left to do is zero (`Wiped`), so its last piece
  makes the ring whole again. The writes of `insert` and of `clear` keep this by
  lemmas about the memory alone (`HoldsWritten`, `HoldsAdvanced`, `WithinInsert`,
  `WithinWiped`, `HoldsNothing`); `SizeCounts` is about the walk of `size`, with
  the least counterexample in place of induction.
- `Searches`: what a search should find lies before it on its way back, on this
  side of the first empty element. A write takes what it overwrites out of that,
  and empties nothing; a clear, when it begins, leaves nothing to be found
  (`SearchStays`, `Staying`).

Theorems: `TypeCorrect`, `AddressesGood`, `RingKeepsNewest` (`RingHoldsNewest`),
`SearchesFind` (`SearchFindsSettled`).

TLC has checked each of these invariants on its module's run before it was
proved. `TypeOK`, `ExactlyOnce` and `BucketsApart` are proved for all values and
are no part of a run.

Only model-checked:

- Liveness, which the prover does not cover: `QueuedTaskRuns`,
  `DestructorReturns`, `StopReturns`, `ChangeNotified`, `RequestEnds`,
  `SyncReturns`, `StopEnds`, `EchoArrives`, `ClientReturns`, `ProcessEnds`.

Every invariant and every step property of the passing runs is proved.

## 5. Not modelled

- Formatting, logging, connection strings, names and messages everywhere.
- The bytes of keys and values in the hash map (keys are equal or not), the
  address of a datagram's sender (`m_dstEP`), the length of a time-out.
- In the key library: buffers and their lengths, the contents of certificates
  and signatures (a certificate is good or not), the error codes beyond success
  and failure, and `enumAppByDevName` and `enumContainerByAppName`, which only
  tests call.
- Calls on an object whose destructor has finished: undefined.
- In the epoll server and the socket helper: words longer than two buffers, the
  answer a client's buffer of 255 bytes does not hold, `SetKeepAliveFD` (its call
  is commented out), `printClientAddr` (it logs), the sizes of listen queues.
- What a crash report says: registers, modules, memory, the symbols of the
  stack. Which line faults depends on registers; here any line may.
- Rights to a segment or the file of its key, and `ftok` collisions: every
  process gets the same key. Lists of more than 256 elements, which the one byte
  of `headPos` cannot index (`LengthsFit` excludes them by name). A comparison
  function other than equality.
- `ip_address.hpp` and `algorithm.hpp`: values without state, single calls a unit
  test compares; see the plan.
- Logging macros, `baseInstance` (a function's static, initialised once by the
  language), hook and example libraries, the demonstrations in `main.cpp`, build
  files: no behaviour of their own to check.

## 6. Plan

Done: the thread pool, the file monitor, the hash map, the two senders, the
io_context utilities, the key library, shared memory with the ring, the epoll
server, the passing of descriptors and the crash report. Left, in order:

1. `Skf` with two clients on the global key `s_usbKey`: a signature under way
   while another thread replaces the library or closes the key.
2. `IpAddress` and `Sorting`: pure operators over short inputs against reference
   definitions.
