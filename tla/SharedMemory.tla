---------------------------- MODULE SharedMemory ----------------------------
(***************************************************************************)
(* shmManager (src/include/libutils/shmManager.hpp): processes, each with  *)
(* an object of the class for one and the same file, that open, connect,   *)
(* leave and remove a segment of shared memory.                            *)
(*                                                                         *)
(* System V segments are external: one at most has the key of the file; a  *)
(* removed one loses the key and is destroyed with its last attachment, a  *)
(* process that ends detaches.  Identifiers are not used again.  A step is *)
(* a system call of the class.                                             *)
(***************************************************************************)
EXTENDS Integers, FiniteSets

CONSTANTS
  Procs,
  Readers,   \* those that connect to read only
  Sizes,     \* sizes that are asked for
  MaxSegs,   \* bound on the segments that are created
  NULL,
  Failed     \* (void *)-1, which shmat returns when it fails

ASSUME SizesAssumption == Sizes \subseteq Nat \ {0} /\ Sizes # {} /\ MaxSegs \in Nat

Ids == 1 .. MaxSegs

ASSUME AddressesAssumption ==
  NULL # Failed /\ {NULL, Failed} \cap [id : Ids, writable : BOOLEAN] = {}

VARIABLES
  size,      \* of each segment, 0 before it is created
  removed,   \* segments without their key
  m_shmid,   \* of each object
  m_addr,    \* NULL, Failed or [id, writable]
  pc,        \* where each process is in the class
  call       \* the arguments of its call

kernelVars == <<size, removed>>
objectVars == <<m_shmid, m_addr>>
shmVars == <<kernelVars, objectVars, pc, call>>

NoCall == [op |-> "none", size |-> 0, writable |-> FALSE]
Calls(p) == {[op |-> "open", size |-> n, writable |-> TRUE] : n \in Sizes}
            \cup {[op |-> "connect", size |-> 0, writable |-> p \notin Readers]}

ShmInit ==
  /\ size = [id \in Ids |-> 0] /\ removed = {}
  /\ m_shmid = [p \in Procs |-> -1]
  /\ m_addr = [p \in Procs |-> NULL]
  /\ pc = [p \in Procs |-> "idle"] /\ call = [p \in Procs |-> NoCall]

----------------------------------------------------------------------------
Mapped(p) == m_addr[p] \notin {NULL, Failed}
Attached(id) == \E p \in Procs : Mapped(p) /\ m_addr[p].id = id
Exists(id) == id # -1 /\ size[id] > 0 /\ (id \notin removed \/ Attached(id))

(* The segment that the key of the file names, if there is one. *)
Named == {id \in Ids : size[id] > 0 /\ id \notin removed}

(* The system call after this one, or the return from the class.           *)
Goes(p, place) == pc' = [pc EXCEPT ![p] = place]
Continues(p, c, place) == Goes(p, place) /\ call' = [call EXCEPT ![p] = c]
Returns(p) == Continues(p, NoCall, "idle")

(* Without a segment openShm creates one, and connectShm returns NULL.     *)
WithoutSegment(p, c) == IF c.op = "open" THEN Continues(p, c, "create") ELSE Returns(p)

(* openShm and connectShm begin with getShmSize: without an identifier,    *)
(* shmget with the key of the file (getFtokKey), which is the same in      *)
(* every process; the call ends if the file cannot be created.             *)
ShmGet(p, c) ==
  /\ pc[p] = "idle" /\ m_shmid[p] = -1
  /\ \/ \E id \in Named : m_shmid' = [m_shmid EXCEPT ![p] = id] /\ Continues(p, c, "stat")
     \/ Named = {} /\ UNCHANGED m_shmid /\ WithoutSegment(p, c)
  /\ UNCHANGED <<kernelVars, m_addr>>

InStat(p, c) ==
  \/ pc[p] = "idle" /\ m_shmid[p] # -1
  \/ pc[p] = "stat" /\ c = call[p]

(* Mutant: any segment is taken that is there. *)
StatAnySize(p, c) ==
  /\ InStat(p, c)
  /\ IF Exists(m_shmid[p]) THEN Continues(p, c, "attach") ELSE WithoutSegment(p, c)
  /\ UNCHANGED <<kernelVars, objectVars>>

(* With one, IPC_STAT, and what the callers make of the size: a segment    *)
(* that is too small is refused, a destroyed one counts as none.           *)
Stat(p, c) ==
  /\ InStat(p, c)
  /\ \/ Exists(m_shmid[p]) /\ size[m_shmid[p]] >= c.size /\ Continues(p, c, "attach")
     \/ Exists(m_shmid[p]) /\ size[m_shmid[p]] < c.size /\ Returns(p)
     \/ ~Exists(m_shmid[p]) /\ WithoutSegment(p, c)
  /\ UNCHANGED <<kernelVars, objectVars>>

(* openShm: shmget with IPC_CREAT takes the segment that has the key by    *)
(* now, if it is large enough, or makes one.                               *)
Create(p) ==
  /\ pc[p] = "create"
  /\ \E id \in Ids :
       /\ \/ id \in Named /\ size[id] >= call[p].size /\ UNCHANGED size
          \/ /\ Named = {} /\ id = 1 + Cardinality({o \in Ids : size[o] > 0})
             /\ size' = [size EXCEPT ![id] = call[p].size]
       /\ m_shmid' = [m_shmid EXCEPT ![p] = id]
  /\ Continues(p, call[p], "attach")
  /\ UNCHANGED <<removed, m_addr>>

CreateFails(p) ==
  /\ pc[p] = "create"
  /\ m_shmid' = [m_shmid EXCEPT ![p] = -1]
  /\ Returns(p)
  /\ UNCHANGED <<kernelVars, m_addr>>

(* attachShm: an object that has an address returns it, whatever it is,    *)
(* and any other takes what shmat returns for one, failed or not; it may   *)
(* fail on a segment that is there.                                        *)
Attach(p) ==
  /\ pc[p] = "attach"
  /\ \/ m_addr[p] # NULL /\ UNCHANGED m_addr
     \/ /\ m_addr[p] = NULL /\ Exists(m_shmid[p])
        /\ m_addr' = [m_addr EXCEPT ![p] = [id |-> m_shmid[p], writable |-> call[p].writable]]
     \/ m_addr[p] = NULL /\ m_addr' = [m_addr EXCEPT ![p] = Failed]
  /\ Returns(p)
  /\ UNCHANGED <<kernelVars, m_shmid>>

(* unattachShm, alone or as the beginning of removeShm. *)
Unattach(p) ==
  /\ pc[p] = "idle" /\ m_addr[p] # NULL
  /\ m_addr' = [m_addr EXCEPT ![p] = NULL]
  /\ Goes(p, "idle") \/ Goes(p, "remove")
  /\ UNCHANGED <<kernelVars, m_shmid, call>>

RemoveUnattached(p) ==
  /\ pc[p] = "idle" /\ m_addr[p] = NULL /\ m_shmid[p] # -1
  /\ Goes(p, "remove")
  /\ UNCHANGED <<kernelVars, objectVars, call>>

RemoveShm(p) ==
  /\ pc[p] = "remove"
  /\ removed' = removed \cup ({m_shmid[p]} \ {-1})
  /\ m_shmid' = [m_shmid EXCEPT ![p] = -1]
  /\ Goes(p, "idle")
  /\ UNCHANGED <<size, m_addr, call>>

(* The process ends, at any point, and may start again.                    *)
Exit(p) ==
  /\ m_shmid[p] # -1 \/ pc[p] # "idle"
  /\ m_shmid' = [m_shmid EXCEPT ![p] = -1]
  /\ m_addr' = [m_addr EXCEPT ![p] = NULL]
  /\ Returns(p)
  /\ UNCHANGED kernelVars

ShmCall(p) ==
  \/ \E c \in Calls(p) : ShmGet(p, c) \/ Stat(p, c)
  \/ Create(p) \/ CreateFails(p)
  \/ Unattach(p) \/ RemoveUnattached(p) \/ RemoveShm(p)

----------------------------------------------------------------------------
(* Every variable holds a value of its type. *)
ShmTypeOK ==
  /\ size \in [Ids -> Sizes \cup {0}] /\ removed \subseteq Ids
  /\ m_shmid \in [Procs -> Ids \cup {-1}]
  /\ m_addr \in [Procs -> [id : Ids, writable : BOOLEAN] \cup {NULL, Failed}]
  /\ pc \in [Procs -> {"idle", "stat", "create", "attach", "remove"}]
  /\ call \in [Procs -> [op : {"none", "open", "connect"}, size : Sizes \cup {0}, writable : BOOLEAN]]
============================================================================
