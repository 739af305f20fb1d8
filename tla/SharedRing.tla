----------------------------- MODULE SharedRing -----------------------------
(***************************************************************************)
(* The two headers put together: processes map one file's segment with     *)
(* shmManager and make a circleList of the memory it returns; one writes   *)
(* into the ring, others search.  (Both are library code that nothing else *)
(* in the repository calls.)                                               *)
(*                                                                         *)
(* The size of a segment is the maxLength it gives a list.  openShm's      *)
(* callers make the list as long as they asked for, connectShm's as long   *)
(* as getShmSize says.  An element is read and written as one, headPos too.*)
(***************************************************************************)
EXTENDS SharedMemory, CircleList, Sequences, SequencesExt

CONSTANTS
  Writer,      \* the process that inserts and clears
  Values,
  MaxWrites    \* bound on the insertions and clears

ASSUME WriterAssumption == Writer \in Procs /\ Zero \notin Values
ASSUME WritesAssumption == MaxWrites \in Nat
ASSUME LengthsFit == \A n \in Sizes : n <= Byte

VARIABLES
  ring,       \* the memory of each segment
  maxLength,  \* of each process's list
  inserting,  \* the value the writer has put behind the head already
  clearing,   \* the pieces of memory that the writer's clear has still to zero
  search,     \* each process's search
  writes,
  past,       \* history: the last that was inserted into each segment since it was clear,
              \* unless it is broken
  lengths,    \* history: the lengths of the lists that wrote into each segment
  torn,       \* history: segments whose writer ended within an insertion
  broken,     \* history: segments with a clear that has begun, and none completed since
  overlooked  \* history: who has searched in vain for what was there all along

ringVars == <<ring, maxLength, inserting, clearing, search, writes, past, lengths, torn, broken,
              overlooked>>
vars == <<shmVars, ringVars>>

Cells == 0 .. Max(Sizes) + 1

Blank == [headPos |-> 0, data |-> [i \in Cells |-> Zero]]
NoSearch == [at |-> "none", of |-> Zero, pos |-> 0, i |-> 0, kept |-> {}]

Init ==
  /\ ShmInit
  /\ ring = [id \in Ids |-> Blank]
  /\ maxLength = [p \in Procs |-> 0]
  /\ inserting = Zero /\ writes = 0 /\ clearing = {}
  /\ search = [p \in Procs |-> NoSearch]
  /\ past = [id \in Ids |-> <<>>] /\ lengths = [id \in Ids |-> {}]
  /\ torn = {} /\ broken = {} /\ overlooked = {}

----------------------------------------------------------------------------
(* The segments                                                            *)

Here(p) == m_addr[p].id

(* The memory of a destroyed segment is gone. *)
KernelFrees(tears) ==
  /\ ring' = [id \in Ids |-> IF Exists(id)' THEN ring[id] ELSE Blank]
  /\ past' = [id \in Ids |-> IF Exists(id)' THEN past[id] ELSE <<>>]
  /\ lengths' = [id \in Ids |-> IF Exists(id)' THEN lengths[id] ELSE {}]
  /\ torn' = {id \in torn \cup tears : Exists(id)'}
  /\ broken' = {id \in broken : Exists(id)'}

Free(p) == search[p].at = "none" /\ (p = Writer => inserting = Zero /\ clearing = {})

Manage(p) ==
  /\ Free(p)
  /\ ShmCall(p)
  /\ search' = [search EXCEPT ![p] = NoSearch]
  /\ KernelFrees({})
  /\ maxLength' = [maxLength EXCEPT ![p] = IF Mapped(p)' THEN @ ELSE 0]
  /\ UNCHANGED <<inserting, clearing, writes, overlooked>>

MakeList(p) ==
  /\ Attach(p)
  /\ maxLength' = [maxLength EXCEPT ![p] =
       IF ~Mapped(p)' THEN 0 ELSE IF call[p].op = "open" THEN call[p].size ELSE size[m_shmid[p]]]
  /\ UNCHANGED <<ring, inserting, clearing, search, writes, past, lengths, torn, broken, overlooked>>

Ends(p) ==
  /\ Exit(p)
  /\ maxLength' = [maxLength EXCEPT ![p] = 0]
  /\ search' = [search EXCEPT ![p] = NoSearch]
  /\ IF p = Writer /\ inserting # Zero
       THEN inserting' = Zero /\ KernelFrees({Here(p)} \ broken)
       ELSE UNCHANGED inserting /\ KernelFrees({})
  /\ clearing' = IF p = Writer THEN {} ELSE clearing
  /\ UNCHANGED <<writes, overlooked>>

----------------------------------------------------------------------------
(* The ring                                                                *)

Uses(p) == pc[p] = "idle" /\ Mapped(p) /\ Free(p)
List == ring[Here(Writer)]

(* The cells of a search still hold what they held when it began.          *)
Overwrites(id, cells) ==
  [p \in Procs |-> IF Mapped(p) /\ Here(p) = id THEN [search[p] EXCEPT !.kept = @ \ cells]
                                                ELSE search[p]]

Newest(h) == SubSeq(h, Max({1, Len(h) + 1 - Max(Sizes)}), Len(h))

CanInsert(v) == Uses(Writer) /\ m_addr[Writer].writable /\ writes < MaxWrites

InsertAgain(v) ==
  /\ CanInsert(v) /\ TakenAlready(List, v, maxLength[Writer])
  /\ UNCHANGED vars

(* insert writes the element *)
InsertData(v) ==
  /\ CanInsert(v) /\ ~TakenAlready(List, v, maxLength[Writer])
  /\ LET id == Here(Writer)
         n == maxLength[Writer]
     IN  /\ ring' = [ring EXCEPT ![id] = Written(@, v, n)]
         /\ inserting' = IF TakesFirst(List, n) THEN Zero ELSE v
         /\ search' = Overwrites(id, {Cell(List, n)})
         /\ lengths' = [lengths EXCEPT ![id] = @ \cup {n}]
         /\ past' = [past EXCEPT ![id] = IF TakesFirst(List, n) /\ id \notin broken THEN <<v>> ELSE @]
  /\ writes' = writes + 1
  /\ UNCHANGED <<shmVars, maxLength, clearing, torn, broken, overlooked>>

(* and then headPos. *)
InsertHead ==
  /\ inserting # Zero
  /\ LET id == Here(Writer)
     IN  /\ ring' = [ring EXCEPT ![id] = Advanced(@, maxLength[Writer])]
         /\ past' = [past EXCEPT ![id] = IF id \in broken THEN @ ELSE Newest(Append(@, inserting))]
         /\ torn' = torn \ {id}
  /\ inserting' = Zero
  /\ UNCHANGED <<shmVars, maxLength, clearing, search, writes, lengths, broken, overlooked>>

(* clear zeroes one piece of the memory after the other; from its begin no *)
(* search can rely on anything.                                            *)
Clear ==
  /\ Uses(Writer) /\ m_addr[Writer].writable /\ (past[Here(Writer)] # <<>> \/ Here(Writer) \in broken)
  /\ writes < MaxWrites /\ writes' = writes + 1
  /\ clearing' = Pieces(maxLength[Writer])
  /\ LET id == Here(Writer)
     IN  /\ search' = Overwrites(id, Cells)
         /\ lengths' = [lengths EXCEPT ![id] = @ \cup {maxLength[Writer]}]
         /\ broken' = broken \cup {id}
         /\ past' = [past EXCEPT ![id] = <<>>] /\ torn' = torn \ {id}
  /\ UNCHANGED <<shmVars, ring, maxLength, inserting, overlooked>>

ClearPiece(c) ==
  /\ c \in clearing
  /\ clearing' = clearing \ {c}
  /\ LET id == Here(Writer)
         done == IF clearing = {c} THEN {id} ELSE {}
     IN  /\ ring' = [ring EXCEPT ![id] = Zeroed(@, c)]
         /\ broken' = broken \ done
  /\ UNCHANGED <<shmVars, maxLength, inserting, search, writes, past, lengths, torn, overlooked>>

(* The element that is written but not under the head is not counted yet.  *)
Inserting(id) == inserting # Zero /\ Mapped(Writer) /\ Here(Writer) = id
Unpublished(id) ==
  IF id \in torn \/ Inserting(id)
    THEN {After(ring[id].headPos, n) : n \in lengths[id]} ELSE {}

(* checkValueExist reads headPos, *)
Search(p, v) ==
  /\ p # Writer /\ Uses(p)
  /\ LET r == ring[Here(p)]
     IN  search' = [search EXCEPT ![p] =
           [at |-> "looking", of |-> v, pos |-> Start(r.headPos, maxLength[p]), i |-> 0,
            kept |-> IF Here(p) \in broken THEN {}
                     ELSE {c \in Cells : r.data[c] = v} \ Unpublished(Here(p))]]
  /\ UNCHANGED <<shmVars, ring, maxLength, inserting, clearing, writes, past, lengths, torn, broken,
                 overlooked>>

(* and then one element after the other. *)
Look(p) ==
  /\ search[p].at = "looking"
  /\ LET s == Looks(ring[Here(p)], search[p].of, search[p], maxLength[p])
     IN  /\ search' = [search EXCEPT ![p] = IF s.at = "looking" THEN s ELSE NoSearch]
         /\ overlooked' = IF s.at = "missed" /\ s.kept # {} /\ lengths[Here(p)] = {maxLength[p]}
                            THEN overlooked \cup {p} ELSE overlooked
  /\ UNCHANGED <<shmVars, ring, maxLength, inserting, clearing, writes, past, lengths, torn, broken>>

----------------------------------------------------------------------------
Next ==
  \/ \E p \in Procs : Manage(p) \/ MakeList(p) \/ Ends(p) \/ Look(p)
  \/ \E v \in Values : InsertAgain(v) \/ InsertData(v) \/ \E p \in Procs : Search(p, v)
  \/ InsertHead \/ Clear \/ \E c \in Cells \cup {HeadPos} : ClearPiece(c)

Spec == Init /\ [][Next]_vars

----------------------------------------------------------------------------
(* Every variable holds a value of its type. *)
TypeOK ==
  /\ ShmTypeOK
  /\ ring \in [Ids -> [headPos : Cells, data : [Cells -> Values \cup {Zero}]]]
  /\ maxLength \in [Procs -> Sizes \cup {0}]
  /\ inserting \in Values \cup {Zero} /\ writes \in 0 .. MaxWrites
  /\ clearing \subseteq Cells \cup {HeadPos}
  /\ search \in [Procs -> [at : {"none", "looking"},
                           of : Values \cup {Zero}, pos : Cells, i : 0 .. Max(Sizes),
                           kept : SUBSET Cells]]
  /\ past \in [Ids -> Seq(Values)] /\ lengths \in [Ids -> SUBSET Sizes]
  /\ torn \subseteq Ids /\ broken \subseteq Ids /\ overlooked \subseteq Procs

(* The address that an object has mapped is that of the segment it names,  *)
(* and has room for the list that is made of it, whatever others create,   *)
(* remove or leave meanwhile.                                              *)
AddressGood ==
  \A p \in Procs : Mapped(p) =>
    /\ m_shmid[p] = Here(p)
    /\ maxLength[p] \in 1 .. size[Here(p)]

(* A ring that one length of list has written into holds the newest values *)
(* of what was inserted, in order, and nothing else.  A writer that ends   *)
(* within an insertion costs no more than the oldest of them; one that     *)
(* ends within a clear costs all of this until a clear is completed, as    *)
(* what the memset has left comes back, but the head stays in the ring.    *)
RingHoldsNewest ==
  \A id \in Ids : \A n \in lengths[id] : lengths[id] = {n} =>
    /\ ring[id].headPos \in 0 .. n - 1
    /\ id \notin broken /\ ~Inserting(id) =>
         LET r == ring[id]
             known == IF id \in torn THEN Unpublished(id) ELSE {}
             At(k) == (r.headPos + n - k) % n   \* the cell of the last but k
         IN  /\ \A k \in 0 .. n - 1 :
                  At(k) \notin known =>
                    r.data[At(k)] = (IF k < Len(past[id]) THEN past[id][Len(past[id]) - k] ELSE Zero)
             /\ id \notin torn => Size(r, n) = (IF Len(past[id]) < n THEN Len(past[id]) ELSE n)

(* A search does not miss a value that was in the ring when it began and   *)
(* has not been overwritten since, however many are inserted meanwhile:    *)
(* unless a clear was under way or cut off when it began, or began since.  *)
(* (Reader and writer must have made lists of the same length.)            *)
SearchFindsSettled == overlooked = {}
============================================================================
