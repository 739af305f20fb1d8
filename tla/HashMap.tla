------------------------------ MODULE HashMap ------------------------------
(***************************************************************************)
(* The class hashMap (src/include/libutils/hashMap.hpp): a map in a block  *)
(* of memory the caller owns.  The first half of the blocks are the        *)
(* buckets, the second half hold what collides, chained by nextPos.  The   *)
(* methods take no lock: a step is a call.                                 *)
(***************************************************************************)
EXTENDS Integers

CONSTANTS
  Keys, Values,
  m_bucketCount,  \* items that fit in the memory
  hash,           \* the hash of a key
  Garbage         \* what the memory holds before the first put

ASSUME BucketsAssumption == m_bucketCount \in Nat \ {0}
ASSUME HashAssumption == hash \in [Keys -> Nat]
ASSUME GarbageAssumption == Garbage \notin Keys \cup Values

m_maxDataCount == (m_bucketCount + 1) \div 2

Blocks == 0 .. m_bucketCount - 1
Buckets == 0 .. m_maxDataCount - 1
Spare == m_maxDataCount .. m_bucketCount - 1

VARIABLES
  m_pData,
  last,   \* the value of the last successful put of each key since clear
  given   \* all values put for each key since clear

vars == <<m_pData, last, given>>

Item == [isUsed : BOOLEAN, nextPos : Blocks, key : Keys \cup {Garbage}, value : Values \cup {Garbage}]

Bucket(k) == hash[k] % m_maxDataCount

Nothing == [k \in Keys |-> Garbage]

Init ==
  /\ m_pData = [i \in Blocks |-> [isUsed |-> FALSE, nextPos |-> 0, key |-> Garbage, value |-> Garbage]]
  /\ last = Nothing
  /\ given = [k \in Keys |-> {}]

----------------------------------------------------------------------------
(* getPoint: the block where the search for k ends, -1 for NULL.           *)
getPoint(k) ==
  LET from[i \in Blocks] ==
        IF ~m_pData[i].isUsed \/ m_pData[i].key = k THEN i
        ELSE IF m_pData[i].nextPos = 0 THEN -1
        ELSE from[m_pData[i].nextPos]
  IN  from[Bucket(k)]

find(k) == LET i == getPoint(k) IN IF i = -1 \/ ~m_pData[i].isUsed THEN -1 ELSE i

(* get, with Garbage for a null pointer.                                   *)
get(k) == IF find(k) = -1 THEN Garbage ELSE m_pData[find(k)].value

----------------------------------------------------------------------------
Succeeds(k, v) ==
  /\ last' = [last EXCEPT ![k] = v]
  /\ given' = [given EXCEPT ![k] = @ \cup {v}]

(* Mutant: a bucket without a chain is taken for the key's own.            *)
FreeUnchecked(k) == ~m_pData[Bucket(k)].isUsed \/ m_pData[Bucket(k)].nextPos = 0

Free(k) == ~m_pData[Bucket(k)].isUsed \/ m_pData[Bucket(k)].key = k

FreeSpare == {i \in Spare : ~m_pData[i].isUsed}

(* The first free block of the second half.                                *)
FirstFree(n) == n \in FreeSpare /\ \A i \in FreeSpare : n <= i

(* The block put chains the new one to: the bucket, or the second block of *)
(* its chain.                                                              *)
ChainTo(k) ==
  LET b == Bucket(k)
  IN  IF m_pData[b].nextPos # 0 THEN m_pData[b].nextPos ELSE b

(* The key is written into an unused block only: a used one holds it.      *)
PutBucket(k, v) ==
  /\ Free(k)
  /\ LET b == Bucket(k)
     IN  m_pData' = [m_pData EXCEPT ![b].key = IF m_pData[b].isUsed THEN @ ELSE k,
                                    ![b].isUsed = TRUE, ![b].value = v]
  /\ Succeeds(k, v)

(* Mutant: the chain is not extended.                                      *)
PutChainedLoose(k, v) ==
  /\ ~Free(k)
  /\ \E n \in FreeSpare :
       /\ FirstFree(n)
       /\ m_pData' = [m_pData EXCEPT ![n].isUsed = TRUE, ![n].key = k, ![n].value = v]
  /\ Succeeds(k, v)

PutChained(k, v) ==
  /\ ~Free(k)
  /\ \E n \in FreeSpare :
       /\ FirstFree(n)
       /\ m_pData' = [m_pData EXCEPT ![ChainTo(k)].nextPos = n, ![n].isUsed = TRUE,
                                     ![n].key = k, ![n].value = v]
  /\ Succeeds(k, v)

(* put returns OUT_OF_RANGE, also for a key that has a block.              *)
PutFull(k, v) ==
  /\ ~Free(k)
  /\ FreeSpare = {}
  /\ UNCHANGED vars

put(k, v) == PutBucket(k, v) \/ PutChained(k, v) \/ PutFull(k, v)

(* Mutant: clear leaves the chains.                                        *)
ClearKeepsChains ==
  /\ m_pData' = [i \in Blocks |-> [m_pData[i] EXCEPT !.isUsed = FALSE]]
  /\ last' = Nothing
  /\ given' = [k \in Keys |-> {}]

clear ==
  /\ m_pData' = [i \in Blocks |-> [m_pData[i] EXCEPT !.isUsed = FALSE, !.nextPos = 0]]
  /\ last' = Nothing
  /\ given' = [k \in Keys |-> {}]

Next == clear \/ \E k \in Keys, v \in Values : put(k, v)

Spec == Init /\ [][Next]_vars

----------------------------------------------------------------------------
(* The memory holds items, every one inside the block of memory.           *)
TypeOK ==
  /\ m_pData \in [Blocks -> Item]
  /\ last \in [Keys -> Values \cup {Garbage}]
  /\ given \in [Keys -> SUBSET Values]

(* A chain only goes up, to used blocks of the second half: so the search  *)
(* of getPoint ends, and ends inside the memory, after any number of puts  *)
(* and clears.  The second half fills from its start.                      *)
ChainsAscend ==
  /\ \A i \in Blocks : m_pData[i].nextPos # 0 =>
       /\ i < m_pData[i].nextPos
       /\ m_pData[i].nextPos \in Spare
       /\ m_pData[i].isUsed /\ m_pData[m_pData[i].nextPos].isUsed
  /\ \A i, j \in Spare : i < j /\ m_pData[j].isUsed => m_pData[i].isUsed

(* Chains never meet: a block in use holds a key of the bucket its chain   *)
(* starts from, and no two blocks are followed by the same one.            *)
BucketsApart ==
  /\ \A i \in Blocks : m_pData[i].isUsed => m_pData[i].key \in Keys
  /\ \A i \in Buckets : m_pData[i].isUsed => Bucket(m_pData[i].key) = i
  /\ \A i \in Blocks : m_pData[i].nextPos # 0 =>
       Bucket(m_pData[i].key) = Bucket(m_pData[m_pData[i].nextPos].key)
  /\ \A i, j \in Blocks : m_pData[i].nextPos # 0 /\ m_pData[i].nextPos = m_pData[j].nextPos => i = j

(* get returns nothing but a value that was put for that very key and not  *)
(* cleared since, whatever keys collide with it.                           *)
GetIsSound == \A k \in Keys : get(k) \in given[k] \cup {Garbage}

(* A key that get does not find, put makes it find, if it succeeds: also   *)
(* in a bucket whose chain is already long.                                *)
NewKeyFound ==
  [][\A k \in Keys : get(k) = Garbage /\ last'[k] # last[k] => get(k)' = last'[k]]_vars

=============================================================================
