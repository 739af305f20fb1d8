-------------------------- MODULE SharedRingProofs --------------------------
(***************************************************************************)
(* Theorems about SharedRing for any processes, sizes, values, and numbers *)
(* of segments and of writes.                                              *)
(***************************************************************************)
EXTENDS SharedRing, FiniteSetTheorems, SequenceTheorems, WellFoundedInduction, TLAPS

(* Segments get the next number each.                                      *)
Numbered == \E k \in 0 .. MaxSegs : \A id \in Ids : size[id] > 0 <=> id <= k

(* An identifier is of a segment that was created; what an object has      *)
(* mapped bears it; it maps nothing until a call has found a segment that  *)
(* is large enough.                                                        *)
Identified ==
  \A p \in Procs :
    /\ m_shmid[p] # -1 => size[m_shmid[p]] > 0
    /\ pc[p] \in {"stat", "create", "remove"} => ~Mapped(p)
    /\ pc[p] \in {"stat", "create", "attach"} => call[p] \in Calls(p)
    /\ pc[p] = "create" => call[p].op = "open"
    /\ pc[p] \in {"stat", "attach"} => m_shmid[p] # -1
    /\ pc[p] = "attach" => size[m_shmid[p]] >= call[p].size

(* Who writes or searches stays in the segment meanwhile; what a clear has *)
(* disturbed is kept of no search.                                         *)
Staying ==
  /\ inserting # Zero \/ clearing # {} =>
       pc[Writer] = "idle" /\ Mapped(Writer) /\ maxLength[Writer] \in lengths[Here(Writer)]
  /\ clearing # {} =>
       inserting = Zero /\ clearing \subseteq Pieces(maxLength[Writer]) /\ Here(Writer) \in broken
  /\ \A p \in Procs : search[p].at = "looking" =>
       /\ p # Writer /\ pc[p] = "idle" /\ Mapped(p)
       /\ search[p].of \in Values /\ search[p].i <= maxLength[p]
       /\ Here(p) \in broken => search[p].kept = {}

(* The cell of the last element but k in a ring of n with the head at h.   *)
Back(h, k, n) == (h + n - k) % n

(* Memory r holds the newest of h in a ring of n, but for the open cell.   *)
Holds(r, h, n, open) ==
  /\ r.headPos \in 0 .. n - 1
  /\ \A k \in 0 .. n - 1 :
       Back(r.headPos, k, n) \notin open =>
         r.data[Back(r.headPos, k, n)] = (IF k < Len(h) THEN h[Len(h) - k] ELSE Zero)
  /\ \A c \in Cells : c >= n => r.data[c] = Zero
  /\ \A c \in open : c = After(r.headPos, n) /\ r.data[c] \in Values
  /\ h = <<>> => open = {} /\ r.headPos = 0

(* Whatever is in the ring, its head is and nothing lies behind it.        *)
Within(r, n) == r.headPos \in 0 .. n - 1 /\ \A c \in Cells : c >= n => r.data[c] = Zero

(* All is zero but for the pieces that are left.                           *)
Wiped(r, n, left) ==
  /\ HeadPos \notin left => r.headPos = 0
  /\ \A c \in 0 .. n - 1 : c \notin left => r.data[c] = Zero

Clearing(id) == clearing # {} /\ Mapped(Writer) /\ Here(Writer) = id

Content(id, n) ==
  /\ Within(ring[id], n)
  /\ id \notin broken =>
       /\ Holds(ring[id], past[id], n, Unpublished(id))
       /\ Inserting(id) => ring[id].data[After(ring[id].headPos, n)] = inserting
  /\ Clearing(id) => Wiped(ring[id], n, clearing)

Contents ==
  \A id \in Ids :
    /\ lengths[id] = {} => ring[id] = Blank /\ id \notin broken
    /\ lengths[id] = {} \/ id \in broken => past[id] = <<>> /\ id \notin torn
    /\ Len(past[id]) <= Max(Sizes)
    /\ \A n \in lengths[id] : lengths[id] = {n} => Content(id, n)

(* A search has begun at some h, and has gone back from there.  What was   *)
(* kept lies before it, and on this side of the first empty element.       *)
Searched(r, s, n) ==
  s.kept # {} =>
    \E h \in 0 .. n - 1 :
      /\ s.i \in 0 .. n /\ s.pos = Back(h, s.i, n)
      /\ \A c \in s.kept : r.data[c] = s.of /\ \E k \in s.i .. n - 1 : c = Back(h, k, n)
      /\ \A j \in 0 .. n - 1 : \A k \in j .. n - 1 :
           r.data[Back(h, j, n)] = Zero => Back(h, k, n) \notin s.kept
Searches ==
  \A p \in Procs :
    search[p].at = "looking" /\ lengths[Here(p)] \subseteq {maxLength[p]} =>
      Searched(ring[Here(p)], search[p], maxLength[p])

IInv ==
  /\ TypeOK /\ Numbered /\ Identified /\ AddressGood
  /\ Staying /\ Contents /\ Searches /\ SearchFindsSettled

----------------------------------------------------------------------------
(* Rings and numbers.                                                      *)
LEMMA LeastOf ==
  ASSUME NEW T \in SUBSET Nat, T # {}
  PROVE  \E n \in T : \A m \in T : n <= m
<1> DEFINE R == OpToRel(<, Nat)
<1>1. IsWellFoundedOn(R, Nat)
  BY NatLessThanWellFounded
<1>2. \A m, n \in Nat : m < n => <<m, n>> \in R
  BY DEF OpToRel
<1> HIDE DEF R
<1>3. \E n \in T : \A m \in T : ~(<<m, n>> \in R)
  BY <1>1, WFMin
<1>4. PICK n \in T : \A m \in T : <<m, n>> \notin R
  BY <1>3
<1>5. \A m \in T : m \in Nat /\ n \in Nat /\ ~(m < n)
  BY <1>2, <1>4
<1>6. QED
  BY <1>4, <1>5

(* There is a largest list, and headPos has room for it.                   *)
LEMMA LargestSize ==
  /\ Max(Sizes) \in Nat \ {0} /\ \A n \in Sizes : n \in Nat \ {0} /\ n <= Max(Sizes) /\ n <= Byte
  /\ Byte \in Nat \ {0} /\ Max(Sizes) <= Byte
<1> USE SizesAssumption, LengthsFit, ByteAssumption
<1>1. \A n \in Sizes : n \in Nat \ {0} /\ n <= Byte
  OBVIOUS
<1> DEFINE T == {Byte - n : n \in Sizes}
<1>2. T \in SUBSET Nat /\ T # {}
  <2>1. \A n \in Sizes : Byte - n \in Nat
    BY <1>1
  <2>2. \E n \in Sizes : Byte - n \in T
    OBVIOUS
  <2>3. QED
    BY <2>1, <2>2
<1>3. PICK m \in T : \A o \in T : m <= o
  BY <1>2, LeastOf
<1>4. PICK x \in Sizes : m = Byte - x
  BY <1>3
<1>5. \A n \in Sizes : n <= x
  <2> SUFFICES ASSUME NEW n \in Sizes PROVE n <= x
    OBVIOUS
  <2>1. Byte - n \in T
    OBVIOUS
  <2>2. Byte - x <= Byte - n
    BY <1>3, <1>4, <2>1
  <2> QED
    BY <1>1, <2>2
<1>6. \E y \in Sizes : \A n \in Sizes : y >= n
  BY <1>1, <1>5
<1>7. Max(Sizes) \in Sizes /\ \A n \in Sizes : Max(Sizes) >= n
  BY <1>6 DEF Max
<1>8. QED
  BY <1>1, <1>7

LEMMA Remainder ==
  ASSUME NEW n \in Nat \ {0}, NEW a \in Nat
  PROVE  (a < n => a % n = a) /\ (n <= a /\ a < n + n => a % n = a - n)
OBVIOUS

(* The cell behind another, the one before it, and the last but k.         *)
LEMMA AfterIs ==
  ASSUME NEW n \in Nat \ {0}, n <= Byte, NEW h \in 0 .. n - 1
  PROVE  /\ After(h, n) = (IF h = n - 1 THEN 0 ELSE h + 1)
         /\ After(h, n) \in 0 .. n - 1
<1>1. PICK a \in 0 .. n - 1 : a = (IF h = n - 1 THEN 0 ELSE h + 1)
  OBVIOUS
<1>2. a \in Nat /\ a < Byte /\ Byte \in Nat \ {0}
  BY <1>1, ByteAssumption
<1>3. a % Byte = a
  BY <1>2, Remainder
<1>4. QED
  BY <1>1, <1>3 DEF After

LEMMA BeforeIs ==
  ASSUME NEW n \in Nat \ {0}, n <= Byte, NEW h \in 0 .. n - 1
  PROVE  Before(h, n) = (IF h = 0 THEN n - 1 ELSE h - 1)
<1>1. PICK a \in 0 .. n - 1 : a = (IF h = 0 THEN n - 1 ELSE h - 1)
  OBVIOUS
<1>2. a \in Nat /\ a < Byte /\ Byte \in Nat \ {0}
  BY <1>1, ByteAssumption
<1>3. a % Byte = a
  BY <1>2, Remainder
<1>4. QED
  BY <1>1, <1>3 DEF Before

LEMMA BackIs ==
  ASSUME NEW n \in Nat \ {0}, NEW h \in 0 .. n - 1, NEW k \in 0 .. n
  PROVE  /\ Back(h, k, n) = (IF k <= h THEN h - k ELSE h + n - k)
         /\ Back(h, k, n) \in 0 .. n - 1
<1>1. PICK a \in Nat : a = h + n - k
  OBVIOUS
<1>2. Back(h, k, n) = a % n
  BY <1>1 DEF Back
<1>3. (a < n => a % n = a) /\ (n <= a /\ a < n + n => a % n = a - n)
  BY Remainder
<1>4. CASE k <= h
  BY <1>1, <1>2, <1>3, <1>4
<1>5. CASE h < k
  BY <1>1, <1>2, <1>3, <1>5
<1>6. QED
  BY <1>4, <1>5

LEMMA BackReaches ==
  ASSUME NEW n \in Nat \ {0}, NEW h \in 0 .. n - 1
  PROVE  /\ \A c \in 0 .. n - 1 : \E k \in 0 .. n - 1 : c = Back(h, k, n)
         /\ \A j, k \in 0 .. n - 1 : Back(h, j, n) = Back(h, k, n) => j = k
<1>1. ASSUME NEW c \in 0 .. n - 1 PROVE \E k \in 0 .. n - 1 : c = Back(h, k, n)
  <2>1. CASE c <= h
    <3>1. h - c \in 0 .. n - 1 /\ Back(h, h - c, n) = c
      BY <2>1, BackIs
    <3>2. QED
      BY <3>1
  <2>2. CASE h < c
    <3>1. h + n - c \in 0 .. n - 1 /\ Back(h, h + n - c, n) = c
      BY <2>2, BackIs
    <3>2. QED
      BY <3>1
  <2>3. QED
    BY <2>1, <2>2
<1>2. ASSUME NEW j \in 0 .. n - 1, NEW k \in 0 .. n - 1, Back(h, j, n) = Back(h, k, n) PROVE j = k
  <2>1. j \in 0 .. n /\ k \in 0 .. n
    OBVIOUS
  <2>2. PICK c \in 0 .. n - 1 : c = Back(h, j, n) /\ c = Back(h, k, n)
    BY <1>2, <2>1, BackIs
  <2>3. c = (IF j <= h THEN h - j ELSE h + n - j)
    BY <2>1, <2>2, BackIs
  <2>4. c = (IF k <= h THEN h - k ELSE h + n - k)
    BY <2>1, <2>2, BackIs
  <2>5. QED
    BY <2>3, <2>4
<1>3. QED
  BY <1>1, <1>2

(* When the head goes on, the last but k is the last but k + 1.            *)
LEMMA BackMoves ==
  ASSUME NEW n \in Nat \ {0}, n <= Byte, NEW h \in 0 .. n - 1
  PROVE  /\ Back(h, 0, n) = h
         /\ After(h, n) = Back(h, n - 1, n)
         /\ Back(After(h, n), 0, n) = After(h, n)
         /\ \A k \in 1 .. n - 1 : Back(After(h, n), k, n) = Back(h, k - 1, n)
         /\ \A k \in 0 .. n - 1 : Before(Back(h, k, n), n) = Back(h, k + 1, n)
<1> DEFINE a == IF h = n - 1 THEN 0 ELSE h + 1
<1>1. After(h, n) = a /\ a \in 0 .. n - 1
  BY AfterIs
<1>2. \A g \in 0 .. n - 1, k \in 0 .. n : Back(g, k, n) = (IF k <= g THEN g - k ELSE g + n - k)
  BY BackIs
<1>3. Back(h, 0, n) = h /\ After(h, n) = Back(h, n - 1, n) /\ Back(After(h, n), 0, n) = After(h, n)
  BY <1>1, <1>2
<1>4. ASSUME NEW k \in 1 .. n - 1 PROVE Back(After(h, n), k, n) = Back(h, k - 1, n)
  BY <1>1, <1>2
<1>5. ASSUME NEW k \in 0 .. n - 1 PROVE Before(Back(h, k, n), n) = Back(h, k + 1, n)
  <2>1. PICK g \in 0 .. n - 1 : g = Back(h, k, n)
    BY BackIs
  <2>2. Before(g, n) = (IF g = 0 THEN n - 1 ELSE g - 1)
    BY BeforeIs
  <2>3. g = (IF k <= h THEN h - k ELSE h + n - k)
    BY <1>2, <2>1
  <2>4. Back(h, k + 1, n) = (IF k + 1 <= h THEN h - (k + 1) ELSE h + n - (k + 1))
    BY <1>2
  <2>5. (IF g = 0 THEN n - 1 ELSE g - 1) = (IF k + 1 <= h THEN h - (k + 1) ELSE h + n - (k + 1))
    BY <2>3
  <2>6. QED
    BY <2>1, <2>2, <2>4, <2>5
<1>6. QED
  BY <1>3, <1>4, <1>5

(* What is kept of the newest.                                             *)
LEMMA NewestIs ==
  ASSUME NEW h \in Seq(Values), Len(h) <= Max(Sizes) + 1
  PROVE  /\ Newest(h) \in Seq(Values)
         /\ Len(Newest(h)) = (IF Len(h) <= Max(Sizes) THEN Len(h) ELSE Max(Sizes))
         /\ \A k \in 0 .. Len(Newest(h)) - 1 : Newest(h)[Len(Newest(h)) - k] = h[Len(h) - k]
<1> DEFINE m == Len(h) + 1 - Max(Sizes)
<1>1. Len(h) \in Nat /\ Max(Sizes) \in Nat \ {0} /\ m \in Int
  BY LargestSize
<1>2. Max({1, m}) = (IF m <= 1 THEN 1 ELSE m)
  <2>1. \E x \in {1, m} : \A y \in {1, m} : x >= y
    BY <1>1
  <2>2. Max({1, m}) \in {1, m} /\ \A y \in {1, m} : Max({1, m}) >= y
    BY <2>1 DEF Max
  <2> HIDE DEF m
  <2>3. QED
    BY <1>1, <2>2
<1>3. PICK f \in Nat : f = Max({1, m})
  BY <1>1, <1>2
<1>4. f \in 1 .. Len(h) + 1 /\ f = (IF Len(h) <= Max(Sizes) THEN 1 ELSE 2)
  BY <1>1, <1>2, <1>3
<1>5. Newest(h) = SubSeq(h, f, Len(h))
  BY <1>3 DEF Newest
<1> HIDE DEF m
<1>6. /\ SubSeq(h, f, Len(h)) \in Seq(Values)
      /\ Len(SubSeq(h, f, Len(h))) = Len(h) - f + 1
      /\ \A i \in 1 .. Len(h) - f + 1 : SubSeq(h, f, Len(h))[i] = h[f + i - 1]
  <2>1. \A i \in f .. Len(h) : h[i] \in Values
    BY <1>1, <1>4
  <2>2. f <= Len(h) \/ Len(h) - f + 1 = 0
    BY <1>1, <1>4
  <2>3. QED
    BY <1>1, <2>1, <2>2, SubSeqProperties
<1>7. Len(Newest(h)) = Len(h) - f + 1
  BY <1>5, <1>6
<1>8. ASSUME NEW k \in 0 .. Len(h) - f PROVE Newest(h)[Len(h) - f + 1 - k] = h[Len(h) - k]
  <2>1. Len(h) - f + 1 - k \in 1 .. Len(h) - f + 1
    BY <1>1, <1>4
  <2>2. Newest(h)[Len(h) - f + 1 - k] = h[f + (Len(h) - f + 1 - k) - 1]
    BY <1>5, <1>6, <2>1
  <2>3. f + (Len(h) - f + 1 - k) - 1 = Len(h) - k
    BY <1>1, <1>4
  <2>4. QED
    BY <2>2, <2>3
<1>9. Len(Newest(h)) = (IF Len(h) <= Max(Sizes) THEN Len(h) ELSE Max(Sizes))
  BY <1>1, <1>4, <1>7
<1>10. ASSUME NEW k \in 0 .. Len(Newest(h)) - 1 PROVE Newest(h)[Len(Newest(h)) - k] = h[Len(h) - k]
  <2>1. k \in 0 .. Len(h) - f
    BY <1>1, <1>4, <1>7
  <2>2. QED
    BY <1>7, <1>8, <2>1
<1>11. QED
  BY <1>5, <1>6, <1>9, <1>10

----------------------------------------------------------------------------
(* The segments.                                                           *)
Segments ==
  /\ ShmTypeOK /\ maxLength \in [Procs -> Sizes \cup {0}]
  /\ Numbered /\ Identified /\ AddressGood

LEMMA CallIs ==
  ASSUME NEW p \in Procs, NEW c \in Calls(p)
  PROVE  /\ c \in [op : {"none", "open", "connect"}, size : Sizes \cup {0}, writable : BOOLEAN]
         /\ c.size \in Nat /\ c.op = "open" => c.size \in Sizes
<1>1. CASE \E n \in Sizes : c = [op |-> "open", size |-> n, writable |-> TRUE]
  BY <1>1, LargestSize
<1>2. CASE c = [op |-> "connect", size |-> 0, writable |-> p \notin Readers]
  BY <1>2
<1>3. QED
  BY <1>1, <1>2 DEF Calls

LEMMA SizeIs == ASSUME ShmTypeOK, NEW id \in Ids PROVE size[id] \in Nat
<1>1. size[id] \in Sizes \/ size[id] = 0
  BY DEF ShmTypeOK
<1>2. QED
  BY <1>1, LargestSize

LEMMA NoCallIs == NoCall \in [op : {"none", "open", "connect"}, size : Sizes \cup {0}, writable : BOOLEAN]
BY DEF NoCall

LEMMA MappedIs ==
  ASSUME ShmTypeOK, NEW p \in Procs
  PROVE  /\ Mapped(p) => Here(p) \in Ids
         /\ m_addr[p] \in [id : Ids, writable : BOOLEAN] => Mapped(p)
BY AddressesAssumption DEF ShmTypeOK, Mapped, Here

(* What an object has mapped exists.                                       *)
LEMMA MappedExists ==
  ASSUME Segments, NEW p \in Procs, Mapped(p)
  PROVE  Here(p) \in Ids /\ size[Here(p)] > 0 /\ Exists(Here(p))
<1>1. Here(p) \in Ids
  BY MappedIs DEF Segments
<1>2. size[Here(p)] \in Nat /\ maxLength[p] \in 1 .. size[Here(p)]
  BY <1>1, SizeIs DEF Segments, AddressGood
<1>3. size[Here(p)] > 0
  BY <1>2
<1>4. Attached(Here(p))
  BY DEF Attached, Here
<1>5. QED
  BY <1>1, <1>3, <1>4 DEF Exists, Ids

(* What a call of one process leaves alone: segments that are there, and   *)
(* what the others have.                                                   *)
Alone(p) ==
  /\ \A id \in Ids : size[id] > 0 => size'[id] = size[id]
  /\ \A q \in Procs \ {p} : m_addr'[q] = m_addr[q] /\ m_shmid'[q] = m_shmid[q] /\ pc'[q] = pc[q]

(* A list is gone with its mapping.                                        *)
Forgets(p) == maxLength' = [maxLength EXCEPT ![p] = IF Mapped(p)' THEN @ ELSE 0]

LEMMA ForgetsIs ==
  ASSUME Segments, NEW p \in Procs, Forgets(p)
  PROVE  /\ maxLength' \in [Procs -> Sizes \cup {0}]
         /\ \A q \in Procs : Mapped(q)' \/ q # p => maxLength'[q] = maxLength[q]
BY DEF Segments, Forgets

LEMMA ShmGetKeeps ==
  ASSUME Segments, NEW p \in Procs, Forgets(p), NEW c \in Calls(p), ShmGet(p, c)
  PROVE  Segments' /\ Alone(p)
<1> USE DEF Segments
<1>1. /\ maxLength' \in [Procs -> Sizes \cup {0}]
      /\ \A q \in Procs : Mapped(q)' \/ q # p => maxLength'[q] = maxLength[q]
  BY ForgetsIs
<1>2. /\ pc[p] = "idle" /\ m_shmid[p] = -1 /\ UNCHANGED <<size, removed, m_addr>>
      /\ m_shmid' = [m_shmid EXCEPT ![p] = m_shmid'[p]] /\ m_shmid'[p] \in {-1} \cup Named
      /\ pc' = [pc EXCEPT ![p] = pc'[p]] /\ call' = [call EXCEPT ![p] = call'[p]]
      /\ \/ pc'[p] = "stat" /\ call'[p] = c /\ m_shmid'[p] # -1
         \/ pc'[p] = "create" /\ call'[p] = c /\ c.op = "open" /\ m_shmid'[p] = -1
         \/ pc'[p] = "idle" /\ call'[p] = NoCall /\ m_shmid'[p] = -1
  BY DEF ShmGet, ShmTypeOK, Continues, Goes, Returns, WithoutSegment, kernelVars, Named, Ids
<1>3. ~Mapped(p)
  BY <1>2, MappedIs DEF AddressGood, Ids
<1>4. ShmTypeOK'
  <2>1. m_shmid' \in [Procs -> Ids \cup {-1}]
    BY <1>2 DEF ShmTypeOK, Named
  <2>2. call'[p] \in [op : {"none", "open", "connect"}, size : Sizes \cup {0}, writable : BOOLEAN]
    BY <1>2, CallIs, NoCallIs
  <2>3. QED
    BY <1>2, <2>1, <2>2 DEF ShmTypeOK
<1>5. Numbered'
  BY <1>2 DEF Numbered
<1>6. Identified'
  BY <1>2, <1>3 DEF Identified, Mapped, Named, ShmTypeOK, Calls
<1>7. AddressGood'
  BY <1>1, <1>2, <1>3 DEF AddressGood, Mapped, Here, ShmTypeOK
<1>8. Alone(p)
  BY <1>2 DEF Alone, ShmTypeOK
<1>9. QED
  BY <1>1, <1>4, <1>5, <1>6, <1>7, <1>8

LEMMA StatKeeps ==
  ASSUME Segments, NEW p \in Procs, Forgets(p), NEW c \in Calls(p), Stat(p, c)
  PROVE  Segments' /\ Alone(p)
<1> USE DEF Segments
<1>1. /\ maxLength' \in [Procs -> Sizes \cup {0}]
      /\ \A q \in Procs : Mapped(q)' \/ q # p => maxLength'[q] = maxLength[q]
  BY ForgetsIs
<1>2. /\ UNCHANGED <<size, removed, m_shmid, m_addr>>
      /\ pc' = [pc EXCEPT ![p] = pc'[p]] /\ call' = [call EXCEPT ![p] = call'[p]]
      /\ \/ pc'[p] = "attach" /\ call'[p] = c /\ Exists(m_shmid[p]) /\ size[m_shmid[p]] >= c.size
         \/ pc'[p] = "create" /\ call'[p] = c /\ c.op = "open" /\ ~Exists(m_shmid[p])
         \/ pc'[p] = "idle" /\ call'[p] = NoCall
  BY DEF Stat, ShmTypeOK, Continues, Goes, Returns, WithoutSegment, kernelVars, objectVars
<1>3. ~Exists(m_shmid[p]) => ~Mapped(p)
  BY MappedExists DEF AddressGood
<1>4. ShmTypeOK'
  BY <1>2, CallIs, NoCallIs DEF ShmTypeOK
<1>5. Numbered'
  BY <1>2 DEF Numbered
<1>6. Identified'
  BY <1>2, <1>3 DEF Identified, Mapped, Exists, ShmTypeOK, Calls
<1>7. AddressGood'
  BY <1>1, <1>2 DEF AddressGood, Mapped, Here
<1>8. Alone(p)
  BY <1>2 DEF Alone, ShmTypeOK
<1>9. QED
  BY <1>1, <1>4, <1>5, <1>6, <1>7, <1>8

LEMMA CreateKeeps ==
  ASSUME Segments, NEW p \in Procs, Forgets(p), Create(p)
  PROVE  Segments' /\ Alone(p)
<1> USE DEF Segments
<1>1. /\ maxLength' \in [Procs -> Sizes \cup {0}]
      /\ \A q \in Procs : Mapped(q)' \/ q # p => maxLength'[q] = maxLength[q]
  BY ForgetsIs
<1> DEFINE c == call[p]
<1>2. /\ pc[p] = "create" /\ c \in Calls(p) /\ c.op = "open" /\ c.size \in Sizes /\ c.size > 0
      /\ ~Mapped(p)
  <2>1. /\ pc[p] = "create" /\ c \in Calls(p) /\ c.op = "open" /\ ~Mapped(p)
    BY DEF Create, Identified
  <2> HIDE DEF c
  <2>2. QED
    BY <2>1, CallIs, LargestSize
<1>3. PICK id \in Ids :
        /\ \/ id \in Named /\ size[id] >= c.size /\ UNCHANGED size
           \/ id = 1 + Cardinality({o \in Ids : size[o] > 0}) /\ size' = [size EXCEPT ![id] = c.size]
        /\ m_shmid' = [m_shmid EXCEPT ![p] = id]
  BY DEF Create
<1>4. PICK k \in 0 .. MaxSegs : \A o \in Ids : size[o] > 0 <=> o <= k
  BY DEF Numbered
<1>5. Cardinality({o \in Ids : size[o] > 0}) = k
  <2>1. {o \in Ids : size[o] > 0} = 1 .. k
    BY <1>4, SizesAssumption DEF Ids
  <2>2. Cardinality(1 .. k) = k
    BY FS_Interval
  <2>3. QED
    BY <2>1, <2>2
<1>6. \/ id \in Named /\ size[id] >= c.size /\ UNCHANGED size
      \/ id = k + 1 /\ size[id] = 0 /\ size' = [size EXCEPT ![id] = c.size]
  <2>1. id = k + 1 => ~(size[id] > 0) /\ size[id] \in Nat
    BY <1>4, SizeIs, SizesAssumption DEF Ids
  <2>2. id = k + 1 => size[id] = 0
    BY <2>1
  <2>3. QED
    BY <1>3, <1>5, <2>2
<1>7. /\ UNCHANGED <<removed, m_addr>>
      /\ pc' = [pc EXCEPT ![p] = "attach"] /\ call' = [call EXCEPT ![p] = c]
  BY DEF Create, Continues, Goes
<1> HIDE DEF c
<1>8. /\ \A o \in Ids : size[o] > 0 => size'[o] = size[o]
      /\ size'[id] > 0 /\ size'[id] >= c.size /\ size' \in [Ids -> Sizes \cup {0}]
  BY <1>2, <1>6, SizeIs, LargestSize DEF ShmTypeOK, Named
<1>9. ShmTypeOK'
  BY <1>2, <1>3, <1>7, <1>8, CallIs DEF ShmTypeOK
<1>10. Numbered'
  <2>1. CASE UNCHANGED size
    BY <2>1 DEF Numbered
  <2>2. CASE id = k + 1 /\ size' = [size EXCEPT ![id] = c.size]
    <3>1. k + 1 \in 0 .. MaxSegs
      BY <2>2, SizesAssumption DEF Ids
    <3>2. \A o \in Ids : size'[o] > 0 <=> o <= k + 1
      BY <1>2, <1>4, <2>2, SizesAssumption DEF ShmTypeOK, Ids
    <3>3. QED
      BY <3>1, <3>2 DEF Numbered
  <2>3. QED
    BY <1>6, <2>1, <2>2
<1>11. Identified'
  BY <1>2, <1>3, <1>7, <1>8 DEF Identified, Mapped, ShmTypeOK, Calls, Ids
<1>12. AddressGood'
  BY <1>1, <1>2, <1>3, <1>7, <1>8, MappedExists DEF AddressGood, Mapped, Here, ShmTypeOK
<1>13. Alone(p)
  BY <1>3, <1>7, <1>8 DEF Alone, ShmTypeOK
<1>14. QED
  BY <1>1, <1>9, <1>10, <1>11, <1>12, <1>13

LEMMA CreateFailsKeeps ==
  ASSUME Segments, NEW p \in Procs, Forgets(p), CreateFails(p)
  PROVE  Segments' /\ Alone(p)
<1>1. /\ maxLength' \in [Procs -> Sizes \cup {0}]
      /\ \A q \in Procs : Mapped(q)' \/ q # p => maxLength'[q] = maxLength[q]
  BY ForgetsIs
<1> USE DEF Segments, CreateFails, Returns, Continues, Goes, kernelVars
<1>2. ~Mapped(p)
  BY DEF Identified
<1>3. ShmTypeOK'
  BY NoCallIs DEF ShmTypeOK
<1>4. Numbered' /\ Alone(p)
  BY DEF Numbered, Alone, ShmTypeOK
<1>5. Identified'
  BY <1>2 DEF Identified, Mapped, ShmTypeOK
<1>6. AddressGood'
  BY <1>1, <1>2 DEF AddressGood, Mapped, Here, ShmTypeOK
<1>7. QED
  BY <1>1, <1>3, <1>4, <1>5, <1>6

LEMMA LeavesKeeps ==
  ASSUME Segments, NEW p \in Procs, Forgets(p),
         Unattach(p) \/ RemoveUnattached(p) \/ RemoveShm(p)
  PROVE  Segments' /\ Alone(p)
<1> USE DEF Segments
<1>1. /\ maxLength' \in [Procs -> Sizes \cup {0}]
      /\ \A q \in Procs : Mapped(q)' \/ q # p => maxLength'[q] = maxLength[q]
  BY ForgetsIs
<1>2. /\ UNCHANGED <<size, call>> /\ removed' \subseteq removed \cup ({m_shmid[p]} \ {-1})
      /\ m_addr' = [m_addr EXCEPT ![p] = NULL] \/ UNCHANGED m_addr
      /\ m_addr'[p] = NULL \/ ~Mapped(p)
      /\ pc' = [pc EXCEPT ![p] = pc'[p]] /\ pc'[p] \in {"idle", "remove"}
      /\ m_shmid' = [m_shmid EXCEPT ![p] = -1] \/ UNCHANGED m_shmid
  BY DEF Unattach, RemoveUnattached, RemoveShm, Goes, kernelVars, objectVars, ShmTypeOK, Identified, Mapped
<1>3. ~Mapped(p)'
  BY <1>2 DEF Mapped, ShmTypeOK
<1>4. ShmTypeOK'
  BY <1>2 DEF ShmTypeOK
<1>5. Numbered' /\ Alone(p)
  BY <1>2 DEF Numbered, Alone, ShmTypeOK
<1>6. Identified'
  BY <1>2, <1>3 DEF Identified, Mapped, ShmTypeOK
<1>7. AddressGood'
  BY <1>1, <1>2, <1>3 DEF AddressGood, Mapped, Here, ShmTypeOK
<1>8. QED
  BY <1>1, <1>4, <1>5, <1>6, <1>7

LEMMA MakeListKeeps ==
  ASSUME Segments, NEW p \in Procs, MakeList(p)
  PROVE  Segments' /\ Alone(p) /\ UNCHANGED size
<1> USE DEF Segments
<1> DEFINE c == call[p]
           m == IF c.op = "open" THEN c.size ELSE size[m_shmid[p]]
           n == IF ~Mapped(p)' THEN 0 ELSE m
<1>1. /\ pc[p] = "attach" /\ c \in Calls(p) /\ m_shmid[p] \in Ids /\ size[m_shmid[p]] \in Nat
      /\ size[m_shmid[p]] > 0 /\ size[m_shmid[p]] >= c.size
  BY SizeIs DEF MakeList, Attach, Identified, ShmTypeOK
<1>2. m \in Sizes /\ m \in 1 .. size[m_shmid[p]]
  <2>1. size[m_shmid[p]] \in Sizes
    BY <1>1 DEF ShmTypeOK
  <2> HIDE DEF c
  <2>2. QED
    BY <1>1, <2>1, CallIs, LargestSize
<1>3. /\ UNCHANGED <<size, removed, m_shmid>>
      /\ pc' = [pc EXCEPT ![p] = "idle"] /\ call' = [call EXCEPT ![p] = NoCall]
      /\ maxLength' = [maxLength EXCEPT ![p] = n]
      /\ \/ m_addr[p] # NULL /\ UNCHANGED m_addr
         \/ m_addr' = [m_addr EXCEPT ![p] = [id |-> m_shmid[p], writable |-> c.writable]]
         \/ m_addr' = [m_addr EXCEPT ![p] = Failed]
  BY DEF MakeList, Attach, Returns, Continues, Goes, kernelVars
<1>4. n \in Sizes \cup {0} /\ (Mapped(p)' => n \in 1 .. size[m_shmid[p]])
  BY <1>2
<1> HIDE DEF m, n
<1>5. ShmTypeOK'
  BY <1>1, <1>3, CallIs, NoCallIs DEF ShmTypeOK
<1>6. Numbered' /\ Alone(p)
  BY <1>3 DEF Numbered, Alone, ShmTypeOK
<1>7. Identified'
  BY <1>1, <1>3 DEF Identified, Mapped, ShmTypeOK
<1>8. AddressGood'
  BY <1>1, <1>4, <1>3 DEF AddressGood, Mapped, Here, ShmTypeOK
<1>9. maxLength' \in [Procs -> Sizes \cup {0}]
  BY <1>4, <1>3
<1>10. QED
  BY <1>3, <1>5, <1>6, <1>7, <1>8, <1>9

LEMMA EndsKeeps ==
  ASSUME Segments, NEW p \in Procs, Ends(p)
  PROVE  Segments' /\ Alone(p) /\ ~Mapped(p)'
<1> USE DEF Segments, Ends, Exit, Returns, Continues, Goes, kernelVars
<1>1. ~Mapped(p)'
  BY DEF Mapped, ShmTypeOK
<1>2. ShmTypeOK'
  BY NoCallIs DEF ShmTypeOK
<1>3. Numbered' /\ Alone(p)
  BY DEF Numbered, Alone, ShmTypeOK
<1>4. Identified'
  BY <1>1 DEF Identified, Mapped, ShmTypeOK
<1>5. AddressGood'
  BY <1>1 DEF AddressGood, Mapped, Here, ShmTypeOK
<1>6. maxLength' \in [Procs -> Sizes \cup {0}]
  OBVIOUS
<1>7. QED
  BY <1>1, <1>2, <1>3, <1>4, <1>5, <1>6

----------------------------------------------------------------------------
(* The memory of a ring.                                                   *)
Memory == [headPos : Cells, data : [Cells -> Values \cup {Zero}]]

LEMMA RemainderIn ==
  ASSUME NEW n \in Nat \ {0}, NEW a \in Nat
  PROVE  a % n \in 0 .. a
<1>1. a % n \in 0 .. n - 1
  OBVIOUS
<1>2. a < n => a % n = a
  BY Remainder
<1>3. QED
  BY <1>1, <1>2

LEMMA CellsAre ==
  ASSUME NEW n \in Sizes, NEW h \in Cells
  PROVE  /\ Cells = 0 .. Max(Sizes) + 1 /\ 0 .. n \subseteq Cells /\ 0 \in Cells
         /\ Start(h, n) \in Cells /\ After(Start(h, n), n) \in Cells /\ Before(h, n) \in Cells
<1>1. /\ n \in Nat \ {0} /\ Max(Sizes) \in Nat /\ n <= Max(Sizes) /\ Byte \in Nat \ {0}
      /\ Cells = 0 .. Max(Sizes) + 1 /\ h \in Nat
  BY LargestSize DEF Cells
<1>2. 0 .. n \subseteq Cells /\ 0 \in Cells
  BY <1>1
<1>3. Start(h, n) \in 0 .. n
  BY <1>1 DEF Start
<1>4. PICK s \in 0 .. n : s = Start(h, n)
  BY <1>3
<1>5. After(s, n) \in Cells
  <2>1. PICK a \in Nat : a = (IF s = n - 1 THEN 0 ELSE s + 1) /\ a <= n + 1
    BY <1>1
  <2>2. a % Byte \in 0 .. a
    BY <1>1, <2>1, RemainderIn
  <2>3. After(s, n) = a % Byte
    BY <2>1 DEF After
  <2>4. QED
    BY <1>1, <2>1, <2>2, <2>3
<1>6. Before(h, n) \in Cells
  <2>1. PICK a \in Nat : a = (IF h = 0 THEN n - 1 ELSE h - 1)
    BY <1>1
  <2>2. a % Byte \in 0 .. a
    BY <1>1, <2>1, RemainderIn
  <2>3. Before(h, n) = a % Byte
    BY <2>1 DEF Before
  <2>4. QED
    BY <1>1, <2>1, <2>2, <2>3
<1>7. QED
  BY <1>1, <1>2, <1>3, <1>4, <1>5, <1>6

LEMMA ZeroedStays ==
  ASSUME NEW n \in Sizes, NEW r \in Memory, NEW c \in Pieces(n)
  PROVE  /\ Zeroed(r, c) \in Memory
         /\ Zeroed(r, c).headPos = (IF c = HeadPos THEN 0 ELSE r.headPos)
         /\ \A d \in Cells : Zeroed(r, c).data[d] = (IF d = c THEN Zero ELSE r.data[d])
<1>1. n \in Nat \ {0} /\ 0 .. n \subseteq Cells /\ 0 \in Cells /\ \A d \in Cells : d # HeadPos
  <2>1. r.headPos \in Cells
    BY DEF Memory
  <2>2. QED
    BY <2>1, CellsAre, LargestSize DEF HeadPos, Cells
<1>2. CASE c = HeadPos
  BY <1>1, <1>2 DEF Zeroed, Memory
<1>3. CASE c # HeadPos
  <2>1. c \in Cells
    BY <1>1, <1>3 DEF Pieces
  <2>2. QED
    BY <1>1, <1>3, <2>1 DEF Zeroed, Memory
<1>4. QED
  BY <1>2, <1>3

LEMMA MemoryStays ==
  ASSUME NEW n \in Sizes, NEW r \in Memory, NEW v \in Values
  PROVE  /\ Cell(r, n) \in Cells /\ Written(r, v, n) \in Memory /\ Advanced(r, n) \in Memory
         /\ \A c \in Pieces(n) : Zeroed(r, c) \in Memory
         /\ Blank \in Memory
         /\ Written(r, v, n).headPos = r.headPos
         /\ Written(r, v, n).data = [r.data EXCEPT ![Cell(r, n)] = v]
<1>1. r.headPos \in Cells /\ r.data \in [Cells -> Values \cup {Zero}]
  BY DEF Memory
<1>2. /\ 0 \in Cells /\ Start(r.headPos, n) \in Cells /\ After(Start(r.headPos, n), n) \in Cells
  BY <1>1, CellsAre
<1>3. Cell(r, n) \in Cells
  BY <1>2 DEF Cell
<1>4. Written(r, v, n) \in Memory /\ Written(r, v, n).headPos = r.headPos
      /\ Written(r, v, n).data = [r.data EXCEPT ![Cell(r, n)] = v]
  BY <1>3 DEF Written, Memory
<1>5. Advanced(r, n) \in Memory
  BY <1>2 DEF Advanced, Memory
<1>6. \A c \in Pieces(n) : Zeroed(r, c) \in Memory
  BY ZeroedStays
<1>7. Blank \in Memory
  BY <1>2 DEF Blank, Memory
<1>8. QED
  BY <1>3, <1>4, <1>5, <1>6, <1>7

(* An empty ring holds nothing, and only an empty ring takes a first.      *)
LEMMA HoldsBlank ==
  ASSUME NEW n \in Sizes
  PROVE  Holds(Blank, <<>>, n, {})
<1>1. n \in Nat \ {0} /\ 0 .. n \subseteq Cells
  BY LargestSize, CellsAre DEF Cells
<1>2. \A k \in 0 .. n - 1 : Back(0, k, n) \in Cells
  BY <1>1, BackIs
<1>3. QED
  BY <1>1, <1>2 DEF Holds, Blank

LEMMA FirstIs ==
  ASSUME NEW n \in Sizes, NEW r \in Memory, NEW h \in Seq(Values), NEW open, Holds(r, h, n, open)
  PROVE  /\ n \in Nat \ {0} /\ n <= Byte /\ r.headPos \in 0 .. n - 1 /\ Start(r.headPos, n) = r.headPos
         /\ TakesFirst(r, n) <=> h = <<>>
<1>1. n \in Nat \ {0} /\ n <= Byte /\ r.headPos \in 0 .. n - 1
  BY LargestSize DEF Holds
<1>2. Start(r.headPos, n) = r.headPos
  BY <1>1 DEF Start
<1>3. Back(r.headPos, 0, n) = r.headPos
  BY <1>1, BackMoves
<1>4. ASSUME h = <<>> PROVE TakesFirst(r, n)
  <2>1. open = {} /\ r.headPos = 0
    BY <1>4 DEF Holds
  <2>2. r.data[Back(r.headPos, 0, n)] = Zero
    BY <1>1, <1>4, <2>1 DEF Holds
  <2>3. QED
    BY <1>2, <1>3, <2>1, <2>2 DEF TakesFirst
<1>5. ASSUME h # <<>> PROVE ~TakesFirst(r, n)
  <2>1. Len(h) \in Nat \ {0} /\ h[Len(h)] \in Values /\ Len(h) - 0 = Len(h)
    BY <1>5
  <2>2. r.data[r.headPos] \in Values
    BY <1>1, <1>3, <2>1 DEF Holds
  <2>3. QED
    BY <1>2, <2>2, WriterAssumption DEF TakesFirst
<1>6. QED
  BY <1>1, <1>2, <1>4, <1>5

(* The first write of insert, *)
LEMMA HoldsWritten ==
  ASSUME NEW n \in Sizes, NEW r \in Memory, NEW h \in Seq(Values), NEW open, Holds(r, h, n, open),
         NEW v \in Values
  PROVE  IF TakesFirst(r, n) THEN Holds(Written(r, v, n), <<v>>, n, {})
         ELSE /\ Holds(Written(r, v, n), h, n, {After(r.headPos, n)})
              /\ Written(r, v, n).data[After(r.headPos, n)] = v
<1> DEFINE p == r.headPos
           w == Written(r, v, n)
           a == Cell(r, n)
<1>1. /\ n \in Nat \ {0} /\ n <= Byte /\ p \in 0 .. n - 1 /\ Start(p, n) = p
      /\ TakesFirst(r, n) <=> h = <<>>
  BY FirstIs
<1>2. /\ w.headPos = p /\ w.data = [r.data EXCEPT ![a] = v] /\ r.data \in [Cells -> Values \cup {Zero}]
      /\ a \in Cells
  BY MemoryStays DEF Memory
<1>3. \A k \in 0 .. n - 1 : Back(p, k, n) \in 0 .. n - 1 /\ Back(p, k, n) \in Cells
  <2>1. 0 .. n \subseteq Cells
    BY <1>2, CellsAre DEF Memory
  <2>2. \A g \in 0 .. n - 1, k \in 0 .. n : Back(g, k, n) \in 0 .. n - 1
    BY <1>1, BackIs
  <2>3. 0 .. n - 1 \subseteq 0 .. n
    BY <1>1
  <2>4. QED
    BY <1>1, <2>1, <2>2, <2>3
<1>4. ASSUME TakesFirst(r, n) PROVE Holds(w, <<v>>, n, {})
  <2>1. p = 0 /\ a = 0 /\ open = {} /\ h = <<>>
    BY <1>1, <1>4 DEF Cell, Holds
  <2> HIDE DEF p, w, a
  <2>2. ASSUME NEW k \in 0 .. n - 1
        PROVE  w.data[Back(p, k, n)] = (IF k < Len(<<v>>) THEN <<v>>[Len(<<v>>) - k] ELSE Zero)
    <3>1. CASE k = 0
      <4>1. Back(p, 0, n) = 0
        BY <1>1, <2>1, BackMoves
      <4>2. w.data[0] = v
        BY <1>2, <2>1
      <4>3. QED
        BY <3>1, <4>1, <4>2
    <3>2. CASE k # 0
      <4>1. Back(p, k, n) # 0
        BY <1>1, <2>1, <3>2, BackMoves, BackReaches
      <4>2. r.data[Back(p, k, n)] = Zero
        <5>1. ~(k < Len(h))
          BY <2>1
        <5>2. QED
          BY <2>1, <5>1 DEF Holds, p
      <4>3. QED
        BY <1>2, <1>3, <2>1, <3>2, <4>1, <4>2
    <3>3. QED
      BY <3>1, <3>2
  <2>3. \A c \in Cells : c >= n => w.data[c] = Zero
    BY <1>1, <1>2, <2>1 DEF Holds
  <2>4. <<v>> # <<>>
    OBVIOUS
  <2>5. QED
    BY <1>1, <1>2, <2>2, <2>3, <2>4 DEF Holds
<1>5. ASSUME ~TakesFirst(r, n) PROVE Holds(w, h, n, {After(p, n)}) /\ w.data[After(p, n)] = v
  <2>1. a = After(p, n) /\ a \in 0 .. n - 1 /\ h # <<>> /\ open \subseteq {a}
    BY <1>1, <1>5, AfterIs DEF Cell, Holds
  <2>2. \A c \in Cells : c # a => w.data[c] = r.data[c]
    BY <1>2
  <2>3. w.data[a] = v
    BY <1>2
  <2> HIDE DEF w, a
  <2>4. \A k \in 0 .. n - 1 : Back(p, k, n) # a =>
          w.data[Back(p, k, n)] = (IF k < Len(h) THEN h[Len(h) - k] ELSE Zero)
    BY <1>3, <2>1, <2>2 DEF Holds
  <2>5. \A c \in Cells : c >= n => w.data[c] = Zero
    BY <1>1, <2>1, <2>2 DEF Holds, Cells
  <2>6. QED
    BY <1>1, <1>2, <2>1, <2>3, <2>4, <2>5 DEF Holds
<1>6. QED
  BY <1>4, <1>5

(* the second, *)
LEMMA HoldsAdvanced ==
  ASSUME NEW n \in Sizes, NEW r \in Memory, NEW h \in Seq(Values), NEW open, Holds(r, h, n, open),
         NEW v \in Values, r.data[After(r.headPos, n)] = v, h # <<>>, Len(h) <= Max(Sizes)
  PROVE  /\ Holds(Advanced(r, n), Newest(Append(h, v)), n, {})
         /\ Newest(Append(h, v)) \in Seq(Values) /\ Len(Newest(Append(h, v))) <= Max(Sizes)
<1> DEFINE p == r.headPos
           q == After(p, n)
           b == Append(h, v)
           g == Newest(b)
<1>1. n \in Nat \ {0} /\ n <= Byte /\ p \in 0 .. n - 1 /\ Start(p, n) = p
  BY FirstIs
<1>2. Advanced(r, n).headPos = q /\ Advanced(r, n).data = r.data /\ q \in 0 .. n - 1
  BY <1>1, AfterIs DEF Advanced, Memory
<1>3. /\ b \in Seq(Values) /\ Len(b) = Len(h) + 1 /\ Len(h) \in Nat \ {0}
      /\ b[Len(b)] = v /\ \A i \in 1 .. Len(h) : b[i] = h[i]
  OBVIOUS
<1>4. Max(Sizes) \in Nat \ {0} /\ n <= Max(Sizes) /\ Len(b) <= Max(Sizes) + 1
  BY <1>3, LargestSize
<1>5. /\ g \in Seq(Values) /\ Len(g) = (IF Len(b) <= Max(Sizes) THEN Len(b) ELSE Max(Sizes))
      /\ \A k \in 0 .. Len(g) - 1 : g[Len(g) - k] = b[Len(b) - k]
  <2> HIDE DEF b
  <2>1. QED
    BY <1>3, <1>4, NewestIs
<1> HIDE DEF b, g
<1>6. Len(g) \in Nat \ {0} /\ Len(g) <= Max(Sizes) /\ Len(g) <= Len(h) + 1 /\ (Len(g) # Len(h) + 1 => n <= Len(g))
  BY <1>3, <1>4, <1>5
<1>7. ASSUME NEW k \in 0 .. n - 1
      PROVE  r.data[Back(q, k, n)] = (IF k < Len(g) THEN g[Len(g) - k] ELSE Zero)
  <2>1. CASE k = 0
    <3>1. Back(q, 0, n) = q
      BY <1>1, BackMoves
    <3>2. g[Len(g) - 0] = b[Len(b) - 0]
      BY <1>5, <1>6
    <3>3. Len(b) - 0 = Len(b) /\ 0 < Len(g)
      BY <1>3, <1>6
    <3>4. QED
      BY <1>3, <2>1, <3>1, <3>2, <3>3
  <2>2. CASE k # 0
    <3>1. k - 1 \in 0 .. n - 1 /\ k \in 1 .. n - 1 /\ k - 1 # n - 1
      BY <1>1, <2>2
    <3>2. Back(q, k, n) = Back(p, k - 1, n)
      BY <1>1, <3>1, BackMoves
    <3>3. Back(p, k - 1, n) \notin open
      <4>1. Back(p, k - 1, n) # q
        <5>1. q = Back(p, n - 1, n) /\ n - 1 \in 0 .. n - 1
          BY <1>1, BackMoves
        <5>2. \A i, j \in 0 .. n - 1 : Back(p, i, n) = Back(p, j, n) => i = j
          BY <1>1, BackReaches
        <5>3. QED
          BY <3>1, <5>1, <5>2
      <4>2. QED
        BY <4>1 DEF Holds
    <3>4. r.data[Back(p, k - 1, n)] = (IF k - 1 < Len(h) THEN h[Len(h) - (k - 1)] ELSE Zero)
      BY <3>1, <3>3 DEF Holds
    <3>5. k < Len(g) <=> k - 1 < Len(h)
      BY <1>1, <1>3, <1>6, <3>1
    <3>6. k < Len(g) => g[Len(g) - k] = h[Len(h) - (k - 1)]
      <4>1. SUFFICES ASSUME k < Len(g) PROVE g[Len(g) - k] = h[Len(h) - (k - 1)]
        OBVIOUS
      <4>2. k \in 0 .. Len(g) - 1 /\ Len(b) - k = Len(h) - (k - 1) /\ Len(h) - (k - 1) \in 1 .. Len(h)
        BY <1>3, <1>6, <3>1, <3>5, <4>1
      <4>3. QED
        BY <1>3, <1>5, <4>2
    <3>7. QED
      BY <3>2, <3>4, <3>5, <3>6
  <2>3. QED
    BY <2>1, <2>2
<1>8. g # <<>>
  BY <1>6
<1> HIDE DEF q
<1>9. Holds(Advanced(r, n), g, n, {})
  <2>1. \A c \in Cells : c >= n => r.data[c] = Zero
    BY DEF Holds
  <2>2. QED
    BY <1>2, <1>7, <1>8, <2>1 DEF Holds
<1>10. QED
  BY <1>5, <1>6, <1>9 DEF g, b

(* and clear, whose pieces leave the head in the ring, and in the end      *)
(* nothing.                                                                *)
LEMMA WithinWiped ==
  ASSUME NEW n \in Sizes, NEW r \in Memory, NEW c \in Pieces(n), Within(r, n)
  PROVE  /\ Within(Zeroed(r, c), n)
         /\ \A left : Wiped(r, n, left) => Wiped(Zeroed(r, c), n, left \ {c})
<1>1. n \in Nat \ {0} /\ 0 .. n - 1 \subseteq Cells
  BY LargestSize, CellsAre DEF Cells
<1>2. /\ Zeroed(r, c).headPos = (IF c = HeadPos THEN 0 ELSE r.headPos)
      /\ \A d \in Cells : Zeroed(r, c).data[d] = (IF d = c THEN Zero ELSE r.data[d])
  BY ZeroedStays
<1>3. QED
  BY <1>1, <1>2 DEF Within, Wiped

LEMMA HoldsNothing ==
  ASSUME NEW n \in Sizes, NEW r \in Memory, Within(r, n), Wiped(r, n, {})
  PROVE  Holds(r, <<>>, n, {})
<1>1. n \in Nat \ {0} /\ 0 \in 0 .. n - 1 /\ 0 .. n - 1 \subseteq 0 .. n /\ r.headPos = 0
  BY LargestSize DEF Wiped
<1>2. \A k \in 0 .. n : Back(0, k, n) \in 0 .. n - 1
  BY <1>1, BackIs
<1>3. /\ \A k \in 0 .. n - 1 : r.data[Back(0, k, n)] = Zero /\ ~(k < Len(<<>>))
      /\ \A c \in Cells : c >= n => r.data[c] = Zero
  BY <1>1, <1>2 DEF Within, Wiped
<1>4. QED
  BY <1>1, <1>3 DEF Holds

(* Any write of insert leaves the head in the ring.                        *)
LEMMA WithinInsert ==
  ASSUME NEW n \in Sizes, NEW r \in Memory, NEW v \in Values, Within(r, n)
  PROVE  Within(Written(r, v, n), n) /\ Within(Advanced(r, n), n)
<1>1. n \in Nat \ {0} /\ n <= Byte /\ r.headPos \in 0 .. n - 1 /\ Start(r.headPos, n) = r.headPos
  BY LargestSize DEF Within, Start
<1>2. After(r.headPos, n) \in 0 .. n - 1
  BY <1>1, AfterIs
<1>3. Cell(r, n) \in 0 .. n - 1
  BY <1>1, <1>2 DEF Cell
<1>4. /\ Written(r, v, n).headPos = r.headPos /\ Written(r, v, n).data = [r.data EXCEPT ![Cell(r, n)] = v]
      /\ r.data \in [Cells -> Values \cup {Zero}]
  BY MemoryStays DEF Memory
<1>5. Advanced(r, n).headPos = After(r.headPos, n) /\ Advanced(r, n).data = r.data
  BY <1>1 DEF Advanced, Memory
<1>6. \A c \in Cells : c >= n => Written(r, v, n).data[c] = r.data[c]
  BY <1>1, <1>3, <1>4
<1>7. QED
  BY <1>1, <1>2, <1>4, <1>5, <1>6 DEF Within

----------------------------------------------------------------------------
(* A search.                                                               *)
SearchType ==
  [at : {"none", "looking"}, of : Values \cup {Zero}, pos : Cells, i : 0 .. Max(Sizes),
   kept : SUBSET Cells]

LEMMA SearchBegins ==
  ASSUME NEW n \in Sizes, NEW r \in Memory, NEW h \in Seq(Values), NEW open, Holds(r, h, n, open),
         NEW v \in Values, NEW s \in SearchType,
         s.of = v, s.pos = Start(r.headPos, n), s.i = 0,
         s.kept = {c \in Cells : r.data[c] = v} \ open
  PROVE  Searched(r, s, n)
<1> DEFINE p == r.headPos
<1>1. n \in Nat \ {0} /\ n <= Byte /\ p \in 0 .. n - 1 /\ Start(p, n) = p /\ Back(p, 0, n) = p
  BY FirstIs, BackMoves
<1>2. v # Zero /\ \A c \in Cells : c \in Nat
  BY WriterAssumption DEF Cells
<1>3. ASSUME NEW c \in s.kept PROVE r.data[c] = s.of /\ \E k \in s.i .. n - 1 : c = Back(p, k, n)
  <2>1. c \in Cells /\ r.data[c] = v
    OBVIOUS
  <2>2. c \in 0 .. n - 1
    BY <1>1, <1>2, <2>1 DEF Holds
  <2>3. \A d \in 0 .. n - 1 : \E k \in 0 .. n - 1 : d = Back(p, k, n)
    BY <1>1, BackReaches
  <2>4. QED
    BY <2>1, <2>2, <2>3
<1>4. ASSUME NEW j \in 0 .. n - 1, NEW k \in j .. n - 1,
             r.data[Back(p, j, n)] = Zero, Back(p, k, n) \in s.kept
      PROVE  FALSE
  <2>1. k \in 0 .. n - 1 /\ n - 1 \in 0 .. n - 1
    BY <1>1
  <2>2. r.data[Back(p, k, n)] = v /\ Back(p, k, n) \notin open
    BY <1>4
  <2>3. k < Len(h)
    BY <1>1, <1>2, <2>1, <2>2 DEF Holds
  <2>4. Len(h) \in Nat /\ j < Len(h) /\ h[Len(h) - j] \in Values
    BY <1>1, <2>3
  <2>5. Back(p, j, n) \in open
    BY <1>1, <1>2, <1>4, <2>4, WriterAssumption DEF Holds
  <2>6. r.data[Back(p, j, n)] \in Values
    BY <2>5 DEF Holds
  <2>7. QED
    BY <1>4, <2>6, WriterAssumption
<1>5. s.i \in 0 .. n /\ s.pos = Back(p, s.i, n)
  BY <1>1
<1>6. QED
  BY <1>1, <1>3, <1>4, <1>5 DEF Searched

(* It goes on over an element that it does not look for, *)
LEMMA SearchGoesOn ==
  ASSUME NEW n \in Sizes, NEW r \in Memory, NEW s \in SearchType, Searched(r, s, n),
         s.i # n, r.data[s.pos] # s.of
  PROVE  Searched(r, [s EXCEPT !.pos = Before(s.pos, n), !.i = @ + 1], n)
<1> DEFINE z == [s EXCEPT !.pos = Before(s.pos, n), !.i = @ + 1]
<1>1. /\ z.pos = Before(s.pos, n) /\ z.i = s.i + 1 /\ z.kept = s.kept /\ z.of = s.of
      /\ n \in Nat \ {0} /\ n <= Byte
  BY LargestSize DEF SearchType
<1> HIDE DEF z
<1>2. SUFFICES ASSUME s.kept # {} PROVE Searched(r, z, n)
  BY <1>1 DEF Searched, z
<1>3. PICK h \in 0 .. n - 1 :
        /\ s.i \in 0 .. n /\ s.pos = Back(h, s.i, n)
        /\ \A c \in s.kept : r.data[c] = s.of /\ \E k \in s.i .. n - 1 : c = Back(h, k, n)
        /\ \A j \in 0 .. n - 1 : \A k \in j .. n - 1 :
             r.data[Back(h, j, n)] = Zero => Back(h, k, n) \notin s.kept
  BY <1>2 DEF Searched
<1>4. s.i \in 0 .. n - 1 /\ z.i \in 0 .. n
  BY <1>1, <1>3
<1>5. z.pos = Back(h, z.i, n)
  BY <1>1, <1>3, <1>4, BackMoves
<1>6. ASSUME NEW c \in z.kept PROVE r.data[c] = z.of /\ \E k \in z.i .. n - 1 : c = Back(h, k, n)
  <2>1. PICK k \in s.i .. n - 1 : c = Back(h, k, n)
    BY <1>1, <1>3
  <2>2. r.data[c] = s.of
    BY <1>1, <1>3
  <2>3. k # s.i
    BY <1>3, <2>1, <2>2
  <2>4. k \in z.i .. n - 1
    BY <1>1, <1>4, <2>1, <2>3
  <2>5. QED
    BY <1>1, <2>1, <2>2, <2>4
<1>7. QED
  BY <1>1, <1>3, <1>4, <1>5, <1>6 DEF Searched

(* and misses nothing when it ends. *)
LEMMA SearchMisses ==
  ASSUME NEW n \in Sizes, NEW r \in Memory, NEW s \in SearchType, Searched(r, s, n),
         s.i = n \/ r.data[s.pos] = Zero
  PROVE  s.kept = {}
<1>1. n \in Nat \ {0}
  BY LargestSize
<1>2. SUFFICES ASSUME s.kept # {} PROVE FALSE
  OBVIOUS
<1>3. PICK h \in 0 .. n - 1 :
        /\ s.i \in 0 .. n /\ s.pos = Back(h, s.i, n)
        /\ \A c \in s.kept : r.data[c] = s.of /\ \E k \in s.i .. n - 1 : c = Back(h, k, n)
        /\ \A j \in 0 .. n - 1 : \A k \in j .. n - 1 :
             r.data[Back(h, j, n)] = Zero => Back(h, k, n) \notin s.kept
  BY <1>2 DEF Searched
<1>4. PICK c \in s.kept : \E k \in s.i .. n - 1 : c = Back(h, k, n)
  BY <1>2, <1>3
<1>5. PICK k \in s.i .. n - 1 : c = Back(h, k, n)
  BY <1>4
<1>6. s.i \in 0 .. n - 1 /\ s.i # n
  BY <1>1, <1>3, <1>5
<1>7. r.data[Back(h, s.i, n)] = Zero
  BY <1>3, <1>6
<1>8. QED
  BY <1>3, <1>4, <1>5, <1>6, <1>7

(* Nor does a write disturb it that takes what it overwrites out of what   *)
(* is kept, and empties nothing.                                           *)
LEMMA SearchStays ==
  ASSUME NEW n \in Sizes, NEW r \in Memory, NEW w \in Memory, NEW s \in SearchType, NEW z \in SearchType,
         Searched(r, s, n),
         z.of = s.of, z.pos = s.pos, z.i = s.i, z.kept \subseteq s.kept,
         \A c \in z.kept : w.data[c] = r.data[c],
         z.kept # {} => \A c \in Cells : w.data[c] = Zero => r.data[c] = Zero
  PROVE  Searched(w, z, n)
<1>1. n \in Nat \ {0} /\ 0 .. n \subseteq Cells
  <2>1. 0 \in Cells
    BY LargestSize DEF Cells
  <2>2. QED
    BY <2>1, LargestSize, CellsAre
<1>2. SUFFICES ASSUME z.kept # {} PROVE Searched(w, z, n)
  BY DEF Searched
<1>3. PICK h \in 0 .. n - 1 :
        /\ s.i \in 0 .. n /\ s.pos = Back(h, s.i, n)
        /\ \A c \in s.kept : r.data[c] = s.of /\ \E k \in s.i .. n - 1 : c = Back(h, k, n)
        /\ \A j \in 0 .. n - 1 : \A k \in j .. n - 1 :
             r.data[Back(h, j, n)] = Zero => Back(h, k, n) \notin s.kept
  BY <1>2 DEF Searched
<1>4. \A j \in 0 .. n - 1 : Back(h, j, n) \in Cells
  <2>1. \A j \in 0 .. n : Back(h, j, n) \in 0 .. n - 1
    BY <1>1, BackIs
  <2>2. 0 .. n - 1 \subseteq 0 .. n
    BY <1>1
  <2>3. QED
    BY <1>1, <2>1, <2>2
<1>5. QED
  BY <1>2, <1>3, <1>4 DEF Searched

----------------------------------------------------------------------------
(* The steps: first what all of them use.                                  *)
LEMMA Parts ==
  ASSUME IInv
  PROVE  /\ Segments /\ Writer \in Procs /\ Zero \notin Values
         /\ \A id \in Ids : ring[id] \in Memory /\ past[id] \in Seq(Values) /\ lengths[id] \subseteq Sizes
         /\ \A q \in Procs : search[q] \in SearchType
         /\ \A q \in Procs : Mapped(q) =>
              Here(q) \in Ids /\ maxLength[q] \in Sizes /\ maxLength[q] \in 1 .. size[Here(q)]
<1>1. Segments
  BY DEF IInv, TypeOK, Segments
<1>2. \A q \in Procs : Mapped(q) =>
        Here(q) \in Ids /\ maxLength[q] \in Sizes /\ maxLength[q] \in 1 .. size[Here(q)]
  BY <1>1, MappedExists DEF Segments, AddressGood
<1>3. QED
  BY <1>1, <1>2, WriterAssumption DEF IInv, TypeOK, Memory, SearchType

(* What a ring holds that lists of one length only have written into.      *)
LEMMA ContentsIs ==
  ASSUME IInv, NEW id \in Ids, NEW n \in Sizes, lengths[id] \subseteq {n}, id \notin broken
  PROVE  /\ Holds(ring[id], past[id], n, Unpublished(id))
         /\ past[id] = <<>> => id \notin torn
         /\ Inserting(id) => ring[id].data[After(ring[id].headPos, n)] = inserting
<1>1. CASE lengths[id] = {}
  <2>1. ring[id] = Blank /\ past[id] = <<>> /\ id \notin torn
    BY <1>1 DEF IInv, Contents
  <2>2. Unpublished(id) = {}
    BY <1>1 DEF Unpublished
  <2>3. ~Inserting(id)
    BY <1>1 DEF IInv, Staying, Inserting
  <2>4. QED
    BY <2>1, <2>2, <2>3, HoldsBlank
<1>2. CASE lengths[id] = {n}
  <2>1. /\ Holds(ring[id], past[id], n, Unpublished(id))
        /\ Inserting(id) => ring[id].data[After(ring[id].headPos, n)] = inserting
    BY <1>2 DEF IInv, Contents, Content
  <2>2. past[id] = <<>> => Unpublished(id) = {}
    BY <2>1 DEF Holds
  <2>3. id \in torn => After(ring[id].headPos, n) \in Unpublished(id)
    BY <1>2 DEF Unpublished
  <2>4. QED
    BY <2>1, <2>2, <2>3
<1>3. QED
  BY <1>1, <1>2

LEMMA WithinIs ==
  ASSUME IInv, NEW id \in Ids, NEW n \in Sizes, lengths[id] \subseteq {n}
  PROVE  Within(ring[id], n)
<1>1. CASE lengths[id] = {}
  BY <1>1, LargestSize DEF IInv, Contents, Within, Blank
<1>2. CASE lengths[id] = {n}
  BY <1>2 DEF IInv, Contents, Content
<1>3. QED
  BY <1>1, <1>2

LEMMA SegmentsStay ==
  ASSUME Segments, UNCHANGED <<shmVars, maxLength>>
  PROVE  Segments'
BY DEF Segments, shmVars, kernelVars, objectVars, ShmTypeOK, Numbered, Identified, AddressGood, Mapped, Here

(* A step of one process that leaves the rings alone but for what the      *)
(* kernel frees.                                                           *)
LEMMA FreesKeeps ==
  ASSUME IInv, NEW p \in Procs, Segments', Alone(p), NEW tears \in SUBSET Ids, KernelFrees(tears),
         \A q \in Procs \ {p} : maxLength'[q] = maxLength[q],
         search' = [search EXCEPT ![p] = NoSearch],
         UNCHANGED <<writes, overlooked>>,
         IF p = Writer
           THEN /\ inserting' = Zero /\ clearing' = {}
                /\ \A id \in Ids : id \in tears <=> Inserting(id) /\ id \notin broken
           ELSE inserting' = inserting /\ clearing' = clearing /\ tears = {}
  PROVE  IInv'
<1>1. /\ Segments /\ Writer \in Procs
      /\ \A id \in Ids : ring[id] \in Memory /\ past[id] \in Seq(Values) /\ lengths[id] \subseteq Sizes
      /\ \A q \in Procs : search[q] \in SearchType
  BY Parts
<1>2. \A q \in Procs \ {p} : Mapped(q)' = Mapped(q) /\ Here(q)' = Here(q) /\ pc'[q] = pc[q]
  BY DEF Alone, Mapped, Here
<1>3. ASSUME NEW q \in Procs \ {p}, Mapped(q) PROVE Here(q) \in Ids /\ Exists(Here(q))'
  <2>1. Here(q) \in Ids /\ size[Here(q)] > 0
    BY <1>1, <1>3, MappedExists
  <2>2. Attached(Here(q))'
    BY <1>2, <1>3 DEF Attached, Here
  <2>3. Here(q) # -1
    BY <2>1 DEF Ids
  <2>4. size'[Here(q)] = size[Here(q)] /\ Here(q)' = Here(q)
    BY <1>2, <2>1 DEF Alone
  <2>5. QED
    BY <2>1, <2>2, <2>3, <2>4 DEF Exists
<1>4. \A id \in Ids :
        IF Exists(id)' THEN ring'[id] = ring[id] /\ past'[id] = past[id] /\ lengths'[id] = lengths[id]
                            /\ (id \in torn' <=> id \in torn \cup tears) /\ (id \in broken' <=> id \in broken)
                       ELSE ring'[id] = Blank /\ past'[id] = <<>> /\ lengths'[id] = {}
                            /\ id \notin torn' /\ id \notin broken'
  BY DEF KernelFrees
<1>5. \A id \in Ids :
        /\ Inserting(id)' => Inserting(id) /\ inserting' = inserting
        /\ Clearing(id)' => Clearing(id) /\ clearing' = clearing
        /\ Exists(id)' /\ id \notin broken => (id \in torn' \/ Inserting(id)' <=> id \in torn \/ Inserting(id))
        /\ Exists(id)' /\ id \in broken => (id \in torn' <=> id \in torn)
  <2>1. CASE p = Writer
    BY <1>4, <2>1 DEF Inserting, Clearing
  <2>2. CASE p # Writer
    BY <1>1, <1>2, <1>4, <2>2 DEF Inserting, Clearing
  <2>3. QED
    BY <2>1, <2>2
<1>6. \A q \in Procs : search'[q] = (IF q = p THEN NoSearch ELSE search[q])
  BY DEF IInv, TypeOK
<1>7. NoSearch \in SearchType /\ NoSearch.at = "none"
  BY LargestSize DEF NoSearch, SearchType, Cells
<1>8. TypeOK'
  <2>1. ring' \in [Ids -> Memory] /\ past' \in [Ids -> Seq(Values)] /\ lengths' \in [Ids -> SUBSET Sizes]
    <3>1. Blank \in Memory
      BY LargestSize DEF Blank, Memory, Cells
    <3>2. QED
      BY <1>1, <1>4, <3>1 DEF KernelFrees
  <2>2. torn' \subseteq Ids /\ broken' \subseteq Ids /\ clearing' \subseteq Cells \cup {HeadPos}
    BY DEF KernelFrees, IInv, TypeOK
  <2>3. search' \in [Procs -> SearchType]
    BY <1>1, <1>7 DEF IInv, TypeOK, SearchType
  <2>4. inserting' \in Values \cup {Zero}
    BY DEF IInv, TypeOK
  <2>5. QED
    BY <2>1, <2>2, <2>3, <2>4 DEF IInv, TypeOK, Segments, Memory, SearchType
<1>9. Staying'
  <2>1. ASSUME inserting' # Zero \/ clearing' # {}
        PROVE  /\ pc'[Writer] = "idle" /\ Mapped(Writer)' /\ maxLength'[Writer] \in lengths'[Here(Writer)']
               /\ clearing' # {} => /\ inserting' = Zero /\ clearing' \subseteq Pieces(maxLength'[Writer])
                                  /\ Here(Writer)' \in broken'
    <3>1. /\ p # Writer /\ pc[Writer] = "idle" /\ Mapped(Writer)
          /\ maxLength[Writer] \in lengths[Here(Writer)]
          /\ clearing # {} => /\ inserting = Zero /\ clearing \subseteq Pieces(maxLength[Writer])
                             /\ Here(Writer) \in broken
          /\ inserting' = inserting /\ clearing' = clearing
      BY <2>1 DEF IInv, Staying
    <3>2. /\ pc'[Writer] = pc[Writer] /\ Mapped(Writer)' /\ Here(Writer)' = Here(Writer)
          /\ maxLength'[Writer] = maxLength[Writer] /\ Here(Writer) \in Ids
          /\ lengths'[Here(Writer)] = lengths[Here(Writer)]
          /\ (Here(Writer) \in broken' <=> Here(Writer) \in broken)
      BY <1>1, <1>2, <1>3, <1>4, <3>1
    <3>3. QED
      BY <3>1, <3>2
  <2>2. ASSUME NEW q \in Procs, search'[q].at = "looking"
        PROVE  /\ q # Writer /\ pc'[q] = "idle" /\ Mapped(q)'
               /\ search'[q].of \in Values /\ search'[q].i <= maxLength'[q]
               /\ Here(q)' \in broken' => search'[q].kept = {}
    <3>1. q # p /\ search'[q] = search[q]
      BY <1>6, <1>7, <2>2
    <3>2. Here(q)' \in broken' => Here(q) \in broken
      BY <1>2, <3>1 DEF KernelFrees
    <3>3. QED
      BY <1>2, <2>2, <3>1, <3>2 DEF IInv, Staying
  <2>3. QED
    BY <2>1, <2>2 DEF Staying
<1>10. Contents'
  <2>1. ASSUME NEW id \in Ids, Exists(id)', id \notin broken
        PROVE  Unpublished(id)' = Unpublished(id)
    <3>1. ring'[id] = ring[id] /\ lengths'[id] = lengths[id]
      BY <1>4, <2>1
    <3>2. id \in torn' \/ Inserting(id)' <=> id \in torn \/ Inserting(id)
      BY <1>5, <2>1
    <3>3. QED
      BY <3>1, <3>2 DEF Unpublished
  <2>2. \A id \in Ids : Len(past'[id]) <= Max(Sizes)
    BY <1>4, LargestSize DEF IInv, Contents
  <2>3. ASSUME NEW id \in Ids, NEW n \in lengths'[id], lengths'[id] = {n}
        PROVE  Content(id, n)'
    <3>1. /\ Exists(id)' /\ ring'[id] = ring[id] /\ past'[id] = past[id] /\ (id \in broken' <=> id \in broken)
          /\ n \in lengths[id] /\ lengths[id] = {n}
      BY <1>4, <2>3
    <3>2. Content(id, n)
      BY <3>1 DEF IInv, Contents
    <3>3. id \notin broken => Unpublished(id)' = Unpublished(id)
      BY <2>1, <3>1
    <3>4. QED
      BY <1>5, <3>1, <3>2, <3>3 DEF Content
  <2>4. ASSUME NEW id \in Ids
        PROVE  /\ lengths'[id] = {} => ring'[id] = Blank /\ id \notin broken'
               /\ lengths'[id] = {} \/ id \in broken' => past'[id] = <<>> /\ id \notin torn'
    <3>1. ASSUME Exists(id)', lengths'[id] = {}
          PROVE  ring'[id] = Blank /\ id \notin broken' /\ past'[id] = <<>> /\ id \notin torn'
      <4>1. ring[id] = Blank /\ past[id] = <<>> /\ id \notin torn /\ id \notin broken
        BY <1>4, <3>1 DEF IInv, Contents
      <4>2. ~Inserting(id)
        BY <1>4, <3>1 DEF IInv, Staying, Inserting
      <4>3. QED
        BY <1>4, <1>5, <3>1, <4>1, <4>2
    <3>2. ASSUME Exists(id)', id \in broken'
          PROVE  past'[id] = <<>> /\ id \notin torn'
      <4>1. id \in broken /\ past[id] = <<>> /\ id \notin torn
        BY <1>4, <3>2 DEF IInv, Contents
      <4>2. QED
        BY <1>4, <1>5, <3>2, <4>1
    <3>3. QED
      BY <1>4, <3>1, <3>2
  <2>5. QED
    BY <2>2, <2>3, <2>4 DEF Contents
<1>11. Searches'
  <2>1. ASSUME NEW q \in Procs, search'[q].at = "looking"
        PROVE  /\ Here(q)' = Here(q) /\ search'[q] = search[q] /\ maxLength'[q] = maxLength[q]
               /\ ring'[Here(q)] = ring[Here(q)] /\ lengths'[Here(q)] = lengths[Here(q)]
    <3>1. q # p /\ search'[q] = search[q]
      BY <1>6, <1>7, <2>1
    <3>2. Mapped(q)
      BY <2>1, <3>1 DEF IInv, Staying
    <3>3. QED
      BY <1>2, <1>3, <1>4, <3>1, <3>2
  <2>2. QED
    BY <2>1 DEF IInv, Searches
<1>12. QED
  BY <1>8, <1>9, <1>10, <1>11 DEF IInv, Segments, SearchFindsSettled

LEMMA ManageStep == ASSUME IInv, NEW p \in Procs, Manage(p) PROVE IInv'
<1>1. Segments
  BY Parts
<1>2. Segments' /\ Alone(p)
  BY <1>1, ShmGetKeeps, StatKeeps, CreateKeeps, CreateFailsKeeps, LeavesKeeps DEF Manage, ShmCall, Forgets
<1>3. p = Writer => inserting = Zero /\ clearing = {}
  BY DEF Manage, Free
<1>4. p = Writer => \A id \in Ids : ~Inserting(id)
  BY <1>3 DEF Inserting
<1>5. \A q \in Procs \ {p} : maxLength'[q] = maxLength[q]
  BY <1>1 DEF Manage, Segments
<1>6. QED
  BY <1>2, <1>3, <1>4, <1>5, FreesKeeps DEF Manage

LEMMA EndsStep == ASSUME IInv, NEW p \in Procs, Ends(p) PROVE IInv'
<1>1. Segments
  BY Parts
<1>2. Segments' /\ Alone(p)
  BY <1>1, EndsKeeps
<1>3. \A q \in Procs \ {p} : maxLength'[q] = maxLength[q]
  BY <1>1 DEF Ends, Segments
<1>4. CASE p = Writer /\ inserting # Zero
  <2>1. Mapped(Writer) /\ Here(Writer) \in Ids
    BY <1>4, Parts DEF IInv, Staying
  <2>2. /\ {Here(Writer)} \ broken \in SUBSET Ids
        /\ \A id \in Ids : id \in {Here(Writer)} \ broken <=> Inserting(id) /\ id \notin broken
    BY <1>4, <2>1 DEF Inserting
  <2>3. KernelFrees({Here(Writer)} \ broken) /\ inserting' = Zero
    BY <1>4 DEF Ends
  <2>4. QED
    BY <1>2, <1>3, <1>4, <2>2, <2>3, FreesKeeps DEF Ends
<1>5. CASE ~(p = Writer /\ inserting # Zero)
  <2>1. KernelFrees({}) /\ inserting' = inserting
    BY <1>5 DEF Ends
  <2>2. p = Writer => \A id \in Ids : ~Inserting(id)
    BY <1>5 DEF Inserting
  <2>3. QED
    BY <1>2, <1>3, <1>5, <2>1, <2>2, FreesKeeps DEF Ends
<1>6. QED
  BY <1>4, <1>5

LEMMA MakeListStep == ASSUME IInv, NEW p \in Procs, MakeList(p) PROVE IInv'
<1>1. Segments /\ Writer \in Procs
  BY Parts
<1>2. Segments' /\ Alone(p)
  BY <1>1, MakeListKeeps
<1>3. /\ pc[p] = "attach"
      /\ UNCHANGED <<ring, inserting, clearing, search, writes, past, lengths, torn, broken, overlooked>>
      /\ \A q \in Procs \ {p} : maxLength'[q] = maxLength[q]
  BY <1>1 DEF MakeList, Attach, Segments
<1>4. \A q \in Procs \ {p} : Mapped(q)' = Mapped(q) /\ Here(q)' = Here(q) /\ pc'[q] = pc[q]
  BY <1>2 DEF Alone, Mapped, Here
<1>5. (inserting # Zero \/ clearing # {} => p # Writer) /\ search[p].at # "looking"
  BY <1>3 DEF IInv, Staying
<1>6. \A id \in Ids :
        /\ Inserting(id)' = Inserting(id) /\ Clearing(id)' = Clearing(id)
        /\ Unpublished(id)' = Unpublished(id)
  BY <1>1, <1>3, <1>4, <1>5 DEF Inserting, Clearing, Unpublished
<1>7. TypeOK'
  BY <1>2, <1>3 DEF IInv, TypeOK, Segments
<1>8. Staying'
  BY <1>1, <1>3, <1>4, <1>5 DEF IInv, Staying
<1>9. Contents'
  BY <1>3, <1>6 DEF IInv, Contents, Content
<1>10. Searches'
  BY <1>3, <1>4, <1>5 DEF IInv, Searches
<1>11. QED
  BY <1>2, <1>3, <1>7, <1>8, <1>9, <1>10 DEF IInv, Segments, SearchFindsSettled

(* A write of the ring disturbs no search.                                 *)
LEMMA WriteDisturbsNone ==
  ASSUME IInv, UNCHANGED <<shmVars, maxLength>>, search' \in [Procs -> SearchType],
         \A id \in Ids : ring'[id] \in Memory /\ lengths[id] \subseteq lengths'[id],
         \A q \in Procs :
           /\ search'[q].at = search[q].at /\ search'[q].of = search[q].of
           /\ search'[q].pos = search[q].pos /\ search'[q].i = search[q].i
           /\ search'[q].kept \subseteq search[q].kept,
         \A q \in Procs : Mapped(q) /\ search[q].at = "looking" =>
           /\ \A c \in search'[q].kept : ring'[Here(q)].data[c] = ring[Here(q)].data[c]
           /\ search'[q].kept # {} =>
                \A c \in Cells : ring'[Here(q)].data[c] = Zero => ring[Here(q)].data[c] = Zero
  PROVE  Searches' /\ (\A q \in Procs : search'[q].at = "looking" =>
                         /\ q # Writer /\ pc'[q] = "idle" /\ Mapped(q)'
                         /\ search'[q].of \in Values /\ search'[q].i <= maxLength'[q])
<1>1. UNCHANGED <<pc, m_addr, maxLength>> /\ \A q \in Procs : Mapped(q)' = Mapped(q) /\ Here(q)' = Here(q)
  BY DEF shmVars, objectVars, Mapped, Here
<1>2. \A q \in Procs : search[q].at = "looking" =>
        /\ q # Writer /\ pc[q] = "idle" /\ Mapped(q)
        /\ search[q].of \in Values /\ search[q].i <= maxLength[q]
  BY DEF IInv, Staying
<1>3. ASSUME NEW q \in Procs, search'[q].at = "looking", lengths'[Here(q)] \subseteq {maxLength[q]}
      PROVE  Searched(ring'[Here(q)], search'[q], maxLength[q])
  <2>1. search[q].at = "looking" /\ Mapped(q)
    BY <1>2, <1>3
  <2>2. Here(q) \in Ids /\ maxLength[q] \in Sizes /\ ring[Here(q)] \in Memory /\ search[q] \in SearchType
    BY <2>1, Parts
  <2>3. Searched(ring[Here(q)], search[q], maxLength[q])
    BY <1>3, <2>1, <2>2 DEF IInv, Searches
  <2>4. search'[q] \in SearchType /\ ring'[Here(q)] \in Memory
    BY <2>2
  <2>5. QED
    BY <2>1, <2>2, <2>3, <2>4, SearchStays
<1>4. QED
  BY <1>1, <1>2, <1>3 DEF Searches

LEMMA OverwritesIs ==
  ASSUME IInv, NEW id \in Ids, NEW cells \in SUBSET Cells, search' = Overwrites(id, cells)
  PROVE  /\ search' \in [Procs -> SearchType]
         /\ \A q \in Procs :
              /\ search'[q].at = search[q].at /\ search'[q].of = search[q].of
              /\ search'[q].pos = search[q].pos /\ search'[q].i = search[q].i
              /\ search'[q].kept \subseteq search[q].kept
              /\ Mapped(q) /\ Here(q) = id => search'[q].kept \cap cells = {}
<1>1. \A q \in Procs : search[q] \in SearchType
  BY Parts
<1>2. ASSUME NEW q \in Procs
      PROVE  /\ search'[q] \in SearchType
             /\ search'[q].at = search[q].at /\ search'[q].of = search[q].of
             /\ search'[q].pos = search[q].pos /\ search'[q].i = search[q].i
             /\ search'[q].kept \subseteq search[q].kept
             /\ Mapped(q) /\ Here(q) = id => search'[q].kept \cap cells = {}
  <2>1. CASE Mapped(q) /\ Here(q) = id
    <3>1. search'[q] = [search[q] EXCEPT !.kept = @ \ cells]
      BY <2>1 DEF Overwrites
    <3>2. QED
      BY <1>1, <3>1 DEF SearchType
  <2>2. CASE ~(Mapped(q) /\ Here(q) = id)
    <3>1. search'[q] = search[q]
      BY <2>2 DEF Overwrites
    <3>2. QED
      BY <1>1, <2>2, <3>1
  <2>3. QED
    BY <2>1, <2>2
<1>3. QED
  BY <1>2 DEF Overwrites

(* The writer writes into one ring; the others stay as they are.           *)
LEMMA OthersStay ==
  ASSUME IInv, UNCHANGED <<shmVars, maxLength>>, NEW o \in Ids, Mapped(Writer), o # Here(Writer),
         ring'[o] = ring[o], past'[o] = past[o], lengths'[o] = lengths[o], o \in torn' <=> o \in torn,
         o \in broken' <=> o \in broken
  PROVE  /\ lengths'[o] = {} => ring'[o] = Blank /\ o \notin broken'
         /\ lengths'[o] = {} \/ o \in broken' => past'[o] = <<>> /\ o \notin torn'
         /\ Len(past'[o]) <= Max(Sizes)
         /\ \A n \in lengths'[o] : lengths'[o] = {n} => Content(o, n)'
<1>1. ~Inserting(o) /\ ~Inserting(o)' /\ ~Clearing(o)'
  BY DEF Inserting, Clearing, Here, shmVars, objectVars
<1>2. Unpublished(o)' = Unpublished(o)
  BY <1>1 DEF Unpublished
<1>3. ASSUME NEW n \in lengths'[o], lengths'[o] = {n} PROVE Content(o, n)'
  <2>1. Content(o, n)
    BY <1>3 DEF IInv, Contents
  <2>2. QED
    BY <1>1, <1>2, <2>1 DEF Content
<1>4. QED
  BY <1>3 DEF IInv, Contents

(* The writer makes w of the memory of a ring that it has mapped, and h of *)
(* what is in it.  Only cells change, and none of them becomes empty,      *)
(* unless all are changed or a clear is under way already.                 *)
Writes(id, w, h, wrote, cells) ==
  /\ UNCHANGED <<shmVars, maxLength, overlooked>>
  /\ pc[Writer] = "idle" /\ Mapped(Writer) /\ Here(Writer) = id
  /\ ring' = [ring EXCEPT ![id] = w] /\ past' = [past EXCEPT ![id] = h]
  /\ lengths' = [lengths EXCEPT ![id] = wrote] /\ search' = Overwrites(id, cells)
  /\ torn' = torn \/ torn' = torn \ {id}
  /\ broken' \subseteq Ids /\ \A o \in Ids \ {id} : o \in broken' <=> o \in broken
  /\ inserting' \in Values \cup {Zero} /\ writes' \in 0 .. MaxWrites
  /\ w \in Memory /\ h \in Seq(Values) /\ wrote \in SUBSET Sizes /\ cells \in SUBSET Cells
  /\ lengths[id] \subseteq wrote /\ maxLength[Writer] \in wrote /\ Len(h) <= Max(Sizes)
  /\ clearing' # {} =>
       inserting' = Zero /\ clearing' \subseteq Pieces(maxLength[Writer]) /\ id \in broken'
  /\ id \in broken' => h = <<>> /\ id \notin torn' /\ (id \in broken \/ cells = Cells)
  /\ \/ id \in broken \/ cells = Cells
     \/ /\ \A c \in Cells \ cells : w.data[c] = ring[id].data[c]
        /\ \A c \in Cells : w.data[c] = Zero => ring[id].data[c] = Zero
  /\ \A n \in wrote : wrote = {n} =>
       /\ Within(w, n)
       /\ id \notin broken' =>
            /\ Holds(w, h, n, IF id \in torn' \/ inserting' # Zero THEN {After(w.headPos, n)} ELSE {})
            /\ inserting' # Zero => w.data[After(w.headPos, n)] = inserting'
       /\ clearing' # {} => Wiped(w, n, clearing')

LEMMA WriteKeeps ==
  ASSUME IInv, NEW id \in Ids, NEW w, NEW h, NEW wrote, NEW cells, Writes(id, w, h, wrote, cells)
  PROVE  IInv'
<1> USE DEF Writes
<1>1. Segments' /\ Mapped(Writer)' /\ Here(Writer)' = id /\ pc'[Writer] = "idle"
  BY Parts, SegmentsStay DEF shmVars, objectVars, Mapped, Here
<1>2. /\ search' \in [Procs -> SearchType]
      /\ \A q \in Procs :
           /\ search'[q].at = search[q].at /\ search'[q].of = search[q].of
           /\ search'[q].pos = search[q].pos /\ search'[q].i = search[q].i
           /\ search'[q].kept \subseteq search[q].kept
           /\ Mapped(q) /\ Here(q) = id => search'[q].kept \cap cells = {}
  BY OverwritesIs
<1>3. /\ ring'[id] = w /\ past'[id] = h /\ lengths'[id] = wrote
      /\ \A o \in Ids \ {id} : ring'[o] = ring[o] /\ past'[o] = past[o] /\ lengths'[o] = lengths[o]
                              /\ (o \in torn' <=> o \in torn) /\ (o \in broken' <=> o \in broken)
  BY DEF IInv, TypeOK
<1>4. \A o \in Ids : ring'[o] \in Memory /\ lengths[o] \subseteq lengths'[o]
  BY <1>3, Parts
<1>5. ASSUME NEW q \in Procs, Mapped(q), search[q].at = "looking"
      PROVE  /\ \A c \in search'[q].kept : ring'[Here(q)].data[c] = ring[Here(q)].data[c]
             /\ search'[q].kept # {} =>
                  \A c \in Cells : ring'[Here(q)].data[c] = Zero => ring[Here(q)].data[c] = Zero
  <2>1. Here(q) \in Ids /\ search'[q].kept \subseteq Cells
    BY <1>2, <1>5, Parts DEF SearchType
  <2>2. CASE Here(q) = id
    <3>1. search'[q].kept \subseteq Cells \ cells
      BY <1>2, <1>5, <2>1, <2>2
    <3>2. id \in broken \/ cells = Cells => search'[q].kept = {}
      BY <1>2, <1>5, <2>2, <3>1 DEF IInv, Staying
    <3>3. QED
      BY <1>3, <2>2, <3>1, <3>2
  <2>3. CASE Here(q) # id
    BY <1>3, <2>1, <2>3
  <2>4. QED
    BY <2>2, <2>3
<1>6. Searches' /\ (\A q \in Procs : search'[q].at = "looking" =>
                         /\ q # Writer /\ pc'[q] = "idle" /\ Mapped(q)'
                         /\ search'[q].of \in Values /\ search'[q].i <= maxLength'[q])
  BY <1>2, <1>4, <1>5, WriteDisturbsNone
<1>7. TypeOK'
  <2>1. ring' \in [Ids -> Memory] /\ lengths' \in [Ids -> SUBSET Sizes] /\ past' \in [Ids -> Seq(Values)]
    BY DEF IInv, TypeOK, Memory
  <2>2. clearing' \subseteq Cells \cup {HeadPos} /\ torn' \subseteq Ids /\ broken' \subseteq Ids
    <3>1. Pieces(maxLength[Writer]) \subseteq Cells \cup {HeadPos}
      BY Parts, LargestSize DEF Pieces, Cells
    <3>2. QED
      BY <3>1 DEF IInv, TypeOK
  <2>3. QED
    BY <1>1, <1>2, <2>1, <2>2 DEF IInv, TypeOK, Segments, Memory, SearchType
<1>8. Staying'
  <2>1. ASSUME NEW q \in Procs, search'[q].at = "looking", Here(q)' \in broken'
        PROVE  search'[q].kept = {}
    <3>1. search[q].at = "looking" /\ Mapped(q) /\ Here(q)' = Here(q) /\ Here(q) \in Ids
      BY <1>2, <2>1, Parts DEF IInv, Staying, Here, shmVars, objectVars
    <3>2. CASE Here(q) \in broken
      BY <1>2, <3>1, <3>2 DEF IInv, Staying
    <3>3. CASE Here(q) \notin broken
      <4>1. Here(q) = id /\ cells = Cells
        BY <1>3, <2>1, <3>1, <3>3
      <4>2. search'[q].kept \subseteq Cells /\ search'[q].kept \cap Cells = {}
        BY <1>2, <3>1, <4>1 DEF SearchType
      <4>3. QED
        BY <4>2
    <3>4. QED
      BY <3>2, <3>3
  <2>2. UNCHANGED maxLength
    OBVIOUS
  <2>3. QED
    BY <1>1, <1>3, <1>6, <2>1, <2>2 DEF Staying
<1>9. (Inserting(id)' <=> inserting' # Zero) /\ (Clearing(id)' <=> clearing' # {})
  BY <1>1 DEF Inserting, Clearing
<1>10. ASSUME NEW n \in wrote, wrote = {n} PROVE Content(id, n)'
  <2>1. {After(ring'[id].headPos, m) : m \in lengths'[id]} = {After(w.headPos, n)}
    BY <1>3, <1>10
  <2>2. Unpublished(id)' = IF id \in torn' \/ inserting' # Zero THEN {After(w.headPos, n)} ELSE {}
    BY <1>9, <2>1 DEF Unpublished
  <2>3. QED
    BY <1>3, <1>9, <1>10, <2>2 DEF Content
<1>11. Contents'
  <2>1. ASSUME NEW o \in Ids
        PROVE  /\ lengths'[o] = {} => ring'[o] = Blank /\ o \notin broken'
               /\ lengths'[o] = {} \/ o \in broken' => past'[o] = <<>> /\ o \notin torn'
               /\ Len(past'[o]) <= Max(Sizes)
               /\ \A m \in lengths'[o] : lengths'[o] = {m} => Content(o, m)'
    <3>1. CASE o = id
      BY <1>3, <1>10, <3>1
    <3>2. CASE o # id
      BY <1>3, <3>2, OthersStay
    <3>3. QED
      BY <3>1, <3>2
  <2>2. QED
    BY <2>1 DEF Contents
<1>12. QED
  BY <1>1, <1>6, <1>7, <1>8, <1>11 DEF IInv, Segments, SearchFindsSettled

(* What the writer has before it writes.                                   *)
LEMMA WriterHas ==
  ASSUME IInv, Mapped(Writer)
  PROVE  /\ Here(Writer) \in Ids /\ maxLength[Writer] \in Sizes
         /\ ring[Here(Writer)] \in Memory /\ past[Here(Writer)] \in Seq(Values)
         /\ lengths[Here(Writer)] \in SUBSET Sizes /\ Len(past[Here(Writer)]) <= Max(Sizes)
BY Parts DEF IInv, Contents

LEMMA InsertDataStep == ASSUME IInv, NEW v \in Values, InsertData(v) PROVE IInv'
<1>1. /\ pc[Writer] = "idle" /\ Mapped(Writer) /\ inserting = Zero /\ clearing = {} /\ writes < MaxWrites
  BY DEF InsertData, CanInsert, Uses, Free
<1>2. PICK id \in Ids, n \in Sizes : id = Here(Writer) /\ n = maxLength[Writer]
  BY <1>1, WriterHas
<1> DEFINE r == ring[id]
           first == TakesFirst(r, n)
           h == IF first /\ id \notin broken THEN <<v>> ELSE past[id]
<1>3. r \in Memory /\ past[id] \in Seq(Values) /\ lengths[id] \in SUBSET Sizes /\ Len(past[id]) <= Max(Sizes)
  BY <1>1, <1>2, WriterHas
<1>4. /\ ring' = [ring EXCEPT ![id] = Written(r, v, n)]
      /\ inserting' = (IF first THEN Zero ELSE v)
      /\ search' = Overwrites(id, {Cell(r, n)})
      /\ lengths' = [lengths EXCEPT ![id] = lengths[id] \cup {n}]
      /\ past' = [past EXCEPT ![id] = h]
      /\ writes' = writes + 1 /\ UNCHANGED <<shmVars, maxLength, clearing, torn, broken, overlooked>>
  BY <1>2 DEF InsertData, List, IInv, TypeOK
<1>5. /\ Cell(r, n) \in Cells /\ Written(r, v, n) \in Memory
      /\ Written(r, v, n).data = [r.data EXCEPT ![Cell(r, n)] = v]
      /\ Written(r, v, n).headPos = r.headPos
  BY <1>3, MemoryStays
<1>6. h \in Seq(Values) /\ Len(h) <= Max(Sizes)
  <2>1. <<v>> \in Seq(Values) /\ Len(<<v>>) = 1 /\ Max(Sizes) \in Nat \ {0}
    BY LargestSize
  <2>2. QED
    BY <1>3, <2>1
<1>7. /\ \A c \in Cells \ {Cell(r, n)} : Written(r, v, n).data[c] = r.data[c]
      /\ \A c \in Cells : Written(r, v, n).data[c] = Zero => r.data[c] = Zero
  BY <1>3, <1>5, WriterAssumption DEF Memory
<1>8. writes' \in 0 .. MaxWrites /\ inserting' \in Values \cup {Zero}
  BY <1>1, <1>4, WritesAssumption DEF IInv, TypeOK
<1>9. ASSUME NEW m \in lengths[id] \cup {n}, lengths[id] \cup {n} = {m}
      PROVE  /\ Within(Written(r, v, n), m)
             /\ id \notin broken =>
                  /\ Holds(Written(r, v, n), h, m,
                       IF id \in torn' \/ inserting' # Zero THEN {After(Written(r, v, n).headPos, m)} ELSE {})
                  /\ inserting' # Zero => Written(r, v, n).data[After(Written(r, v, n).headPos, m)] = inserting'
  <2>1. m = n /\ lengths[id] \subseteq {n}
    BY <1>9
  <2>2. Within(Written(r, v, n), m)
    BY <1>3, <2>1, WithinIs, WithinInsert
  <2>3. SUFFICES ASSUME id \notin broken
        PROVE  /\ Holds(Written(r, v, n), h, m,
                    IF id \in torn' \/ inserting' # Zero THEN {After(Written(r, v, n).headPos, m)} ELSE {})
               /\ inserting' # Zero => Written(r, v, n).data[After(Written(r, v, n).headPos, m)] = inserting'
    BY <2>2
  <2>4. /\ Holds(r, past[id], n, Unpublished(id))
        /\ past[id] = <<>> => id \notin torn
    BY <2>1, <2>3, ContentsIs
  <2>5. TakesFirst(r, n) <=> past[id] = <<>>
    BY <1>3, <2>4, FirstIs
  <2>6. IF first THEN Holds(Written(r, v, n), <<v>>, n, {})
        ELSE /\ Holds(Written(r, v, n), past[id], n, {After(r.headPos, n)})
             /\ Written(r, v, n).data[After(r.headPos, n)] = v
    BY <1>3, <2>4, HoldsWritten
  <2>7. CASE first
    BY <1>4, <2>1, <2>3, <2>4, <2>5, <2>6, <2>7
  <2>8. CASE ~first
    BY <1>4, <1>5, <2>1, <2>6, <2>8, WriterAssumption
  <2>9. QED
    BY <2>7, <2>8
<1>10. /\ {Cell(r, n)} \in SUBSET Cells /\ lengths[id] \cup {n} \in SUBSET Sizes
       /\ lengths[id] \subseteq lengths[id] \cup {n} /\ maxLength[Writer] \in lengths[id] \cup {n}
  BY <1>2, <1>3, <1>5
<1>11. /\ clearing' = {} /\ broken' = broken /\ broken \subseteq Ids /\ torn' = torn
       /\ id \in broken => h = <<>> /\ id \notin torn
  BY <1>1, <1>4 DEF IInv, TypeOK, Contents
<1> HIDE DEF h, first
<1>12. Writes(id, Written(r, v, n), h, lengths[id] \cup {n}, {Cell(r, n)})
  BY <1>1, <1>2, <1>4, <1>5, <1>6, <1>7, <1>8, <1>9, <1>10, <1>11 DEF Writes
<1>13. QED
  BY <1>12, WriteKeeps

LEMMA InsertHeadStep == ASSUME IInv, InsertHead PROVE IInv'
<1>1. /\ pc[Writer] = "idle" /\ Mapped(Writer) /\ inserting \in Values
      /\ maxLength[Writer] \in lengths[Here(Writer)] /\ clearing = {}
  BY DEF InsertHead, IInv, Staying, TypeOK
<1>2. PICK id \in Ids, n \in Sizes : id = Here(Writer) /\ n = maxLength[Writer]
  BY <1>1, WriterHas
<1> DEFINE r == ring[id]
           h == IF id \in broken THEN past[id] ELSE Newest(Append(past[id], inserting))
<1>3. r \in Memory /\ past[id] \in Seq(Values) /\ lengths[id] \in SUBSET Sizes /\ Len(past[id]) <= Max(Sizes)
  BY <1>1, <1>2, WriterHas
<1>4. /\ ring' = [ring EXCEPT ![id] = Advanced(r, n)]
      /\ past' = [past EXCEPT ![id] = h]
      /\ torn' = torn \ {id} /\ inserting' = Zero
      /\ UNCHANGED <<shmVars, maxLength, clearing, search, writes, lengths, broken, overlooked>>
  BY <1>2 DEF InsertHead, IInv, TypeOK
<1>5. Advanced(r, n) \in Memory /\ Advanced(r, n).data = r.data
  BY <1>1, <1>3, MemoryStays DEF Advanced, Memory
<1>6. h \in Seq(Values) /\ Len(h) <= Max(Sizes)
  <2>1. /\ Append(past[id], inserting) \in Seq(Values)
        /\ Len(Append(past[id], inserting)) <= Max(Sizes) + 1 /\ Max(Sizes) \in Nat \ {0}
    BY <1>1, <1>3, LargestSize
  <2> DEFINE b == Append(past[id], inserting)
  <2> HIDE DEF b
  <2>2. b \in Seq(Values) /\ Len(b) <= Max(Sizes) + 1
    BY <2>1 DEF b
  <2>3. Newest(b) \in Seq(Values) /\ Len(Newest(b)) = (IF Len(b) <= Max(Sizes) THEN Len(b) ELSE Max(Sizes))
    BY <2>2, NewestIs
  <2>4. Newest(b) \in Seq(Values) /\ Len(Newest(b)) <= Max(Sizes)
    BY <2>1, <2>2, <2>3
  <2>5. QED
    BY <1>3, <2>4 DEF b
<1>7. search' = Overwrites(id, {})
  <2>1. \A q \in Procs : [search[q] EXCEPT !.kept = @ \ {}] = search[q]
    BY Parts DEF SearchType
  <2>2. search = [q \in Procs |-> search[q]]
    BY DEF IInv, TypeOK
  <2>3. Overwrites(id, {}) = [q \in Procs |-> search[q]]
    BY <2>1 DEF Overwrites
  <2>4. QED
    BY <1>4, <2>2, <2>3
<1>8. ASSUME NEW m \in lengths[id], lengths[id] = {m}, id \notin broken
      PROVE  Holds(Advanced(r, n), h, m, {})
  <2>1. m = n /\ lengths[id] \subseteq {n} /\ Inserting(id)
    BY <1>1, <1>2, <1>8, WriterAssumption DEF Inserting
  <2>2. /\ Holds(r, past[id], n, Unpublished(id)) /\ r.data[After(r.headPos, n)] = inserting
    BY <1>8, <2>1, ContentsIs
  <2>3. past[id] # <<>>
    <3>1. After(r.headPos, n) \in Unpublished(id)
      BY <1>8, <2>1 DEF Unpublished
    <3>2. QED
      BY <2>2, <3>1 DEF Holds
  <2>4. QED
    BY <1>1, <1>3, <1>8, <2>1, <2>2, <2>3, HoldsAdvanced
<1>9. /\ {} \in SUBSET Cells /\ maxLength[Writer] \in lengths[id] /\ writes' \in 0 .. MaxWrites
      /\ lengths' = [lengths EXCEPT ![id] = lengths[id]] /\ lengths[id] \subseteq lengths[id]
      /\ inserting' \in Values \cup {Zero} /\ ~(id \in torn' \/ inserting' # Zero)
      /\ \A c \in Cells \ {} : Advanced(r, n).data[c] = r.data[c]
      /\ \A c \in Cells : Advanced(r, n).data[c] = Zero => r.data[c] = Zero
  BY <1>1, <1>2, <1>4, <1>5 DEF IInv, TypeOK
<1>10. \A m \in lengths[id] : lengths[id] = {m} =>
         /\ Within(Advanced(r, n), m)
         /\ id \notin broken =>
              /\ Holds(Advanced(r, n), h, m,
                   IF id \in torn' \/ inserting' # Zero THEN {After(Advanced(r, n).headPos, m)} ELSE {})
              /\ inserting' # Zero => Advanced(r, n).data[After(Advanced(r, n).headPos, m)] = inserting'
  <2>1. ASSUME NEW m \in lengths[id], lengths[id] = {m} PROVE Within(Advanced(r, n), m)
    <3>1. m = n /\ lengths[id] \subseteq {n}
      BY <1>1, <1>2, <2>1
    <3>2. QED
      BY <1>1, <1>3, <3>1, WithinIs, WithinInsert
  <2>2. QED
    BY <1>8, <1>9, <2>1
<1>11. /\ clearing' = {} /\ broken' = broken /\ broken \subseteq Ids
       /\ id \in broken => h = <<>> /\ id \notin torn'
  BY <1>1, <1>4 DEF IInv, TypeOK, Contents
<1> HIDE DEF h
<1>12. Writes(id, Advanced(r, n), h, lengths[id], {})
  BY <1>1, <1>2, <1>3, <1>4, <1>5, <1>6, <1>7, <1>9, <1>10, <1>11 DEF Writes
<1>13. QED
  BY <1>12, WriteKeeps

LEMMA ClearStep == ASSUME IInv, Clear PROVE IInv'
<1>1. pc[Writer] = "idle" /\ Mapped(Writer) /\ inserting = Zero /\ writes < MaxWrites
  BY DEF Clear, Uses, Free
<1>2. PICK id \in Ids, n \in Sizes : id = Here(Writer) /\ n = maxLength[Writer]
  BY <1>1, WriterHas
<1> DEFINE r == ring[id]
<1>3. r \in Memory /\ lengths[id] \in SUBSET Sizes
  BY <1>1, <1>2, WriterHas
<1>4. /\ ring' = [ring EXCEPT ![id] = r]
      /\ search' = Overwrites(id, Cells)
      /\ past' = [past EXCEPT ![id] = <<>>]
      /\ lengths' = [lengths EXCEPT ![id] = lengths[id] \cup {n}]
      /\ torn' = torn \ {id} /\ broken' = broken \cup {id} /\ clearing' = Pieces(n)
      /\ writes' = writes + 1 /\ UNCHANGED <<shmVars, maxLength, inserting, overlooked>>
  BY <1>2 DEF Clear, IInv, TypeOK
<1>5. ASSUME NEW m \in lengths[id] \cup {n}, lengths[id] \cup {n} = {m}
      PROVE  Within(r, m) /\ Wiped(r, m, Pieces(n))
  <2>1. m = n /\ lengths[id] \subseteq {n}
    BY <1>5
  <2>2. QED
    BY <2>1, WithinIs DEF Wiped, Pieces
<1>6. /\ <<>> \in Seq(Values) /\ Len(<<>>) <= Max(Sizes)
  BY LargestSize
<1>7. /\ Cells \in SUBSET Cells /\ lengths[id] \cup {n} \in SUBSET Sizes
      /\ lengths[id] \subseteq lengths[id] \cup {n} /\ maxLength[Writer] \in lengths[id] \cup {n}
      /\ writes' \in 0 .. MaxWrites /\ inserting' \in Values \cup {Zero} /\ inserting' = Zero
      /\ id \in broken' /\ id \notin torn' /\ broken' \subseteq Ids
      /\ clearing' \subseteq Pieces(maxLength[Writer])
  BY <1>1, <1>2, <1>3, <1>4, WritesAssumption DEF IInv, TypeOK
<1>8. Writes(id, r, <<>>, lengths[id] \cup {n}, Cells)
  BY <1>1, <1>2, <1>3, <1>4, <1>5, <1>6, <1>7 DEF Writes
<1>9. QED
  BY <1>8, WriteKeeps

LEMMA ClearPieceStep == ASSUME IInv, NEW c, ClearPiece(c) PROVE IInv'
<1>1. /\ pc[Writer] = "idle" /\ Mapped(Writer) /\ inserting = Zero /\ c \in clearing
      /\ maxLength[Writer] \in lengths[Here(Writer)] /\ clearing \subseteq Pieces(maxLength[Writer])
      /\ Here(Writer) \in broken
  BY DEF ClearPiece, IInv, Staying
<1>2. PICK id \in Ids, n \in Sizes : id = Here(Writer) /\ n = maxLength[Writer]
  BY <1>1, WriterHas
<1> DEFINE r == ring[id]
           w == Zeroed(r, c)
<1>3. r \in Memory /\ lengths[id] \in SUBSET Sizes /\ past[id] = <<>> /\ id \notin torn
  BY <1>1, <1>2, WriterHas DEF IInv, Contents
<1>4. w \in Memory
  BY <1>1, <1>2, <1>3, ZeroedStays
<1>5. search' = Overwrites(id, {})
  <2>1. \A q \in Procs : [search[q] EXCEPT !.kept = @ \ {}] = search[q]
    BY Parts DEF SearchType
  <2>2. search = [q \in Procs |-> search[q]]
    BY DEF IInv, TypeOK
  <2>3. Overwrites(id, {}) = [q \in Procs |-> search[q]]
    BY <2>1 DEF Overwrites
  <2>4. QED
    BY <2>2, <2>3 DEF ClearPiece
<1>6. /\ ring' = [ring EXCEPT ![id] = w] /\ clearing' = clearing \ {c}
      /\ broken' = broken \ (IF clearing = {c} THEN {id} ELSE {})
      /\ past' = [past EXCEPT ![id] = <<>>] /\ lengths' = [lengths EXCEPT ![id] = lengths[id]]
      /\ UNCHANGED <<shmVars, maxLength, inserting, writes, torn, overlooked>>
  BY <1>2, <1>3 DEF ClearPiece, IInv, TypeOK
<1>7. ASSUME NEW m \in lengths[id], lengths[id] = {m}
      PROVE  Within(w, m) /\ Wiped(w, m, clearing') /\ (clearing' = {} => Holds(w, <<>>, m, {}))
  <2>1. m = n /\ Clearing(id)
    BY <1>1, <1>2, <1>7 DEF Clearing
  <2>2. Within(r, n) /\ Wiped(r, n, clearing)
    BY <1>7, <2>1 DEF IInv, Contents, Content
  <2>3. Within(w, n) /\ Wiped(w, n, clearing \ {c})
    BY <1>1, <1>2, <1>3, <2>2, WithinWiped
  <2> HIDE DEF w
  <2>4. QED
    BY <1>4, <1>6, <2>1, <2>3, HoldsNothing
<1>8. /\ <<>> \in Seq(Values) /\ Len(<<>>) <= Max(Sizes) /\ {} \in SUBSET Cells
      /\ maxLength[Writer] \in lengths[id] /\ lengths[id] \subseteq lengths[id]
      /\ writes' \in 0 .. MaxWrites /\ inserting' \in Values \cup {Zero} /\ inserting' = Zero
      /\ broken' \subseteq Ids /\ id \in broken /\ id \notin torn' /\ torn' = torn
      /\ \A o \in Ids \ {id} : o \in broken' <=> o \in broken
      /\ clearing' \subseteq Pieces(maxLength[Writer])
      /\ (id \in broken' <=> clearing' # {})
  BY <1>1, <1>2, <1>3, <1>6, LargestSize DEF IInv, TypeOK
<1> HIDE DEF w
<1>9. Writes(id, w, <<>>, lengths[id], {})
  BY <1>1, <1>2, <1>3, <1>4, <1>5, <1>6, <1>7, <1>8 DEF Writes
<1>10. QED
  BY <1>9, WriteKeeps

(* A step of a search changes nothing else.                                *)
LEMMA SearchKeeps ==
  ASSUME IInv, NEW p \in Procs, NEW z \in SearchType, search' = [search EXCEPT ![p] = z],
         UNCHANGED <<shmVars, ring, maxLength, inserting, clearing, writes, past, lengths, torn, broken,
                     overlooked>>,
         z.at = "looking" =>
           /\ Here(p) \in broken => z.kept = {}
           /\ p # Writer /\ pc[p] = "idle" /\ Mapped(p) /\ z.of \in Values /\ z.i <= maxLength[p]
           /\ lengths[Here(p)] \subseteq {maxLength[p]} => Searched(ring[Here(p)], z, maxLength[p])
  PROVE  IInv'
<1>1. Segments'
  BY Parts, SegmentsStay
<1>2. UNCHANGED <<pc, m_addr, maxLength>> /\ \A q \in Procs : Mapped(q)' = Mapped(q) /\ Here(q)' = Here(q)
  BY DEF shmVars, objectVars, Mapped, Here
<1>3. \A q \in Procs : search'[q] = (IF q = p THEN z ELSE search[q])
  BY DEF IInv, TypeOK
<1>4. search' \in [Procs -> SearchType]
  BY DEF IInv, TypeOK, SearchType
<1>5. TypeOK'
  BY <1>1, <1>4 DEF IInv, TypeOK, Segments, SearchType
<1>6. Staying'
  BY <1>2, <1>3, Parts DEF IInv, Staying
<1>7. Contents'
  <2>1. \A id \in Ids : Inserting(id)' = Inserting(id) /\ Clearing(id)' = Clearing(id)
    BY <1>2, Parts DEF Inserting, Clearing
  <2>2. \A id \in Ids : Unpublished(id)' = Unpublished(id)
    BY <2>1 DEF Unpublished
  <2>3. QED
    BY <2>1, <2>2 DEF IInv, Contents, Content
<1>8. Searches'
  BY <1>2, <1>3 DEF IInv, Searches
<1>9. QED
  BY <1>1, <1>5, <1>6, <1>7, <1>8 DEF IInv, Segments, SearchFindsSettled

LEMMA SearchStep == ASSUME IInv, NEW p \in Procs, NEW v \in Values, Search(p, v) PROVE IInv'
<1>1. p # Writer /\ pc[p] = "idle" /\ Mapped(p)
  BY DEF Search, Uses
<1>2. PICK id \in Ids, n \in Sizes : id = Here(p) /\ n = maxLength[p]
  BY <1>1, Parts
<1> DEFINE r == ring[id]
           z == [at |-> "looking", of |-> v, pos |-> Start(r.headPos, n), i |-> 0,
                 kept |-> IF id \in broken THEN {} ELSE {c \in Cells : r.data[c] = v} \ Unpublished(id)]
<1>3. r \in Memory /\ r.headPos \in Cells
  BY Parts DEF Memory
<1>4. z \in SearchType
  <2>1. Start(r.headPos, n) \in Cells /\ 0 \in 0 .. Max(Sizes)
    BY <1>3, CellsAre, LargestSize
  <2>2. QED
    BY <2>1 DEF SearchType
<1>5. lengths[id] \subseteq {n} => Searched(r, z, n)
  <2>1. SUFFICES ASSUME lengths[id] \subseteq {n}, id \notin broken PROVE Searched(r, z, n)
    BY DEF Searched
  <2>2. Holds(r, past[id], n, Unpublished(id)) /\ past[id] \in Seq(Values)
    BY <2>1, ContentsIs, Parts
  <2>3. /\ z.of = v /\ z.pos = Start(r.headPos, n) /\ z.i = 0
        /\ z.kept = {c \in Cells : r.data[c] = v} \ Unpublished(id)
    BY <2>1
  <2> HIDE DEF z
  <2>4. QED
    BY <1>3, <1>4, <2>2, <2>3, SearchBegins
<1>6. search' = [search EXCEPT ![p] = z]
  BY <1>2 DEF Search
<1>7. z.at = "looking" /\ z.of \in Values /\ z.i <= n /\ (id \in broken => z.kept = {})
  BY LargestSize
<1> HIDE DEF z
<1>8. QED
  BY <1>1, <1>2, <1>4, <1>5, <1>6, <1>7, SearchKeeps DEF Search

LEMMA LookStep == ASSUME IInv, NEW p \in Procs, Look(p) PROVE IInv'
<1>1. /\ p # Writer /\ pc[p] = "idle" /\ Mapped(p) /\ search[p].at = "looking"
      /\ search[p].of \in Values /\ search[p].i <= maxLength[p]
  BY DEF Look, IInv, Staying
<1>2. PICK id \in Ids, n \in Sizes : id = Here(p) /\ n = maxLength[p]
  BY <1>1, Parts
<1> DEFINE r == ring[id]
           s == search[p]
           l == Looks(r, s.of, s, n)
           z == IF l.at = "looking" THEN l ELSE NoSearch
           on == s.i # n /\ r.data[s.pos] # Zero /\ r.data[s.pos] # s.of
<1>3. r \in Memory /\ s \in SearchType /\ n \in Nat \ {0} /\ n <= Max(Sizes)
  BY Parts, LargestSize
<1>4. search' = [search EXCEPT ![p] = z]
  BY <1>2 DEF Look
<1>5. on => l = [s EXCEPT !.pos = Before(s.pos, n), !.i = @ + 1]
  BY DEF Looks
<1>6. on => l.at = "looking" /\ l \in SearchType /\ l.of = s.of /\ l.i <= n /\ l.kept = s.kept
  <2>1. Before(s.pos, n) \in Cells
    BY <1>3, CellsAre DEF SearchType
  <2>2. SUFFICES ASSUME on
        PROVE  l.at = "looking" /\ l \in SearchType /\ l.of = s.of /\ l.i <= n /\ l.kept = s.kept
    OBVIOUS
  <2>3. s.i + 1 \in 0 .. Max(Sizes) /\ s.i + 1 <= n
    <3>1. PICK i \in 0 .. Max(Sizes) : i = s.i
      BY <1>3 DEF SearchType
    <3>2. i # n /\ i <= n
      BY <1>1, <1>2, <2>2, <3>1
    <3>3. i + 1 \in 0 .. Max(Sizes) /\ i + 1 <= n
      BY <1>3, <3>2, LargestSize
    <3>4. QED
      BY <3>1, <3>3
  <2>4. QED
    BY <1>1, <1>3, <1>5, <2>1, <2>2, <2>3 DEF SearchType
<1>7. ~on => l.at # "looking"
  BY <1>3 DEF Looks, SearchType
<1>8. lengths[id] \subseteq {n} => Searched(r, s, n)
  BY <1>1, <1>2 DEF IInv, Searches
<1>9. lengths[id] \subseteq {n} /\ on => Searched(r, l, n)
  BY <1>3, <1>5, <1>8, SearchGoesOn
<1>10. NoSearch \in SearchType /\ NoSearch.at = "none"
  BY LargestSize DEF NoSearch, SearchType, Cells
<1>11. overlooked' = overlooked
  <2>1. SUFFICES ASSUME l.at = "missed", l.kept # {}, lengths[id] = {n} PROVE FALSE
    BY <1>2 DEF Look
  <2>2. (s.i = n \/ r.data[s.pos] = Zero) /\ l.kept = s.kept
    BY <1>1, <1>3, <2>1 DEF Looks, SearchType
  <2>3. Searched(r, s, n)
    BY <1>8, <2>1
  <2>4. s.kept = {}
    BY <1>3, <2>2, <2>3, SearchMisses
  <2>5. QED
    BY <2>1, <2>2, <2>4
<1>12. z \in SearchType /\ (z.at = "looking" => on /\ z = l)
  BY <1>6, <1>7, <1>10
<1>13. id \in broken => s.kept = {}
  BY <1>1, <1>2 DEF IInv, Staying
<1>14. z.at = "looking" =>
         /\ Here(p) \in broken => z.kept = {}
         /\ p # Writer /\ pc[p] = "idle" /\ Mapped(p) /\ z.of \in Values /\ z.i <= maxLength[p]
         /\ lengths[Here(p)] \subseteq {maxLength[p]} => Searched(ring[Here(p)], z, maxLength[p])
  BY <1>1, <1>2, <1>13, <1>6, <1>9, <1>12
<1> HIDE DEF z
<1>15. QED
  BY <1>4, <1>11, <1>12, <1>14, SearchKeeps DEF Look

LEMMA InitIInv == Init => IInv
<1>1. SUFFICES ASSUME Init PROVE IInv
  OBVIOUS
<1>2. /\ Max(Sizes) \in Nat \ {0} /\ MaxSegs \in Nat /\ Blank \in Memory /\ NoSearch \in SearchType
  BY LargestSize, SizesAssumption DEF Blank, Memory, NoSearch, SearchType, Cells
<1>3. \A p \in Procs : ~Mapped(p)
  BY <1>1 DEF Init, ShmInit, Mapped
<1>4. ShmTypeOK
  BY <1>1, NoCallIs DEF Init, ShmInit, ShmTypeOK
<1>5. TypeOK
  <2>1. <<>> \in Seq(Values)
    OBVIOUS
  <2>2. QED
    BY <1>1, <1>2, <1>4, <2>1, WritesAssumption DEF Init, TypeOK, Memory, SearchType
<1>6. Numbered
  <2>1. 0 \in 0 .. MaxSegs /\ \A id \in Ids : size[id] = 0 /\ ~(id <= 0)
    BY <1>1, <1>2 DEF Init, ShmInit, Ids
  <2>2. QED
    BY <2>1 DEF Numbered
<1>7. Identified /\ AddressGood
  BY <1>1, <1>3 DEF Init, ShmInit, Identified, AddressGood
<1>8. Staying /\ Searches /\ SearchFindsSettled
  BY <1>1 DEF Init, NoSearch, Staying, Searches, SearchFindsSettled
<1>9. Contents
  BY <1>1, <1>2 DEF Init, Contents
<1>10. QED
  BY <1>5, <1>6, <1>7, <1>8, <1>9 DEF IInv

LEMMA StutterStep == ASSUME IInv, UNCHANGED vars PROVE IInv'
<1>1. Segments'
  BY Parts, SegmentsStay DEF vars, ringVars
<1>2. TypeOK' /\ Staying' /\ Searches' /\ SearchFindsSettled'
  BY <1>1 DEF IInv, Segments, TypeOK, Staying, Searches, SearchFindsSettled, vars, ringVars, shmVars,
    objectVars, Mapped, Here
<1>3. Contents'
  <2>1. \A id \in Ids : Inserting(id)' = Inserting(id) /\ Clearing(id)' = Clearing(id)
    BY DEF Inserting, Clearing, Mapped, Here, vars, ringVars, shmVars, objectVars
  <2>2. \A id \in Ids : Unpublished(id)' = Unpublished(id)
    BY <2>1 DEF Unpublished, vars, ringVars
  <2>3. QED
    BY <2>1, <2>2 DEF IInv, Contents, Content, vars, ringVars
<1>4. QED
  BY <1>1, <1>2, <1>3 DEF IInv, Segments

----------------------------------------------------------------------------
(* Every system call, every write of insert and clear and every read of    *)
(* checkValueExist keeps the segments, the rings and the searches sound.   *)
THEOREM Invariance == Spec => []IInv
<1>1. ASSUME IInv, [Next]_vars PROVE IInv'
  <2>1. CASE UNCHANGED vars
    BY <1>1, <2>1, StutterStep
  <2>2. ASSUME NEW v \in Values, InsertAgain(v) PROVE IInv'
    BY <1>1, <2>2, StutterStep DEF InsertAgain
  <2>3. QED
    BY <1>1, <2>1, <2>2, ManageStep, MakeListStep, EndsStep, LookStep, InsertDataStep, SearchStep,
      InsertHeadStep, ClearStep, ClearPieceStep DEF Next
<1>2. QED
  BY <1>1, InitIInv, PTL DEF Spec

(* Every variable of the segments, the rings and the searches has a value  *)
(* of its type.                                                            *)
THEOREM TypeCorrect == Spec => []TypeOK
<1>1. IInv => TypeOK
  BY DEF IInv
<1>2. QED
  BY <1>1, Invariance, PTL

(* The address that a process has mapped with openShm or connectShm is     *)
(* that of the segment its object names, with room for its list.           *)
THEOREM AddressesGood == Spec => []AddressGood
<1>1. IInv => AddressGood
  BY DEF IInv
<1>2. QED
  BY <1>1, Invariance, PTL

(* checkValueExist finds what was in the ring when it began and was not    *)
(* overwritten meanwhile, whatever the writer inserts at the same time,    *)
(* unless a clear was under way or cut off when it began or began since:   *)
(* in lists of the writer's length, which LengthsFit lets have 256         *)
(* elements at most, as headPos is a byte.                                 *)
THEOREM SearchesFind == Spec => []SearchFindsSettled
<1>1. IInv => SearchFindsSettled
  BY DEF IInv
<1>2. QED
  BY <1>1, Invariance, PTL

(* The walk of size goes back from the head, and counts what the ring      *)
(* holds.                                                                  *)
Walk(p, n, b) == b = [i \in 0 .. n - 1 |-> IF i = 0 THEN p ELSE Before(b[i - 1], n)]

LEMMA WalkGoesBack ==
  ASSUME NEW n \in Nat \ {0}, n <= Byte, NEW p \in 0 .. n - 1
  PROVE  /\ \E b : Walk(p, n, b)
         /\ \A b : Walk(p, n, b) => \A i \in 0 .. n - 1 : b[i] = Back(p, i, n)
<1>1. Back(p, 0, n) = p /\ \A i \in 1 .. n - 1 : Before(Back(p, i - 1, n), n) = Back(p, i, n)
  <2>1. ASSUME NEW i \in 1 .. n - 1 PROVE Before(Back(p, i - 1, n), n) = Back(p, i, n)
    <3>1. i - 1 \in 0 .. n - 1 /\ (i - 1) + 1 = i
      OBVIOUS
    <3>2. QED
      BY <3>1, BackMoves
  <2>2. QED
    BY <2>1, BackMoves
<1>2. \E b : Walk(p, n, b)
  <2> DEFINE b == [i \in 0 .. n - 1 |-> Back(p, i, n)]
  <2>1. ASSUME NEW i \in 0 .. n - 1 PROVE b[i] = IF i = 0 THEN p ELSE Before(b[i - 1], n)
    <3>1. CASE i = 0
      BY <1>1, <3>1
    <3>2. CASE i # 0
      <4>1. i \in 1 .. n - 1 /\ i - 1 \in 0 .. n - 1
        BY <3>2
      <4>2. b[i - 1] = Back(p, i - 1, n)
        BY <4>1
      <4>3. QED
        BY <1>1, <3>2, <4>1, <4>2
    <3>3. QED
      BY <3>1, <3>2
  <2>2. b = [i \in 0 .. n - 1 |-> b[i]]
    OBVIOUS
  <2> HIDE DEF b
  <2>3. [i \in 0 .. n - 1 |-> b[i]] = [i \in 0 .. n - 1 |-> IF i = 0 THEN p ELSE Before(b[i - 1], n)]
    BY <2>1
  <2>4. QED
    BY <2>2, <2>3 DEF Walk
<1>3. ASSUME NEW b, Walk(p, n, b), NEW o \in 0 .. n - 1, b[o] # Back(p, o, n) PROVE FALSE
  <2>1. \A i \in 0 .. n - 1 : b[i] = IF i = 0 THEN p ELSE Before(b[i - 1], n)
    BY <1>3 DEF Walk
  <2> DEFINE T == {i \in 0 .. n - 1 : b[i] # Back(p, i, n)}
  <2>2. T \in SUBSET Nat /\ T # {}
    BY <1>3
  <2>3. PICK i \in T : \A m \in T : i <= m
    BY <2>2, LeastOf
  <2>4. i \in 0 .. n - 1 /\ i # 0
    BY <1>1, <2>1, <2>3
  <2>5. i \in 1 .. n - 1 /\ i - 1 \in 0 .. n - 1 /\ ~(i <= i - 1)
    BY <2>4
  <2>6. b[i - 1] = Back(p, i - 1, n)
    BY <2>3, <2>5
  <2>7. b[i] = Back(p, i, n)
    BY <1>1, <2>1, <2>4, <2>5, <2>6
  <2>8. QED
    BY <2>3, <2>7
<1>4. QED
  BY <1>2, <1>3

LEMMA SizeCounts ==
  ASSUME NEW n \in Sizes, NEW r \in Memory, NEW h \in Seq(Values), Holds(r, h, n, {})
  PROVE  Size(r, n) = (IF Len(h) < n THEN Len(h) ELSE n)
<1> DEFINE p == r.headPos
<1>1. n \in Nat \ {0} /\ n <= Byte /\ p \in 0 .. n - 1 /\ Start(p, n) = p
  BY FirstIs
<1>2. PICK b : /\ Walk(p, n, b)
               /\ Size(r, n) = Cardinality({i \in 0 .. n - 1 : \A j \in 0 .. i : r.data[b[j]] # Zero})
  <2> DEFINE b == CHOOSE b : Walk(Start(p, n), n, b)
  <2>1. \E x : Walk(Start(p, n), n, x)
    BY <1>1, WalkGoesBack
  <2>2. Walk(Start(p, n), n, b)
    BY <2>1
  <2>3. Size(r, n) = Cardinality({i \in 0 .. n - 1 : \A j \in 0 .. i : r.data[b[j]] # Zero})
    BY Zenon DEF Size, Walk
  <2> HIDE DEF b
  <2>4. QED
    BY <1>1, <2>2, <2>3
<1>3. \A i \in 0 .. n - 1 : r.data[b[i]] = (IF i < Len(h) THEN h[Len(h) - i] ELSE Zero)
  <2>1. \A i \in 0 .. n - 1 : b[i] = Back(p, i, n)
    BY <1>1, <1>2, WalkGoesBack
  <2>2. QED
    BY <2>1 DEF Holds
<1>4. PICK l \in Nat : l = Len(h)
  OBVIOUS
<1>5. \A i \in 0 .. n - 1 : r.data[b[i]] # Zero <=> i < l
  <2>1. \A i \in 0 .. n - 1 : i < l => h[l - i] \in Values
    BY <1>1, <1>4
  <2>2. QED
    BY <1>3, <1>4, <2>1, WriterAssumption
<1>6. PICK m \in Nat : m = (IF l < n THEN l ELSE n)
  BY <1>1
<1>7. {i \in 0 .. n - 1 : \A j \in 0 .. i : r.data[b[j]] # Zero} = 0 .. m - 1
  <2>1. ASSUME NEW i \in 0 .. n - 1
        PROVE  (\A j \in 0 .. i : r.data[b[j]] # Zero) <=> i \in 0 .. m - 1
    <3>1. \A j \in 0 .. i : j \in 0 .. n - 1
      BY <1>1
    <3>2. (\A j \in 0 .. i : j < l) <=> i < l
      BY <1>1
    <3>3. i < l <=> i \in 0 .. m - 1
      BY <1>1, <1>6
    <3>4. (\A j \in 0 .. i : r.data[b[j]] # Zero) <=> (\A j \in 0 .. i : j < l)
      BY <1>5, <3>1
    <3>5. QED
      BY <3>2, <3>3, <3>4
  <2>2. \A i \in 0 .. m - 1 : i \in 0 .. n - 1
    BY <1>1, <1>6
  <2>3. QED
    BY <2>1, <2>2
<1>8. Cardinality(0 .. m - 1) = m
  <2>1. Cardinality(0 .. m - 1) = (IF 0 > m - 1 THEN 0 ELSE (m - 1) - 0 + 1)
    BY FS_Interval
  <2>2. QED
    BY <2>1
<1>9. QED
  BY <1>2, <1>4, <1>6, <1>7, <1>8

(* insert keeps the newest values of what was inserted since the last      *)
(* clear, in order, and nothing else; a writer that ends within an insert  *)
(* costs one element.  Nothing but the place of the head is said of a ring *)
(* from the begin of a clear until one is completed, nor, by LengthsFit,   *)
(* of lists of more than 256 elements.                                     *)
THEOREM RingKeepsNewest == Spec => []RingHoldsNewest
<1>1. IInv => RingHoldsNewest
  <2>1. SUFFICES ASSUME IInv PROVE RingHoldsNewest
    OBVIOUS
  <2>2. ASSUME NEW id \in Ids, NEW n \in lengths[id], lengths[id] = {n}
        PROVE  ring[id].headPos \in 0 .. n - 1
    BY <2>2, <2>1 DEF IInv, Contents, Content, Within
  <2>3. ASSUME NEW id \in Ids, NEW n \in lengths[id], lengths[id] = {n}, id \notin broken, ~Inserting(id)
        PROVE  /\ \A k \in 0 .. n - 1 :
                    Back(ring[id].headPos, k, n) \notin (IF id \in torn THEN Unpublished(id) ELSE {}) =>
                      ring[id].data[Back(ring[id].headPos, k, n)]
                        = (IF k < Len(past[id]) THEN past[id][Len(past[id]) - k] ELSE Zero)
               /\ id \notin torn => Size(ring[id], n) = (IF Len(past[id]) < n THEN Len(past[id]) ELSE n)
    <3>1. n \in Sizes /\ ring[id] \in Memory /\ past[id] \in Seq(Values)
      BY <2>1, <2>3, Parts
    <3>2. Holds(ring[id], past[id], n, Unpublished(id))
      BY <2>1, <2>3 DEF IInv, Contents, Content
    <3>3. id \notin torn => Unpublished(id) = {}
      BY <2>3 DEF Unpublished
    <3>4. id \notin torn => Size(ring[id], n) = (IF Len(past[id]) < n THEN Len(past[id]) ELSE n)
      BY <3>1, <3>2, <3>3, SizeCounts
    <3>5. QED
      BY <3>2, <3>3, <3>4 DEF Holds
  <2>4. QED
    BY <2>2, <2>3 DEF RingHoldsNewest, Back
<1>2. QED
  BY <1>1, Invariance, PTL
============================================================================
