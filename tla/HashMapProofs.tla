--------------------------- MODULE HashMapProofs ---------------------------
(***************************************************************************)
(* Theorems about HashMap for every number of blocks, every set of keys    *)
(* and every hash: the structure getPoint walks stays sound, its search    *)
(* ends, and get finds what put has stored.                                *)
(***************************************************************************)
EXTENDS HashMap, WellFoundedInduction, TLAPS

IInv == TypeOK /\ ChainsAscend /\ BucketsApart

(* The memory splits into buckets, at least one, and spare blocks.         *)
LEMMA Halves ==
  /\ m_maxDataCount \in Nat \ {0}
  /\ m_maxDataCount <= m_bucketCount
  /\ Buckets \subseteq Blocks
  /\ Spare \subseteq Blocks
  /\ \A b \in Buckets, s \in Spare : b < s
  /\ 0 \in Buckets /\ 0 \notin Spare
<1>1. m_maxDataCount \in Nat \ {0} /\ m_maxDataCount <= m_bucketCount
  BY BucketsAssumption, SMTT(30) DEF m_maxDataCount
<1>2. QED
  BY <1>1, BucketsAssumption DEF Buckets, Spare, Blocks

(* A key falls into a bucket.                                              *)
LEMMA BucketInRange == ASSUME NEW k \in Keys PROVE Bucket(k) \in Buckets
<1>1. hash[k] \in Nat
  BY HashAssumption
<1>2. \A n \in Nat, d \in Nat \ {0} : n % d \in 0 .. d - 1
  BY SMTT(30)
<1>3. QED
  BY <1>1, <1>2, Halves DEF Bucket, Buckets

----------------------------------------------------------------------------
LEMMA InitIInv == Init => IInv
<1>1. ASSUME Init PROVE m_pData \in [Blocks -> Item]
  <2>1. 0 \in Blocks
    BY Halves
  <2>2. QED
    BY <1>1, <2>1 DEF Init, Item
<1>2. ASSUME Init PROVE TypeOK
  BY <1>1, <1>2 DEF Init, TypeOK, Nothing
<1>3. ASSUME Init PROVE ChainsAscend /\ BucketsApart
  BY <1>3, Halves DEF Init, ChainsAscend, BucketsApart
<1>4. QED
  BY <1>2, <1>3 DEF IInv

LEMMA PutBucketIInv ==
  ASSUME IInv, NEW k \in Keys, NEW v \in Values, PutBucket(k, v)
  PROVE  IInv'
<1> DEFINE b == Bucket(k)
<1>1. b \in Buckets /\ b \in Blocks /\ b \notin Spare
  BY BucketInRange, Halves DEF Buckets
<1>2. /\ m_pData \in [Blocks -> Item]
      /\ m_pData' = [m_pData EXCEPT ![b].key = IF m_pData[b].isUsed THEN @ ELSE k,
                                    ![b].isUsed = TRUE, ![b].value = v]
      /\ ~m_pData[b].isUsed \/ m_pData[b].key = k
  BY DEF PutBucket, IInv, TypeOK, Free
<1>3. m_pData' \in [Blocks -> Item]
  <2>1. m_pData[b] \in Item
    BY <1>1, <1>2
  <2>2. m_pData'[b] = [m_pData[b] EXCEPT !.key = k, !.isUsed = TRUE, !.value = v]
    <3>1. CASE m_pData[b].isUsed
      BY <3>1, <1>1, <1>2, <2>1 DEF Item
    <3>2. CASE ~m_pData[b].isUsed
      BY <3>2, <1>1, <1>2
    <3>3. QED
      BY <3>1, <3>2
  <2>3. m_pData'[b] \in Item
    BY <2>1, <2>2 DEF Item
  <2>4. QED
    BY <1>1, <1>2, <2>3
<1>4. /\ \A i \in Blocks : m_pData'[i].nextPos = m_pData[i].nextPos
      /\ \A i \in Blocks : i # b => m_pData'[i] = m_pData[i]
      /\ m_pData'[b].isUsed /\ m_pData'[b].key = k
  BY <1>1, <1>2 DEF Item
<1>5. TypeOK'
  BY <1>3 DEF PutBucket, Succeeds, IInv, TypeOK
<1>6. ChainsAscend'
  BY <1>1, <1>4, Halves DEF IInv, ChainsAscend
<1>7. \A i \in Blocks : m_pData'[i].nextPos # 0 => m_pData'[i].key = m_pData[i].key
  BY <1>1, <1>2, <1>4 DEF IInv, ChainsAscend
<1>8. BucketsApart'
  BY <1>1, <1>4, <1>7, Halves DEF IInv, ChainsAscend, BucketsApart
<1>9. QED
  BY <1>5, <1>6, <1>8 DEF IInv

LEMMA PutChainedIInv ==
  ASSUME IInv, NEW k \in Keys, NEW v \in Values, PutChained(k, v)
  PROVE  IInv'
<1> DEFINE b == Bucket(k)
           c == ChainTo(k)
<1>1. b \in Buckets /\ b \in Blocks
  BY BucketInRange, Halves
<1>2. PICK n \in FreeSpare :
        /\ FirstFree(n)
        /\ m_pData' = [m_pData EXCEPT ![c].nextPos = n, ![n].isUsed = TRUE,
                                      ![n].key = k, ![n].value = v]
  BY DEF PutChained
<1>3. m_pData \in [Blocks -> Item] /\ n \in Spare /\ n \in Blocks /\ ~m_pData[n].isUsed /\ n # 0
  BY <1>2, Halves DEF IInv, TypeOK, FreeSpare
<1>4. m_pData[b].isUsed
  BY DEF PutChained, Free
<1>5. c \in Blocks /\ m_pData[c].isUsed /\ c < n /\ c # n
  <2>1. CASE m_pData[b].nextPos = 0
    BY <2>1, <1>1, <1>3, <1>4, Halves DEF ChainTo
  <2>2. CASE m_pData[b].nextPos # 0
    <3>1. c = m_pData[b].nextPos /\ c \in Spare /\ m_pData[c].isUsed
      BY <2>2, <1>1 DEF ChainTo, IInv, ChainsAscend
    <3>2. QED
      BY <3>1, <1>3, Halves DEF IInv, ChainsAscend, Spare
  <2>3. QED
    BY <2>1, <2>2
<1>6. Bucket(m_pData[c].key) = b
  BY <1>1, <1>4 DEF ChainTo, IInv, BucketsApart
<1>7. /\ \A i \in Blocks : i # c /\ i # n => m_pData'[i] = m_pData[i]
      /\ m_pData'[c].nextPos = n /\ m_pData'[c].isUsed /\ m_pData'[c].key = m_pData[c].key
      /\ m_pData'[n].nextPos = m_pData[n].nextPos /\ m_pData'[n].isUsed /\ m_pData'[n].key = k
  BY <1>2, <1>3, <1>5 DEF Item
<1>8. m_pData' \in [Blocks -> Item]
  <2>1. m_pData'[n] \in Item
    <3>1. m_pData[n] \in Item
      BY <1>3
    <3>2. m_pData'[n] = [m_pData[n] EXCEPT !.isUsed = TRUE, !.key = k, !.value = v]
      BY <1>2, <1>3, <1>5
    <3>3. QED
      BY <3>1, <3>2 DEF Item
  <2>2. m_pData'[c] \in Item
    <3>1. m_pData[c] \in Item
      BY <1>3, <1>5
    <3>2. m_pData'[c] = [m_pData[c] EXCEPT !.nextPos = n]
      BY <1>2, <1>3, <1>5
    <3>3. QED
      BY <3>1, <3>2, <1>3 DEF Item
  <2>3. m_pData' = [i \in Blocks |-> m_pData'[i]]
    BY <1>2, <1>3
  <2>4. \A i \in Blocks : m_pData'[i] \in Item
    BY <1>3, <1>7, <2>1, <2>2
  <2>5. QED
    BY <2>3, <2>4
<1>9. TypeOK'
  BY <1>8 DEF PutChained, Succeeds, IInv, TypeOK
<1>10. m_pData[n].nextPos = 0 /\ \A i \in Blocks : m_pData[i].nextPos # n
  BY <1>3 DEF IInv, ChainsAscend
<1>11. ChainsAscend'
  <2>1. ASSUME NEW i \in Blocks, m_pData'[i].nextPos # 0
        PROVE  /\ i < m_pData'[i].nextPos
               /\ m_pData'[i].nextPos \in Spare
               /\ m_pData'[i].isUsed /\ m_pData'[m_pData'[i].nextPos].isUsed
    <3>1. CASE i = c
      BY <3>1, <1>3, <1>5, <1>7
    <3>2. CASE i # c
      <4>1. i # n /\ m_pData'[i] = m_pData[i] /\ m_pData[i].nextPos \in Blocks
        BY <3>2, <2>1, <1>7, <1>10, Halves DEF IInv, ChainsAscend
      <4>2. m_pData'[m_pData[i].nextPos].isUsed
        BY <4>1, <2>1, <1>7 DEF IInv, ChainsAscend
      <4>3. QED
        BY <4>1, <4>2, <2>1 DEF IInv, ChainsAscend
    <3>3. QED
      BY <3>1, <3>2
  <2>2. ASSUME NEW i \in Spare, NEW j \in Spare, i < j, m_pData'[j].isUsed
        PROVE  m_pData'[i].isUsed
    <3>1. CASE m_pData[i].isUsed
      BY <3>1, <1>7, Halves
    <3>2. CASE ~m_pData[i].isUsed
      <4>1. n <= i
        BY <3>2, <1>2 DEF FirstFree, FreeSpare
      <4>2. CASE i = n
        BY <4>2, <1>7
      <4>3. CASE i # n
        <5>1. j # n /\ ~m_pData[j].isUsed
          BY <4>1, <4>3, <3>2, <2>2, <1>3 DEF IInv, ChainsAscend, Spare
        <5>2. j # c
          BY <5>1, <1>5
        <5>3. QED
          BY <5>1, <5>2, <2>2, <1>7, Halves
      <4>4. QED
        BY <4>2, <4>3
    <3>3. QED
      BY <3>1, <3>2
  <2>3. QED
    BY <2>1, <2>2 DEF ChainsAscend
<1>12. BucketsApart'
  <2>1. \A i \in Blocks : m_pData'[i].isUsed => m_pData'[i].key \in Keys
    BY <1>5, <1>7 DEF IInv, BucketsApart
  <2>2. \A i \in Buckets : m_pData'[i].isUsed => Bucket(m_pData'[i].key) = i
    <3>1. ASSUME NEW i \in Buckets, m_pData'[i].isUsed PROVE Bucket(m_pData'[i].key) = i
      <4>1. i \in Blocks /\ i # n
        BY <1>3, Halves DEF Buckets
      <4>2. m_pData[i].isUsed /\ m_pData'[i].key = m_pData[i].key
        BY <3>1, <4>1, <1>5, <1>7
      <4>3. QED
        BY <4>2 DEF IInv, BucketsApart
    <3>2. QED
      BY <3>1
  <2>3. ASSUME NEW i \in Blocks, m_pData'[i].nextPos # 0
        PROVE  Bucket(m_pData'[i].key) = Bucket(m_pData'[m_pData'[i].nextPos].key)
    <3>1. CASE i = c
      BY <3>1, <1>3, <1>6, <1>7
    <3>2. CASE i # c
      <4>1. /\ i # n /\ m_pData'[i] = m_pData[i]
            /\ m_pData[i].nextPos \in Blocks /\ m_pData[i].nextPos # n
        BY <3>2, <2>3, <1>7, <1>10, Halves DEF IInv, ChainsAscend
      <4>2. m_pData'[m_pData[i].nextPos].key = m_pData[m_pData[i].nextPos].key
        BY <4>1, <1>7
      <4>3. QED
        BY <4>1, <4>2, <2>3 DEF IInv, BucketsApart
    <3>3. QED
      BY <3>1, <3>2
  <2>4. ASSUME NEW i \in Blocks, NEW j \in Blocks,
               m_pData'[i].nextPos # 0, m_pData'[i].nextPos = m_pData'[j].nextPos
        PROVE  i = j
    <3>1. m_pData'[n].nextPos = 0
      BY <1>7, <1>10
    <3>2. CASE i = c \/ j = c
      BY <3>1, <3>2, <2>4, <1>7, <1>10
    <3>3. CASE i # c /\ j # c
      BY <3>1, <3>3, <2>4, <1>7 DEF IInv, BucketsApart
    <3>4. QED
      BY <3>2, <3>3
  <2>5. QED
    BY <2>1, <2>2, <2>3, <2>4 DEF BucketsApart
<1>13. QED
  BY <1>9, <1>11, <1>12 DEF IInv

LEMMA ClearIInv == ASSUME IInv, clear PROVE IInv'
<1>1. m_pData \in [Blocks -> Item] /\ 0 \in Blocks
  BY Halves DEF IInv, TypeOK
<1>2. /\ m_pData' \in [Blocks -> Item]
      /\ \A i \in Blocks : ~m_pData'[i].isUsed /\ m_pData'[i].nextPos = 0
  <2>1. m_pData' = [i \in Blocks |-> [m_pData[i] EXCEPT !.isUsed = FALSE, !.nextPos = 0]]
    BY DEF clear
  <2>2. ASSUME NEW i \in Blocks
        PROVE  m_pData'[i] \in Item /\ ~m_pData'[i].isUsed /\ m_pData'[i].nextPos = 0
    <3>1. m_pData[i] \in Item /\ m_pData'[i] = [m_pData[i] EXCEPT !.isUsed = FALSE, !.nextPos = 0]
      BY <1>1, <2>1
    <3>2. QED
      BY <3>1, <1>1 DEF Item
  <2>3. QED
    BY <2>1, <2>2
<1>3. TypeOK'
  BY <1>2 DEF clear, TypeOK, Nothing
<1>4. ChainsAscend' /\ BucketsApart'
  BY <1>2, Halves DEF ChainsAscend, BucketsApart
<1>5. QED
  BY <1>3, <1>4 DEF IInv

(* The structure is sound after any calls.                                 *)
THEOREM Invariance == Spec => []IInv
<1>1. ASSUME IInv, [Next]_vars PROVE IInv'
  <2>1. ASSUME NEW k \in Keys, NEW v \in Values, PutFull(k, v) PROVE IInv'
    BY <1>1, <2>1 DEF PutFull, vars, IInv, TypeOK, ChainsAscend, BucketsApart
  <2>2. CASE UNCHANGED vars
    BY <1>1, <2>2 DEF vars, IInv, TypeOK, ChainsAscend, BucketsApart
  <2>3. QED
    BY <1>1, <2>1, <2>2, PutBucketIInv, PutChainedIInv, ClearIInv DEF Next, put
<1>2. QED
  BY <1>1, InitIInv, PTL DEF Spec

(* Every block holds an item whose nextPos stays inside the memory.        *)
THEOREM TypeCorrect == Spec => []TypeOK
<1>1. IInv => TypeOK
  BY DEF IInv
<1>2. QED
  BY <1>1, Invariance, PTL

(* Chains only go up, through used blocks: the search of getPoint ends.    *)
THEOREM SearchEnds == Spec => []ChainsAscend
<1>1. IInv => ChainsAscend
  BY DEF IInv
<1>2. QED
  BY <1>1, Invariance, PTL

(* A chain holds keys of one bucket only, and no two chains meet.          *)
THEOREM ChainsDisjoint == Spec => []BucketsApart
<1>1. IInv => BucketsApart
  BY DEF IInv
<1>2. QED
  BY <1>1, Invariance, PTL
----------------------------------------------------------------------------
(* The search of getPoint.  The library's induction theorems take the      *)
(* predicate as a parameter; here the least counterexample is taken.       *)
LEMMA LeastOf ==
  ASSUME NEW T \in SUBSET Nat, T # {}
  PROVE  \E n \in T : \A m \in T : n <= m
<1> DEFINE R == OpToRel(<, Nat)
<1>1. IsWellFoundedOn(R, Nat)
  BY NatLessThanWellFounded
<1>2. \A m, n \in Nat : m < n => <<m, n>> \in R
  BY DEF OpToRel
<1> HIDE DEF R
<1>3. \E n \in T : \A m \in T : ~(<<m, n>> \in R)
  BY <1>1, WFMin
<1>4. PICK n \in T : \A m \in T : <<m, n>> \notin R
  BY <1>3
<1>5. \A m \in T : m \in Nat /\ n \in Nat /\ ~(m < n)
  BY <1>2, <1>4
<1>6. QED
  BY <1>4, <1>5

(* Memory d whose chains go up, and what the search for k in it finds from *)
(* each block, if it starts with a function g.                             *)
Ascending(d) == d \in [Blocks -> Item] /\ \A i \in Blocks : d[i].nextPos # 0 => i < d[i].nextPos

Found(d, k, g, i) ==
  IF ~d[i].isUsed \/ d[i].key = k THEN i ELSE IF d[i].nextPos = 0 THEN -1 ELSE g[d[i].nextPos]

Search(d, k, f) == f = [i \in Blocks |-> Found(d, k, f, i)]

(* The search is defined: each block's result is that of a higher block.   *)
LEMMA SearchDefined ==
  ASSUME NEW d, Ascending(d), NEW k
  PROVE  \E f : Search(d, k, f)
<1> DEFINE From(n, f) == f = [i \in Blocks |-> f[i]] /\ \A i \in Blocks : i >= n => f[i] = Found(d, k, f, i)
           T == {n \in Nat : \E f : From(n, f)}
<1>1. m_bucketCount \in Nat /\ \A i \in Blocks : i \in Nat /\ i < m_bucketCount
  BY BucketsAssumption DEF Blocks
<1>2. m_bucketCount \in T
  <2> DEFINE z == [i \in Blocks |-> 0]
  <2>1. z = [i \in Blocks |-> z[i]]
    OBVIOUS
  <2>2. From(m_bucketCount, z)
    BY <1>1, <2>1
  <2>3. QED
    BY <1>1, <2>2
<1>3. PICK n \in T : \A m \in T : n <= m
  BY <1>2, LeastOf
<1>4. n \in Nat
  BY <1>3
<1>5. PICK f : From(n, f)
  BY <1>3
<1>6. CASE n = 0
  <2>1. \A i \in Blocks : f[i] = Found(d, k, f, i)
    BY <1>1, <1>5, <1>6
  <2>2. f = [i \in Blocks |-> Found(d, k, f, i)]
    BY <1>5, <2>1
  <2>3. QED
    BY <2>2 DEF Search
<1>7. CASE n # 0
  <2> DEFINE m == n - 1
             g == [i \in Blocks |-> IF i = m THEN Found(d, k, f, m) ELSE f[i]]
  <2>1. m \in Nat /\ m < n
    BY <1>4, <1>7
  <2>2. ASSUME NEW i \in Blocks, i >= m
        PROVE  g[i] = Found(d, k, g, i)
    <3>1. d[i].nextPos # 0 => d[i].nextPos \in Blocks /\ d[i].nextPos > i
      BY DEF Ascending, Item
    <3>2. d[i].nextPos # 0 => g[d[i].nextPos] = f[d[i].nextPos]
      <4>1. SUFFICES ASSUME d[i].nextPos # 0 PROVE g[d[i].nextPos] = f[d[i].nextPos]
        OBVIOUS
      <4>2. d[i].nextPos # m
        BY <1>1, <2>1, <2>2, <3>1, <4>1
      <4>3. QED
        BY <3>1, <4>1, <4>2
    <3>3. Found(d, k, g, i) = Found(d, k, f, i)
      BY <3>2 DEF Found
    <3>4. i # m => i >= n
      BY <1>1, <1>4, <2>2
    <3>5. g[i] = Found(d, k, f, i)
      BY <1>5, <3>4
    <3>6. QED
      BY <3>3, <3>5
  <2>3. g = [i \in Blocks |-> g[i]]
    OBVIOUS
  <2>4. From(m, g)
    BY <2>2, <2>3
  <2>5. m \in T
    BY <2>1, <2>4
  <2>6. n <= m
    BY <1>3, <2>5
  <2>7. QED
    BY <1>4, <2>1, <2>6
<1>8. QED
  BY <1>6, <1>7

(* Where it ends, if anywhere, the block is unused or holds the key.       *)
LEMMA SearchStops ==
  ASSUME NEW d, Ascending(d), NEW k, NEW f, Search(d, k, f), NEW b \in Blocks
  PROVE  f[b] = -1 \/ (f[b] \in Blocks /\ (~d[f[b]].isUsed \/ d[f[b]].key = k))
<1> DEFINE Good(i) == f[i] = -1 \/ (f[i] \in Blocks /\ (~d[f[i]].isUsed \/ d[f[i]].key = k))
           T == {m \in Nat : \E i \in Blocks : m = m_bucketCount - i /\ ~Good(i)}
<1>1. m_bucketCount \in Nat /\ \A i \in Blocks : i \in Nat /\ i < m_bucketCount
  BY BucketsAssumption DEF Blocks
<1>2. ASSUME T # {} PROVE FALSE
  <2>1. PICK m \in T : \A n \in T : m <= n
    BY <1>2, LeastOf
  <2>2. PICK i \in Blocks : m = m_bucketCount - i /\ ~Good(i)
    BY <2>1
  <2>3. f[i] = Found(d, k, f, i)
    BY DEF Search
  <2>4. d[i].isUsed /\ d[i].key # k /\ d[i].nextPos # 0 /\ f[i] = f[d[i].nextPos]
    BY <2>2, <2>3 DEF Found
  <2> DEFINE j == d[i].nextPos
  <2>5. j \in Blocks /\ i < j
    BY <2>4 DEF Ascending, Item
  <2>6. ~Good(j)
    BY <2>2, <2>4
  <2>7. m_bucketCount - j \in Nat /\ m_bucketCount - j < m_bucketCount - i
    <3> HIDE DEF j
    <3>1. QED
      BY <1>1, <2>5
  <2>8. m_bucketCount - j \in T
    BY <2>5, <2>6, <2>7
  <2>9. m <= m_bucketCount - j
    BY <2>1, <2>8
  <2> HIDE DEF j, T
  <2>10. QED
    BY <1>1, <2>2, <2>5, <2>7, <2>9
<1>3. ASSUME ~Good(b) PROVE FALSE
  <2>1. m_bucketCount - b \in Nat
    BY <1>1
  <2>2. m_bucketCount - b \in T
    BY <1>3, <2>1
  <2>3. QED
    BY <1>2, <2>2
<1>4. QED
  BY <1>3

(* So getPoint is that search from the key's bucket, before a call and     *)
(* after it.                                                               *)
LEMMA getPointSearches ==
  ASSUME IInv, NEW k \in Keys
  PROVE  \E f : Search(m_pData, k, f) /\ getPoint(k) = f[Bucket(k)]
<1>1. Ascending(m_pData)
  BY DEF Ascending, IInv, TypeOK, ChainsAscend
<1>2. \E f : Search(m_pData, k, f)
  BY <1>1, SearchDefined
<1>3. QED
  BY <1>2 DEF getPoint, Search, Found

LEMMA getPointWillSearch ==
  ASSUME IInv', NEW k \in Keys
  PROVE  \E f : Search(m_pData', k, f) /\ getPoint(k)' = f[Bucket(k)]
<1>1. Ascending(m_pData')
  BY DEF Ascending, IInv, TypeOK, ChainsAscend
<1>2. \E f : Search(m_pData', k, f)
  BY <1>1, SearchDefined
<1>3. QED
  BY <1>2 DEF getPoint, Search, Found, Bucket

----------------------------------------------------------------------------
(* A block in use holds a value that was put for its key and not cleared.  *)
Kept == \A i \in Blocks : m_pData[i].isUsed => m_pData[i].value \in given[m_pData[i].key]

(* What a put writes, into its bucket or into a block it chains.           *)
LEMMA PutBucketDoes ==
  ASSUME IInv, NEW k \in Keys, NEW v \in Values, PutBucket(k, v)
  PROVE  LET b == Bucket(k)
         IN  /\ b \in Blocks
             /\ m_pData[b].isUsed => m_pData[b].key = k
             /\ m_pData'[b].isUsed /\ m_pData'[b].key = k /\ m_pData'[b].value = v
             /\ \A i \in Blocks : i # b => m_pData'[i] = m_pData[i]
<1> DEFINE b == Bucket(k)
<1>1. b \in Blocks
  BY BucketInRange, Halves
<1>2. /\ m_pData \in [Blocks -> Item]
      /\ m_pData' = [m_pData EXCEPT ![b].key = IF m_pData[b].isUsed THEN @ ELSE k,
                                    ![b].isUsed = TRUE, ![b].value = v]
      /\ ~m_pData[b].isUsed \/ m_pData[b].key = k
  BY DEF PutBucket, IInv, TypeOK, Free
<1> HIDE DEF b
<1>3. \A i \in Blocks : i # b => m_pData'[i] = m_pData[i]
  BY <1>2
<1>4. m_pData'[b].isUsed /\ m_pData'[b].key = k /\ m_pData'[b].value = v
  BY <1>1, <1>2 DEF Item
<1>5. QED
  BY <1>1, <1>2, <1>3, <1>4 DEF b

LEMMA PutChainedDoes ==
  ASSUME IInv, NEW k \in Keys, NEW v \in Values, PutChained(k, v)
  PROVE  /\ Bucket(k) \in Blocks /\ m_pData[Bucket(k)].isUsed /\ m_pData[Bucket(k)].key # k
         /\ ChainTo(k) \in Blocks /\ m_pData[ChainTo(k)].isUsed
         /\ \E n \in Blocks \ {0} :
              /\ ~m_pData[n].isUsed
              /\ m_pData'[n].isUsed /\ m_pData'[n].key = k /\ m_pData'[n].value = v
              /\ m_pData'[ChainTo(k)].nextPos = n
              /\ \A i \in Blocks : i # ChainTo(k) /\ i # n => m_pData'[i] = m_pData[i]
              /\ \A i \in Blocks : i # n => /\ m_pData'[i].isUsed = m_pData[i].isUsed
                                            /\ m_pData'[i].key = m_pData[i].key
                                            /\ m_pData'[i].value = m_pData[i].value
<1> DEFINE b == Bucket(k)
           c == ChainTo(k)
<1>1. b \in Buckets /\ b \in Blocks
  BY BucketInRange, Halves
<1>2. PICK n \in FreeSpare :
        m_pData' = [m_pData EXCEPT ![c].nextPos = n, ![n].isUsed = TRUE,
                                   ![n].key = k, ![n].value = v]
  BY DEF PutChained
<1>3. m_pData \in [Blocks -> Item] /\ n \in Blocks \ {0} /\ ~m_pData[n].isUsed
  BY <1>2, Halves DEF IInv, TypeOK, FreeSpare
<1>4. m_pData[b].isUsed /\ m_pData[b].key # k
  BY DEF PutChained, Free
<1>5. c \in Blocks /\ m_pData[c].isUsed
  BY <1>1, <1>4, Halves DEF ChainTo, IInv, ChainsAscend
<1> HIDE DEF b, c
<1>6. m_pData'[n].isUsed /\ m_pData'[n].key = k /\ m_pData'[n].value = v
  BY <1>2, <1>3, <1>5 DEF Item
<1>7. m_pData'[c].nextPos = n
  BY <1>2, <1>3, <1>5 DEF Item
<1>8. \A i \in Blocks : i # c /\ i # n => m_pData'[i] = m_pData[i]
  BY <1>2, <1>3
<1>9. \A i \in Blocks : i # n => /\ m_pData'[i].isUsed = m_pData[i].isUsed
                                 /\ m_pData'[i].key = m_pData[i].key
                                 /\ m_pData'[i].value = m_pData[i].value
  BY <1>2, <1>3, <1>5 DEF Item
<1>10. QED
  BY <1>1, <1>3, <1>4, <1>5, <1>6, <1>7, <1>8, <1>9 DEF b, c

(* A put, or a clear, leaves no value in use that was not put.             *)
LEMMA PutKept ==
  ASSUME IInv, Kept, NEW k \in Keys, NEW v \in Values, put(k, v)
  PROVE  Kept'
<1>1. ASSUME Succeeds(k, v) PROVE v \in given'[k] /\ \A q \in Keys : given[q] \subseteq given'[q]
  BY <1>1 DEF Succeeds, IInv, TypeOK
<1>2. \A i \in Blocks : m_pData[i].isUsed => m_pData[i].key \in Keys
  BY DEF IInv, BucketsApart
<1>3. CASE PutBucket(k, v)
  <2>1. Succeeds(k, v)
    BY <1>3 DEF PutBucket
  <2>2. QED
    BY <1>1, <1>2, <1>3, <2>1, PutBucketDoes DEF Kept
<1>4. CASE PutChained(k, v)
  <2>1. Succeeds(k, v)
    BY <1>4 DEF PutChained
  <2>2. QED
    BY <1>1, <1>2, <1>4, <2>1, PutChainedDoes DEF Kept
<1>5. CASE PutFull(k, v)
  BY <1>5 DEF PutFull, vars, Kept
<1>6. QED
  BY <1>3, <1>4, <1>5 DEF put

LEMMA ClearEmpties == ASSUME IInv, clear PROVE \A i \in Blocks : ~m_pData'[i].isUsed
<1>1. m_pData' = [i \in Blocks |-> [m_pData[i] EXCEPT !.isUsed = FALSE, !.nextPos = 0]]
  BY DEF clear
<1>2. QED
  BY <1>1 DEF IInv, TypeOK, Item

LEMMA StepKept == ASSUME IInv, Kept, [Next]_vars PROVE Kept'
<1>1. CASE clear
  BY <1>1, ClearEmpties DEF Kept
<1>2. CASE UNCHANGED vars
  BY <1>2 DEF vars, Kept
<1>3. QED
  BY <1>1, <1>2, PutKept DEF Next

(* The structure is sound and the values in it are those that were put.    *)
THEOREM ValuesKept == Spec => [](IInv /\ Kept)
<1>1. Init => Kept
  BY DEF Init, Kept
<1>2. IInv /\ Kept /\ [Next]_vars => Kept'
  BY StepKept
<1>3. QED
  BY <1>1, <1>2, Invariance, PTL DEF Spec

----------------------------------------------------------------------------
(* What get returns: the value of a block that holds the key, or Garbage   *)
(* when the search ends without one.                                       *)
LEMMA GetFinds ==
  ASSUME IInv, NEW k \in Keys
  PROVE  \/ get(k) = Garbage /\ find(k) = -1
         \/ \E i \in Blocks : find(k) = i /\ m_pData[i].isUsed /\ m_pData[i].key = k /\ get(k) = m_pData[i].value
<1>1. PICK f : Search(m_pData, k, f) /\ getPoint(k) = f[Bucket(k)]
  BY getPointSearches
<1>2. Ascending(m_pData) /\ Bucket(k) \in Blocks
  BY BucketInRange, Halves DEF Ascending, IInv, TypeOK, ChainsAscend
<1> DEFINE i == getPoint(k)
<1>3. i = -1 \/ (i \in Blocks /\ (~m_pData[i].isUsed \/ m_pData[i].key = k))
  BY <1>1, <1>2, SearchStops
<1>4. find(k) = IF i = -1 \/ ~m_pData[i].isUsed THEN -1 ELSE i
  BY DEF find
<1>5. \A j \in Blocks : j # -1
  BY BucketsAssumption DEF Blocks
<1> HIDE DEF i
<1>6. CASE i = -1 \/ ~m_pData[i].isUsed
  BY <1>4, <1>6 DEF get
<1>7. CASE i # -1 /\ m_pData[i].isUsed
  BY <1>3, <1>4, <1>5, <1>7 DEF get
<1>8. QED
  BY <1>6, <1>7

(* get returns nothing but a value that was put for that very key and not  *)
(* cleared since: GetIsSound of HashMap.                                   *)
THEOREM GetSound == Spec => []GetIsSound
<1>1. IInv /\ Kept => GetIsSound
  <2>1. SUFFICES ASSUME IInv, Kept, NEW k \in Keys PROVE get(k) \in given[k] \cup {Garbage}
    BY DEF GetIsSound
  <2>2. QED
    BY <2>1, GetFinds DEF Kept
<1>2. QED
  BY <1>1, ValuesKept, PTL

(* A block that holds the key, when the search ends there, is what get uses. *)
LEMMA GetReaches ==
  ASSUME IInv', NEW k \in Keys, NEW i \in Blocks, m_pData'[i].isUsed, m_pData'[i].key = k,
         NEW f, Search(m_pData', k, f), getPoint(k)' = f[Bucket(k)], f[Bucket(k)] = i
  PROVE  get(k)' = m_pData'[i].value
<1>1. \A j \in Blocks : j # -1
  BY BucketsAssumption DEF Blocks
<1>2. find(k)' = IF getPoint(k)' = -1 \/ ~m_pData'[getPoint(k)'].isUsed THEN -1 ELSE getPoint(k)'
  BY DEF find
<1>3. find(k)' = i
  BY <1>1, <1>2
<1>4. get(k)' = IF find(k)' = -1 THEN Garbage ELSE m_pData'[find(k)'].value
  BY DEF get
<1>5. QED
  BY <1>1, <1>3, <1>4

(* A key that is not found has no block at the start of its chain.         *)
LEMMA NotFound ==
  ASSUME IInv, Kept, NEW k \in Keys, get(k) = Garbage
  PROVE  LET b == Bucket(k)
         IN  /\ m_pData[b].isUsed => m_pData[b].key # k
             /\ m_pData[b].isUsed /\ m_pData[b].nextPos # 0 /\ m_pData[m_pData[b].nextPos].isUsed =>
                  m_pData[m_pData[b].nextPos].key # k
<1> DEFINE b == Bucket(k)
<1>1. b \in Blocks
  BY BucketInRange, Halves
<1>2. find(k) = -1
  <2>1. \A i \in Blocks : m_pData[i].isUsed /\ m_pData[i].key = k => m_pData[i].value # Garbage
    BY GarbageAssumption DEF Kept, IInv, TypeOK
  <2>2. QED
    BY <2>1, GetFinds
<1>3. PICK f : Search(m_pData, k, f) /\ getPoint(k) = f[b]
  BY getPointSearches
<1>4. \A i \in Blocks : f[i] = Found(m_pData, k, f, i)
  BY <1>3 DEF Search
<1>5. \A i \in Blocks : m_pData[i].nextPos \in Blocks /\ i # -1
  BY BucketsAssumption DEF IInv, TypeOK, Item, Blocks
<1>6. f[b] = -1 \/ ~m_pData[f[b]].isUsed
  BY <1>2, <1>3, <1>5 DEF find
<1> HIDE DEF b
<1>7. m_pData[b].isUsed => m_pData[b].key # k
  BY <1>1, <1>4, <1>5, <1>6 DEF Found
<1>8. ASSUME m_pData[b].isUsed, m_pData[b].nextPos # 0,
             m_pData[m_pData[b].nextPos].isUsed, m_pData[m_pData[b].nextPos].key = k
      PROVE  FALSE
  <2>1. f[b] = f[m_pData[b].nextPos]
    BY <1>1, <1>4, <1>7, <1>8 DEF Found
  <2>2. f[m_pData[b].nextPos] = m_pData[b].nextPos
    BY <1>1, <1>4, <1>5, <1>8 DEF Found
  <2>3. QED
    BY <1>1, <1>5, <1>6, <1>8, <2>1, <2>2
<1>9. QED
  BY <1>7, <1>8 DEF b

(* A put writes where the search for its key ends.                         *)
LEMMA StepNewKeyFound ==
  ASSUME IInv, Kept, IInv', [Next]_vars, NEW k \in Keys, get(k) = Garbage, last'[k] # last[k]
  PROVE  get(k)' = last'[k]
<1> DEFINE b == Bucket(k)
<1>1. b \in Blocks
  BY BucketInRange, Halves
<1>2. PICK f : Search(m_pData', k, f) /\ getPoint(k)' = f[b]
  BY getPointWillSearch
<1>3. \A i \in Blocks : f[i] = Found(m_pData', k, f, i)
  BY <1>2 DEF Search
<1>4. CASE clear
  <2>1. last'[k] = Garbage
    BY <1>4 DEF clear, Nothing
  <2>2. \A i \in Blocks : ~m_pData'[i].isUsed
    BY <1>4, ClearEmpties
  <2>3. f[b] = b
    BY <1>1, <1>3, <2>2 DEF Found
  <2>4. find(k)' = IF getPoint(k)' = -1 \/ ~m_pData'[getPoint(k)'].isUsed THEN -1 ELSE getPoint(k)'
    BY DEF find
  <2>5. find(k)' = -1
    BY <1>1, <1>2, <2>2, <2>3, <2>4
  <2>6. get(k)' = IF find(k)' = -1 THEN Garbage ELSE m_pData'[find(k)'].value
    BY DEF get
  <2>7. QED
    BY <2>1, <2>5, <2>6
<1>5. ASSUME NEW q \in Keys, NEW v \in Values, Succeeds(q, v)
      PROVE  q = k /\ last'[k] = v
  BY <1>5 DEF Succeeds, IInv, TypeOK
<1>6. ASSUME NEW q \in Keys, NEW v \in Values, PutBucket(q, v)
      PROVE  get(k)' = last'[k]
  <2>1. q = k /\ last'[k] = v
    BY <1>5, <1>6 DEF PutBucket
  <2>2. m_pData'[b].isUsed /\ m_pData'[b].key = k /\ m_pData'[b].value = v
    BY <1>6, <2>1, PutBucketDoes
  <2>3. f[b] = b
    BY <1>1, <1>3, <2>2 DEF Found
  <2>4. QED
    BY <1>1, <1>2, <2>1, <2>2, <2>3, GetReaches
<1>7. ASSUME NEW q \in Keys, NEW v \in Values, PutChained(q, v)
      PROVE  get(k)' = last'[k]
  <2>1. q = k /\ last'[k] = v
    BY <1>5, <1>7 DEF PutChained
  <2> DEFINE c == ChainTo(k)
  <2>2. m_pData[b].isUsed /\ m_pData[b].key # k /\ c \in Blocks /\ m_pData[c].isUsed
    BY <1>7, <2>1, PutChainedDoes
  <2>3. PICK n \in Blocks \ {0} :
          /\ ~m_pData[n].isUsed
          /\ m_pData'[n].isUsed /\ m_pData'[n].key = k /\ m_pData'[n].value = v
          /\ m_pData'[c].nextPos = n
          /\ \A i \in Blocks : i # c /\ i # n => m_pData'[i] = m_pData[i]
          /\ \A i \in Blocks : i # n => /\ m_pData'[i].isUsed = m_pData[i].isUsed
                                        /\ m_pData'[i].key = m_pData[i].key
    BY <1>7, <2>1, PutChainedDoes
  <2>4. f[n] = n
    BY <1>3, <2>3 DEF Found
  <2>5. m_pData[c].key # k
    BY <2>2, NotFound DEF ChainTo
  <2>6. f[c] = n
    <3>1. m_pData'[c].isUsed /\ m_pData'[c].key # k
      BY <2>2, <2>3, <2>5
    <3>2. QED
      BY <1>3, <2>2, <2>3, <2>4, <3>1 DEF Found
  <2>7. f[b] = f[c]
    <3>1. CASE m_pData[b].nextPos = 0
      BY <3>1 DEF ChainTo
    <3>2. CASE m_pData[b].nextPos # 0
      <4>1. c = m_pData[b].nextPos
        BY <3>2 DEF ChainTo
      <4>2. CASE b = c
        BY <4>2
      <4>3. CASE b # c
        <5>1. m_pData'[b] = m_pData[b]
          BY <1>1, <2>2, <2>3, <4>3
        <5>2. QED
          BY <1>1, <1>3, <2>2, <3>2, <4>1, <5>1 DEF Found
      <4>4. QED
        BY <4>2, <4>3
    <3>3. QED
      BY <3>1, <3>2
  <2>8. QED
    BY <1>2, <2>1, <2>3, <2>6, <2>7, GetReaches
<1>8. CASE (\E q \in Keys, v \in Values : PutFull(q, v)) \/ UNCHANGED vars
  BY <1>8 DEF PutFull, vars
<1>9. QED
  BY <1>4, <1>6, <1>7, <1>8 DEF Next, put

(* A put that succeeds makes a key be found, with its value, that get did  *)
(* not find before: NewKeyFound of HashMap.  A later put may lose it again *)
(* (that of a chained key drops the blocks behind it).                     *)
THEOREM NewKeysFound == Spec => NewKeyFound
<1>1. IInv /\ Kept /\ IInv' /\ [Next]_vars =>
        [\A k \in Keys : get(k) = Garbage /\ last'[k] # last[k] => get(k)' = last'[k]]_vars
  BY StepNewKeyFound
<1>2. QED
  BY <1>1, ValuesKept, Invariance, PTL DEF Spec, NewKeyFound
=============================================================================
