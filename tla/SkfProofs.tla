----------------------------- MODULE SkfProofs -----------------------------
(***************************************************************************)
(* Theorems about Skf for all sets of libraries and names, any vendor and  *)
(* any number of handles it refuses to close.                              *)
(***************************************************************************)
EXTENDS Skf, FiniteSetTheorems, SequenceTheorems, WellFoundedInduction, TLAPS

(* An object's handles: of its own numbers, from the device down, each one *)
(* open with the vendor, of its level, and given by the object's library.  *)
Nested ==
  \A o \in Objects :
    /\ \A l \in Levels : key[o][l] # Null => key[o][l][1] = o
    /\ key[o][2] # Null => key[o][1] # Null
    /\ key[o][3] # Null => key[o][2] # Null
Valid ==
  \A o \in Objects, l \in Levels :
    key[o][l] # Null =>
      LET h == vendor[key[o][l]]
      IN  h \in Opened /\ h.lib = lib[o] /\ h.level = l /\ h.up = Above(o, l)

(* What the vendor has open is in a key, and it has refused few.           *)
Held ==
  /\ \A h \in Handles : vendor[h] \in Opened => \E l \in Levels : key[h[1]][l] = h
  /\ Refusals <= MaxAbandoned
Keys == Nested /\ Valid /\ Held

(* How much of a key is open at each place of a call.                      *)
Phases ==
  /\ pc[Engine] \in {"idle", "close", "load", "open", "pin"}
  /\ pc[Engine] = "idle" => EngineReady \/ key[Engine] = NoKey
  /\ pc[Utils] = "idle" => key[Utils] = NoKey
  /\ \A o \in Objects :
       /\ pc[o] \in {"load", "libs", "devs"} => key[o] = NoKey
       /\ pc[o] \in {"open", "pin"} => key[o][3] = Null
       /\ pc[o] = "pin" => key[o][2] # Null
  /\ pc[Engine] # "pin" /\ pc[Engine] # "close" /\ key[Engine][2] # Null => vendor[key[Engine][2]].pin
  /\ EngineReady => vendor[key[Engine][2]].pin

(* The walk of enumAllInfo has the handles of its path open and a library; *)
(* it has an answer from the start.                                        *)
Walking ==
  /\ IF pc[Utils] \in {"walk", "ask", "leave"}
       THEN \A l \in Levels : key[Utils][l] # Null <=> l <= Len(path)
       ELSE path = <<>>
  /\ pc[Utils] \in {"devs", "walk", "ask", "leave"} => lib[Utils] # NoLib
  /\ pc[Utils] \in {"libs", "devs", "walk", "ask", "leave"} => rv[Utils] # "none"

(* The engine's calls and their answers so far.                            *)
EngineCalls ==
  /\ pc[Engine] # "idle" => op[Engine] \in {"initApi", "initEngine", "uninitEngine"}
  /\ pc[Engine] \in {"load", "open", "pin"} => rv[Engine] = "none"
  /\ pc[Engine] = "load" => op[Engine] = "initApi"
  /\ pc[Engine] \in {"open", "pin"} => op[Engine] = "initEngine"
  /\ pc[Engine] = "close" =>
       IF op[Engine] = "uninitEngine" THEN rv[Engine] = "ok"
       ELSE rv[Engine] = "none" \/ (op[Engine] = "initEngine" /\ rv[Engine] = "fail")

IInv == TypeOK /\ Keys /\ Phases /\ Walking /\ EngineCalls /\ CacheMapped

(* The least element of a set of natural numbers.                          *)
LEMMA LeastOf ==
  ASSUME NEW T \in SUBSET Nat, T # {}
  PROVE  \E n \in T : \A m \in T : n <= m
<1> DEFINE R == OpToRel(<, Nat)
<1>1. IsWellFoundedOn(R, Nat)
  BY NatLessThanWellFounded
<1>2. \A m, n \in Nat : m < n => <<m, n>> \in R
  BY DEF OpToRel
<1> HIDE DEF R
<1>3. \E n \in T : \A m \in T : ~(<<m, n>> \in R)
  BY <1>1, WFMin
<1>4. PICK n \in T : \A m \in T : <<m, n>> \notin R
  BY <1>3
<1>5. \A m \in T : m \in Nat /\ n \in Nat /\ ~(m < n)
  BY <1>2, <1>4
<1>6. QED
  BY <1>4, <1>5

----------------------------------------------------------------------------
(* Handles, as the vendor counts them.                                     *)
LEMMA MaxIs ==
  ASSUME NEW S \in SUBSET Int, NEW x \in S, \A y \in S : y <= x
  PROVE  Max(S) = x
<1>1. Max(S) \in S /\ \A y \in S : y <= Max(S)
  BY DEF Max
<1>2. Max(S) \in Int /\ x \in Int /\ Max(S) <= x /\ x <= Max(S)
  BY <1>1
<1>3. QED
  BY <1>2

LEMMA MinIs ==
  ASSUME NEW S \in SUBSET Int, NEW x \in S, \A y \in S : x <= y
  PROVE  Min(S) = x
<1>1. Min(S) \in S /\ \A y \in S : Min(S) <= y
  BY DEF Min
<1>2. Min(S) \in Int /\ x \in Int /\ Min(S) <= x /\ x <= Min(S)
  BY <1>1
<1>3. QED
  BY <1>2

(* Objects are two, levels three, and a handle is no mark.                 *)
LEMMA Facts ==
  /\ Engine \in Objects /\ Utils \in Objects /\ Engine # Utils /\ Objects = {Engine, Utils}
  /\ Levels = {1, 2, 3} /\ Null \notin Handles
  /\ Closed \notin Opened /\ Abandoned \notin Opened /\ Closed # Abandoned
BY MarksAssumption DEF Engine, Utils, Objects, Levels

LEMMA DepthIs ==
  ASSUME TypeOK, Nested, NEW o \in Objects
  PROVE  Depth(o) \in 0 .. 3 /\ \A l \in Levels : key[o][l] # Null <=> l <= Depth(o)
<1> DEFINE S == {0} \cup {l \in Levels : key[o][l] # Null}
<1>1. (key[o][2] # Null => key[o][1] # Null) /\ (key[o][3] # Null => key[o][2] # Null)
  BY DEF Nested
<1>2. Depth(o) = Max(S)
  BY DEF Depth
<1>3. PICK d \in 0 .. 3 : d \in S /\ \A l \in Levels : key[o][l] # Null <=> l <= d
  <2>1. CASE key[o][1] = Null
    BY <1>1, <2>1, Facts
  <2>2. CASE key[o][1] # Null /\ key[o][2] = Null
    BY <1>1, <2>2, Facts
  <2>3. CASE key[o][2] # Null /\ key[o][3] = Null
    BY <1>1, <2>3, Facts
  <2>4. CASE key[o][3] # Null
    BY <1>1, <2>4, Facts
  <2>5. QED
    BY <1>1, <2>1, <2>2, <2>3, <2>4
<1>4. S \in SUBSET Int /\ \A y \in S : y <= d
  BY <1>3, Facts
<1>5. Max(S) = d
  BY <1>3, <1>4, MaxIs
<1>6. QED
  BY <1>2, <1>3, <1>5

LEMMA HandlesFinite ==
  /\ IsFiniteSet(Handles)
  /\ \A o \in Objects : IsFiniteSet({o} \X (1 .. 3 + MaxAbandoned)) /\ Cardinality({o} \X (1 .. 3 + MaxAbandoned)) = 3 + MaxAbandoned
<1> DEFINE N == 1 .. 3 + MaxAbandoned
<1>1. IsFiniteSet(N) /\ Cardinality(N) = 3 + MaxAbandoned /\ 3 + MaxAbandoned \in Nat
  BY BoundAssumption, FS_Interval
<1>2. \A o : IsFiniteSet({o}) /\ Cardinality({o}) = 1
  BY FS_Singleton
<1>3. IsFiniteSet(Objects)
  <2>1. IsFiniteSet({Engine}) /\ Objects = {Engine} \cup {Utils}
    BY <1>2, Facts
  <2>2. QED
    BY <2>1, FS_AddElement
<1> HIDE DEF N
<1>4. IsFiniteSet(Objects \X N)
  BY <1>1, <1>3, FS_Product
<1>5. ASSUME NEW o PROVE IsFiniteSet({o} \X N) /\ Cardinality({o} \X N) = Cardinality(N)
  <2>1. IsFiniteSet({o} \X N) /\ Cardinality({o} \X N) = Cardinality({o}) * Cardinality(N)
    BY <1>1, <1>2, FS_Product
  <2>2. Cardinality({o}) = 1 /\ Cardinality(N) \in Nat
    BY <1>1, <1>2
  <2>3. QED
    BY <2>1, <2>2
<1>6. QED
  BY <1>1, <1>4, <1>5 DEF N, Handles

(* While a level of a key is empty the vendor has a number for it.         *)
LEMMA FreshHandle ==
  ASSUME TypeOK, Keys, NEW o \in Objects, key[o][3] = Null
  PROVE  LET n == Min({i \in 1 .. 3 + MaxAbandoned : vendor[<<o, i>>] = Closed})
         IN  <<o, n>> \in Handles /\ vendor[<<o, n>>] = Closed
<1> DEFINE N == 1 .. 3 + MaxAbandoned
           F == {i \in N : vendor[<<o, i>>] = Closed}
           Ab == {h \in Handles : vendor[h] = Abandoned}
           K == {key[o][1], key[o][2]}
<1>1. \A i \in N : <<o, i>> \in Handles
  BY DEF Handles
<1>2. ASSUME F = {} PROVE FALSE
  <2>1. {o} \X N \subseteq K \cup Ab
    <3>1. SUFFICES ASSUME NEW i \in N, vendor[<<o, i>>] # Abandoned PROVE <<o, i>> \in K
      BY <1>1
    <3>2. vendor[<<o, i>>] \in Opened
      BY <1>1, <1>2, <3>1 DEF TypeOK
    <3>3. PICK l \in Levels : key[<<o, i>>[1]][l] = <<o, i>>
      BY <1>1, <3>2 DEF Keys, Held
    <3>4. key[o][l] = <<o, i>> /\ key[o][l] \in Handles
      BY <1>1, <3>3
    <3>5. l # 3
      BY <3>4, Facts
    <3>6. QED
      BY <3>4, <3>5, Facts
  <2>2. IsFiniteSet(Ab) /\ Cardinality(Ab) <= MaxAbandoned /\ Cardinality(Ab) \in Nat
    <3>1. IsFiniteSet(Ab) /\ Cardinality(Ab) \in Nat
      BY HandlesFinite, FS_Subset, FS_CardinalityType
    <3>2. QED
      BY <3>1 DEF Keys, Held, Refusals
  <2>3. IsFiniteSet(K) /\ Cardinality(K) \in Nat /\ Cardinality(K) <= 2
    <3>1. IsFiniteSet({key[o][1]}) /\ Cardinality({key[o][1]}) = 1
      BY FS_Singleton
    <3>2. K = {key[o][1]} \cup {key[o][2]}
      OBVIOUS
    <3>3. /\ IsFiniteSet({key[o][1]} \cup {key[o][2]})
          /\ Cardinality({key[o][1]} \cup {key[o][2]}) \in {1, 2}
      BY <3>1, FS_AddElement
    <3>4. QED
      BY <3>2, <3>3
  <2> HIDE DEF K, Ab, N
  <2>4. IsFiniteSet(K \cup Ab) /\ Cardinality(K \cup Ab) <= Cardinality(K) + Cardinality(Ab)
    <3>1. IsFiniteSet(K \cup Ab) /\ Cardinality(K \cup Ab) = Cardinality(K) + Cardinality(Ab) - Cardinality(K \cap Ab)
      BY <2>2, <2>3, FS_Union
    <3>2. Cardinality(K \cap Ab) \in Nat
      <4>1. IsFiniteSet(K \cap Ab)
        BY <2>2, FS_Subset
      <4>2. QED
        BY <4>1, FS_CardinalityType
    <3>3. QED
      BY <2>2, <2>3, <3>1, <3>2
  <2>5. Cardinality({o} \X N) <= Cardinality(K \cup Ab)
    BY <2>1, <2>4, FS_Subset
  <2>6. Cardinality({o} \X N) = 3 + MaxAbandoned
    BY HandlesFinite DEF N
  <2>7. Cardinality(K \cup Ab) \in Nat
    BY <2>4, FS_CardinalityType
  <2>8. QED
    BY <2>2, <2>3, <2>4, <2>5, <2>6, <2>7, BoundAssumption
<1>3. F \in SUBSET Nat /\ F \in SUBSET Int
  BY BoundAssumption
<1>4. PICK n \in F : \A i \in F : n <= i
  BY <1>2, <1>3, LeastOf
<1> HIDE DEF F
<1>5. Min(F) = n
  BY <1>3, <1>4, MinIs
<1>6. n \in N /\ vendor[<<o, n>>] = Closed
  BY <1>4 DEF F
<1>7. QED
  BY <1>1, <1>5, <1>6 DEF F

(* The vendor refuses to close one more handle, or none.                   *)
LEMMA OneMoreRefusal ==
  ASSUME TypeOK, NEW h \in Handles, vendor[h] \in Opened,
         NEW what \in {Closed} \cup {Abandoned : n \in Refusals + 1 .. MaxAbandoned},
         Refusals <= MaxAbandoned, vendor' = [vendor EXCEPT ![h] = what]
  PROVE  Refusals' <= MaxAbandoned
<1> DEFINE Ab == {g \in Handles : vendor[g] = Abandoned}
<1>1. IsFiniteSet(Ab) /\ Cardinality(Ab) \in Nat /\ Refusals = Cardinality(Ab)
  BY HandlesFinite, FS_Subset, FS_CardinalityType DEF Refusals
<1>2. h \notin Ab
  BY Facts
<1>3. CASE what = Closed
  <2>1. {g \in Handles : vendor'[g] = Abandoned} = Ab
    BY <1>2, <1>3, Facts DEF TypeOK
  <2>2. QED
    BY <1>1, <2>1 DEF Refusals
<1>4. CASE what # Closed
  <2>1. what = Abandoned /\ Refusals + 1 <= MaxAbandoned
    BY <1>1, <1>4, BoundAssumption
  <2>2. {g \in Handles : vendor'[g] = Abandoned} = Ab \cup {h}
    BY <2>1 DEF TypeOK
  <2>3. Cardinality(Ab \cup {h}) = Cardinality(Ab) + 1
    BY <1>1, <1>2, FS_AddElement
  <2>4. QED
    BY <1>1, <2>1, <2>2, <2>3 DEF Refusals
<1>5. QED
  BY <1>3, <1>4

(* Closing the deepest handle of a key.                                    *)
LEMMA ForgetsKeeps ==
  ASSUME TypeOK, Keys, NEW o \in Objects, NEW l \in Levels, key[o][l] # Null,
         l = 3 \/ key[o][l + 1] = Null, Forgets(o, l), UNCHANGED lib
  PROVE  /\ Keys' /\ key' \in [Objects -> [Levels -> Handles \cup {Null}]]
         /\ vendor' \in [Handles -> Opened \cup {Closed, Abandoned}]
         /\ key'[o][l] = Null
         /\ \A m \in Levels : m # l => key'[o][m] = key[o][m]
         /\ \A p \in Objects : p # o => key'[p] = key[p]
         /\ \A h \in Handles : h # key[o][l] => vendor'[h] = vendor[h]
         /\ \A p \in Objects, m \in Levels : key'[p][m] # Null => key'[p][m] = key[p][m] /\ key[p][m] # key[o][l]
<1> DEFINE k == key[o][l]
<1>1. /\ k \in Handles /\ vendor[k] \in Opened /\ vendor[k].level = l /\ vendor[k].lib = lib[o]
      /\ k[1] = o
  BY DEF Keys, Nested, Valid, TypeOK
<1>2. lib[o] # NoLib
  BY <1>1, LibsAssumption DEF Opened
<1>3. key' = [key EXCEPT ![o][l] = Null]
  BY DEF Forgets
<1>4. PICK what \in {Closed} \cup {Abandoned : n \in Refusals + 1 .. MaxAbandoned} :
        vendor' = [vendor EXCEPT ![k] = what]
  BY <1>2 DEF Forgets
<1>5. what \in {Closed, Abandoned}
  OBVIOUS
<1> HIDE DEF k
<1>6. /\ key' \in [Objects -> [Levels -> Handles \cup {Null}]]
      /\ key'[o][l] = Null
      /\ \A m \in Levels : m # l => key'[o][m] = key[o][m]
      /\ \A p \in Objects : p # o => key'[p] = key[p]
  BY <1>3 DEF TypeOK
<1>7. vendor' \in [Handles -> Opened \cup {Closed, Abandoned}]
  BY <1>4, <1>5 DEF TypeOK
<1>8. vendor'[k] = what /\ \A h \in Handles : h # k => vendor'[h] = vendor[h]
  BY <1>1, <1>4 DEF TypeOK
<1>9. \A p \in Objects, m \in Levels : key'[p][m] # Null => key'[p][m] = key[p][m] /\ key[p][m] # k
  <2>1. SUFFICES ASSUME NEW p \in Objects, NEW m \in Levels, key'[p][m] # Null
                 PROVE  key'[p][m] = key[p][m] /\ key[p][m] # k
    OBVIOUS
  <2>2. key'[p][m] = key[p][m] /\ ~(p = o /\ m = l)
    BY <1>6, <2>1
  <2>3. key[p][m][1] = p /\ vendor[key[p][m]].level = m
    BY <2>1, <2>2 DEF Keys, Nested, Valid
  <2>4. QED
    BY <1>1, <2>2, <2>3
<1>10. Nested'
  <2>1. \A p \in Objects, m \in Levels : key'[p][m] # Null => key'[p][m][1] = p
    BY <1>9 DEF Keys, Nested
  <2>2. \A p \in Objects : (key'[p][2] # Null => key'[p][1] # Null) /\ (key'[p][3] # Null => key'[p][2] # Null)
    <3>1. SUFFICES ASSUME NEW p \in Objects
                   PROVE  (key'[p][2] # Null => key'[p][1] # Null) /\ (key'[p][3] # Null => key'[p][2] # Null)
      OBVIOUS
    <3>2. CASE p # o
      BY <1>6, <3>2 DEF Keys, Nested
    <3>3. CASE p = o
      <4>1. (key[o][2] # Null => key[o][1] # Null) /\ (key[o][3] # Null => key[o][2] # Null)
        BY DEF Keys, Nested
      <4>2. CASE l = 1
        BY <1>6, <3>3, <4>1, <4>2, Facts
      <4>3. CASE l = 2
        BY <1>6, <3>3, <4>1, <4>3, Facts
      <4>4. CASE l = 3
        BY <1>6, <3>3, <4>1, <4>4, Facts
      <4>5. QED
        BY <4>2, <4>3, <4>4, Facts
    <3>4. QED
      BY <3>2, <3>3
  <2>3. QED
    BY <2>1, <2>2 DEF Nested
<1>11. Valid'
  <2>1. SUFFICES ASSUME NEW p \in Objects, NEW m \in Levels, key'[p][m] # Null
                 PROVE  /\ vendor'[key'[p][m]] \in Opened /\ vendor'[key'[p][m]].lib = lib'[p]
                        /\ vendor'[key'[p][m]].level = m /\ vendor'[key'[p][m]].up = Above(p, m)'
    BY DEF Valid
  <2>2. key'[p][m] = key[p][m] /\ key[p][m] # k /\ key[p][m] \in Handles
    BY <1>9, <2>1 DEF TypeOK
  <2>3. vendor'[key'[p][m]] = vendor[key[p][m]]
    BY <1>8, <2>2
  <2>4. Above(p, m)' = Above(p, m)
    <3>1. CASE m = 1
      BY <3>1 DEF Above
    <3>2. CASE m # 1
      <4>1. m - 1 \in Levels /\ key'[p][m - 1] # Null
        BY <1>10, <2>1, <3>2, Facts DEF Nested
      <4>2. key'[p][m - 1] = key[p][m - 1]
        BY <1>9, <4>1
      <4>3. QED
        BY <3>2, <4>2 DEF Above
    <3>3. QED
      BY <3>1, <3>2
  <2>5. QED
    BY <2>1, <2>2, <2>3, <2>4 DEF Keys, Valid
<1>12. Held'
  <2>1. Refusals' <= MaxAbandoned
    BY <1>1, <1>4, OneMoreRefusal DEF Keys, Held
  <2>2. ASSUME NEW h \in Handles, vendor'[h] \in Opened
        PROVE  \E m \in Levels : key'[h[1]][m] = h
    <3>1. h # k /\ vendor[h] \in Opened
      BY <1>5, <1>8, <2>2, Facts
    <3>2. PICK m \in Levels : key[h[1]][m] = h
      BY <3>1 DEF Keys, Held
    <3>3. h[1] \in Objects
      BY DEF Handles
    <3>4. key'[h[1]][m] = h
      BY <1>6, <3>1, <3>2, <3>3 DEF k
    <3>5. QED
      BY <3>4
  <2>3. QED
    BY <2>1, <2>2 DEF Held
<1>13. QED
  BY <1>6, <1>7, <1>8, <1>9, <1>10, <1>11, <1>12 DEF Keys, k

(* Opening the next level of a key.                                        *)
LEMMA GivesKeeps ==
  ASSUME TypeOK, Keys, NEW o \in Objects, NEW l \in Levels, key[o][l] = Null,
         l = 1 \/ key[o][l - 1] # Null, Gives(o, l), UNCHANGED lib
  PROVE  /\ Keys' /\ key' \in [Objects -> [Levels -> Handles \cup {Null}]]
         /\ vendor' \in [Handles -> Opened \cup {Closed, Abandoned}]
         /\ key'[o][l] # Null
         /\ \A m \in Levels : m # l => key'[o][m] = key[o][m]
         /\ \A p \in Objects : p # o => key'[p] = key[p]
         /\ \A p \in Objects, m \in Levels : key[p][m] # Null => key'[p][m] = key[p][m] /\ vendor'[key[p][m]] = vendor[key[p][m]]
<1> DEFINE n == Min({i \in 1 .. 3 + MaxAbandoned : vendor[<<o, i>>] = Closed})
           k == <<o, n>>
           r == [lib |-> lib[o], level |-> l, up |-> Above(o, l), pin |-> FALSE]
<1>1. \A m \in Levels : m > l => key[o][m] = Null
  <2>1. (key[o][2] # Null => key[o][1] # Null) /\ (key[o][3] # Null => key[o][2] # Null)
    BY DEF Keys, Nested
  <2>2. QED
    BY <2>1, Facts
<1>2. key[o][3] = Null
  BY <1>1, Facts
<1>3. k \in Handles /\ vendor[k] = Closed
  BY <1>2, FreshHandle
<1>4. /\ vendor' = [vendor EXCEPT ![k] = r] /\ key' = [key EXCEPT ![o][l] = k] /\ lib[o] # NoLib
  BY DEF Gives
<1>5. r \in Opened /\ r.lib = lib[o] /\ r.level = l /\ r.up = Above(o, l)
  <2>1. Above(o, l) \in Handles \cup {Null}
    BY Facts DEF Above, TypeOK
  <2>2. QED
    BY <1>4, <2>1 DEF Opened, TypeOK
<1>6. k[1] = o /\ k # Null
  BY <1>3, Facts
<1> HIDE DEF n, k, r
<1>7. /\ key' \in [Objects -> [Levels -> Handles \cup {Null}]]
      /\ key'[o][l] = k
      /\ \A m \in Levels : m # l => key'[o][m] = key[o][m]
      /\ \A p \in Objects : p # o => key'[p] = key[p]
  BY <1>3, <1>4 DEF TypeOK
<1>8. vendor' \in [Handles -> Opened \cup {Closed, Abandoned}]
  BY <1>4, <1>5 DEF TypeOK
<1>9. vendor'[k] = r /\ \A h \in Handles : h # k => vendor'[h] = vendor[h]
  BY <1>3, <1>4 DEF TypeOK
<1>10. \A p \in Objects, m \in Levels : key[p][m] # Null =>
         key'[p][m] = key[p][m] /\ key[p][m] # k /\ vendor'[key[p][m]] = vendor[key[p][m]]
  <2>1. SUFFICES ASSUME NEW p \in Objects, NEW m \in Levels, key[p][m] # Null
                 PROVE  key'[p][m] = key[p][m] /\ key[p][m] # k /\ vendor'[key[p][m]] = vendor[key[p][m]]
    OBVIOUS
  <2>2. key'[p][m] = key[p][m]
    BY <1>7, <2>1
  <2>3. key[p][m] \in Handles /\ vendor[key[p][m]] \in Opened
    BY <2>1 DEF Keys, Valid, TypeOK
  <2>4. QED
    BY <1>3, <1>9, <2>2, <2>3, Facts
<1>11. \A p \in Objects, m \in Levels : key'[p][m] # Null => (p = o /\ m = l) \/ key[p][m] # Null
  BY <1>7
<1>12. Nested'
  <2>1. \A p \in Objects, m \in Levels : key'[p][m] # Null => key'[p][m][1] = p
    BY <1>6, <1>7, <1>10, <1>11 DEF Keys, Nested
  <2>2. \A p \in Objects : (key'[p][2] # Null => key'[p][1] # Null) /\ (key'[p][3] # Null => key'[p][2] # Null)
    <3>1. SUFFICES ASSUME NEW p \in Objects
                   PROVE  (key'[p][2] # Null => key'[p][1] # Null) /\ (key'[p][3] # Null => key'[p][2] # Null)
      OBVIOUS
    <3>2. CASE p # o
      BY <1>7, <3>2 DEF Keys, Nested
    <3>3. CASE p = o
      <4>1. (key[o][2] # Null => key[o][1] # Null) /\ (key[o][3] # Null => key[o][2] # Null)
        BY DEF Keys, Nested
      <4>2. CASE l = 1
        BY <1>6, <1>7, <3>3, <4>1, <4>2, Facts
      <4>3. CASE l = 2
        BY <1>6, <1>7, <3>3, <4>1, <4>3, Facts
      <4>4. CASE l = 3
        BY <1>6, <1>7, <3>3, <4>1, <4>4, Facts
      <4>5. QED
        BY <4>2, <4>3, <4>4, Facts
    <3>4. QED
      BY <3>2, <3>3
  <2>3. QED
    BY <2>1, <2>2 DEF Nested
<1>13. Valid'
  <2>1. SUFFICES ASSUME NEW p \in Objects, NEW m \in Levels, key'[p][m] # Null
                 PROVE  /\ vendor'[key'[p][m]] \in Opened /\ vendor'[key'[p][m]].lib = lib'[p]
                        /\ vendor'[key'[p][m]].level = m /\ vendor'[key'[p][m]].up = Above(p, m)'
    BY DEF Valid
  <2>2. CASE p = o /\ m = l
    <3>1. Above(o, l)' = Above(o, l)
      <4>1. CASE l = 1
        BY <4>1 DEF Above
      <4>2. CASE l # 1
        <5>1. l - 1 \in Levels /\ l - 1 # l
          BY <4>2, Facts
        <5>2. key'[o][l - 1] = key[o][l - 1]
          BY <1>7, <5>1
        <5>3. QED
          BY <4>2, <5>2 DEF Above
      <4>3. QED
        BY <4>1, <4>2
    <3>2. QED
      BY <1>5, <1>7, <1>9, <2>2, <3>1
  <2>3. CASE ~(p = o /\ m = l)
    <3>1. key[p][m] # Null /\ key'[p][m] = key[p][m] /\ vendor'[key'[p][m]] = vendor[key[p][m]]
      BY <1>10, <1>11, <2>1, <2>3
    <3>2. Above(p, m)' = Above(p, m)
      <4>1. CASE m = 1
        BY <4>1 DEF Above
      <4>2. CASE m # 1
        <5>1. m - 1 \in Levels /\ key[p][m - 1] # Null
          BY <3>1, <4>2, Facts DEF Keys, Nested
        <5>2. key'[p][m - 1] = key[p][m - 1]
          BY <1>10, <5>1
        <5>3. QED
          BY <4>2, <5>2 DEF Above
      <4>3. QED
        BY <4>1, <4>2
    <3>3. QED
      BY <3>1, <3>2 DEF Keys, Valid
  <2>4. QED
    BY <2>2, <2>3
<1>14. Held'
  <2>1. {g \in Handles : vendor'[g] = Abandoned} = {g \in Handles : vendor[g] = Abandoned}
    BY <1>3, <1>5, <1>9, Facts
  <2>2. Refusals' <= MaxAbandoned
    BY <2>1 DEF Keys, Held, Refusals
  <2>3. ASSUME NEW h \in Handles, vendor'[h] \in Opened
        PROVE  \E m \in Levels : key'[h[1]][m] = h
    <3>1. CASE h = k
      BY <1>6, <1>7, <3>1
    <3>2. CASE h # k
      <4>1. vendor[h] \in Opened
        BY <1>9, <2>3, <3>2
      <4>2. PICK m \in Levels : key[h[1]][m] = h
        BY <4>1 DEF Keys, Held
      <4>3. h[1] \in Objects /\ h # Null
        BY Facts DEF Handles
      <4>4. key'[h[1]][m] = h
        BY <1>10, <4>2, <4>3
      <4>5. QED
        BY <4>4
    <3>3. QED
      BY <3>1, <3>2
  <2>4. QED
    BY <2>2, <2>3 DEF Held
<1>15. QED
  BY <1>6, <1>7, <1>8, <1>10, <1>12, <1>13, <1>14 DEF Keys

(* Nothing is opened or closed: the keys stay, and an object without a key *)
(* may change its library.                                                 *)
LEMMA KeysStay ==
  ASSUME Keys, UNCHANGED <<vendor, key>>,
         \A o \in Objects : lib'[o] = lib[o] \/ key[o] = NoKey
  PROVE  Keys'
<1>1. Nested' /\ Held'
  BY DEF Keys, Nested, Held, Refusals
<1>2. Valid'
  <2>1. SUFFICES ASSUME NEW o \in Objects, NEW l \in Levels, key[o][l] # Null
                 PROVE  lib'[o] = lib[o] /\ Above(o, l)' = Above(o, l)
    BY DEF Keys, Valid
  <2>2. key[o] # NoKey
    BY <2>1 DEF NoKey
  <2>3. QED
    BY <2>2 DEF Above
<1>3. QED
  BY <1>1, <1>2 DEF Keys

----------------------------------------------------------------------------
(* Where a call goes.                                                      *)
LEMMA GoesDoes ==
  ASSUME TypeOK, NEW o \in Objects, NEW place \in Places, Goes(o, place)
  PROVE  /\ pc' \in [Objects -> Places] /\ op' \in [Objects -> Operations]
         /\ pc'[o] = place /\ op'[o] = IF place = "idle" THEN "none" ELSE op[o]
         /\ \A p \in Objects : p # o => pc'[p] = pc[p] /\ op'[p] = op[p]
BY DEF Goes, TypeOK, Operations

LEMMA BeginsDoes ==
  ASSUME TypeOK, NEW o \in Objects, NEW place \in Places, NEW operation \in Operations, NEW answer \in Answers,
         Begins(o, operation, place, answer)
  PROVE  /\ pc' \in [Objects -> Places] /\ op' \in [Objects -> Operations] /\ rv' \in [Objects -> Answers]
         /\ pc[o] = "idle" /\ pc'[o] = place /\ op'[o] = operation /\ rv'[o] = answer
         /\ \A p \in Objects : p # o => pc'[p] = pc[p] /\ op'[p] = op[p] /\ rv'[p] = rv[p]
BY DEF Begins, TypeOK

LEMMA NoKeyIs == \A k : k = NoKey => k[1] = Null /\ k[2] = Null /\ k[3] = Null
BY DEF NoKey, Levels

LEMMA IsNoKey ==
  ASSUME TypeOK, NEW o \in Objects, \A l \in Levels : key[o][l] = Null
  PROVE  key[o] = NoKey
BY DEF TypeOK, NoKey

LEMMA CloseKeyStep ==
  ASSUME IInv, NEW o \in Objects, CloseKey(o)
  PROVE  IInv'
<1> DEFINE l == Depth(o)
<1>1. /\ pc[o] = "close" /\ Forgets(o, l)
      /\ UNCHANGED <<cache, mapped, lib, pc, op, rv, pin, libsLeft, left, path, found, told, infos, aborted>>
  BY DEF CloseKey, libVars, callVars, enumVars, walkVars
<1>2. l \in Levels /\ key[o][l] # Null /\ (l = 3 \/ key[o][l + 1] = Null)
  <2>1. l \in 0 .. 3 /\ l > 0 /\ \A m \in Levels : key[o][m] # Null <=> m <= l
    BY DepthIs DEF CloseKey, IInv, Keys
  <2>2. l \in Levels
    BY <2>1, Facts
  <2> HIDE DEF l
  <2>3. l # 3 => l + 1 \in Levels /\ ~(l + 1 <= l)
    BY <2>2, Facts
  <2>4. QED
    BY <2>1, <2>2, <2>3
<1> HIDE DEF l
<1>3. /\ Keys' /\ key' \in [Objects -> [Levels -> Handles \cup {Null}]]
      /\ vendor' \in [Handles -> Opened \cup {Closed, Abandoned}]
      /\ \A p \in Objects : p # o => key'[p] = key[p]
      /\ \A h \in Handles : h # key[o][l] => vendor'[h] = vendor[h]
      /\ \A p \in Objects, m \in Levels : key'[p][m] # Null => key'[p][m] = key[p][m] /\ key[p][m] # key[o][l]
  BY <1>1, <1>2, ForgetsKeeps DEF IInv
<1>4. TypeOK'
  BY <1>1, <1>3 DEF IInv, TypeOK
<1>5. \A p \in Objects, m \in Levels : key'[p][m] # Null =>
        key[p][m] # Null /\ vendor'[key'[p][m]] = vendor[key[p][m]]
  BY <1>3, Facts DEF IInv, TypeOK
<1>6. Phases'
  <2>1. \A p \in Objects : pc[p] # "close" => key'[p] = key[p]
    BY <1>1, <1>3
  <2>2. \A p \in Objects : pc[p] \in {"open", "pin"} => key'[p][3] = Null /\ (pc[p] = "pin" => key'[p][2] # Null)
    BY <2>1 DEF IInv, Phases
  <2>3. EngineReady' => EngineReady /\ vendor'[key'[Engine][2]] = vendor[key[Engine][2]]
    BY <1>5, Facts DEF EngineReady
  <2>4. pc[Engine] # "pin" /\ pc[Engine] # "close" /\ key'[Engine][2] # Null => vendor'[key'[Engine][2]].pin
    BY <1>5, Facts DEF IInv, Phases
  <2>5. \A p \in Objects : pc[p] \in {"load", "libs", "devs"} => key'[p] = NoKey
    BY <2>1 DEF IInv, Phases
  <2>6. pc[Engine] = "idle" => EngineReady' \/ key'[Engine] = NoKey
    BY <2>1, Facts DEF IInv, Phases, EngineReady
  <2>7. pc[Utils] = "idle" => key'[Utils] = NoKey
    BY <2>1, Facts DEF IInv, Phases
  <2>8. QED
    BY <1>1, <2>2, <2>3, <2>4, <2>5, <2>6, <2>7 DEF IInv, Phases
<1>7. Walking'
  BY <1>1, <1>3, Facts DEF IInv, Walking
<1>8. EngineCalls' /\ CacheMapped'
  BY <1>1 DEF IInv, EngineCalls, CacheMapped
<1>9. QED
  BY <1>3, <1>4, <1>6, <1>7, <1>8 DEF IInv

(* Places of the engine and the utilities where nothing of the key moves.  *)
LEMMA PhasesMove ==
  ASSUME IInv, NEW o \in Objects, UNCHANGED <<vendor, key>>, \A p \in Objects : p # o => pc'[p] = pc[p],
         o = Engine => pc'[o] \in {"idle", "close", "load", "open", "pin"},
         pc'[o] = "idle" => key[o] = NoKey \/ (o = Engine /\ EngineReady),
         pc'[o] \in {"load", "libs", "devs"} => key[o] = NoKey,
         pc'[o] \in {"open", "pin"} => key[o][3] = Null,
         pc'[o] = "pin" => key[o][2] # Null,
         o = Engine /\ pc'[o] \notin {"pin", "close"} /\ key[o][2] # Null => vendor[key[o][2]].pin
  PROVE  Phases'
<1>1. EngineReady' = EngineReady
  BY DEF EngineReady
<1>2. CASE o = Engine
  BY <1>1, <1>2, Facts DEF IInv, Phases
<1>3. CASE o = Utils
  <2>1. ~EngineReady \/ EngineReady
    OBVIOUS
  <2>2. QED
    BY <1>1, <1>3, Facts DEF IInv, Phases
<1>4. QED
  BY <1>2, <1>3, Facts

LEMMA KeyClosedStep ==
  ASSUME IInv, NEW o \in Objects, KeyClosed(o)
  PROVE  IInv'
<1>1. /\ pc[o] = "close" /\ Depth(o) = 0
      /\ UNCHANGED <<cache, mapped, vendor, key, rv, libsLeft, left, path, found, told, infos, aborted>>
  BY DEF KeyClosed, enumVars, walkVars
<1>2. PICK place \in {"idle", "load", "open"} :
        /\ Goes(o, place)
        /\ place = "idle" <=> rv[o] # "none"
        /\ place = "load" <=> rv[o] = "none" /\ op[o] = "initApi"
  BY DEF KeyClosed
<1>3. key[o] = NoKey
  <2>1. \A l \in Levels : key[o][l] = Null
    BY <1>1, DepthIs, Facts DEF IInv, Keys
  <2>2. QED
    BY <2>1, IsNoKey DEF IInv
<1>4. /\ lib' \in [Objects -> Libs \cup {NoLib}] /\ pin' \in BOOLEAN
      /\ \A p \in Objects : lib'[p] = lib[p] \/ (lib'[p] = NoLib /\ key[p] = NoKey)
  BY <1>3 DEF KeyClosed, IInv, TypeOK
<1>5. /\ pc' \in [Objects -> Places] /\ op' \in [Objects -> Operations]
      /\ pc'[o] = place /\ op'[o] = IF place = "idle" THEN "none" ELSE op[o]
      /\ \A p \in Objects : p # o => pc'[p] = pc[p] /\ op'[p] = op[p]
  <2>1. place \in Places
    BY DEF Places
  <2>2. QED
    BY <1>2, <2>1, GoesDoes DEF IInv
<1>6. TypeOK'
  BY <1>1, <1>2, <1>4, <1>5 DEF IInv, TypeOK
<1>7. Keys'
  BY <1>1, <1>4, KeysStay DEF IInv
<1>8. Phases'
  BY <1>1, <1>3, <1>5, NoKeyIs, PhasesMove
<1>9. Walking'
  <2>1. CASE o = Utils
    BY <1>1, <1>5, <2>1 DEF IInv, Walking
  <2>2. CASE o # Utils
    <3>1. lib' = lib
      BY <2>2 DEF KeyClosed
    <3>2. QED
      BY <1>1, <1>5, <2>2, <3>1, Facts DEF IInv, Walking
  <2>3. QED
    BY <2>1, <2>2
<1>10. EngineCalls'
  <2>1. CASE o = Engine
    BY <1>1, <1>2, <1>5, <2>1 DEF IInv, EngineCalls
  <2>2. CASE o # Engine
    BY <1>1, <1>5, <2>2, Facts DEF IInv, EngineCalls
  <2>3. QED
    BY <2>1, <2>2
<1>11. CacheMapped'
  BY <1>1, <1>4 DEF IInv, CacheMapped
<1>12. QED
  BY <1>6, <1>7, <1>8, <1>9, <1>10, <1>11 DEF IInv

(* A step of a call that opens and closes nothing and loads no library.    *)
LEMMA CallMoves ==
  ASSUME IInv, TypeOK', Walking', EngineCalls', NEW o \in Objects, UNCHANGED <<cache, mapped, lib, vendor, key>>,
         \A p \in Objects : p # o => pc'[p] = pc[p],
         o = Engine => pc'[o] \in {"idle", "close", "load", "open", "pin"},
         pc'[o] = "idle" => key[o] = NoKey \/ (o = Engine /\ EngineReady),
         pc'[o] \in {"load", "libs", "devs"} => key[o] = NoKey,
         pc'[o] \in {"open", "pin"} => key[o][3] = Null,
         pc'[o] = "pin" => key[o][2] # Null,
         o = Engine /\ pc'[o] \notin {"pin", "close"} /\ key[o][2] # Null => vendor[key[o][2]].pin
  PROVE  IInv'
<1>1. Phases'
  BY PhasesMove
<1>2. Keys' /\ CacheMapped'
  BY KeysStay DEF IInv, CacheMapped
<1>3. QED
  BY <1>1, <1>2 DEF IInv

(* The engine's calls go on as they were while the utilities work.         *)
LEMMA EngineRests ==
  ASSUME IInv, pc'[Engine] = pc[Engine], op'[Engine] = op[Engine], rv'[Engine] = rv[Engine]
  PROVE  EngineCalls'
BY DEF IInv, EngineCalls

LEMMA OpenNextStep ==
  ASSUME IInv, NEW o \in Objects, OpenNext(o)
  PROVE  IInv'
<1> DEFINE l == Depth(o) + 1
<1>1. /\ pc[o] = "open" /\ Gives(o, l)
      /\ UNCHANGED <<cache, mapped, lib, pin, libsLeft, left, path, found, told, infos, aborted>>
      /\ rv' = IF l = 3 THEN [rv EXCEPT ![o] = "ok"] ELSE rv
  BY DEF OpenNext, libVars, enumVars, walkVars
<1>2. key[o][3] = Null /\ (o = Engine => op[o] = "initEngine" /\ rv[o] = "none")
  BY <1>1 DEF IInv, Phases, EngineCalls
<1>3. l \in Levels /\ \A m \in Levels : key[o][m] # Null <=> m < l
  <2>1. Depth(o) \in 0 .. 3 /\ \A m \in Levels : key[o][m] # Null <=> m <= Depth(o)
    BY DepthIs DEF IInv, Keys
  <2>2. QED
    BY <1>2, <2>1, Facts
<1>4. PICK place \in {"pin", "idle", "cert", "open"} :
        /\ Goes(o, place)
        /\ place = "pin" => l = 2
        /\ place = "idle" => l = 3 /\ o = Engine
        /\ place = "cert" => l = 3 /\ o = Utils
        /\ place = "open" => l < 3 /\ (o = Engine => l = 1)
  <2>1. CASE l = 1
    BY <2>1 DEF OpenNext
  <2>2. CASE l = 2
    BY <2>2 DEF OpenNext, WantsPin
  <2>3. CASE l = 3
    BY <2>3, Facts DEF OpenNext
  <2>4. QED
    BY <1>3, <2>1, <2>2, <2>3, Facts
<1> HIDE DEF l
<1>5. key[o][l] = Null /\ (l = 1 \/ key[o][l - 1] # Null)
  <2>1. l # 1 => l - 1 \in Levels /\ l - 1 < l
    BY <1>3, Facts
  <2>2. QED
    BY <1>3, <2>1, Facts
<1>6. /\ Keys' /\ key' \in [Objects -> [Levels -> Handles \cup {Null}]]
      /\ vendor' \in [Handles -> Opened \cup {Closed, Abandoned}]
      /\ key'[o][l] # Null
      /\ \A m \in Levels : m # l => key'[o][m] = key[o][m]
      /\ \A p \in Objects : p # o => key'[p] = key[p]
      /\ \A p \in Objects, m \in Levels : key[p][m] # Null => key'[p][m] = key[p][m] /\ vendor'[key[p][m]] = vendor[key[p][m]]
  BY <1>1, <1>3, <1>5, GivesKeeps DEF IInv
<1>7. /\ pc' \in [Objects -> Places] /\ op' \in [Objects -> Operations]
      /\ pc'[o] = place /\ op'[o] = IF place = "idle" THEN "none" ELSE op[o]
      /\ \A p \in Objects : p # o => pc'[p] = pc[p] /\ op'[p] = op[p]
  <2>1. place \in Places
    BY DEF Places
  <2>2. QED
    BY <1>4, <2>1, GoesDoes DEF IInv
<1>8. rv' \in [Objects -> Answers] /\ (l = 3 => rv'[o] = "ok") /\ (l # 3 => rv' = rv)
      /\ \A p \in Objects : p # o => rv'[p] = rv[p]
  BY <1>1 DEF IInv, TypeOK, Answers
<1>9. TypeOK'
  <2>1. \A p \in Objects : pc'[p] = "idle" => rv'[p] # "none"
    BY <1>4, <1>7, <1>8 DEF IInv, TypeOK
  <2>2. QED
    BY <1>1, <1>6, <1>7, <1>8, <2>1 DEF IInv, TypeOK
<1>10. Phases'
  <2>1. CASE o = Engine
    <3>1. place = "idle" => EngineReady' /\ vendor'[key'[o][2]].pin
      <4>1. SUFFICES ASSUME place = "idle" PROVE EngineReady' /\ vendor'[key'[o][2]].pin
        OBVIOUS
      <4>2. l = 3 /\ key[o][1] # Null /\ key[o][2] # Null
        BY <1>3, <1>4, <4>1, Facts
      <4>3. EngineReady'
        BY <1>6, <2>1, <4>2, Facts DEF EngineReady
      <4>4. vendor[key[o][2]].pin
        BY <1>1, <2>1, <4>2 DEF IInv, Phases
      <4>5. QED
        BY <1>6, <4>2, <4>3, <4>4, Facts
    <3>2. place # "idle" => key'[o][3] = Null
      BY <1>2, <1>4, <1>6, <2>1, Facts
    <3>3. place = "pin" => key'[o][2] # Null
      BY <1>4, <1>6
    <3>4. place = "open" => key'[o][2] = Null
      BY <1>3, <1>4, <1>6, <2>1, Facts
    <3>5. place # "cert"
      BY <1>4, <2>1, Facts
    <3>6. EngineReady' => place = "idle"
      BY <2>1, <3>2, Facts DEF EngineReady
    <3>7. Utils # o /\ pc'[Utils] = pc[Utils] /\ key'[Utils] = key[Utils]
      BY <1>6, <1>7, <2>1, Facts
    <3>8. QED
      BY <1>7, <2>1, <3>1, <3>2, <3>3, <3>4, <3>5, <3>6, <3>7, Facts DEF IInv, Phases
  <2>2. CASE o = Utils
    <3>1. place # "idle" /\ (place \in {"open", "pin"} => key'[o][3] = Null) /\ (place = "pin" => key'[o][2] # Null)
      BY <1>2, <1>4, <1>6, <2>2, Facts
    <3>2. Engine # o /\ pc'[Engine] = pc[Engine] /\ key'[Engine] = key[Engine]
      BY <1>6, <1>7, <2>2, Facts
    <3>3. EngineReady' = EngineReady
      BY <3>2 DEF EngineReady
    <3>4. key[Engine][2] # Null => vendor'[key'[Engine][2]] = vendor[key[Engine][2]]
      BY <1>6, <3>2, Facts
    <3>5. EngineReady => key[Engine][2] # Null
      BY Facts DEF EngineReady
    <3>6. QED
      BY <1>4, <1>7, <2>2, <3>1, <3>2, <3>3, <3>4, <3>5, Facts DEF IInv, Phases
  <2>3. QED
    BY <2>1, <2>2, Facts
<1>11. Walking'
  BY <1>1, <1>4, <1>6, <1>7, Facts DEF IInv, Walking
<1>12. EngineCalls'
  <2>1. CASE o = Engine
    BY <1>2, <1>4, <1>7, <1>8, <2>1, Facts DEF EngineCalls
  <2>2. CASE o # Engine
    BY <1>7, <1>8, <2>2, EngineRests, Facts
  <2>3. QED
    BY <2>1, <2>2
<1>13. CacheMapped'
  BY <1>1 DEF IInv, CacheMapped
<1>14. QED
  BY <1>6, <1>9, <1>10, <1>11, <1>12, <1>13 DEF IInv

LEMMA VerifyPinStep ==
  ASSUME IInv, NEW o \in Objects, VerifyPin(o)
  PROVE  IInv'
<1> DEFINE k == key[o][2]
<1>1. /\ pc[o] = "pin" /\ vendor' = [vendor EXCEPT ![k].pin = TRUE] /\ Goes(o, "open")
      /\ UNCHANGED <<cache, mapped, lib, key, rv, pin, libsLeft, left, path, found, told, infos, aborted>>
  BY DEF VerifyPin, libVars, enumVars, walkVars
<1>2. key[o][3] = Null /\ k # Null /\ k \in Handles /\ vendor[k] \in Opened
  BY <1>1, Facts DEF IInv, Keys, Valid, Phases, TypeOK
<1> HIDE DEF k
<1>3. /\ vendor' \in [Handles -> Opened \cup {Closed, Abandoned}]
      /\ vendor'[k] \in Opened /\ vendor'[k].pin /\ vendor'[k].lib = vendor[k].lib
      /\ vendor'[k].level = vendor[k].level /\ vendor'[k].up = vendor[k].up
      /\ \A h \in Handles : h # k => vendor'[h] = vendor[h]
  <2>1. vendor'[k] = [vendor[k] EXCEPT !.pin = TRUE]
    BY <1>1, <1>2 DEF IInv, TypeOK
  <2>2. vendor'[k] \in Opened /\ vendor'[k].pin /\ vendor'[k].lib = vendor[k].lib
        /\ vendor'[k].level = vendor[k].level /\ vendor'[k].up = vendor[k].up
    BY <1>2, <2>1 DEF Opened
  <2>3. QED
    BY <1>1, <2>2 DEF IInv, TypeOK
<1>4. /\ pc' \in [Objects -> Places] /\ op' \in [Objects -> Operations]
      /\ pc'[o] = "open" /\ op'[o] = op[o]
      /\ \A p \in Objects : p # o => pc'[p] = pc[p] /\ op'[p] = op[p]
  BY <1>1, GoesDoes DEF IInv, Places
<1>5. TypeOK'
  BY <1>1, <1>3, <1>4 DEF IInv, TypeOK
<1>6. Keys'
  <2>1. Nested'
    BY <1>1 DEF IInv, Keys, Nested
  <2>2. Valid'
    BY <1>1, <1>3 DEF IInv, Keys, Valid, Above, TypeOK
  <2>3. \A h \in Handles : (vendor'[h] \in Opened <=> vendor[h] \in Opened) /\ (vendor'[h] = Abandoned <=> vendor[h] = Abandoned)
    BY <1>2, <1>3, Facts
  <2>4. {h \in Handles : vendor'[h] = Abandoned} = {h \in Handles : vendor[h] = Abandoned}
    BY <2>3
  <2>5. Held'
    BY <1>1, <2>3, <2>4 DEF IInv, Keys, Held, Refusals
  <2>6. QED
    BY <2>1, <2>2, <2>5 DEF Keys
<1>7. Phases'
  <2>1. EngineReady' = EngineReady
    BY <1>1 DEF EngineReady
  <2>2. key[Engine][2] # Null /\ vendor[key[Engine][2]].pin => vendor'[key[Engine][2]].pin
    BY <1>3, Facts DEF IInv, TypeOK
  <2>3. CASE o = Engine
    <3>1. vendor'[key[Engine][2]].pin
      BY <1>3, <2>3 DEF k
    <3>2. QED
      BY <1>1, <1>2, <1>4, <2>1, <2>3, <3>1, Facts DEF IInv, Phases
  <2>4. CASE o = Utils
    <3>1. EngineReady => key[Engine][2] # Null
      BY Facts DEF EngineReady
    <3>2. QED
      BY <1>1, <1>2, <1>4, <2>1, <2>2, <2>4, <3>1, Facts DEF IInv, Phases
  <2>5. QED
    BY <2>3, <2>4, Facts
<1>8. Walking'
  BY <1>1, <1>4, Facts DEF IInv, Walking
<1>9. EngineCalls'
  <2>1. CASE o = Engine
    BY <1>1, <1>4, <2>1 DEF IInv, EngineCalls
  <2>2. CASE o # Engine
    BY <1>1, <1>4, <2>2, EngineRests, Facts
  <2>3. QED
    BY <2>1, <2>2
<1>10. CacheMapped'
  BY <1>1 DEF IInv, CacheMapped
<1>11. QED
  BY <1>5, <1>6, <1>7, <1>8, <1>9, <1>10 DEF IInv

LEMMA OpenFailsStep ==
  ASSUME IInv, NEW o \in Objects, OpenFails(o)
  PROVE  IInv'
<1>1. /\ pc[o] \in {"open", "pin"} /\ rv' = [rv EXCEPT ![o] = "fail"] /\ Goes(o, "close")
      /\ UNCHANGED <<cache, mapped, lib, vendor, key, pin, libsLeft, left, path, found, told, infos, aborted>>
  BY DEF OpenFails, libVars, enumVars, walkVars
<1>2. /\ pc' \in [Objects -> Places] /\ op' \in [Objects -> Operations]
      /\ pc'[o] = "close" /\ op'[o] = op[o]
      /\ \A p \in Objects : p # o => pc'[p] = pc[p] /\ op'[p] = op[p]
  BY <1>1, GoesDoes DEF IInv, Places
<1>3. rv' \in [Objects -> Answers] /\ rv'[o] = "fail" /\ \A p \in Objects : p # o => rv'[p] = rv[p]
  BY <1>1 DEF IInv, TypeOK, Answers
<1>4. TypeOK'
  BY <1>1, <1>2, <1>3 DEF IInv, TypeOK
<1>5. Walking'
  BY <1>1, <1>2, Facts DEF IInv, Walking
<1>6. EngineCalls'
  <2>1. CASE o = Engine
    BY <1>1, <1>2, <1>3, <2>1 DEF IInv, EngineCalls
  <2>2. CASE o # Engine
    BY <1>2, <1>3, <2>2, EngineRests, Facts
  <2>3. QED
    BY <2>1, <2>2
<1>7. QED
  BY <1>1, <1>2, <1>4, <1>5, <1>6, CallMoves

(* A library is loaded, or none.                                           *)
LEMMA LoadsDoes ==
  ASSUME TypeOK, CacheMapped, NEW o \in Objects, NEW l \in Libs, Loads(o, l)
  PROVE  /\ cache' \subseteq Libs /\ mapped' \subseteq Libs /\ CacheMapped'
         /\ lib' \in [Objects -> Libs \cup {NoLib}]
         /\ \A p \in Objects : p # o => lib'[p] = lib[p]
<1>1. PICK x \in {l, NoLib} :
        /\ lib' = [lib EXCEPT ![o] = x]
        /\ x # NoLib => l \in cache \cup Complete /\ cache' = cache \cup {l} /\ mapped' = mapped \cup {l}
        /\ cache' = cache \/ (cache' = cache \cup {l} /\ mapped' = mapped \cup {l} /\ l \in cache \cup Complete)
        /\ mapped' = mapped \/ mapped' = mapped \cup {l}
  BY DEF Loads, Incomplete
<1>2. /\ lib' \in [Objects -> Libs \cup {NoLib}] /\ lib'[o] = x
      /\ \A p \in Objects : p # o => lib'[p] = lib[p]
  BY <1>1 DEF TypeOK
<1>3. cache' \subseteq Libs /\ mapped' \subseteq Libs
  BY <1>1 DEF TypeOK
<1>4. CacheMapped'
  BY <1>1, <1>2 DEF CacheMapped
<1>5. QED
  BY <1>2, <1>3, <1>4

LEMMA RefuseStep ==
  ASSUME IInv, NEW o \in Objects, Refuse(o)
  PROVE  IInv'
<1>1. /\ pc[o] = "idle" /\ rv' = [rv EXCEPT ![o] = "fail"]
      /\ UNCHANGED <<cache, mapped, lib, vendor, key, pc, op, pin, libsLeft, left, path, found, told, infos, aborted>>
  BY DEF Refuse, libVars, enumVars, walkVars
<1>2. TypeOK'
  BY <1>1 DEF IInv, TypeOK, Answers
<1>3. Walking' /\ CacheMapped' /\ Keys'
  BY <1>1, KeysStay DEF IInv, Walking, CacheMapped
<1>4. Phases'
  BY <1>1 DEF IInv, Phases, EngineReady
<1>5. EngineCalls'
  BY <1>1 DEF IInv, EngineCalls, TypeOK
<1>6. QED
  BY <1>2, <1>3, <1>4, <1>5 DEF IInv

LEMMA UsesStep ==
  ASSUME IInv, NEW l, Uses(l)
  PROVE  IInv'
<1>1. PICK a \in {"ok", "fail"} : rv' = [rv EXCEPT ![Engine] = a]
  BY DEF Uses
<1>2. /\ pc[Engine] = "idle"
      /\ UNCHANGED <<cache, mapped, lib, vendor, key, pc, op, pin, libsLeft, left, path, found, told, infos, aborted>>
  BY DEF Uses, libVars, enumVars, walkVars
<1>3. TypeOK'
  BY <1>1, <1>2 DEF IInv, TypeOK, Answers
<1>4. Walking'
  BY <1>1, <1>2, Facts DEF IInv, Walking, TypeOK
<1>5. CacheMapped' /\ Keys'
  BY <1>2, KeysStay DEF IInv, CacheMapped
<1>6. Phases'
  BY <1>2 DEF IInv, Phases, EngineReady
<1>7. EngineCalls'
  BY <1>2 DEF IInv, EngineCalls
<1>8. QED
  BY <1>3, <1>4, <1>5, <1>6, <1>7 DEF IInv

(* A call of the engine begins by closing the key it finds.                *)
LEMMA EngineBegins ==
  ASSUME IInv, InitApi \/ InitEngine \/ UninitEngine
  PROVE  IInv'
<1>1. PICK operation \in {"initApi", "initEngine", "uninitEngine"}, answer \in {"none", "ok"} :
        /\ Begins(Engine, operation, "close", answer)
        /\ answer = "ok" <=> operation = "uninitEngine"
        /\ UNCHANGED <<cache, mapped, lib, vendor, key, pin, libsLeft, left, path, found, told, infos, aborted>>
  BY DEF InitApi, InitEngine, UninitEngine, libVars, enumVars, walkVars
<1>2. operation \in Operations /\ answer \in Answers /\ "close" \in Places
  BY DEF Operations, Answers, Places
<1>3. /\ pc' \in [Objects -> Places] /\ op' \in [Objects -> Operations] /\ rv' \in [Objects -> Answers]
      /\ pc[Engine] = "idle" /\ pc'[Engine] = "close" /\ op'[Engine] = operation /\ rv'[Engine] = answer
      /\ \A p \in Objects : p # Engine => pc'[p] = pc[p] /\ op'[p] = op[p] /\ rv'[p] = rv[p]
  BY <1>1, <1>2, BeginsDoes, Facts DEF IInv
<1>4. TypeOK'
  BY <1>1, <1>3 DEF IInv, TypeOK
<1>5. Walking'
  BY <1>1, <1>3, Facts DEF IInv, Walking
<1>6. EngineCalls'
  BY <1>1, <1>3 DEF EngineCalls
<1>7. QED
  BY <1>1, <1>3, <1>4, <1>5, <1>6, CallMoves, Facts

LEMMA LoadApiStep ==
  ASSUME IInv, LoadApi
  PROVE  IInv'
<1>1. PICK l \in Libs : Loads(Engine, l)
  BY DEF LoadApi
<1>2. /\ pc[Engine] = "load" /\ Goes(Engine, "idle")
      /\ rv' = [rv EXCEPT ![Engine] = IF lib'[Engine] = NoLib THEN "fail" ELSE "ok"]
      /\ UNCHANGED <<vendor, key, pin, libsLeft, left, path, found, told, infos, aborted>>
  BY DEF LoadApi, Answer, enumVars, walkVars
<1>3. /\ cache' \subseteq Libs /\ mapped' \subseteq Libs /\ CacheMapped'
      /\ lib' \in [Objects -> Libs \cup {NoLib}]
      /\ \A p \in Objects : p # Engine => lib'[p] = lib[p]
  BY <1>1, LoadsDoes, Facts DEF IInv
<1>4. /\ pc' \in [Objects -> Places] /\ op' \in [Objects -> Operations] /\ pc'[Engine] = "idle"
      /\ \A p \in Objects : p # Engine => pc'[p] = pc[p] /\ op'[p] = op[p]
  BY <1>2, GoesDoes, Facts DEF IInv, Places
<1>5. rv' \in [Objects -> Answers] /\ rv'[Engine] # "none" /\ \A p \in Objects : p # Engine => rv'[p] = rv[p]
  BY <1>2, Facts DEF IInv, TypeOK, Answers
<1>6. key[Engine] = NoKey
  BY <1>2, Facts DEF IInv, Phases
<1>7. TypeOK'
  BY <1>2, <1>3, <1>4, <1>5 DEF IInv, TypeOK
<1>8. Keys'
  BY <1>2, <1>3, <1>6, KeysStay DEF IInv
<1>9. Phases'
  BY <1>2, <1>4, <1>6, NoKeyIs, PhasesMove, Facts
<1>10. Walking'
  BY <1>2, <1>3, <1>4, <1>5, Facts DEF IInv, Walking
<1>11. EngineCalls'
  BY <1>4 DEF EngineCalls
<1>12. QED
  BY <1>3, <1>7, <1>8, <1>9, <1>10, <1>11 DEF IInv

----------------------------------------------------------------------------
(* The utilities, whose key is closed whenever they change the library.    *)
LEMMA UtilsLoads ==
  ASSUME IInv, TypeOK', key[Utils] = NoKey, 
         (\E l \in Libs : Loads(Utils, l)) \/ (UNCHANGED <<cache, mapped>> /\ lib' = [lib EXCEPT ![Utils] = NoLib]),
         UNCHANGED <<vendor, key>>, pc'[Engine] = pc[Engine], op'[Engine] = op[Engine], rv'[Engine] = rv[Engine],
         pc'[Utils] \in {"idle", "close", "load", "libs", "devs"}, path' = <<>>,
         pc'[Utils] \in {"libs", "devs"} => rv'[Utils] # "none",
         pc'[Utils] = "devs" => lib'[Utils] # NoLib
  PROVE  IInv'
<1>1. CacheMapped' /\ lib'[Engine] = lib[Engine]
  <2>1. CASE \E l \in Libs : Loads(Utils, l)
    BY <2>1, LoadsDoes, Facts DEF IInv
  <2>2. CASE ~\E l \in Libs : Loads(Utils, l)
    BY <2>2, Facts DEF IInv, CacheMapped, TypeOK
  <2>3. QED
    BY <2>1, <2>2
<1>2. Keys'
  BY <1>1, KeysStay, Facts DEF IInv
<1>3. Phases'
  BY NoKeyIs, PhasesMove, Facts
<1>4. Walking'
  BY DEF Walking
<1>5. QED
  BY <1>1, <1>2, <1>3, <1>4, EngineRests DEF IInv

LEMMA CheckCertStep ==
  ASSUME IInv, CheckCert
  PROVE  IInv'
<1>1. /\ Begins(Utils, "checkCert", "load", "none") /\ pin' \in BOOLEAN
      /\ UNCHANGED <<cache, mapped, lib, vendor, key, libsLeft, left, path, found, told, infos, aborted>>
  BY DEF CheckCert, libVars, enumVars, walkVars
<1>2. /\ pc' \in [Objects -> Places] /\ op' \in [Objects -> Operations] /\ rv' \in [Objects -> Answers]
      /\ pc[Utils] = "idle" /\ pc'[Utils] = "load"
      /\ \A p \in Objects : p # Utils => pc'[p] = pc[p] /\ op'[p] = op[p] /\ rv'[p] = rv[p]
  BY <1>1, BeginsDoes, Facts DEF IInv, Operations, Answers, Places
<1>3. TypeOK'
  BY <1>1, <1>2 DEF IInv, TypeOK
<1>4. Walking' /\ key[Utils] = NoKey
  BY <1>1, <1>2 DEF IInv, Walking, Phases
<1>5. EngineCalls'
  BY <1>2, EngineRests, Facts
<1>6. QED
  BY <1>1, <1>2, <1>3, <1>4, <1>5, CallMoves, Facts

LEMMA LoadToCheckStep ==
  ASSUME IInv, LoadToCheck
  PROVE  IInv'
<1>1. PICK l \in Libs : Loads(Utils, l)
  BY DEF LoadToCheck
<1>2. /\ pc[Utils] = "load" /\ Goes(Utils, "close")
      /\ rv' = IF lib'[Utils] = NoLib THEN [rv EXCEPT ![Utils] = "fail"] ELSE rv
      /\ UNCHANGED <<vendor, key, pin, libsLeft, left, path, found, told, infos, aborted>>
  BY DEF LoadToCheck, enumVars, walkVars
<1>3. /\ cache' \subseteq Libs /\ mapped' \subseteq Libs /\ lib' \in [Objects -> Libs \cup {NoLib}]
  BY <1>1, LoadsDoes, Facts DEF IInv
<1>4. /\ pc' \in [Objects -> Places] /\ op' \in [Objects -> Operations] /\ pc'[Utils] = "close"
      /\ \A p \in Objects : p # Utils => pc'[p] = pc[p] /\ op'[p] = op[p]
  BY <1>2, GoesDoes, Facts DEF IInv, Places
<1>5. rv' \in [Objects -> Answers] /\ \A p \in Objects : p # Utils => rv'[p] = rv[p]
  BY <1>2, Facts DEF IInv, TypeOK, Answers
<1>6. key[Utils] = NoKey /\ path = <<>>
  BY <1>2, Facts DEF IInv, Phases, Walking
<1>7. TypeOK'
  <2>1. \A p \in Objects : pc'[p] = "idle" => rv'[p] # "none"
    BY <1>4, <1>5 DEF IInv, TypeOK
  <2>2. QED
    BY <1>2, <1>3, <1>4, <1>5, <2>1 DEF IInv, TypeOK
<1>8. QED
  BY <1>1, <1>2, <1>4, <1>5, <1>6, <1>7, UtilsLoads, Facts

LEMMA CertAnswersStep ==
  ASSUME IInv, NEW answer \in {"ok", "fail"}, CertAnswers(answer)
  PROVE  IInv'
<1>1. /\ pc[Utils] = "cert" /\ rv' = [rv EXCEPT ![Utils] = answer] /\ Goes(Utils, "close")
      /\ UNCHANGED <<cache, mapped, lib, vendor, key, pin, libsLeft, left, path, found, told, infos, aborted>>
  BY DEF CertAnswers, libVars, enumVars, walkVars
<1>2. /\ pc' \in [Objects -> Places] /\ op' \in [Objects -> Operations] /\ pc'[Utils] = "close"
      /\ \A p \in Objects : p # Utils => pc'[p] = pc[p] /\ op'[p] = op[p]
  BY <1>1, GoesDoes, Facts DEF IInv, Places
<1>3. rv' \in [Objects -> Answers] /\ \A p \in Objects : p # Utils => rv'[p] = rv[p]
  BY <1>1 DEF IInv, TypeOK, Answers
<1>4. TypeOK'
  <2>1. \A p \in Objects : pc'[p] = "idle" => rv'[p] # "none"
    BY <1>2, <1>3 DEF IInv, TypeOK
  <2>2. QED
    BY <1>1, <1>2, <1>3, <2>1 DEF IInv, TypeOK
<1>5. Walking'
  BY <1>1, <1>2 DEF IInv, Walking
<1>6. EngineCalls'
  BY <1>2, <1>3, EngineRests, Facts
<1>7. QED
  BY <1>1, <1>2, <1>4, <1>5, <1>6, CallMoves, Facts

LEMMA CertAbortsStep ==
  ASSUME IInv, CertAborts
  PROVE  IInv'
<1>1. /\ aborted' = TRUE
      /\ UNCHANGED <<cache, mapped, lib, vendor, key, pc, op, rv, pin, libsLeft, left, path, found, told, infos>>
  BY DEF CertAborts, libVars, callVars, enumVars, walkVars
<1>2. TypeOK'
  BY <1>1 DEF IInv, TypeOK
<1>3. Walking' /\ CacheMapped' /\ Keys' /\ EngineCalls'
  BY <1>1, KeysStay DEF IInv, Walking, CacheMapped, EngineCalls
<1>4. Phases'
  BY <1>1 DEF IInv, Phases, EngineReady
<1>5. QED
  BY <1>2, <1>3, <1>4 DEF IInv

LEMMA EnumAllStep ==
  ASSUME IInv, EnumAll
  PROVE  IInv'
<1>1. /\ Begins(Utils, "enumAll", "libs", "fail") /\ libsLeft' \subseteq Libs
      /\ UNCHANGED <<cache, mapped, lib, vendor, key, pin, left, path, found, told, infos, aborted>>
  BY DEF EnumAll, libVars, walkVars
<1>2. /\ pc' \in [Objects -> Places] /\ op' \in [Objects -> Operations] /\ rv' \in [Objects -> Answers]
      /\ pc[Utils] = "idle" /\ pc'[Utils] = "libs" /\ rv'[Utils] = "fail"
      /\ \A p \in Objects : p # Utils => pc'[p] = pc[p] /\ op'[p] = op[p] /\ rv'[p] = rv[p]
  BY <1>1, BeginsDoes, Facts DEF IInv, Operations, Answers, Places
<1>3. TypeOK'
  BY <1>1, <1>2 DEF IInv, TypeOK
<1>4. Walking' /\ key[Utils] = NoKey
  BY <1>1, <1>2 DEF IInv, Walking, Phases
<1>5. EngineCalls'
  BY <1>2, EngineRests, Facts
<1>6. QED
  BY <1>1, <1>2, <1>3, <1>4, <1>5, CallMoves, Facts

LEMMA LoadToWalkStep ==
  ASSUME IInv, LoadToWalk
  PROVE  IInv'
<1>1. PICK l \in libsLeft : Loads(Utils, l) /\ libsLeft' = libsLeft \ {l}
  BY DEF LoadToWalk
<1>2. l \in Libs /\ pc[Utils] = "libs"
      /\ UNCHANGED <<vendor, key, pin, left, path, found, told, infos, aborted>>
  BY <1>1 DEF LoadToWalk, walkVars, IInv, TypeOK
<1>3. /\ cache' \subseteq Libs /\ mapped' \subseteq Libs /\ lib' \in [Objects -> Libs \cup {NoLib}]
  BY <1>1, <1>2, LoadsDoes, Facts DEF IInv
<1>4. /\ pc' \in [Objects -> Places] /\ op' \in [Objects -> Operations] /\ rv' \in [Objects -> Answers]
      /\ pc'[Utils] \in {"libs", "devs"} /\ rv'[Utils] # "none"
      /\ pc'[Utils] = "devs" => lib'[Utils] # NoLib
      /\ \A p \in Objects : p # Utils => pc'[p] = pc[p] /\ op'[p] = op[p] /\ rv'[p] = rv[p]
  <2>1. CASE lib'[Utils] = NoLib
    BY <1>2, <2>1, Facts DEF LoadToWalk, IInv, TypeOK, Walking
  <2>2. CASE lib'[Utils] # NoLib
    <3>1. rv' = [rv EXCEPT ![Utils] = "ok"] /\ Goes(Utils, "devs")
      BY <2>2 DEF LoadToWalk
    <3>2. /\ pc' \in [Objects -> Places] /\ op' \in [Objects -> Operations] /\ pc'[Utils] = "devs"
          /\ \A p \in Objects : p # Utils => pc'[p] = pc[p] /\ op'[p] = op[p]
      BY <3>1, GoesDoes, Facts DEF IInv, Places
    <3>3. QED
      BY <2>2, <3>1, <3>2, Facts DEF IInv, TypeOK, Answers
  <2>3. QED
    BY <2>1, <2>2
<1>5. key[Utils] = NoKey /\ path = <<>>
  BY <1>2, Facts DEF IInv, Phases, Walking
<1>6. TypeOK'
  <2>1. \A p \in Objects : pc'[p] = "idle" => rv'[p] # "none"
    BY <1>4 DEF IInv, TypeOK
  <2>2. QED
    BY <1>1, <1>2, <1>3, <1>4, <2>1 DEF IInv, TypeOK
<1>7. QED
  BY <1>1, <1>2, <1>4, <1>5, <1>6, UtilsLoads, Facts

LEMMA EnumDoneStep ==
  ASSUME IInv, EnumDone
  PROVE  IInv'
<1>1. /\ pc[Utils] = "libs" /\ Goes(Utils, "idle") /\ lib' = [lib EXCEPT ![Utils] = NoLib] /\ infos' = {}
      /\ UNCHANGED <<cache, mapped, vendor, key, rv, pin, libsLeft, left, path, found, told, aborted>>
  BY DEF EnumDone, walkVars
<1>2. /\ pc' \in [Objects -> Places] /\ op' \in [Objects -> Operations] /\ pc'[Utils] = "idle"
      /\ \A p \in Objects : p # Utils => pc'[p] = pc[p] /\ op'[p] = op[p]
  BY <1>1, GoesDoes, Facts DEF IInv, Places
<1>3. key[Utils] = NoKey /\ path = <<>>
  BY <1>1, Facts DEF IInv, Phases, Walking
<1>4. TypeOK'
  <2>1. \A p \in Objects : pc'[p] = "idle" => rv'[p] # "none"
    BY <1>1, <1>2 DEF IInv, TypeOK, Walking
  <2>2. QED
    BY <1>1, <1>2, <2>1 DEF IInv, TypeOK
<1>5. QED
  BY <1>1, <1>2, <1>3, <1>4, UtilsLoads, Facts

----------------------------------------------------------------------------
(* The walk of enumAllInfo.                                                *)
(* Names put together and taken apart.                                     *)
LEMMA Tuples ==
  ASSUME NEW d, NEW a, NEW c
  PROVE  /\ Append(<<d>>, a) = <<d, a>> /\ Append(<<d, a>>, c) = <<d, a, c>>
         /\ Front(<<d>>) = <<>> /\ Front(<<d, a>>) = <<d>> /\ Front(<<d, a, c>>) = <<d, a>>
<1> DEFINE S == {d, a, c}
<1>1. <<d>> \in Seq(S) /\ <<d, a>> \in Seq(S) /\ <<d, a, c>> \in Seq(S)
  OBVIOUS
<1>2. /\ Len(<<d>>) = 1 /\ <<d>>[1] = d
      /\ Len(<<d, a>>) = 2 /\ <<d, a>>[1] = d /\ <<d, a>>[2] = a
      /\ Len(<<d, a, c>>) = 3 /\ <<d, a, c>>[1] = d /\ <<d, a, c>>[2] = a /\ <<d, a, c>>[3] = c
  OBVIOUS
<1>3. Append(<<d>>, a) = <<d, a>>
  <2>1. Append(<<d>>, a) \in Seq(S) /\ Len(Append(<<d>>, a)) = 2
        /\ Append(<<d>>, a)[1] = d /\ Append(<<d>>, a)[2] = a
    BY <1>1, <1>2
  <2>2. \A i \in 1 .. 2 : Append(<<d>>, a)[i] = <<d, a>>[i]
    BY <1>2, <2>1
  <2> HIDE DEF S
  <2>3. QED
    BY <1>1, <1>2, <2>1, <2>2, SeqEqual
<1>4. Append(<<d, a>>, c) = <<d, a, c>>
  <2>1. Append(<<d, a>>, c) \in Seq(S) /\ Len(Append(<<d, a>>, c)) = 3
        /\ Append(<<d, a>>, c)[1] = d /\ Append(<<d, a>>, c)[2] = a /\ Append(<<d, a>>, c)[3] = c
    BY <1>1, <1>2
  <2>2. \A i \in 1 .. 3 : Append(<<d, a>>, c)[i] = <<d, a, c>>[i]
    BY <1>2, <2>1
  <2> HIDE DEF S
  <2>3. QED
    BY <1>1, <1>2, <2>1, <2>2, SeqEqual
<1>5. Front(<<d>>) = <<>>
  BY <1>2, SubSeqEmpty DEF Front
<1>6. Front(<<d, a>>) = <<d>>
  <2>1. Front(<<d, a>>) = SubSeq(<<d, a>>, 1, 1)
    BY <1>2 DEF Front
  <2>2. Front(<<d, a>>) \in Seq(S) /\ Len(Front(<<d, a>>)) = 1 /\ Front(<<d, a>>)[1] = d
    BY <1>1, <1>2, <2>1
  <2>3. QED
    BY <1>1, <1>2, <2>2, SeqEqual
<1>7. Front(<<d, a, c>>) = <<d, a>>
  <2>1. Front(<<d, a, c>>) = SubSeq(<<d, a, c>>, 1, 2)
    BY <1>2 DEF Front
  <2>2. /\ Front(<<d, a, c>>) \in Seq(S) /\ Len(Front(<<d, a, c>>)) = 2
        /\ Front(<<d, a, c>>)[1] = d /\ Front(<<d, a, c>>)[2] = a
    BY <1>1, <1>2, <2>1
  <2>3. QED
    BY <1>1, <1>2, <2>2, SeqEqual
<1>8. QED
  BY <1>3, <1>4, <1>5, <1>6, <1>7

LEMMA PathCases ==
  ASSUME path \in Paths \cup {<<>>}
  PROVE  \/ path = <<>>
         \/ \E d \in Devs : path = <<d>>
         \/ \E d \in Devs, a \in Apps : path = <<d, a>>
         \/ \E d \in Devs, a \in Apps, c \in Containers : path = <<d, a, c>>
BY DEF Paths

LEMMA PathLength ==
  ASSUME path \in Paths \cup {<<>>}
  PROVE  /\ Len(path) \in 0 .. 3
         /\ path # <<>> => path \in Paths /\ Len(path) \in Levels
         /\ path = <<>> <=> Len(path) = 0
BY DEF Paths, Levels

LEMMA PathGrows ==
  ASSUME path \in Paths \cup {<<>>}, Len(path) < 3, NEW n, n \in Names[Len(path) + 1]
  PROVE  Append(path, n) \in Paths /\ Len(Append(path, n)) = Len(path) + 1
<1>1. CASE path = <<>>
  BY <1>1 DEF Paths, Names
<1>2. CASE \E d \in Devs : path = <<d>>
  <2>1. PICK d \in Devs : path = <<d>>
    BY <1>2
  <2>2. Len(path) = 1 /\ Len(<<d, n>>) = 2
    BY <2>1
  <2>3. n \in Apps
    BY <2>2 DEF Names
  <2>4. Append(path, n) = <<d, n>>
    BY <2>1, Tuples
  <2>5. <<d, n>> \in Paths
    BY <2>3 DEF Paths
  <2>6. QED
    BY <2>2, <2>4, <2>5
<1>3. CASE \E d \in Devs, a \in Apps : path = <<d, a>>
  <2>1. PICK d \in Devs, a \in Apps : path = <<d, a>>
    BY <1>3
  <2>2. Len(path) = 2 /\ Len(<<d, a, n>>) = 3
    BY <2>1
  <2>3. n \in Containers
    BY <2>2 DEF Names
  <2>4. Append(path, n) = <<d, a, n>>
    BY <2>1, Tuples
  <2>5. <<d, a, n>> \in Paths
    BY <2>3 DEF Paths
  <2>6. QED
    BY <2>2, <2>4, <2>5
<1>4. CASE \E d \in Devs, a \in Apps, c \in Containers : path = <<d, a, c>>
  BY <1>4
<1>5. QED
  BY <1>1, <1>2, <1>3, <1>4, PathCases

LEMMA PathShrinks ==
  ASSUME path \in Paths
  PROVE  Front(path) \in Paths \cup {<<>>} /\ Len(Front(path)) = Len(path) - 1
<1>1. CASE \E d \in Devs : path = <<d>>
  BY <1>1 DEF Front
<1>2. CASE \E d \in Devs, a \in Apps : path = <<d, a>>
  <2>1. PICK d \in Devs, a \in Apps : path = <<d, a>>
    BY <1>2
  <2>2. Front(path) = <<d>>
    BY <2>1, Tuples
  <2>3. <<d>> \in Paths /\ Len(<<d>>) = 1 /\ Len(path) = 2
    BY <2>1 DEF Paths
  <2>4. QED
    BY <2>2, <2>3
<1>3. CASE \E d \in Devs, a \in Apps, c \in Containers : path = <<d, a, c>>
  <2>1. PICK d \in Devs, a \in Apps, c \in Containers : path = <<d, a, c>>
    BY <1>3
  <2>2. Front(path) = <<d, a>>
    BY <2>1, Tuples
  <2>3. <<d, a>> \in Paths /\ Len(<<d, a>>) = 2 /\ Len(path) = 3
    BY <2>1 DEF Paths
  <2>4. QED
    BY <2>2, <2>3
<1>4. QED
  BY <1>1, <1>2, <1>3, PathCases DEF Paths

LEMMA ListsDoes ==
  ASSUME TypeOK, Len(path) < 3, Lists
  PROVE  /\ left' \in [Levels -> SUBSET (Devs \cup Apps \cup Containers)]
         /\ \A l \in Levels : left'[l] \subseteq Names[l]
         /\ told' \in [Paths -> Verdicts]
<1> DEFINE l == Len(path) + 1
<1>1. PICK some \in SUBSET Names[l] :
        /\ left' = [left EXCEPT ![l] = some]
        /\ told' = [p \in Paths |->
                      CASE p = path -> "good"
                        [] p \in {Append(path, n) : n \in some} -> "listed"
                        [] OTHER -> told[p]]
  BY DEF Lists
<1>2. l \in Levels /\ Names[l] \subseteq Devs \cup Apps \cup Containers
  BY PathLength DEF TypeOK, Levels, Names
<1>3. \A p \in Paths : told[p] \in Verdicts
  BY DEF TypeOK
<1>4. told' \in [Paths -> Verdicts]
  BY <1>1, <1>3 DEF Verdicts
<1>5. QED
  BY <1>1, <1>2, <1>4 DEF TypeOK

(* The engine does not notice the utilities.                               *)
LEMMA UtilsMove ==
  ASSUME IInv, key'[Engine] = key[Engine], pc'[Engine] = pc[Engine],
         \A l \in Levels : key[Engine][l] # Null => vendor'[key[Engine][l]] = vendor[key[Engine][l]],
         pc'[Utils] \in {"walk", "ask", "leave"}
  PROVE  Phases'
<1>1. EngineReady' <=> EngineReady
  BY DEF EngineReady
<1>2. key[Engine][2] # Null => vendor'[key'[Engine][2]] = vendor[key[Engine][2]]
  BY Facts
<1>3. EngineReady => key[Engine][2] # Null
  BY Facts DEF EngineReady
<1>4. QED
  BY <1>1, <1>2, <1>3, Facts DEF IInv, Phases

(* A step of the walk that opens and closes nothing.                       *)
LEMMA WalkMoves ==
  ASSUME IInv, pc[Utils] \in {"walk", "ask"}, NEW place \in {"walk", "ask", "leave"}, Goes(Utils, place),
         UNCHANGED <<cache, mapped, lib, vendor, key, rv, pin, libsLeft, path, found, infos, aborted>>,
         left' \in [Levels -> SUBSET (Devs \cup Apps \cup Containers)],
         \A l \in Levels : left'[l] \subseteq Names[l],
         told' \in [Paths -> Verdicts]
  PROVE  IInv'
<1>1. /\ pc' \in [Objects -> Places] /\ op' \in [Objects -> Operations] /\ pc'[Utils] = place
      /\ \A p \in Objects : p # Utils => pc'[p] = pc[p] /\ op'[p] = op[p]
  BY GoesDoes, Facts DEF IInv, Places
<1>2. TypeOK'
  <2>1. \A p \in Objects : pc'[p] = "idle" => rv'[p] # "none"
    BY <1>1 DEF IInv, TypeOK
  <2>2. QED
    BY <1>1, <2>1 DEF IInv, TypeOK
<1>3. Walking'
  BY <1>1 DEF IInv, Walking
<1>4. EngineCalls'
  BY <1>1, EngineRests, Facts
<1>5. QED
  BY <1>1, <1>2, <1>3, <1>4, CallMoves, Facts

LEMMA EnumDevStep ==
  ASSUME IInv, EnumDev
  PROVE  IInv'
<1>1. /\ pc[Utils] = "devs" /\ Lists /\ Goes(Utils, "walk")
      /\ UNCHANGED <<cache, mapped, lib, vendor, key, rv, pin, libsLeft, path, found, infos, aborted>>
  BY DEF EnumDev, libVars
<1>2. /\ pc' \in [Objects -> Places] /\ op' \in [Objects -> Operations] /\ pc'[Utils] = "walk"
      /\ \A p \in Objects : p # Utils => pc'[p] = pc[p] /\ op'[p] = op[p]
  BY <1>1, GoesDoes, Facts DEF IInv, Places
<1>3. path = <<>> /\ key[Utils] = NoKey
  BY <1>1, Facts DEF IInv, Walking, Phases
<1>4. TypeOK'
  <2>1. /\ left' \in [Levels -> SUBSET (Devs \cup Apps \cup Containers)]
        /\ \A l \in Levels : left'[l] \subseteq Names[l]
        /\ told' \in [Paths -> Verdicts]
    BY <1>1, <1>3, ListsDoes DEF IInv
  <2>2. \A p \in Objects : pc'[p] = "idle" => rv'[p] # "none"
    BY <1>1, <1>2 DEF IInv, TypeOK
  <2>3. QED
    BY <1>1, <1>2, <2>1, <2>2 DEF IInv, TypeOK
<1>5. Walking'
  BY <1>1, <1>2, <1>3, NoKeyIs, Facts DEF IInv, Walking
<1>6. EngineCalls'
  BY <1>1, <1>2, EngineRests, Facts
<1>7. QED
  BY <1>1, <1>2, <1>3, <1>4, <1>5, <1>6, CallMoves, Facts

LEMMA AskNamesStep ==
  ASSUME IInv, AskNames, Len(path) < 3
  PROVE  IInv'
<1>1. /\ pc[Utils] = "ask" /\ Lists /\ Goes(Utils, "walk")
      /\ UNCHANGED <<cache, mapped, lib, vendor, key, rv, pin, libsLeft, path, found, infos, aborted>>
  BY DEF AskNames, libVars
<1>2. QED
  BY <1>1, ListsDoes, WalkMoves DEF IInv

LEMMA AsksStep ==
  ASSUME IInv, AskFails \/ AskCert
  PROVE  IInv'
<1>1. PICK verdict \in Verdicts :
        /\ pc[Utils] = "ask" /\ Told(path, verdict) /\ Goes(Utils, "leave")
        /\ UNCHANGED <<cache, mapped, lib, vendor, key, rv, pin, libsLeft, left, path, found, infos, aborted>>
  BY DEF AskFails, AskCert, CertVerdicts, Verdicts, libVars
<1>2. told' \in [Paths -> Verdicts]
  BY <1>1 DEF Told, IInv, TypeOK
<1>3. QED
  BY <1>1, <1>2, WalkMoves DEF IInv, TypeOK

LEMMA SkipStep ==
  ASSUME IInv, Skip
  PROVE  IInv'
<1> DEFINE l == Len(path) + 1
<1>1. PICK n \in left[l] : left' = [left EXCEPT ![l] = @ \ {n}] /\ Told(Append(path, n), "refused")
  BY DEF Skip
<1>2. /\ pc[Utils] = "walk"
      /\ UNCHANGED <<cache, mapped, lib, vendor, key, pc, op, rv, pin, libsLeft, path, found, infos, aborted>>
  BY DEF Skip, libVars, callVars
<1>3. left' \in [Levels -> SUBSET (Devs \cup Apps \cup Containers)] /\ \A m \in Levels : left'[m] \subseteq Names[m]
  BY <1>1 DEF IInv, TypeOK
<1>4. told' \in [Paths -> Verdicts]
  BY <1>1 DEF Told, IInv, TypeOK, Verdicts
<1>5. Goes(Utils, "walk")
  BY <1>2, Facts DEF Goes, IInv, TypeOK
<1>6. QED
  BY <1>2, <1>3, <1>4, <1>5, WalkMoves

LEMMA EnterStep ==
  ASSUME IInv, Enter
  PROVE  IInv'
<1> DEFINE l == Len(path) + 1
<1>1. PICK n \in left[l] : left' = [left EXCEPT ![l] = @ \ {n}] /\ path' = Append(path, n)
  BY DEF Enter
<1>2. /\ pc[Utils] = "walk" /\ Len(path) < 3 /\ Gives(Utils, l) /\ Goes(Utils, "ask")
      /\ UNCHANGED <<cache, mapped, lib, rv, pin, libsLeft, found, told, infos, aborted>>
  BY DEF Enter, libVars
<1>3. /\ l \in Levels /\ n \in Names[l] /\ Len(path) \in 0 .. 3
      /\ path' \in Paths /\ Len(path') = l
  <2>1. Len(path) \in 0 .. 3 /\ l \in Levels
    BY <1>2, PathLength DEF IInv, TypeOK, Levels
  <2>2. n \in Names[l]
    BY <1>1, <2>1 DEF IInv, TypeOK
  <2>3. QED
    BY <1>1, <1>2, <2>1, <2>2, PathGrows DEF IInv, TypeOK
<1>4. \A m \in Levels : key[Utils][m] # Null <=> m <= Len(path)
  BY <1>2 DEF IInv, Walking
<1>5. key[Utils][l] = Null /\ (l = 1 \/ key[Utils][l - 1] # Null)
  BY <1>3, <1>4 DEF Levels
<1>6. /\ Keys' /\ key' \in [Objects -> [Levels -> Handles \cup {Null}]]
      /\ vendor' \in [Handles -> Opened \cup {Closed, Abandoned}]
      /\ key'[Utils][l] # Null
      /\ \A m \in Levels : m # l => key'[Utils][m] = key[Utils][m]
      /\ key'[Engine] = key[Engine]
      /\ \A m \in Levels : key[Engine][m] # Null => vendor'[key[Engine][m]] = vendor[key[Engine][m]]
  <2> HIDE DEF l
  <2>1. QED
    BY <1>2, <1>3, <1>5, GivesKeeps, Facts DEF IInv
<1>7. /\ pc' \in [Objects -> Places] /\ op' \in [Objects -> Operations] /\ pc'[Utils] = "ask"
      /\ \A p \in Objects : p # Utils => pc'[p] = pc[p] /\ op'[p] = op[p]
  BY <1>2, GoesDoes, Facts DEF IInv, Places
<1>8. TypeOK'
  <2>1. left' \in [Levels -> SUBSET (Devs \cup Apps \cup Containers)] /\ \A m \in Levels : left'[m] \subseteq Names[m]
    BY <1>1 DEF IInv, TypeOK
  <2>2. \A p \in Objects : pc'[p] = "idle" => rv'[p] # "none"
    BY <1>2, <1>7 DEF IInv, TypeOK
  <2>3. QED
    BY <1>2, <1>3, <1>6, <1>7, <2>1, <2>2 DEF IInv, TypeOK
<1>9. Walking'
  <2>1. \A m \in Levels : m <= l <=> m <= Len(path) \/ m = l
    BY <1>3 DEF Levels
  <2>2. \A m \in Levels : key'[Utils][m] # Null <=> m <= l
    BY <1>4, <1>6, <2>1
  <2>3. QED
    BY <1>2, <1>3, <1>7, <2>2 DEF IInv, Walking
<1>10. Phases'
  BY <1>6, <1>7, UtilsMove, Facts
<1>11. CacheMapped' /\ EngineCalls'
  BY <1>2, <1>7, EngineRests, Facts DEF IInv, CacheMapped
<1>12. QED
  BY <1>6, <1>8, <1>9, <1>10, <1>11 DEF IInv

LEMMA LeaveStep ==
  ASSUME IInv, Leave
  PROVE  IInv'
<1> DEFINE l == Len(path)
<1>1. /\ path # <<>> /\ pc[Utils] \in {"walk", "leave"}
      /\ Forgets(Utils, l) /\ path' = Front(path) /\ Goes(Utils, "walk")
      /\ found' = IF told[path] = "good" THEN Kept(l) ELSE found
      /\ UNCHANGED <<cache, mapped, lib, rv, pin, libsLeft, left, told, infos, aborted>>
  BY DEF Leave, MayLeave, AllTried, libVars
<1>2. /\ path \in Paths /\ l \in Levels
      /\ path' \in Paths \cup {<<>>} /\ Len(path') = l - 1
  BY <1>1, PathLength, PathShrinks DEF IInv, TypeOK
<1>3. \A m \in Levels : key[Utils][m] # Null <=> m <= l
  BY <1>1 DEF IInv, Walking
<1>4. key[Utils][l] # Null /\ (l = 3 \/ key[Utils][l + 1] = Null)
  BY <1>2, <1>3 DEF Levels
<1>5. /\ Keys' /\ key' \in [Objects -> [Levels -> Handles \cup {Null}]]
      /\ vendor' \in [Handles -> Opened \cup {Closed, Abandoned}]
      /\ key'[Utils][l] = Null
      /\ \A m \in Levels : m # l => key'[Utils][m] = key[Utils][m]
      /\ key'[Engine] = key[Engine]
      /\ \A m \in Levels : key[Engine][m] # Null => vendor'[key[Engine][m]] = vendor[key[Engine][m]]
  <2> HIDE DEF l
  <2>1. /\ Keys' /\ key' \in [Objects -> [Levels -> Handles \cup {Null}]]
        /\ vendor' \in [Handles -> Opened \cup {Closed, Abandoned}]
        /\ key'[Utils][l] = Null
        /\ \A m \in Levels : m # l => key'[Utils][m] = key[Utils][m]
        /\ \A p \in Objects : p # Utils => key'[p] = key[p]
        /\ \A h \in Handles : h # key[Utils][l] => vendor'[h] = vendor[h]
    BY <1>1, <1>2, <1>4, ForgetsKeeps, Facts DEF IInv
  <2>2. \A m \in Levels : key[Engine][m] # Null => key[Engine][m] \in Handles /\ key[Engine][m] # key[Utils][l]
    BY <1>2, <1>4, Facts DEF IInv, TypeOK, Keys, Nested
  <2>3. QED
    BY <2>1, <2>2, Facts
<1>6. /\ pc' \in [Objects -> Places] /\ op' \in [Objects -> Operations] /\ pc'[Utils] = "walk"
      /\ \A p \in Objects : p # Utils => pc'[p] = pc[p] /\ op'[p] = op[p]
  BY <1>1, GoesDoes, Facts DEF IInv, Places
<1>7. TypeOK'
  <2>1. found' \in [Levels -> SUBSET Paths]
    <3>1. found \in [Levels -> SUBSET Paths]
      BY DEF IInv, TypeOK
    <3>2. l # 3 => l + 1 \in Levels
      BY <1>2 DEF Levels
    <3> HIDE DEF l
    <3>3. Kept(l) \in [Levels -> SUBSET Paths]
      BY <1>2, <3>1, <3>2 DEF Kept
    <3>4. QED
      BY <1>1, <3>1, <3>3
  <2>2. \A p \in Objects : pc'[p] = "idle" => rv'[p] # "none"
    BY <1>1, <1>6 DEF IInv, TypeOK
  <2>3. QED
    BY <1>1, <1>2, <1>5, <1>6, <2>1, <2>2 DEF IInv, TypeOK
<1>8. Walking'
  <2>1. \A m \in Levels : m <= l - 1 <=> m <= l /\ m # l
    BY <1>2 DEF Levels
  <2>2. \A m \in Levels : key'[Utils][m] # Null <=> m <= l - 1
    BY <1>3, <1>5, <2>1
  <2>3. QED
    BY <1>1, <1>2, <1>6, <2>2 DEF IInv, Walking
<1>9. Phases'
  BY <1>5, <1>6, UtilsMove, Facts
<1>10. CacheMapped' /\ EngineCalls'
  BY <1>1, <1>6, EngineRests, Facts DEF IInv, CacheMapped
<1>11. QED
  BY <1>5, <1>7, <1>8, <1>9, <1>10 DEF IInv

LEMMA LibDoneStep ==
  ASSUME IInv, LibDone
  PROVE  IInv'
<1>1. /\ path = <<>> /\ pc[Utils] = "walk" /\ Goes(Utils, "libs")
      /\ infos' = IF found[1] = {} THEN infos ELSE infos \cup {lib[Utils]}
      /\ found' = [l \in Levels |-> {}] /\ told' = Unlisted
      /\ UNCHANGED <<cache, mapped, lib, vendor, key, rv, pin, libsLeft, left, path, aborted>>
  BY DEF LibDone, AllTried, libVars
<1>2. /\ pc' \in [Objects -> Places] /\ op' \in [Objects -> Operations] /\ pc'[Utils] = "libs"
      /\ \A p \in Objects : p # Utils => pc'[p] = pc[p] /\ op'[p] = op[p]
  BY <1>1, GoesDoes, Facts DEF IInv, Places
<1>3. lib[Utils] \in Libs /\ rv[Utils] # "none" /\ pc[Utils] # "idle"
  BY <1>1, Facts DEF IInv, TypeOK, Walking
<1>4. TypeOK'
  <2>1. infos' \subseteq Libs
    BY <1>1, <1>3 DEF IInv, TypeOK
  <2>2. found' \in [Levels -> SUBSET Paths] /\ told' \in [Paths -> Verdicts]
    BY <1>1 DEF Unlisted, Verdicts
  <2>3. \A p \in Objects : pc'[p] = "idle" => rv'[p] # "none"
    BY <1>1, <1>2 DEF IInv, TypeOK
  <2>4. QED
    BY <1>1, <1>2, <2>1, <2>2, <2>3 DEF IInv, TypeOK
<1>5. Walking'
  BY <1>1, <1>2, <1>3 DEF Walking
<1>6. EngineCalls'
  BY <1>1, <1>2, EngineRests, Facts
<1>7. key[Utils] = NoKey
  <2>1. \A m \in Levels : key[Utils][m] = Null
    BY <1>1 DEF IInv, Walking, Levels
  <2>2. QED
    BY <2>1, IsNoKey, Facts DEF IInv
<1>8. QED
  BY <1>1, <1>2, <1>4, <1>5, <1>6, <1>7, CallMoves, Facts

----------------------------------------------------------------------------
(* The invariant is inductive.                                             *)
LEMMA InitIInv == Init => IInv
<1> SUFFICES ASSUME Init PROVE IInv
  OBVIOUS
<1>1. TypeOK
  BY Facts DEF Init, TypeOK, Places, Operations, Answers, Verdicts, NoKey, Unlisted, Names
<1>2. \A o \in Objects : key[o] = NoKey /\ \A l \in Levels : key[o][l] = Null
  BY DEF Init, NoKey
<1>3. Keys
  <2>1. Nested /\ Valid
    BY <1>2, Facts DEF Nested, Valid
  <2>2. {h \in Handles : vendor[h] = Abandoned} = {}
    BY Facts DEF Init
  <2>3. Refusals = 0
    BY <2>2, FS_EmptySet DEF Refusals
  <2>4. Held
    BY <2>3, Facts, BoundAssumption DEF Init, Held
  <2>5. QED
    BY <2>1, <2>4 DEF Keys
<1>4. Phases
  BY <1>2, Facts DEF Init, Phases, EngineReady
<1>5. Walking /\ EngineCalls /\ CacheMapped
  BY Facts DEF Init, Walking, EngineCalls, CacheMapped
<1>6. QED
  BY <1>1, <1>3, <1>4, <1>5 DEF IInv

LEMMA StepIInv == IInv /\ [Next]_vars => IInv'
<1> SUFFICES ASSUME IInv, [Next]_vars PROVE IInv'
  OBVIOUS
<1>1. CASE Key
  BY <1>1, CloseKeyStep, KeyClosedStep, OpenNextStep, VerifyPinStep, OpenFailsStep, RefuseStep DEF Key
<1>2. CASE Library
  BY <1>2, EngineBegins, LoadApiStep, UsesStep DEF Library, Verify, Sign, Export
<1>3. CASE Check
  <2>1. ASSUME CertChecked \/ CertFails PROVE \E answer \in {"ok", "fail"} : CertAnswers(answer)
    BY <2>1 DEF CertChecked, CertFails
  <2>2. QED
    BY <1>3, <2>1, CheckCertStep, LoadToCheckStep, CertAnswersStep, CertAbortsStep DEF Check
<1>4. CASE Enumerate
  <2>1. ASSUME AskApps \/ AskContainers PROVE AskNames /\ Len(path) < 3
    <3>1. \A n : n = 1 \/ n = 2 => n < 3
      OBVIOUS
    <3>2. AskNames /\ (Len(path) = 1 \/ Len(path) = 2)
      BY <2>1, Zenon DEF AskApps, AskContainers
    <3>3. QED
      BY <3>1, <3>2, Zenon
  <2>2. CASE EnumAll \/ LoadToWalk \/ EnumDev \/ EnumDone
    BY <2>2, EnumAllStep, LoadToWalkStep, EnumDevStep, EnumDoneStep
  <2>3. CASE Enter \/ Skip \/ Leave \/ LibDone
    BY <2>3, EnterStep, SkipStep, LeaveStep, LibDoneStep
  <2>4. CASE AskApps \/ AskContainers \/ AskFails \/ AskCert
    BY <2>1, <2>4, AskNamesStep, AsksStep
  <2>5. QED
    BY <1>4, <2>2, <2>3, <2>4 DEF Enumerate
<1>5. CASE UNCHANGED vars
  <2>1. UNCHANGED <<cache, mapped, lib, vendor, key, pc, op, rv, pin, libsLeft, left, path, found, told, infos, aborted>>
    BY <1>5 DEF vars, libVars, callVars, enumVars, walkVars
  <2>2. TypeOK'
    BY <2>1 DEF IInv, TypeOK
  <2>3. Walking' /\ CacheMapped' /\ Keys' /\ EngineCalls'
    BY <2>1, KeysStay DEF IInv, Walking, CacheMapped, EngineCalls
  <2>4. Phases'
    BY <2>1 DEF IInv, Phases, EngineReady
  <2>5. QED
    BY <2>2, <2>3, <2>4 DEF IInv
<1>6. QED
  BY <1>1, <1>2, <1>3, <1>4, <1>5 DEF Next, Aborted

(* The invariant holds in every state: whatever the engine, the utilities  *)
(* and the vendor do, in any order.                                        *)
THEOREM Invariance == Spec => []IInv
BY InitIInv, StepIInv, PTL DEF Spec

(* The variables keep their types, and a call that has returned has an     *)
(* answer (TypeOK): what LibSkf and LibSkfUtils keep between their calls.  *)
THEOREM TypeCorrect == Spec => []TypeOK
<1>1. IInv => TypeOK
  BY DEF IInv
<1>2. QED
  BY <1>1, Invariance, PTL

(* A handle in a key is always one the vendor has open, of its level,      *)
(* under the handle above it, and from the library the object works with   *)
(* now; a ready engine has shown its PIN (KeyValid): openUsbkey,           *)
(* closeUsbkey and initApi, in any order and whatever fails.               *)
THEOREM KeysValid == Spec => []KeyValid
<1>1. IInv => KeyValid
  <2> SUFFICES ASSUME IInv PROVE KeyValid
    OBVIOUS
  <2>1. ASSUME NEW o \in Objects, NEW l \in Levels, key[o][l] # Null
        PROVE  LET h == vendor[key[o][l]]
               IN  h \notin {Closed, Abandoned} /\ h.lib = lib[o] /\ h.level = l /\ h.up = Above(o, l)
    BY <2>1, Facts DEF IInv, Keys, Valid
  <2>2. EngineReady => vendor[key[Engine][2]].pin
    BY DEF IInv, Phases
  <2>3. QED
    BY <2>1, <2>2 DEF KeyValid
<1>2. QED
  BY <1>1, Invariance, PTL

(* What the vendor has open is in a key, the utilities hold nothing        *)
(* between their calls, and the engine a whole key or none (NothingLeaks): *)
(* every early return of openUsbkey, checkCertByCAIssuer and enumAllInfo   *)
(* closes what it opened.                                                  *)
THEOREM NoLeak == Spec => []NothingLeaks
<1>1. IInv => NothingLeaks
  <2> SUFFICES ASSUME IInv PROVE NothingLeaks
    OBVIOUS
  <2>1. ASSUME NEW h \in Handles, vendor[h] \notin {Closed, Abandoned}
        PROVE  \E o \in Objects, l \in Levels : key[o][l] = h
    <3>1. vendor[h] \in Opened
      BY <2>1 DEF IInv, TypeOK
    <3>2. h[1] \in Objects
      BY DEF Handles
    <3>3. QED
      BY <3>1, <3>2 DEF IInv, Keys, Held
  <2>2. QED
    BY <2>1 DEF NothingLeaks, IInv, Phases
<1>2. QED
  BY <1>1, Invariance, PTL

(* The cache holds complete libraries that are still mapped, and an object *)
(* works only with one of them (CacheMapped): initApi of the engine and of *)
(* the utilities, on the one s_mapCache.                                   *)
THEOREM CacheStaysMapped == Spec => []CacheMapped
<1>1. IInv => CacheMapped
  BY DEF IInv
<1>2. QED
  BY <1>1, Invariance, PTL

----------------------------------------------------------------------------
(* The engine keeps KeyEngine's promise.                                   *)

(* Nothing the engine's caller sees changes.                               *)
LEMMA Unseen ==
  ASSUME EngineReady' <=> EngineReady, pc'[Engine] = pc[Engine], op'[Engine] = op[Engine], rv'[Engine] = rv[Engine]
  PROVE  UNCHANGED TheEngine!vars
BY DEF TheEngine!vars

(* A call that is under way goes on, or returns.                           *)
LEMMA GoesOn ==
  ASSUME ~EngineReady, ~EngineReady', pc[Engine] # "idle", pc'[Engine] # "idle", op'[Engine] = op[Engine]
  PROVE  UNCHANGED TheEngine!vars
<1>1. EngineReady' = EngineReady
  BY DEF EngineReady
<1>2. QED
  BY <1>1 DEF TheEngine!vars

LEMMA Returns ==
  ASSUME ~EngineReady, pc[Engine] # "idle", op[Engine] \in {"initApi", "initEngine", "uninitEngine"},
         pc'[Engine] = "idle", rv'[Engine] \in {"ok", "fail"},
         EngineReady' <=> op[Engine] = "initEngine" /\ rv'[Engine] = "ok",
         op[Engine] = "uninitEngine" => rv'[Engine] = "ok"
  PROVE  TheEngine!Next
<1>1. EngineReady' = (op[Engine] = "initEngine" /\ rv'[Engine] = "ok")
  BY DEF EngineReady
<1>2. QED
  BY <1>1 DEF TheEngine!Next, TheEngine!Return

LEMMA UtilsUnseen ==
  ASSUME IInv, \/ Check \/ Enumerate
               \/ CloseKey(Utils) \/ KeyClosed(Utils) \/ OpenNext(Utils) \/ VerifyPin(Utils) \/ OpenFails(Utils) \/ Refuse(Utils)
  PROVE  UNCHANGED TheEngine!vars
<1>1. pc'[Engine] = pc[Engine] /\ op'[Engine] = op[Engine]
  <2>1. \A place \in Places : Goes(Utils, place) => pc'[Engine] = pc[Engine] /\ op'[Engine] = op[Engine]
    BY GoesDoes, Facts DEF IInv
  <2>2. \A operation, place, answer : Begins(Utils, operation, place, answer) => pc'[Engine] = pc[Engine] /\ op'[Engine] = op[Engine]
    BY Facts DEF Begins, IInv, TypeOK
  <2>3. CASE Check
    BY <2>1, <2>2, <2>3
       DEF Check, CheckCert, LoadToCheck, CertChecked, CertFails, CertAnswers, CertAborts, callVars, Places
  <2>4. CASE Enumerate
    <3>1. CASE EnumAll \/ LoadToWalk \/ EnumDone
      BY <2>1, <2>2, <3>1 DEF EnumAll, LoadToWalk, EnumDone, Places
    <3>2. CASE EnumDev \/ Enter \/ Skip \/ Leave \/ LibDone
      BY <2>1, <3>2 DEF EnumDev, Enter, Skip, Leave, LibDone, callVars, Places
    <3>3. CASE AskApps \/ AskContainers \/ AskFails \/ AskCert
      BY <2>1, <3>3 DEF AskApps, AskContainers, AskNames, AskFails, AskCert, Places
    <3>4. QED
      BY <2>4, <3>1, <3>2, <3>3 DEF Enumerate
  <2>5. CASE CloseKey(Utils) \/ KeyClosed(Utils) \/ Refuse(Utils) \/ VerifyPin(Utils) \/ OpenFails(Utils)
    BY <2>1, <2>5 DEF CloseKey, KeyClosed, Refuse, VerifyPin, OpenFails, callVars, Places
  <2>6. CASE OpenNext(Utils)
    BY <2>1, <2>6 DEF OpenNext, Places
  <2>7. QED
    BY <2>3, <2>4, <2>5, <2>6
<1>2. rv'[Engine] = rv[Engine]
  <2>1. rv' = rv \/ \E a \in Answers : rv' = [rv EXCEPT ![Utils] = a]
    <3>1. CASE Check
      BY <3>1 DEF Check, CheckCert, Begins, LoadToCheck, CertChecked, CertFails, CertAnswers, CertAborts, callVars, Answers
    <3>2. CASE EnumAll \/ LoadToWalk \/ EnumDone
      BY <3>2 DEF EnumAll, Begins, LoadToWalk, EnumDone, Answers
    <3>3. CASE EnumDev \/ Enter \/ Skip \/ Leave \/ LibDone
      BY <3>3 DEF EnumDev, Enter, Skip, Leave, LibDone, callVars
    <3>4. CASE AskApps \/ AskContainers \/ AskFails \/ AskCert
      BY <3>4 DEF AskApps, AskContainers, AskNames, AskFails, AskCert
    <3>5. CASE CloseKey(Utils) \/ KeyClosed(Utils) \/ Refuse(Utils) \/ VerifyPin(Utils) \/ OpenFails(Utils)
      BY <3>5 DEF CloseKey, KeyClosed, Refuse, VerifyPin, OpenFails, callVars, Answers
    <3>6. CASE OpenNext(Utils)
      BY <3>6 DEF OpenNext, Answers
    <3>7. QED
      BY <3>1, <3>2, <3>3, <3>4, <3>5, <3>6 DEF Enumerate
  <2>2. QED
    BY <2>1, Facts DEF IInv, TypeOK
<1>3. key'[Engine] = key[Engine]
  <2>1. key' = key \/ \E l, k : key' = [key EXCEPT ![Utils][l] = k]
    <3>1. CASE Check
      BY <3>1 DEF Check, CheckCert, LoadToCheck, CertChecked, CertFails, CertAnswers, CertAborts
    <3>2. CASE EnumAll \/ LoadToWalk \/ EnumDone
      BY <3>2 DEF EnumAll, LoadToWalk, EnumDone
    <3>3. CASE EnumDev \/ Skip \/ LibDone
      BY <3>3 DEF EnumDev, Skip, LibDone
    <3>4. CASE AskApps \/ AskContainers \/ AskFails \/ AskCert
      BY <3>4 DEF AskApps, AskContainers, AskNames, AskFails, AskCert
    <3>5. CASE KeyClosed(Utils) \/ Refuse(Utils) \/ VerifyPin(Utils) \/ OpenFails(Utils)
      BY <3>5 DEF KeyClosed, Refuse, VerifyPin, OpenFails
    <3>6. ASSUME NEW l, Gives(Utils, l) PROVE \E k : key' = [key EXCEPT ![Utils][l] = k]
      BY <3>6 DEF Gives
    <3>7. ASSUME NEW l, Forgets(Utils, l) PROVE \E k : key' = [key EXCEPT ![Utils][l] = k]
      BY <3>7 DEF Forgets
    <3>8. CASE Enter \/ OpenNext(Utils)
      BY <3>6, <3>8 DEF Enter, OpenNext
    <3>9. CASE Leave \/ CloseKey(Utils)
      BY <3>7, <3>9 DEF Leave, CloseKey
    <3>10. QED
      BY <3>1, <3>2, <3>3, <3>4, <3>5, <3>8, <3>9 DEF Enumerate
  <2>2. QED
    BY <2>1, Facts DEF IInv, TypeOK
<1>4. QED
  BY <1>1, <1>2, <1>3, Unseen DEF EngineReady

LEMMA EngineKeySteps ==
  ASSUME IInv, CloseKey(Engine) \/ KeyClosed(Engine)
  PROVE  [TheEngine!Next]_(TheEngine!vars)
<1>1. pc[Engine] = "close" /\ op[Engine] \in {"initApi", "initEngine", "uninitEngine"}
  BY DEF CloseKey, KeyClosed, IInv, EngineCalls
<1>2. Depth(Engine) \in 0 .. 3 /\ \A l \in Levels : key[Engine][l] # Null <=> l <= Depth(Engine)
  BY DepthIs, Facts DEF IInv, Keys
<1>3. CASE CloseKey(Engine)
  <2> DEFINE l == Depth(Engine)
  <2>1. l \in Levels /\ key' = [key EXCEPT ![Engine][l] = Null]
    <3>1. l > 0 /\ key' = [key EXCEPT ![Engine][l] = Null]
      BY <1>3 DEF CloseKey, Forgets
    <3> HIDE DEF l
    <3>2. QED
      BY <1>2, <3>1 DEF Levels, l
  <2> HIDE DEF l
  <2>2. ~EngineReady'
    BY <2>1, Facts DEF EngineReady, IInv, TypeOK
  <2>3. UNCHANGED <<pc, op, rv>>
    BY <1>3 DEF CloseKey, callVars
  <2>4. CASE EngineReady
    BY <1>1, <2>2, <2>3, <2>4 DEF TheEngine!Next, TheEngine!Drop
  <2>5. CASE ~EngineReady
    BY <2>2, <2>3, <2>5, Unseen
  <2>6. QED
    BY <2>4, <2>5
<1>4. CASE KeyClosed(Engine)
  <2>1. ~EngineReady /\ ~EngineReady'
    BY <1>2, <1>4 DEF KeyClosed, EngineReady, Levels
  <2>2. PICK place \in {"idle", "load", "open"} : Goes(Engine, place) /\ (place = "idle" <=> rv[Engine] # "none")
    BY <1>4 DEF KeyClosed
  <2>3. pc'[Engine] = place /\ op'[Engine] = (IF place = "idle" THEN "none" ELSE op[Engine]) /\ rv' = rv
    BY <1>4, <2>2, GoesDoes, Facts DEF IInv, Places, KeyClosed
  <2>4. CASE place = "idle"
    <3>1. rv[Engine] = (IF op[Engine] = "uninitEngine" THEN "ok" ELSE "fail")
      BY <1>1, <2>2, <2>4 DEF IInv, EngineCalls
    <3>2. QED
      BY <1>1, <2>1, <2>3, <2>4, <3>1, Returns
  <2>5. CASE place # "idle"
    BY <1>1, <2>1, <2>3, <2>5, GoesOn
  <2>6. QED
    BY <2>4, <2>5
<1>5. QED
  BY <1>3, <1>4

LEMMA EngineOpenSteps ==
  ASSUME IInv, OpenNext(Engine) \/ VerifyPin(Engine) \/ OpenFails(Engine)
  PROVE  [TheEngine!Next]_(TheEngine!vars)
<1>1. pc[Engine] \in {"open", "pin"} /\ op[Engine] = "initEngine" /\ ~EngineReady
  BY Facts DEF OpenNext, VerifyPin, OpenFails, IInv, EngineCalls, Phases, EngineReady
<1>2. CASE OpenNext(Engine)
  <2> DEFINE l == Depth(Engine) + 1
  <2>1. l \in Levels /\ \A m \in Levels : key[Engine][m] # Null <=> m < l
    <3>1. Depth(Engine) \in 0 .. 3 /\ \A m \in Levels : key[Engine][m] # Null <=> m <= Depth(Engine)
      BY DepthIs, Facts DEF IInv, Keys
    <3>2. QED
      BY <1>1, <3>1, Facts DEF IInv, Phases
  <2>2. PICK k : key' = [key EXCEPT ![Engine][l] = k]
    BY <1>2 DEF OpenNext, Gives
  <2>3. rv' = IF l = 3 THEN [rv EXCEPT ![Engine] = "ok"] ELSE rv
    BY <1>2 DEF OpenNext
  <2>4. CASE l # 3
    <3>1. Goes(Engine, "pin") \/ Goes(Engine, "open")
      <4>1. CASE l = 1
        BY <1>2, <4>1, Facts DEF OpenNext
      <4>2. CASE l = 2
        BY <1>2, <4>2 DEF OpenNext, WantsPin
      <4>3. QED
        BY <2>1, <2>4, <4>1, <4>2, Facts
    <3>2. pc'[Engine] \in {"pin", "open"} /\ op'[Engine] = op[Engine]
      BY <3>1, GoesDoes, Facts DEF IInv, Places
    <3> HIDE DEF l
    <3>3. key'[Engine][3] = key[Engine][3]
      BY <2>1, <2>2, <2>4, Facts DEF IInv, TypeOK
    <3>4. ~EngineReady'
      BY <1>1, <3>3, Facts DEF EngineReady, IInv, Phases
    <3>5. QED
      BY <1>1, <3>2, <3>4, GoesOn
  <2>5. CASE l = 3
    <3>1. Goes(Engine, "idle")
      <4>1. l # 2 /\ Depth(Engine) + 1 = 3
        BY <2>5
      <4>2. QED
        BY <1>2, <4>1, Facts DEF OpenNext
    <3>2. pc'[Engine] = "idle" /\ rv'[Engine] = "ok"
      BY <2>3, <2>5, <3>1, GoesDoes, Facts DEF IInv, Places, TypeOK
    <3>3. EngineReady'
      <4>1. key' \in [Objects -> [Levels -> Handles \cup {Null}]] /\ key'[Engine][l] # Null
            /\ \A m \in Levels : m # l => key'[Engine][m] = key[Engine][m]
        <5>1. Gives(Engine, l) /\ UNCHANGED lib
          BY <1>2 DEF OpenNext, libVars
        <5>2. key[Engine][l] = Null /\ key[Engine][l - 1] # Null
          BY <2>1, <2>5, Facts
        <5> HIDE DEF l
        <5>3. QED
          BY <2>1, <5>1, <5>2, GivesKeeps, Facts DEF IInv
      <4>2. QED
        BY <2>1, <2>5, <4>1, Facts DEF EngineReady
    <3>4. QED
      BY <1>1, <3>2, <3>3, Returns
  <2>6. QED
    BY <2>4, <2>5
<1>3. CASE VerifyPin(Engine) \/ OpenFails(Engine)
  <2>1. key' = key /\ (Goes(Engine, "open") \/ Goes(Engine, "close"))
    BY <1>3 DEF VerifyPin, OpenFails
  <2>2. pc'[Engine] \in {"open", "close"} /\ op'[Engine] = op[Engine]
    BY <2>1, GoesDoes, Facts DEF IInv, Places
  <2>3. ~EngineReady'
    BY <1>1, <2>1 DEF EngineReady
  <2>4. QED
    BY <1>1, <2>2, <2>3, GoesOn
<1>4. QED
  BY <1>2, <1>3

LEMMA EngineCallSteps ==
  ASSUME IInv, Library \/ Refuse(Engine)
  PROVE  [TheEngine!Next]_(TheEngine!vars)
<1>1. CASE InitApi \/ InitEngine \/ UninitEngine
  <2>1. PICK operation \in {"initApi", "initEngine", "uninitEngine"}, answer \in Answers :
          Begins(Engine, operation, "close", answer) /\ key' = key
    BY <1>1 DEF InitApi, InitEngine, UninitEngine, Answers
  <2>2. /\ pc[Engine] = "idle" /\ pc'[Engine] = "close" /\ op'[Engine] = operation
        /\ EngineReady' = EngineReady
    BY <2>1, Facts DEF Begins, IInv, TypeOK, EngineReady
  <2>3. QED
    BY <2>2 DEF TheEngine!Next, TheEngine!Begin, TheEngine!Calls
<1>2. CASE LoadApi
  <2>1. pc[Engine] = "load" /\ op[Engine] = "initApi" /\ key[Engine] = NoKey
    BY <1>2, Facts DEF LoadApi, IInv, EngineCalls, Phases
  <2>2. key' = key /\ pc'[Engine] = "idle" /\ rv'[Engine] \in {"ok", "fail"}
    BY <1>2, GoesDoes, Facts DEF LoadApi, Answer, IInv, Places, TypeOK
  <2>3. ~EngineReady /\ ~EngineReady'
    BY <2>1, <2>2, NoKeyIs, Facts DEF EngineReady
  <2>4. QED
    BY <2>1, <2>2, <2>3, Returns
<1>3. CASE Uses(1) \/ Uses(3)
  <2>1. PICK a \in {"ok", "fail"} : (a = "ok" => EngineReady) /\ rv' = [rv EXCEPT ![Engine] = a]
    BY <1>3 DEF Uses
  <2>2. pc[Engine] = "idle" /\ pc' = pc /\ key' = key /\ rv'[Engine] = a
    BY <1>3, <2>1, Facts DEF Uses, IInv, TypeOK
  <2>3. EngineReady' = EngineReady
    BY <2>2 DEF EngineReady
  <2>4. QED
    BY <2>1, <2>2, <2>3 DEF TheEngine!Next, TheEngine!Use
<1>4. CASE Refuse(Engine)
  <2>1. pc[Engine] = "idle" /\ pc' = pc /\ key' = key /\ rv'[Engine] = "fail"
    BY <1>4, Facts DEF Refuse, IInv, TypeOK
  <2>2. EngineReady' = EngineReady
    BY <2>1 DEF EngineReady
  <2>3. QED
    BY <2>1, <2>2 DEF TheEngine!Next, TheEngine!Refuse
<1>5. QED
  BY <1>1, <1>2, <1>3, <1>4 DEF Library, Verify, Sign, Export

(* The engine implements KeyEngine (ImplementsEngine): it is ready from    *)
(* the moment initEngine returns SAR_OK to the next call that gives up its *)
(* key, and only a ready engine signs, verifies or exports; what the       *)
(* utilities do in between is not seen.                                    *)
THEOREM Implements == Spec => ImplementsEngine
<1>1. Init => TheEngine!Init
  BY Facts DEF Init, TheEngine!Init, EngineReady, NoKey
<1>2. IInv /\ [Next]_vars => [TheEngine!Next]_(TheEngine!vars)
  <2> SUFFICES ASSUME IInv, [Next]_vars PROVE [TheEngine!Next]_(TheEngine!vars)
    OBVIOUS
  <2>1. CASE Key
    BY <2>1, UtilsUnseen, EngineKeySteps, EngineOpenSteps, EngineCallSteps DEF Key, Objects
  <2>2. CASE Library
    BY <2>2, EngineCallSteps
  <2>3. CASE Check \/ Enumerate
    BY <2>3, UtilsUnseen
  <2>4. CASE UNCHANGED vars
    <3>1. UNCHANGED <<key, pc, op, rv>>
      BY <2>4 DEF vars, callVars
    <3>2. QED
      BY <3>1, Unseen DEF EngineReady
  <2>5. QED
    BY <2>1, <2>2, <2>3, <2>4 DEF Next, Aborted
<1>3. QED
  BY <1>1, <1>2, Invariance, PTL DEF Spec, ImplementsEngine, TheEngine!Spec

----------------------------------------------------------------------------
(* What enumAllInfo has found.                                             *)
Good == {p \in Paths : told[p] = "good"}

(* The names agree with those of the open path down to a level.            *)
Along(p, m) == \A i \in 1 .. m : p[i] = path[i]

(* The deepest level whose names are listed.                               *)
Deepest == IF pc[Utils] = "walk" THEN Len(path) + 1 ELSE Len(path)

(* A name that was listed and came to nothing yet is still to be tried, or *)
(* has just been opened.                                                   *)
Pending ==
  \A p \in Paths :
    told[p] = "listed" =>
      \/ Len(p) <= Deepest /\ Along(p, Len(p) - 1) /\ p[Len(p)] \in left[Len(p)]
      \/ pc[Utils] = "ask" /\ p = path

(* The lists hold what was good, each at the level where it leaves the     *)
(* open path.                                                              *)
Below(l) ==
  {p \in Good : /\ l <= Len(p) /\ l <= Len(path) + 1
                /\ Along(p, l - 1)
                /\ l <= Len(path) => p[l] # path[l]}
Sorted == \A l \in Levels : found[l] = Below(l)

(* Nothing good came yet of the names still to be tried.                   *)
Untried ==
  /\ \A l \in Levels, p \in Good : l <= Deepest /\ l <= Len(p) /\ Along(p, l - 1) => p[l] \notin left[l]
  /\ \A l \in 1 .. Len(path) : path[l] \notin left[l]

(* What is above the open path is good, and the path too while the walk is *)
(* below it; before that there is nothing good below.                      *)
Opening ==
  /\ \A p \in Paths : Len(p) < Len(path) /\ Along(p, Len(p)) => p \in Good
  /\ pc[Utils] = "walk" => path = <<>> \/ path \in Good
  /\ pc[Utils] # "walk" => \A p \in Good : Len(path) < Len(p) => ~Along(p, Len(path))

(* Between two libraries nothing is kept but the libraries that had a      *)
(* device.                                                                 *)
Reported ==
  /\ pc[Utils] \in {"devs", "walk", "ask", "leave"} => rv[Utils] = "ok"
  /\ infos # {} => pc[Utils] \in {"libs", "devs", "walk", "ask", "leave"} /\ rv[Utils] = "ok"

Enumerating ==
  /\ IF pc[Utils] \in {"walk", "ask", "leave"}
       THEN Pending /\ Sorted /\ Untried /\ Opening
       ELSE told = Unlisted /\ \A l \in Levels : found[l] = {}
  /\ Reported

(* A path is its names.                                                    *)
LEMMA PathsAre ==
  /\ \A p \in Paths : p \in Seq(Devs \cup Apps \cup Containers) /\ Len(p) \in {1, 2, 3}
  /\ \A p, q \in Paths : Len(p) = Len(q) /\ (\A i \in 1 .. Len(p) : p[i] = q[i]) => p = q
<1> DEFINE S == Devs \cup Apps \cup Containers
<1>1. \A p \in Paths : p \in Seq(S) /\ Len(p) \in {1, 2, 3}
  <2>1. ASSUME NEW d \in Devs PROVE <<d>> \in Seq(S) /\ Len(<<d>>) = 1
    OBVIOUS
  <2>2. ASSUME NEW d \in Devs, NEW a \in Apps PROVE <<d, a>> \in Seq(S) /\ Len(<<d, a>>) = 2
    OBVIOUS
  <2>3. ASSUME NEW d \in Devs, NEW a \in Apps, NEW c \in Containers
        PROVE  <<d, a, c>> \in Seq(S) /\ Len(<<d, a, c>>) = 3
    OBVIOUS
  <2> HIDE DEF S
  <2>4. ASSUME NEW p \in Devs \X Apps PROVE p \in Seq(S) /\ Len(p) = 2
    <3>1. PICK d \in Devs, a \in Apps : p = <<d, a>>
      OBVIOUS
    <3>2. QED
      BY <2>2, <3>1
  <2>5. ASSUME NEW p \in Devs \X Apps \X Containers PROVE p \in Seq(S) /\ Len(p) = 3
    <3>1. PICK d \in Devs, a \in Apps, c \in Containers : p = <<d, a, c>>
      OBVIOUS
    <3>2. QED
      BY <2>3, <3>1
  <2>6. QED
    BY <2>1, <2>4, <2>5 DEF Paths
<1>2. ASSUME NEW p \in Paths, NEW q \in Paths, Len(p) = Len(q), \A i \in 1 .. Len(p) : p[i] = q[i]
      PROVE  p = q
  <2> HIDE DEF S
  <2>1. QED
    BY <1>1, <1>2, SeqEqual
<1>3. QED
  BY <1>1, <1>2

LEMMA PathIsSeq == IInv => path \in Seq(Devs \cup Apps \cup Containers)
<1>1. <<>> \in Seq(Devs \cup Apps \cup Containers)
  OBVIOUS
<1>2. IInv => path \in Paths \cup {<<>>}
  BY DEF IInv, TypeOK
<1>3. QED
  BY <1>1, <1>2, PathsAre

LEMMA EnumRests ==
  ASSUME Enumerating, UNCHANGED <<left, path, found, told, infos>>, pc'[Utils] = pc[Utils], rv'[Utils] = rv[Utils]
  PROVE  Enumerating'
<1>1. /\ \A l \in Levels : Below(l)' = Below(l)
      /\ Deepest' = Deepest /\ Good' = Good /\ \A p, m : Along(p, m)' <=> Along(p, m)
  BY DEF Below, Deepest, Good, Along
<1>2. Pending => Pending'
  BY <1>1 DEF Pending
<1>3. Sorted => Sorted'
  BY <1>1 DEF Sorted
<1>4. Untried => Untried'
  BY <1>1 DEF Untried
<1>5. Opening => Opening'
  BY <1>1 DEF Opening
<1>6. Reported'
  BY DEF Enumerating, Reported
<1>7. QED
  BY <1>2, <1>3, <1>4, <1>5, <1>6 DEF Enumerating, Unlisted

LEMMA EnumOutside ==
  ASSUME Enumerating, pc[Utils] \notin {"walk", "ask", "leave"}, pc'[Utils] \notin {"walk", "ask", "leave"},
         UNCHANGED <<found, told>>, Reported'
  PROVE  Enumerating'
BY DEF Enumerating, Unlisted

(* The walk as Enter, Skip and the rest find it.                           *)
LEMMA EnumWalks ==
  ASSUME IInv, Enumerating, pc[Utils] \in {"walk", "ask", "leave"}
  PROVE  /\ Pending /\ Sorted /\ Untried /\ Opening /\ Reported
         /\ Len(path) \in 0 .. 3 /\ rv[Utils] = "ok"
         /\ \A p \in Paths : Len(p) \in {1, 2, 3}
         /\ Good \subseteq Paths
BY PathLength, PathsAre DEF Enumerating, IInv, TypeOK, Reported, Good

LEMMA EnterEnumerates ==
  ASSUME IInv, Enumerating, Enter
  PROVE  Enumerating'
<1>0. PICK k, l : k = Len(path) /\ l = Len(path) + 1
  OBVIOUS
<1>1. PICK n \in left[l] : left' = [left EXCEPT ![l] = @ \ {n}] /\ path' = Append(path, n)
  BY <1>0 DEF Enter
<1>2. /\ pc[Utils] = "walk" /\ k < 3 /\ pc'[Utils] = "ask"
      /\ UNCHANGED <<rv, found, told, infos>>
  BY <1>0, GoesDoes, Facts DEF Enter, IInv, Places
<1>3. /\ Pending /\ Sorted /\ Untried /\ Opening /\ Reported /\ rv[Utils] = "ok"
      /\ k \in 0 .. 2 /\ l = k + 1 /\ l \in Levels /\ (\A p \in Paths : Len(p) \in {1, 2, 3})
      /\ Good \subseteq Paths
  BY <1>0, <1>2, EnumWalks, Facts DEF Levels
<1>4. /\ path' \in Paths /\ Len(path') = l /\ path'[l] = n /\ \A i \in 1 .. k : path'[i] = path[i]
  <2>1. n \in Names[l]
    BY <1>1, <1>3 DEF IInv, TypeOK
  <2>2. path' \in Paths /\ Len(path') = l
    BY <1>0, <1>1, <1>2, <2>1, PathGrows DEF IInv, TypeOK
  <2>3. path \in Seq(Devs \cup Apps \cup Containers)
    BY PathIsSeq
  <2>4. path'[l] = n /\ \A i \in 1 .. k : path'[i] = path[i]
    BY <1>0, <1>1, <2>3
  <2>5. QED
    BY <2>2, <2>4
<1>5. left'[l] = left[l] \ {n} /\ (\A j \in Levels : j # l => left'[j] = left[j])
  BY <1>1, <1>3 DEF IInv, TypeOK
<1>6. Good' = Good /\ Deepest = l /\ Deepest' = l
  BY <1>0, <1>2, <1>4 DEF Good, Deepest
<1>7. /\ \A p, m : m \in 0 .. k => (Along(p, m)' <=> Along(p, m))
      /\ \A p : Along(p, l)' => Along(p, k) /\ p[l] = n
  <2>1. 1 .. l = (1 .. k) \cup {l}
    BY <1>3
  <2>2. ASSUME NEW p, NEW m \in 0 .. k PROVE Along(p, m)' <=> Along(p, m)
    <3>1. \A i \in 1 .. m : path'[i] = path[i]
      BY <1>3, <1>4
    <3>2. QED
      BY <3>1 DEF Along
  <2>3. ASSUME NEW p, Along(p, l)' PROVE Along(p, k) /\ p[l] = n
    <3>1. \A i \in 1 .. l : p[i] = path'[i]
      BY <2>3 DEF Along
    <3>2. QED
      BY <1>3, <1>4, <2>1, <3>1 DEF Along
  <2>4. QED
    BY <2>2, <2>3
<1>8. \A p \in Good : l <= Len(p) /\ Along(p, k) => p[l] # n
  BY <1>1, <1>3, <1>6, Facts DEF Untried
<1>9. Pending'
  <2>1. SUFFICES ASSUME NEW p \in Paths, told[p] = "listed"
                 PROVE  \/ Len(p) <= l /\ Along(p, Len(p) - 1)' /\ p[Len(p)] \in left'[Len(p)]
                        \/ p = path'
    BY <1>2, <1>6 DEF Pending
  <2>2. Len(p) \in 1 .. l /\ Along(p, Len(p) - 1) /\ p[Len(p)] \in left[Len(p)]
    <3>1. Len(p) <= l /\ Along(p, Len(p) - 1) /\ p[Len(p)] \in left[Len(p)]
      BY <1>2, <1>3, <1>6, <2>1 DEF Pending
    <3>2. Len(p) \in {1, 2, 3} /\ l \in 1 .. 3
      BY <1>3, <2>1
    <3>3. \A m \in {1, 2, 3} : m <= l => m \in 1 .. l
      BY <3>2
    <3>4. Len(p) \in 1 .. l
      BY <3>1, <3>2, <3>3
    <3>5. QED
      BY <3>1, <3>4
  <2>3. Along(p, Len(p) - 1)'
    BY <1>3, <1>7, <2>2
  <2>4. CASE Len(p) # l \/ p[Len(p)] # n
    BY <1>3, <1>5, <2>2, <2>3, <2>4, Facts
  <2>5. CASE Len(p) = l /\ p[l] = n
    <3>1. \A i \in 1 .. l : p[i] = path'[i]
      BY <1>3, <1>4, <2>2, <2>5 DEF Along
    <3>2. QED
      BY <1>4, <2>5, <3>1, PathsAre
  <2>6. QED
    BY <2>4, <2>5
<1>10. Sorted'
  <2>1. SUFFICES ASSUME NEW i \in Levels, NEW p \in Good PROVE p \in Below(i)' <=> p \in Below(i)
    BY <1>2, <1>3, <1>6 DEF Sorted, Below
  <2>2. CASE i <= k
    BY <1>0, <1>3, <1>4, <1>6, <1>7, <2>2, Facts DEF Below
  <2>3. CASE i = l
    BY <1>0, <1>3, <1>4, <1>6, <1>7, <1>8, <2>3, Facts DEF Below
  <2>4. CASE i = l + 1
    <3>1. i - 1 = l /\ ~(i <= k + 1)
      BY <1>3, <2>4
    <3>2. p \notin Below(i)
      BY <1>0, <3>1 DEF Below
    <3>3. l <= Len(p) => ~Along(p, l)'
      BY <1>7, <1>8
    <3>4. p \in Below(i)' => l <= Len(p) /\ Along(p, l)'
      BY <1>3, <2>4, <3>1, Facts DEF Below
    <3>5. QED
      BY <3>2, <3>3, <3>4
  <2>5. CASE i > l + 1
    BY <1>0, <1>3, <1>4, <1>6, <2>5, Facts DEF Below
  <2>6. QED
    BY <1>3, <2>2, <2>3, <2>4, <2>5, Facts
<1>11. Untried'
  <2>1. ASSUME NEW j \in Levels, NEW p \in Good, j <= l, j <= Len(p), Along(p, j - 1)'
        PROVE  p[j] \notin left'[j]
    <3>1. Along(p, j - 1)
      BY <1>3, <1>7, <2>1, Facts
    <3>2. p[j] \notin left[j]
      BY <1>6, <1>3, <2>1, <3>1 DEF Untried
    <3>3. QED
      BY <1>5, <3>2
  <2>2. ASSUME NEW j \in 1 .. l PROVE path'[j] \notin left'[j]
    <3>1. CASE j = l
      BY <1>4, <1>5, <3>1
    <3>2. CASE j # l
      BY <1>0, <1>3, <1>4, <1>5, <3>2, Facts DEF Untried
    <3>3. QED
      BY <3>1, <3>2
  <2>3. QED
    BY <1>4, <1>6, <2>1, <2>2 DEF Untried
<1>12. Opening'
  <2>1. ASSUME NEW p \in Paths, Len(p) < l, Along(p, Len(p))' PROVE p \in Good
    <3>1. Along(p, Len(p)) /\ Len(p) \in 1 .. k
      <4>1. Len(p) \in {1, 2, 3}
        BY <1>3
      <4>2. \A m \in {1, 2, 3} : m < l => m \in 1 .. k
        BY <1>3
      <4>3. Len(p) \in 1 .. k
        BY <2>1, <4>1, <4>2
      <4>4. QED
        BY <1>3, <1>7, <2>1, <4>3
    <3>2. CASE Len(p) < k
      BY <1>0, <1>3, <3>1, <3>2 DEF Opening
    <3>3. CASE Len(p) = k
      <4>1. path \in Paths
        BY <1>0, <1>3, <3>3, PathLength DEF IInv, TypeOK
      <4>2. p = path
        BY <1>0, <3>1, <3>3, <4>1, PathsAre DEF Along
      <4>3. path # <<>>
        BY <1>0, <3>1, <3>3
      <4>4. QED
        BY <1>2, <1>3, <4>2, <4>3 DEF Opening
    <3>4. QED
      BY <1>3, <3>1, <3>2, <3>3
  <2>2. ASSUME NEW p \in Good, l < Len(p) PROVE ~Along(p, l)'
    BY <1>3, <1>7, <1>8, <2>2
  <2>3. \A p \in Paths : Len(p) < Len(path') /\ Along(p, Len(p))' => p \in Good'
    BY <1>4, <1>6, <2>1
  <2>4. \A p \in Good' : Len(path') < Len(p) => ~Along(p, Len(path))'
    <3>1. \A p \in Good : l < Len(p) => ~Along(p, l)'
      BY <2>2
    <3>2. QED
      BY <1>4, <1>6, <3>1 DEF Along
  <2>5. QED
    BY <1>2, <2>3, <2>4 DEF Opening
<1>13. Reported'
  BY <1>2, <1>3 DEF Reported
<1>14. QED
  BY <1>2, <1>9, <1>10, <1>11, <1>12, <1>13 DEF Enumerating

(* At such a level the open path has left no list.                         *)
LEMMA PathApart ==
  ASSUME Len(path) \in 0 .. 3
  PROVE  \A l \in Levels : path \notin Below(l)
<1> SUFFICES ASSUME NEW l \in Levels, path \in Below(l) PROVE FALSE
  OBVIOUS
<1>1. l <= Len(path)
  BY DEF Below
<1>2. QED
  BY <1>1 DEF Below

LEMMA SkipEnumerates ==
  ASSUME IInv, Enumerating, Skip
  PROVE  Enumerating'
<1>0. PICK k, l : k = Len(path) /\ l = Len(path) + 1
  OBVIOUS
<1>1. PICK n \in left[l] : left' = [left EXCEPT ![l] = @ \ {n}] /\ Told(Append(path, n), "refused")
  BY <1>0 DEF Skip
<1>2. /\ pc[Utils] = "walk" /\ k < 3
      /\ UNCHANGED <<pc, rv, found, path, infos>>
  BY <1>0 DEF Skip, callVars
<1>3. /\ Pending /\ Sorted /\ Untried /\ Opening /\ Reported /\ rv[Utils] = "ok"
      /\ k \in 0 .. 2 /\ l = k + 1 /\ l \in Levels /\ (\A p \in Paths : Len(p) \in {1, 2, 3})
      /\ Good \subseteq Paths
  BY <1>0, <1>2, EnumWalks, Facts DEF Levels
<1>4. PICK q \in Paths : q = Append(path, n) /\ Len(q) = l /\ q[l] = n /\ \A i \in 1 .. k : q[i] = path[i]
  <2>1. n \in Names[l]
    BY <1>1, <1>3 DEF IInv, TypeOK
  <2>2. Append(path, n) \in Paths /\ Len(Append(path, n)) = l
    BY <1>0, <1>1, <1>2, <2>1, PathGrows DEF IInv, TypeOK
  <2>3. path \in Seq(Devs \cup Apps \cup Containers)
    BY PathIsSeq
  <2>4. Append(path, n)[l] = n /\ \A i \in 1 .. k : Append(path, n)[i] = path[i]
    BY <1>0, <2>3
  <2>5. QED
    BY <2>2, <2>4
<1>5. left'[l] = left[l] \ {n} /\ (\A j \in Levels : j # l => left'[j] = left[j])
  BY <1>1, <1>3 DEF IInv, TypeOK
<1>6. Deepest = l /\ Deepest' = l
  BY <1>0, <1>2 DEF Deepest
<1>7. \A p, m : Along(p, m)' <=> Along(p, m)
  BY <1>2 DEF Along
<1>8. told' = [told EXCEPT ![q] = "refused"] /\ Along(q, k) /\ k = l - 1
  BY <1>1, <1>3, <1>4 DEF Told, Along
<1>9. q \notin Good
  <2>1. l <= Len(q) /\ q[l] \in left[l]
    BY <1>1, <1>3, <1>4
  <2>2. QED
    BY <1>3, <1>6, <1>8, <2>1 DEF Untried
<1>10. Good' = Good
  BY <1>8, <1>9 DEF Good, IInv, TypeOK
<1>11. Pending'
  <2>1. SUFFICES ASSUME NEW p \in Paths, told'[p] = "listed"
                 PROVE  Len(p) <= l /\ Along(p, Len(p) - 1) /\ p[Len(p)] \in left'[Len(p)]
    BY <1>6, <1>7 DEF Pending
  <2>2. p # q /\ told[p] = "listed"
    BY <1>8, <2>1 DEF IInv, TypeOK
  <2>3. Len(p) <= l /\ Along(p, Len(p) - 1) /\ p[Len(p)] \in left[Len(p)]
    BY <1>2, <1>3, <1>6, <2>2 DEF Pending
  <2>4. CASE Len(p) = l /\ p[l] = n
    <3>1. \A i \in 1 .. l : p[i] = q[i]
      <4>1. \A i \in 1 .. k : p[i] = path[i]
        BY <1>8, <2>3, <2>4 DEF Along
      <4>2. QED
        BY <1>3, <1>4, <2>4, <4>1
    <3>2. QED
      BY <1>4, <2>2, <2>4, <3>1, PathsAre
  <2>5. CASE ~(Len(p) = l /\ p[l] = n)
    BY <1>3, <1>5, <2>3, <2>5, Facts
  <2>6. QED
    BY <2>4, <2>5
<1>12. Sorted'
  BY <1>2, <1>3, <1>7, <1>10 DEF Sorted, Below
<1>13. Untried'
  <2>1. \A j \in Levels : left'[j] \subseteq left[j]
    BY <1>5
  <2>2. \A j \in 1 .. Len(path) : j \in Levels
    BY <1>0, <1>3, Facts
  <2>3. QED
    BY <1>2, <1>3, <1>6, <1>7, <1>10, <2>1, <2>2 DEF Untried
<1>14. Opening' /\ Reported'
  BY <1>2, <1>3, <1>7, <1>10 DEF Opening, Reported
<1>15. QED
  BY <1>2, <1>11, <1>12, <1>13, <1>14 DEF Enumerating

(* What enumDev, enumApp and enumContainer answer.                         *)
LEMMA ListsTells ==
  ASSUME IInv, Len(path) < 3, Lists
  PROVE  \E some \in SUBSET Names[Len(path) + 1] :
           /\ left' = [left EXCEPT ![Len(path) + 1] = some]
           /\ \A n \in some : Append(path, n) \in Paths /\ told'[Append(path, n)] = "listed"
           /\ \A n \in some : Append(path, n)[Len(path) + 1] = n /\ Len(Append(path, n)) = Len(path) + 1
           /\ \A n \in some, i \in 1 .. Len(path) : Append(path, n)[i] = path[i]
           /\ path \in Paths => told'[path] = "good"
           /\ \A p \in Paths : p = path \/ (\E n \in some : p = Append(path, n)) \/ told'[p] = told[p]
<1>1. PICK some \in SUBSET Names[Len(path) + 1] :
        /\ left' = [left EXCEPT ![Len(path) + 1] = some]
        /\ told' = [p \in Paths |->
                      CASE p = path -> "good"
                        [] p \in {Append(path, n) : n \in some} -> "listed"
                        [] OTHER -> told[p]]
  BY DEF Lists
<1>2. path \in Paths \cup {<<>>}
  BY DEF IInv, TypeOK
<1>3. \A n \in some : Append(path, n) \in Paths /\ Len(Append(path, n)) = Len(path) + 1
  BY <1>2, PathGrows
<1>4. path \in Seq(Devs \cup Apps \cup Containers)
  BY PathIsSeq
<1>5. \A n \in some : /\ Append(path, n) # path /\ Append(path, n)[Len(path) + 1] = n
                      /\ \A i \in 1 .. Len(path) : Append(path, n)[i] = path[i]
  BY <1>3, <1>4
<1>6. \A n \in some : told'[Append(path, n)] = "listed"
  BY <1>1, <1>3, <1>5
<1>7. path \in Paths => told'[path] = "good"
  BY <1>1, <1>5
<1>8. \A p \in Paths : p = path \/ (\E n \in some : p = Append(path, n)) \/ told'[p] = told[p]
  BY <1>1
<1>9. QED
  BY <1>1, <1>3, <1>5, <1>6, <1>7, <1>8

LEMMA EnumDevEnumerates ==
  ASSUME IInv, Enumerating, EnumDev
  PROVE  Enumerating'
<1>1. /\ pc[Utils] = "devs" /\ Lists /\ pc'[Utils] = "walk"
      /\ UNCHANGED <<rv, found, path, infos>>
  BY GoesDoes, Facts DEF EnumDev, IInv, Places
<1>2. path = <<>> /\ Len(path) = 0 /\ told = Unlisted /\ Reported /\ \A l \in Levels : found[l] = {}
  BY <1>1 DEF IInv, Walking, Enumerating
<1>3. \A p \in Paths : Len(p) \in {1, 2, 3} /\ told[p] = "unlisted" /\ p # path
  <2>1. \A p \in Paths : Len(p) \in {1, 2, 3}
    BY PathsAre
  <2>2. \A p \in Paths : told[p] = "unlisted"
    BY <1>2 DEF Unlisted
  <2>3. \A p \in Paths : p # path
    BY <1>2, <2>1
  <2>4. QED
    BY <2>1, <2>2, <2>3
<1>4. PICK some \in SUBSET Names[1] :
        /\ left' = [left EXCEPT ![1] = some]
        /\ \A n \in some : Append(path, n) \in Paths /\ told'[Append(path, n)] = "listed"
        /\ \A n \in some : Append(path, n)[1] = n /\ Len(Append(path, n)) = 1
        /\ \A p \in Paths : p = path \/ (\E n \in some : p = Append(path, n)) \/ told'[p] = told[p]
  <2>1. Len(path) + 1 = 1 /\ Len(path) < 3
    BY <1>2
  <2>2. PICK some \in SUBSET Names[Len(path) + 1] :
          /\ left' = [left EXCEPT ![Len(path) + 1] = some]
          /\ \A n \in some : Append(path, n) \in Paths /\ told'[Append(path, n)] = "listed"
          /\ \A n \in some : Append(path, n)[Len(path) + 1] = n /\ Len(Append(path, n)) = Len(path) + 1
          /\ \A p \in Paths : p = path \/ (\E n \in some : p = Append(path, n)) \/ told'[p] = told[p]
    BY <1>1, <2>1, ListsTells
  <2>3. QED
    BY <2>1, <2>2
<1>5. Good' = {}
  BY <1>3, <1>4 DEF Good
<1>6. left'[1] = some /\ Deepest' = 1
  BY <1>1, <1>2, <1>4, Facts DEF Deepest, IInv, TypeOK
<1>7. Pending'
  <2>1. SUFFICES ASSUME NEW p \in Paths, told'[p] = "listed"
                 PROVE  Len(p) <= 1 /\ Along(p, Len(p) - 1)' /\ p[Len(p)] \in left'[Len(p)]
    BY <1>6 DEF Pending
  <2>2. PICK n \in some : p = Append(path, n)
    BY <1>3, <1>4, <2>1
  <2>3. Len(p) = 1 /\ p[1] \in left'[1]
    BY <1>4, <1>6, <2>2
  <2>4. QED
    BY <2>3 DEF Along
<1>8. Sorted' /\ Untried' /\ Opening' /\ Reported'
  BY <1>1, <1>2, <1>3, <1>5 DEF Sorted, Below, Untried, Opening, Reported
<1>9. QED
  BY <1>1, <1>7, <1>8 DEF Enumerating

LEMMA AskNamesEnumerates ==
  ASSUME IInv, Enumerating, AskNames, Len(path) < 3
  PROVE  Enumerating'
<1>0. PICK k, l : k = Len(path) /\ l = Len(path) + 1
  OBVIOUS
<1>1. /\ pc[Utils] = "ask" /\ Lists /\ pc'[Utils] = "walk"
      /\ UNCHANGED <<rv, found, path, infos>>
  BY GoesDoes, Facts DEF AskNames, IInv, Places
<1>2. /\ Pending /\ Sorted /\ Untried /\ Opening /\ Reported /\ rv[Utils] = "ok"
      /\ k \in 0 .. 2 /\ l = k + 1 /\ l \in Levels /\ (\A p \in Paths : Len(p) \in {1, 2, 3})
      /\ Good \subseteq Paths
  BY <1>0, <1>1, EnumWalks, Facts DEF Levels
<1>3. PICK some \in SUBSET Names[l] :
        /\ left' = [left EXCEPT ![l] = some]
        /\ \A n \in some : Append(path, n) \in Paths /\ told'[Append(path, n)] = "listed"
        /\ \A n \in some : Append(path, n)[l] = n /\ Len(Append(path, n)) = l
        /\ \A n \in some, i \in 1 .. k : Append(path, n)[i] = path[i]
        /\ path \in Paths => told'[path] = "good"
        /\ \A p \in Paths : p = path \/ (\E n \in some : p = Append(path, n)) \/ told'[p] = told[p]
  BY <1>0, <1>1, ListsTells
<1>4. left'[l] = some /\ (\A j \in Levels : j # l => left'[j] = left[j])
  BY <1>2, <1>3 DEF IInv, TypeOK
<1>5. Deepest = k /\ Deepest' = l
  BY <1>0, <1>1 DEF Deepest
<1>6. \A p, m : Along(p, m)' <=> Along(p, m)
  BY <1>1 DEF Along
<1>7. \A n \in some : Append(path, n) \notin Good
  <2>1. \A n \in some : k < Len(Append(path, n)) /\ Along(Append(path, n), k)
    BY <1>2, <1>3 DEF Along
  <2>2. QED
    BY <1>0, <1>1, <1>2, <2>1 DEF Opening
<1>8. Good \subseteq Good' /\ (\A p \in Good' : p = path \/ p \in Good) /\ (path \in Paths => path \in Good')
  <2>1. \A p \in Good : p \in Good'
    <3>1. SUFFICES ASSUME NEW p \in Good PROVE told'[p] = "good"
      BY <1>2 DEF Good
    <3>2. QED
      BY <1>2, <1>3, <1>7 DEF Good
  <2>2. \A p \in Good' : p = path \/ p \in Good
    BY <1>3 DEF Good
  <2>3. path \in Paths => path \in Good'
    BY <1>3 DEF Good
  <2>4. QED
    BY <2>1, <2>2, <2>3
<1>9. Pending'
  <2>1. SUFFICES ASSUME NEW p \in Paths, told'[p] = "listed"
                 PROVE  Len(p) <= l /\ Along(p, Len(p) - 1) /\ p[Len(p)] \in left'[Len(p)]
    BY <1>5, <1>6 DEF Pending
  <2>2. p # path
    BY <1>3, <2>1
  <2>3. CASE \E n \in some : p = Append(path, n)
    <3>1. Len(p) = l /\ p[l] \in left'[l] /\ \A i \in 1 .. k : p[i] = path[i]
      <4>1. PICK n \in some : p = Append(path, n)
        BY <2>3
      <4>2. Len(p) = l /\ p[l] = n /\ \A i \in 1 .. k : p[i] = path[i]
        BY <1>3, <4>1
      <4>3. QED
        BY <1>4, <4>2
    <3>2. Along(p, k) /\ k = l - 1
      BY <1>2, <3>1 DEF Along
    <3>3. QED
      BY <1>2, <3>1, <3>2
  <2>4. CASE told[p] = "listed"
    <3>1. Len(p) <= k /\ Along(p, Len(p) - 1) /\ p[Len(p)] \in left[Len(p)]
      BY <1>2, <1>5, <2>2, <2>4 DEF Pending
    <3>2. \A m \in {1, 2, 3} : m <= k => m <= l /\ m # l /\ m \in Levels
      BY <1>2, Facts
    <3>3. Len(p) <= l /\ Len(p) # l /\ Len(p) \in Levels
      BY <1>2, <3>1, <3>2
    <3>4. QED
      BY <1>4, <3>1, <3>3
  <2>5. QED
    BY <1>3, <2>1, <2>2, <2>3, <2>4
<1>10. Sorted'
  <2>1. \A i \in Levels : path \notin Below(i) /\ path \notin Below(i)'
    <3>1. \A i \in Levels : path \notin Below(i)
      BY <1>0, <1>2, PathApart
    <3>2. \A i \in Levels : i <= Len(path) + 1 /\ i <= Len(path) => ~(path[i] # path[i])
      OBVIOUS
    <3>3. \A i \in Levels : path \notin Below(i)'
      BY <1>1 DEF Below
    <3>4. QED
      BY <3>1, <3>3
  <2>2. \A i \in Levels : Below(i)' = Below(i)
    BY <1>1, <1>6, <1>8, <2>1 DEF Below
  <2>3. QED
    BY <1>1, <1>2, <2>2 DEF Sorted
<1>11. Untried'
  <2>1. ASSUME NEW j \in Levels, NEW p \in Good', j <= l, j <= Len(p), Along(p, j - 1) PROVE p[j] \notin left'[j]
    <3>1. CASE p = path
      <4>1. j \in 1 .. Len(path) /\ j # l
        BY <1>0, <1>2, <2>1, <3>1, Facts
      <4>2. QED
        BY <1>2, <1>4, <3>1, <4>1 DEF Untried
    <3>2. CASE p \in Good /\ j = l
      <4>1. Along(p, k) /\ k < Len(p)
        <5>1. \A m \in {1, 2, 3} : l <= m => k < m
          BY <1>2
        <5>2. k = j - 1
          BY <1>2, <3>2
        <5>3. QED
          BY <1>2, <2>1, <3>2, <5>1, <5>2
      <4>2. QED
        BY <1>0, <1>1, <1>2, <3>2, <4>1 DEF Opening
    <3>3. CASE p \in Good /\ j # l
      <4>1. j <= k
        BY <1>2, <2>1, <3>3, Facts
      <4>2. QED
        BY <1>2, <1>4, <1>5, <2>1, <3>3, <4>1 DEF Untried
    <3>4. QED
      BY <1>8, <3>1, <3>2, <3>3
  <2>2. \A j \in 1 .. Len(path) : path[j] \notin left'[j]
    <3>1. \A j \in 1 .. Len(path) : j \in Levels /\ j # l
      BY <1>0, <1>2, Facts
    <3>2. QED
      BY <1>2, <1>4, <3>1 DEF Untried
  <2>3. \A j \in Levels, p \in Good' : j <= l /\ j <= Len(p) /\ Along(p, j - 1) => p[j] \notin left'[j]
    BY <2>1
  <2>4. QED
    BY <1>1, <1>5, <1>6, <2>2, <2>3 DEF Untried
<1>12. Opening' /\ Reported'
  <2>1. path = <<>> \/ path \in Good'
    BY <1>8 DEF IInv, TypeOK
  <2>2. QED
    BY <1>1, <1>2, <1>6, <1>8, <2>1 DEF Opening, Reported
<1>13. QED
  BY <1>1, <1>9, <1>10, <1>11, <1>12 DEF Enumerating

LEMMA AsksEnumerates ==
  ASSUME IInv, Enumerating, AskFails \/ AskCert
  PROVE  Enumerating'
<1>0. PICK k : k = Len(path)
  OBVIOUS
<1>1. PICK verdict \in {"good", "mute"} :
        /\ pc[Utils] = "ask" /\ pc'[Utils] = "leave"
        /\ told' = [told EXCEPT ![path] = verdict]
        /\ UNCHANGED <<rv, left, found, path, infos>>
  <2>1. PICK verdict \in {"good", "mute"} :
          /\ pc[Utils] = "ask" /\ Goes(Utils, "leave") /\ Told(path, verdict)
          /\ UNCHANGED <<rv, left, found, path, infos>>
    BY DEF AskFails, AskCert, CertVerdicts
  <2>2. pc'[Utils] = "leave"
    BY <2>1, GoesDoes, Facts DEF IInv, Places
  <2>3. QED
    BY <2>1, <2>2 DEF Told
<1>2. /\ Pending /\ Sorted /\ Untried /\ Opening /\ Reported /\ rv[Utils] = "ok"
      /\ k \in 0 .. 3 /\ (\A p \in Paths : Len(p) \in {1, 2, 3}) /\ Good \subseteq Paths
  BY <1>0, <1>1, EnumWalks
<1>3. /\ \A p \in Paths : p # path => told'[p] = told[p]
      /\ path \in Paths => told'[path] = verdict
  BY <1>1 DEF IInv, TypeOK
<1>4. \A p \in Paths : p # path => (p \in Good' <=> p \in Good)
  BY <1>3 DEF Good
<1>5. Deepest = k /\ Deepest' = k /\ \A p, m : Along(p, m)' <=> Along(p, m)
  BY <1>0, <1>1 DEF Deepest, Along
<1>6. Pending'
  <2>1. SUFFICES ASSUME NEW p \in Paths, told'[p] = "listed"
                 PROVE  Len(p) <= k /\ Along(p, Len(p) - 1) /\ p[Len(p)] \in left[Len(p)]
    BY <1>1, <1>5 DEF Pending
  <2>2. p # path /\ told[p] = "listed"
    BY <1>1, <1>3, <2>1
  <2>3. QED
    BY <1>2, <1>5, <2>2 DEF Pending
<1>7. Sorted'
  <2>1. \A i \in Levels : path \notin Below(i) /\ path \notin Below(i)'
    <3>1. \A i \in Levels : path \notin Below(i)
      BY <1>0, <1>2, PathApart
    <3>2. \A i \in Levels : path \notin Below(i)'
      BY <1>1 DEF Below
    <3>3. QED
      BY <3>1, <3>2
  <2>2. Good' \subseteq Paths
    BY DEF Good
  <2>3. \A i \in Levels : Below(i)' = Below(i)
    <3>1. SUFFICES ASSUME NEW i \in Levels, NEW p \in Paths, p # path PROVE p \in Below(i)' <=> p \in Below(i)
      BY <1>2, <2>1, <2>2 DEF Below
    <3>2. QED
      BY <1>1, <1>4, <1>5, <3>1 DEF Below
  <2>4. QED
    BY <1>1, <1>2, <2>3 DEF Sorted
<1>8. Untried'
  <2>1. \A j \in 1 .. Len(path) : path[j] \notin left[j]
    BY <1>2 DEF Untried
  <2>2. ASSUME NEW j \in Levels, NEW p \in Good', j <= k, j <= Len(p), Along(p, j - 1) PROVE p[j] \notin left[j]
    <3>1. CASE p = path
      <4>1. j \in 1 .. Len(path)
        BY <1>0, <1>2, <2>2, Facts
      <4>2. QED
        BY <2>1, <3>1, <4>1
    <3>2. CASE p # path
      <4>1. p \in Good
        BY <1>4, <3>2 DEF Good
      <4>2. QED
        BY <1>2, <1>5, <2>2, <4>1 DEF Untried
    <3>3. QED
      BY <3>1, <3>2
  <2>3. \A j \in Levels, p \in Good' : j <= k /\ j <= Len(p) /\ Along(p, j - 1) => p[j] \notin left[j]
    BY <2>2
  <2>4. QED
    BY <1>1, <1>5, <2>1, <2>3 DEF Untried
<1>9. Opening'
  <2>1. ASSUME NEW p \in Paths, Len(p) < k, Along(p, Len(p)) PROVE p \in Good'
    <3>1. p \in Good /\ p # path
      BY <1>0, <1>2, <2>1 DEF Opening
    <3>2. QED
      BY <1>4, <3>1
  <2>2. ASSUME NEW p \in Good', k < Len(p) PROVE ~Along(p, k)
    <3>1. p \in Paths /\ p # path
      BY <1>0, <1>2, <2>2 DEF Good
    <3>2. QED
      BY <1>0, <1>1, <1>2, <1>4, <2>2, <3>1 DEF Opening
  <2>3. /\ \A p \in Paths : Len(p) < k /\ Along(p, Len(p)) => p \in Good'
        /\ \A p \in Good' : k < Len(p) => ~Along(p, k)
    BY <2>1, <2>2
  <2>4. QED
    BY <1>0, <1>1, <1>5, <2>3 DEF Opening
<1>10. Reported'
  BY <1>1, <1>2 DEF Reported
<1>11. QED
  BY <1>1, <1>6, <1>7, <1>8, <1>9, <1>10 DEF Enumerating

LEMMA LeaveEnumerates ==
  ASSUME IInv, Enumerating, Leave
  PROVE  Enumerating'
<1>0. PICK k : k = Len(path)
  OBVIOUS
<1>1. /\ path # <<>> /\ pc'[Utils] = "walk" /\ path' = Front(path)
      /\ pc[Utils] = "leave" \/ (pc[Utils] = "walk" /\ left[k + 1] = {})
      /\ found' = IF told[path] = "good" THEN Kept(k) ELSE found
      /\ UNCHANGED <<rv, left, told, infos>>
  BY <1>0, GoesDoes, Facts DEF Leave, MayLeave, AllTried, IInv, Places
<1>2. /\ Pending /\ Sorted /\ Untried /\ Opening /\ Reported /\ rv[Utils] = "ok"
      /\ k \in 1 .. 3 /\ (\A p \in Paths : Len(p) \in {1, 2, 3}) /\ Good \subseteq Paths
      /\ path \in Paths /\ k \in Levels
  <2>1. path \in Paths /\ Len(path) \in Levels
    BY <1>1, PathLength DEF IInv, TypeOK
  <2>2. QED
    BY <1>0, <1>1, <2>1, EnumWalks DEF Levels
<1>3. PICK m \in 0 .. 2 : m = k - 1
  BY <1>2
<1>4. Len(path') = m /\ \A i \in 1 .. m : path'[i] = path[i]
  <2>1. path \in Seq(Devs \cup Apps \cup Containers)
    BY <1>2, PathsAre
  <2>2. Front(path) = SubSeq(path, 1, k - 1)
    BY <1>0 DEF Front
  <2>3. QED
    BY <1>0, <1>1, <1>2, <1>3, <2>1, <2>2
<1>5. Good' = Good /\ Deepest' = k /\ k = m + 1 /\ (Deepest = k \/ (Deepest = k + 1 /\ left[k + 1] = {}))
  BY <1>0, <1>1, <1>3, <1>4 DEF Good, Deepest
<1>6. \A p, j : j \in 0 .. m => (Along(p, j)' <=> Along(p, j))
  <2>1. SUFFICES ASSUME NEW p, NEW j \in 0 .. m PROVE \A i \in 1 .. j : path'[i] = path[i]
    BY DEF Along
  <2>2. QED
    BY <1>3, <1>4
<1>7. \A p \in Paths : Along(p, m) /\ p[k] = path[k] => Along(p, k)
  <2>1. 1 .. k = (1 .. m) \cup {k}
    BY <1>2, <1>3
  <2>2. QED
    BY <2>1 DEF Along
<1>8. \A p \in Paths : Along(p, k) => p[k] = path[k] /\ Along(p, m)
  BY <1>2, <1>3 DEF Along
<1>9. \A p \in Paths : Along(p, k) /\ Len(p) = k => p = path
  BY <1>0, <1>2, PathsAre DEF Along
<1>10. Along(path, k) /\ Along(path, m)
  BY DEF Along
<1>11. Pending'
  <2>1. SUFFICES ASSUME NEW p \in Paths, told[p] = "listed"
                 PROVE  Len(p) <= k /\ Along(p, Len(p) - 1)' /\ p[Len(p)] \in left[Len(p)]
    BY <1>1, <1>5 DEF Pending
  <2>2. PICK j \in {1, 2, 3} : j = Len(p)
    BY <1>2
  <2>3. j <= Deepest /\ Along(p, j - 1) /\ p[j] \in left[j]
    BY <1>1, <1>2, <2>1, <2>2 DEF Pending
  <2>4. j <= k
    BY <1>2, <1>5, <2>3
  <2>5. Along(p, j - 1)'
    BY <1>3, <1>6, <2>3, <2>4
  <2>6. QED
    BY <2>2, <2>3, <2>4, <2>5
<1>12. \A i \in Levels : i < k => Below(i)' = Below(i)
  <2>1. SUFFICES ASSUME NEW i \in Levels, i < k, NEW p \in Good PROVE p \in Below(i)' <=> p \in Below(i)
    BY <1>5 DEF Below
  <2>2. i \in 1 .. m /\ i - 1 \in 0 .. m
    BY <1>2, <1>3, <2>1, Facts
  <2>3. QED
    BY <1>0, <1>2, <1>3, <1>4, <1>5, <1>6, <2>2 DEF Below
<1>13. \A i \in Levels : i > k => Below(i)' = {}
  BY <1>2, <1>4, <1>5, Facts DEF Below
<1>14. \A p \in Good : p \in Below(k)' <=> k <= Len(p) /\ Along(p, m)
  <2>1. ~(k <= Len(path')) /\ k <= Len(path') + 1
    BY <1>3, <1>4, <1>5
  <2>2. \A p : Along(p, k - 1)' <=> Along(p, m)
    BY <1>3, <1>6
  <2>3. QED
    BY <1>5, <2>1, <2>2 DEF Below
<1>15. \A p \in Good : p \in Below(k) <=> k <= Len(p) /\ Along(p, m) /\ p[k] # path[k]
  BY <1>0, <1>2, <1>3 DEF Below
<1>16. \A p \in Good : k + 1 \in Levels => (p \in Below(k + 1) <=> k < Len(p) /\ Along(p, k))
  <2>1. SUFFICES ASSUME NEW p \in Good, k + 1 \in Levels
                 PROVE  p \in Below(k + 1) <=> k < Len(p) /\ Along(p, k)
    OBVIOUS
  <2>2. ~(k + 1 <= Len(path)) /\ k + 1 <= Len(path) + 1 /\ (k + 1) - 1 = k
    BY <1>0, <1>2
  <2>3. \A n \in {1, 2, 3} : k + 1 <= n <=> k < n
    BY <1>2
  <2>4. QED
    BY <1>2, <2>2, <2>3 DEF Below
<1>17. Sorted'
  <2>1. CASE told[path] = "good"
    <3>1. /\ \A i \in Levels : i # k /\ i # k + 1 => found'[i] = found[i]
          /\ k # 3 => found'[k + 1] = {}
          /\ found'[k] = found[k] \cup {path} \cup (IF k = 3 THEN {} ELSE found[k + 1])
      BY <1>1, <1>2, <2>1, Facts DEF Kept
    <3>2. path \in Good
      BY <1>2, <2>1 DEF Good
    <3>3. k # 3 => k + 1 \in Levels
      BY <1>2, Facts
    <3>4. \A p \in Good : p \in found'[k] <=> p \in Below(k) \/ p = path \/ (k # 3 /\ p \in Below(k + 1))
      BY <1>2, <3>1, <3>3 DEF Sorted
    <3>5. \A p \in Good : p \in found'[k] <=> k <= Len(p) /\ Along(p, m)
      <4>1. SUFFICES ASSUME NEW p \in Good PROVE p \in found'[k] <=> k <= Len(p) /\ Along(p, m)
        OBVIOUS
      <4>2. PICK j \in {1, 2, 3} : j = Len(p)
        BY <1>2
      <4>3. p \in Paths
        BY <1>2
      <4>4. CASE ~(k <= j /\ Along(p, m))
        BY <1>0, <1>2, <1>8, <1>10, <1>15, <1>16, <3>3, <3>4, <4>2, <4>3, <4>4
      <4>5. CASE k <= j /\ Along(p, m) /\ p[k] # path[k]
        BY <1>15, <3>4, <4>2, <4>5
      <4>6. CASE k <= j /\ Along(p, m) /\ p[k] = path[k]
        <5>1. Along(p, k)
          BY <1>7, <4>3, <4>6
        <5>2. CASE j = k
          BY <1>9, <3>4, <4>2, <4>3, <4>6, <5>1, <5>2
        <5>3. CASE j # k
          <6>1. k < j /\ k # 3
            BY <1>2, <4>6, <5>3
          <6>2. QED
            BY <1>16, <3>3, <3>4, <4>2, <4>6, <5>1, <6>1
        <5>4. QED
          BY <5>2, <5>3
      <4>7. QED
        BY <4>4, <4>5, <4>6
    <3>6. found'[k] \subseteq Good
      BY <1>2, <3>1, <3>2, <3>3 DEF Sorted, Below
    <3>7. found'[k] = Below(k)'
      <4>1. Below(k)' \subseteq Good
        BY <1>5 DEF Below
      <4>2. QED
        BY <1>14, <3>5, <3>6, <4>1
    <3>8. \A i \in Levels : i # k => found'[i] = Below(i)'
      <4>1. SUFFICES ASSUME NEW i \in Levels, i # k PROVE found'[i] = Below(i)'
        OBVIOUS
      <4>2. CASE i < k
        BY <1>2, <1>12, <3>1, <4>1, <4>2, Facts DEF Sorted
      <4>3. CASE i = k + 1
        <5>1. i > k /\ k # 3
          BY <1>2, <4>1, <4>3, Facts
        <5>2. QED
          BY <1>13, <3>1, <4>3, <5>1
      <4>4. CASE i > k + 1
        <5>1. Below(i) = {}
          BY <1>0, <1>2, <4>4, Facts DEF Below
        <5>2. QED
          BY <1>2, <1>13, <3>1, <4>1, <4>4, <5>1, Facts DEF Sorted
      <4>5. QED
        BY <1>2, <4>1, <4>2, <4>3, <4>4, Facts
    <3>9. QED
      BY <3>7, <3>8 DEF Sorted
  <2>2. CASE told[path] # "good"
    <3>1. found' = found /\ path \notin Good
      BY <1>1, <2>2 DEF Good
    <3>2. pc[Utils] # "walk"
      BY <1>1, <1>2, <3>1 DEF Opening
    <3>3. \A p \in Good : k < Len(p) => ~Along(p, k)
      BY <1>0, <1>2, <3>2 DEF Opening
    <3>4. \A i \in Levels : i > k => Below(i) = {}
      <4>1. SUFFICES ASSUME NEW i \in Levels, i > k, NEW p \in Below(i) PROVE FALSE
        OBVIOUS
      <4>2. i = k + 1
        BY <1>0, <1>2, <4>1, Facts DEF Below
      <4>3. p \in Good
        BY <4>1 DEF Below
      <4>4. QED
        BY <1>16, <3>3, <4>1, <4>2, <4>3
    <3>5. Below(k)' = Below(k)
      <4>1. Below(k)' \subseteq Good /\ Below(k) \subseteq Good
        BY <1>5 DEF Below
      <4>2. \A p \in Good : k <= Len(p) /\ Along(p, m) => p[k] # path[k]
        <5>1. SUFFICES ASSUME NEW p \in Good, k <= Len(p), Along(p, m), p[k] = path[k] PROVE FALSE
          OBVIOUS
        <5>2. Along(p, k) /\ p \in Paths
          BY <1>2, <1>7, <5>1
        <5>3. PICK j \in {1, 2, 3} : j = Len(p)
          BY <1>2
        <5>4. j = k \/ k < j
          BY <1>2, <5>1, <5>3
        <5>5. QED
          BY <1>9, <3>1, <3>3, <5>2, <5>3, <5>4
      <4>3. QED
        BY <1>14, <1>15, <4>1, <4>2
    <3>6. QED
      <4>1. \A i \in Levels : i < k \/ i = k \/ i > k
        BY <1>2, Facts
      <4>2. QED
        BY <1>2, <1>12, <1>13, <3>1, <3>4, <3>5, <4>1 DEF Sorted
  <2>3. QED
    BY <2>1, <2>2
<1>18. Untried'
  <2>1. ASSUME NEW j \in Levels, NEW p \in Good, j <= k, j <= Len(p), Along(p, j - 1)' PROVE p[j] \notin left[j]
    <3>1. Along(p, j - 1)
      BY <1>2, <1>3, <1>6, <2>1, Facts
    <3>2. j <= Deepest
      BY <1>2, <1>5, <2>1, Facts
    <3>3. QED
      BY <1>2, <2>1, <3>1, <3>2 DEF Untried
  <2>2. \A j \in 1 .. m : path'[j] \notin left[j]
    <3>1. \A j \in 1 .. m : j \in 1 .. Len(path)
      BY <1>0, <1>2, <1>3
    <3>2. QED
      BY <1>2, <1>4, <3>1 DEF Untried
  <2>3. QED
    BY <1>1, <1>4, <1>5, <2>1, <2>2 DEF Untried
<1>19. Opening'
  <2>1. ASSUME NEW p \in Paths, Len(p) < m, Along(p, Len(p))' PROVE p \in Good
    <3>1. PICK j \in {1, 2, 3} : j = Len(p)
      BY <1>2
    <3>2. j \in 0 .. m /\ j < k
      BY <1>3, <1>5, <2>1, <3>1
    <3>3. Along(p, Len(p)) /\ Len(p) < Len(path)
      BY <1>0, <1>6, <2>1, <3>1, <3>2
    <3>4. QED
      BY <1>2, <3>3 DEF Opening
  <2>2. path' = <<>> \/ path' \in Good
    <3>1. path' \in Paths \cup {<<>>}
      BY <1>1, <1>2, PathShrinks
    <3>2. ASSUME path' \in Paths PROVE path' \in Good
      <4>1. Along(path', Len(path')) /\ Len(path') < Len(path)
        BY <1>0, <1>3, <1>4, <1>5 DEF Along
      <4>2. QED
        BY <1>2, <3>2, <4>1 DEF Opening
    <3>3. QED
      BY <3>1, <3>2
  <2>3. \A p \in Paths : Len(p) < Len(path') /\ Along(p, Len(p))' => p \in Good'
    BY <1>4, <1>5, <2>1
  <2>4. QED
    BY <1>1, <1>5, <2>2, <2>3 DEF Opening
<1>20. Reported'
  BY <1>1, <1>2 DEF Reported
<1>21. QED
  BY <1>1, <1>11, <1>17, <1>18, <1>19, <1>20 DEF Enumerating

LEMMA LibDoneEnumerates ==
  ASSUME IInv, Enumerating, LibDone
  PROVE  Enumerating'
<1>1. /\ pc[Utils] = "walk" /\ pc'[Utils] = "libs" /\ rv' = rv
      /\ told' = Unlisted /\ found' = [l \in Levels |-> {}]
  BY GoesDoes, Facts DEF LibDone, AllTried, IInv, Places
<1>2. Reported'
  BY <1>1 DEF Enumerating, Reported
<1>3. QED
  BY <1>1, <1>2 DEF Enumerating, Unlisted

LEMMA StepEnumerates ==
  ASSUME IInv, Enumerating, [Next]_vars
  PROVE  Enumerating'
<1> DEFINE Walks == {"walk", "ask", "leave"}
<1>1. \A place \in Places : Goes(Utils, place) => pc'[Utils] = place
  BY GoesDoes, Facts DEF IInv
<1>2. CASE Key
  <2>1. PICK o \in Objects :
          CloseKey(o) \/ KeyClosed(o) \/ OpenNext(o) \/ VerifyPin(o) \/ OpenFails(o) \/ Refuse(o)
    BY <1>2 DEF Key
  <2>2. UNCHANGED <<left, path, found, told, infos>>
    BY <2>1 DEF CloseKey, KeyClosed, OpenNext, VerifyPin, OpenFails, Refuse, enumVars, walkVars
  <2>3. CASE o = Engine
    <3>1. pc'[Utils] = pc[Utils]
      BY <2>1, <2>3, Facts
         DEF CloseKey, KeyClosed, OpenNext, VerifyPin, OpenFails, Refuse, Goes, callVars, IInv, TypeOK
    <3>2. rv'[Utils] = rv[Utils]
      BY <2>1, <2>3, Facts
         DEF CloseKey, KeyClosed, OpenNext, VerifyPin, OpenFails, Refuse, callVars, IInv, TypeOK
    <3>3. QED
      BY <2>2, <3>1, <3>2, EnumRests
  <2>4. CASE o = Utils
    <3>1. pc[Utils] \in {"close", "open", "pin", "idle"}
      BY <2>1, <2>4 DEF CloseKey, KeyClosed, OpenNext, VerifyPin, OpenFails, Refuse
    <3>2. pc'[Utils] \in {"close", "open", "pin", "idle", "load", "cert"}
      <4>1. CASE CloseKey(o) \/ Refuse(o)
        BY <2>4, <3>1, <4>1 DEF CloseKey, Refuse, callVars
      <4>2. CASE KeyClosed(o) \/ VerifyPin(o) \/ OpenFails(o)
        BY <1>1, <2>4, <4>2 DEF KeyClosed, VerifyPin, OpenFails, Places
      <4>3. CASE OpenNext(o)
        <5>1. PICK place : Goes(Utils, place) /\ place = CASE Depth(Utils) + 1 = 2 /\ WantsPin(Utils) -> "pin"
                             [] Depth(Utils) + 1 = 3 /\ Utils = Engine -> "idle"
                             [] Depth(Utils) + 1 = 3 /\ Utils = Utils -> "cert"
                             [] OTHER -> "open"
          BY <2>4, <4>3 DEF OpenNext
        <5>2. place \in {"pin", "idle", "cert", "open"}
          BY <5>1, Facts
        <5>3. QED
          BY <1>1, <5>1, <5>2 DEF Places
      <4>4. QED
        BY <2>1, <4>1, <4>2, <4>3
    <3>3. Reported'
      BY <2>2, <3>1, <3>2 DEF Enumerating, Reported
    <3>4. QED
      BY <2>2, <3>1, <3>2, <3>3, EnumOutside
  <2>5. QED
    BY <2>1, <2>3, <2>4 DEF Objects
<1>3. CASE Library
  <2>1. UNCHANGED <<left, path, found, told, infos>>
    BY <1>3 DEF Library, InitApi, LoadApi, InitEngine, UninitEngine, Verify, Sign, Export, Uses, enumVars, walkVars
  <2>2. pc'[Utils] = pc[Utils]
    BY <1>3, Facts DEF Library, InitApi, LoadApi, InitEngine, UninitEngine, Verify, Sign, Export, Uses, Begins, Goes,
       IInv, TypeOK
  <2>3. rv'[Utils] = rv[Utils]
    <3>1. CASE Uses(1) \/ Uses(3)
      <4>1. PICK a \in {"ok", "fail"} : rv' = [rv EXCEPT ![Engine] = a]
        BY <3>1 DEF Uses
      <4>2. QED
        BY <4>1, Facts DEF IInv, TypeOK
    <3>2. CASE InitApi \/ InitEngine \/ UninitEngine \/ LoadApi
      BY <3>2, Facts DEF InitApi, LoadApi, InitEngine, UninitEngine, Begins, Answer, IInv, TypeOK
    <3>3. QED
      BY <1>3, <3>1, <3>2 DEF Library, Verify, Sign, Export
  <2>4. QED
    BY <2>1, <2>2, <2>3, EnumRests
<1>4. CASE Check
  <2>1. UNCHANGED <<left, path, found, told, infos>>
    BY <1>4 DEF Check, CheckCert, LoadToCheck, CertChecked, CertFails, CertAnswers, CertAborts, enumVars, walkVars
  <2>2. pc[Utils] \in {"idle", "load", "cert"}
    BY <1>4 DEF Check, CheckCert, Begins, LoadToCheck, CertChecked, CertFails, CertAnswers, CertAborts
  <2>3. pc'[Utils] \in {"load", "close", "cert"}
    BY <1>1, <1>4, Facts DEF Check, CheckCert, Begins, LoadToCheck, CertChecked, CertFails, CertAnswers, CertAborts, callVars,
       Places, IInv, TypeOK
  <2>4. Reported'
    BY <2>1, <2>2, <2>3 DEF Enumerating, Reported
  <2>5. QED
    BY <2>1, <2>2, <2>3, <2>4, EnumOutside
<1>5. CASE EnumAll \/ LoadToWalk \/ EnumDone
  <2>1. UNCHANGED <<found, told>>
    BY <1>5 DEF EnumAll, LoadToWalk, EnumDone, walkVars
  <2>2. pc[Utils] \in {"idle", "libs"} /\ pc'[Utils] \in {"libs", "devs", "idle"}
    BY <1>1, <1>5, Facts DEF EnumAll, Begins, LoadToWalk, EnumDone, Places, IInv, TypeOK
  <2>3. Reported'
    <3>1. CASE EnumAll
      BY <3>1, <2>2, Facts DEF EnumAll, Begins, Enumerating, Reported, IInv, TypeOK
    <3>2. CASE EnumDone
      BY <1>1, <3>2 DEF EnumDone, Reported, Places
    <3>3. CASE LoadToWalk /\ lib'[Utils] = NoLib
      BY <3>3 DEF LoadToWalk, Enumerating, Reported
    <3>4. CASE LoadToWalk /\ lib'[Utils] # NoLib
      <4>1. rv'[Utils] = "ok" /\ pc'[Utils] = "devs"
        BY <1>1, <3>4, Facts DEF LoadToWalk, Places, IInv, TypeOK
      <4>2. QED
        BY <4>1 DEF Reported
    <3>5. QED
      BY <1>5, <3>1, <3>2, <3>3, <3>4
  <2>4. QED
    BY <2>1, <2>2, <2>3, EnumOutside
<1>6. CASE Enumerate /\ ~(EnumAll \/ LoadToWalk \/ EnumDone)
  <2>1. AskApps \/ AskContainers => AskNames /\ Len(path) < 3
    <3>1. \A n : n = 1 \/ n = 2 => n < 3
      OBVIOUS
    <3>2. AskApps \/ AskContainers => AskNames /\ (Len(path) = 1 \/ Len(path) = 2)
      BY Zenon DEF AskApps, AskContainers
    <3>3. QED
      BY <3>1, <3>2, Zenon
  <2>2. QED
    BY <1>6, <2>1, EnumDevEnumerates, EnterEnumerates, SkipEnumerates, AskNamesEnumerates, AsksEnumerates,
       LeaveEnumerates, LibDoneEnumerates DEF Enumerate
<1>7. CASE UNCHANGED vars
  <2>1. UNCHANGED <<left, path, found, told, infos, pc, rv>>
    BY <1>7 DEF vars, callVars, enumVars, walkVars
  <2>2. QED
    BY <2>1, EnumRests
<1>8. QED
  BY <1>2, <1>3, <1>4, <1>5, <1>6, <1>7 DEF Next, Aborted

(* When enumAllInfo is through with a library it has tried every name that *)
(* was listed, and devInfoList holds exactly those that could be opened    *)
(* and read; it fails only when no library loaded (EnumerationTrue).       *)
THEOREM EnumerationIsTrue == Spec => []EnumerationTrue
<1>1. Init => Enumerating
  BY Facts DEF Init, Enumerating, Reported
<1>2. IInv /\ Enumerating /\ [Next]_vars => Enumerating'
  BY StepEnumerates
<1>3. IInv /\ Enumerating => EnumerationTrue
  <2> SUFFICES ASSUME IInv, Enumerating PROVE EnumerationTrue
    OBVIOUS
  <2>1. ASSUME path = <<>>, AllTried
        PROVE  (\A p \in Paths : told[p] # "listed") /\ found[1] = Good
    <3>1. pc[Utils] = "walk" /\ Len(path) = 0 /\ left[1] = {}
      BY <2>1 DEF AllTried
    <3>2. Pending /\ Sorted /\ Deepest = 1 /\ (\A p \in Paths : Len(p) \in {1, 2, 3}) /\ Good \subseteq Paths
      BY <3>1, EnumWalks DEF Deepest
    <3>3. ASSUME NEW p \in Paths, told[p] = "listed" PROVE FALSE
      <4>1. Len(p) <= 1 /\ p[Len(p)] \in left[Len(p)]
        BY <3>1, <3>2, <3>3 DEF Pending
      <4>2. \A m \in {1, 2, 3} : m <= 1 => m = 1
        OBVIOUS
      <4>3. Len(p) = 1
        BY <3>2, <4>1, <4>2
      <4>4. QED
        BY <3>1, <4>1, <4>3
    <3>4. Below(1) = Good
      <4>1. ~(1 <= Len(path)) /\ 1 <= Len(path) + 1
        BY <3>1
      <4>2. \A p : Along(p, 1 - 1)
        BY DEF Along
      <4>3. \A p \in Good : 1 <= Len(p)
        BY <3>2
      <4>4. QED
        BY <4>1, <4>2, <4>3 DEF Below
    <3>5. QED
      BY <3>2, <3>3, <3>4, Facts DEF Sorted
  <2>2. pc[Utils] = "libs" /\ rv[Utils] = "fail" => infos = {}
    BY DEF Enumerating, Reported
  <2>3. QED
    BY <2>1, <2>2 DEF EnumerationTrue, Good
<1>4. QED
  BY <1>1, <1>2, <1>3, Invariance, PTL DEF Spec

=============================================================================
