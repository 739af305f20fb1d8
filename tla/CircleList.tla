----------------------------- MODULE CircleList -----------------------------
(***************************************************************************)
(* circleList (src/include/libutils/circleList.hpp): the last elements put *)
(* into a ring in memory that the caller gives, which readers search while *)
(* its one writer writes.                                                  *)
(*                                                                         *)
(* The memory is a record [headPos, data]; it is as large as the caller's  *)
(* segment and what follows it.  A list is that memory and a maxLength.    *)
(***************************************************************************)
EXTENDS Integers, FiniteSets, Functions

CONSTANTS
  Zero,  \* an element with ip 0
  Byte   \* the values of headPos and pos: 256

ASSUME ByteAssumption == Byte \in Nat \ {0}

(* The tolerance for a head that has flown away: it lets maxLength pass.   *)
Start(headPos, maxLength) == IF headPos > maxLength THEN 0 ELSE headPos

Before(pos, maxLength) == (IF pos = 0 THEN maxLength - 1 ELSE pos - 1) % Byte

(* Mutant: the ring is one longer. *)
AfterLonger(pos, maxLength) == (IF pos = maxLength THEN 0 ELSE pos + 1) % Byte

After(pos, maxLength) == (IF pos = maxLength - 1 THEN 0 ELSE pos + 1) % Byte

(* insert, in the order of its writes: an empty list takes the value where *)
(* it is, the last value is not taken again, and any other goes behind it. *)
TakesFirst(r, maxLength) == Start(r.headPos, maxLength) = 0 /\ r.data[0] = Zero
TakenAlready(r, v, maxLength) ==
  ~TakesFirst(r, maxLength) /\ r.data[Start(r.headPos, maxLength)] = v
Cell(r, maxLength) == IF TakesFirst(r, maxLength) THEN 0
                      ELSE After(Start(r.headPos, maxLength), maxLength)

Written(r, v, maxLength) == [r EXCEPT !.data[Cell(r, maxLength)] = v]
Advanced(r, maxLength) == [r EXCEPT !.headPos = After(Start(@, maxLength), maxLength)]

(* clear is a memset of headPos and of every element, as maxLength comes   *)
(* from the size of the memory; nothing promises an order of its writes.   *)
HeadPos == -1
Pieces(maxLength) == {HeadPos} \cup 0 .. maxLength - 1
Zeroed(r, piece) ==
  IF piece = HeadPos THEN [r EXCEPT !.headPos = 0] ELSE [r EXCEPT !.data[piece] = Zero]

(* Mutant: the loop ends one round early. *)
LooksShort(r, v, s, maxLength) ==
  IF s.i = maxLength - 1 THEN [s EXCEPT !.at = "missed"]
  ELSE IF r.data[s.pos] = Zero THEN [s EXCEPT !.at = "missed"]
  ELSE IF r.data[s.pos] = v THEN [s EXCEPT !.at = "found"]
  ELSE [s EXCEPT !.pos = Before(s.pos, maxLength), !.i = @ + 1]

(* The loop of checkValueExist with its read of one element: what becomes  *)
(* of a search at pos that has made i rounds.                              *)
Looks(r, v, s, maxLength) ==
  IF s.i = maxLength THEN [s EXCEPT !.at = "missed"]
  ELSE IF r.data[s.pos] = Zero THEN [s EXCEPT !.at = "missed"]
  ELSE IF r.data[s.pos] = v THEN [s EXCEPT !.at = "found"]
  ELSE [s EXCEPT !.pos = Before(s.pos, maxLength), !.i = @ + 1]

(* size: the elements from the head back to an empty one.                  *)
Size(r, maxLength) ==
  LET back[i \in 0 .. maxLength - 1] ==
        IF i = 0 THEN Start(r.headPos, maxLength) ELSE Before(back[i - 1], maxLength)
  IN  Cardinality({i \in 0 .. maxLength - 1 : \A j \in 0 .. i : r.data[back[j]] # Zero})
============================================================================
