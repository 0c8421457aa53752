------------------------------ MODULE IntArray ------------------------------
(***************************************************************************)
(* Storage/linear/array/intarray.c: an array of `capacity` integers in a   *)
(* block meant for `size` of them.  A call is a walk of its own, as its    *)
(* loops move the elements one by one.  An access beyond the block is      *)
(* undefined behaviour: what the program does then is not modelled.        *)
(***************************************************************************)
EXTENDS Integers, Sequences

CONSTANTS ArrayVal,      \* values
          Unset,         \* the contents of fresh memory
          FirstSizes,    \* sizes arrays are created with
          MaxCapacity    \* bound: elements

ASSUME ArrayValAssumption == Unset \notin ArrayVal
ASSUME SizesAssumption    == FirstSizes \subseteq Nat /\ MaxCapacity \in Nat

VARIABLES arr,           \* the block: ints by their index
          size,          \* what the code takes for its length
          capacity,      \* elements
          apc,           \* inside which loop
          i, index, val  \* the locals of int_array_add and int_array_remove

arrayVars == <<arr, size, capacity, apc, i, index, val>>

Block(n) == [k \in 0 .. n - 1 |-> Unset]

Copied(n) == [k \in 0 .. n - 1 |-> IF k < capacity THEN arr[k] ELSE Unset]

ArrayInit == \E n \in FirstSizes \cup {0} :
               /\ arr = Block(n) /\ size = n /\ capacity = 0
               /\ apc = "idle" /\ i = 0 /\ index = 0 /\ val = Unset

-----------------------------------------------------------------------------
(* int_array_grow for one more element; if it fails, int_array_add returns *)
(* and nothing has changed: no step.                                       *)
Grown == IF capacity + 1 <= size
         THEN UNCHANGED <<arr, size>>
         ELSE arr' = Copied(2 * size) /\ size' = 2 * size

AddCall(n, v) ==
  /\ apc = "idle" /\ n \in 0 .. capacity /\ capacity < MaxCapacity
  /\ Grown
  /\ apc' = "shift" /\ i' = capacity /\ index' = n /\ val' = v
  /\ UNCHANGED capacity

ShiftOne == /\ apc = "shift" /\ i > index /\ i \in DOMAIN arr
            /\ arr' = [arr EXCEPT ![i] = arr[i - 1]]
            /\ i' = i - 1
            /\ UNCHANGED <<size, capacity, apc, index, val>>

Store == /\ apc = "shift" /\ i <= index /\ index \in DOMAIN arr
         /\ arr' = [arr EXCEPT ![index] = val]
         /\ capacity' = capacity + 1 /\ apc' = "idle"
         /\ UNCHANGED <<size, i, index, val>>

(* A write beyond the block.                                               *)
WriteBeyond == /\ apc = "shift" /\ i \notin DOMAIN arr
               /\ apc' = "undefined"
               /\ UNCHANGED <<arr, size, capacity, i, index, val>>

-----------------------------------------------------------------------------
(* int_array_find: the last of the elements equal to v.                    *)
Equal(v) == {k \in 0 .. capacity - 1 : arr[k] = v}

Find(v) == {k \in Equal(v) : \A j \in Equal(v) : j <= k}

RemoveCall(v) ==
  /\ apc = "idle"
  /\ apc' = "find" /\ val' = v
  /\ UNCHANGED <<arr, size, capacity, i, index>>

(* A mutant: the place is one too far.                                     *)
FoundBehind == /\ apc = "find" /\ i' \in {k + 1 : k \in Find(val)} /\ i' < capacity
               /\ apc' = "close"
               /\ UNCHANGED <<arr, size, capacity, index, val>>

Found == /\ apc = "find" /\ i' \in Find(val)
         /\ apc' = "close"
         /\ UNCHANGED <<arr, size, capacity, index, val>>

Missed == /\ apc = "find" /\ Equal(val) = {}
          /\ apc' = "idle"
          /\ UNCHANGED <<arr, size, capacity, i, index, val>>

CloseOne == /\ apc = "close" /\ i < capacity - 1
            /\ arr' = [arr EXCEPT ![i] = arr[i + 1]]
            /\ i' = i + 1
            /\ UNCHANGED <<size, capacity, apc, index, val>>

(* int_array_reduce: nothing to do, or no memory.                          *)
NotReduced == UNCHANGED <<arr, size>> /\ apc' = "idle"

(* It asks for 2*n bytes, which hold n \div 2 ints, and copies n.          *)
Room(n) == (2 * n) \div 4

Reduced(n) == /\ 4 * n <= size
              /\ IF n <= Room(n)
                 THEN arr' = Copied(Room(n)) /\ size' = 2 * n /\ apc' = "idle"
                 ELSE UNCHANGED <<arr, size>> /\ apc' = "undefined"

Close == /\ apc = "close" /\ i >= capacity - 1
         /\ capacity' = capacity - 1
         /\ NotReduced \/ Reduced(capacity - 1)
         /\ UNCHANGED <<i, index, val>>

(* int_array_destory; the mutant leaves the elements counted.              *)
DestroyKeeps == /\ apc = "idle"
                /\ arr' = Block(0) /\ size' = 0
                /\ UNCHANGED <<capacity, apc, i, index, val>>

Destroy == /\ apc = "idle"
           /\ arr' = Block(0) /\ size' = 0 /\ capacity' = 0
           /\ UNCHANGED <<apc, i, index, val>>

ArrayNext == \/ \E n \in 0 .. MaxCapacity, v \in ArrayVal : AddCall(n, v)
             \/ ShiftOne \/ Store \/ WriteBeyond
             \/ \E v \in ArrayVal : RemoveCall(v)
             \/ Found \/ Missed \/ CloseOne \/ Close
             \/ Destroy

ArraySpec == ArrayInit /\ [][ArrayNext]_arrayVars

-----------------------------------------------------------------------------
ArrayTypeOK ==
  /\ size \in Nat /\ capacity \in Nat /\ index \in Nat /\ i \in Nat
  /\ arr \in [DOMAIN arr -> ArrayVal \cup {Unset}]
  /\ apc \in {"idle", "shift", "find", "close", "undefined"}
  /\ val \in ArrayVal \cup {Unset}

(* int_array_grow and int_array_reduce: the elements lie within the block, *)
(* and size is its length.  What leaves it is an addition to an array of   *)
(* size 0, which doubling does not change, and every removal after which   *)
(* a quarter is left, but for the last element.                            *)
ArrayInBlock ==
  IF apc = "undefined" THEN size = 0 \/ (capacity > 0 /\ 4 * capacity <= size)
  ELSE DOMAIN arr = 0 .. size - 1 /\ capacity <= size

(* Refinement: int_array_add puts its value where it was asked to, and     *)
(* int_array_remove takes out an element equal to its value if there is    *)
(* one, whatever loop they are in.  An element being put in appears with   *)
(* its store, one being taken out is gone when it has been found.          *)
Elements ==
  LET hole == IF apc \in {"shift", "close"} THEN i ELSE capacity
      n    == IF apc = "close" THEN capacity - 1 ELSE capacity
  IN  [k \in 1 .. n |-> IF k <= hole THEN arr[k - 1] ELSE arr[k]]

ArrayCall == CASE apc = "shift" -> <<"add", index, val>>
               [] apc = "find"  -> <<"remove", 0, val>>
               [] OTHER         -> <<>>

SameValue == {<<v, v>> : v \in ArrayVal}

ArrayList == INSTANCE IntList WITH Val <- ArrayVal, Meant <- SameValue,
                                   list <- Elements, call <- ArrayCall

ArrayIsList == ArrayList!Spec

=============================================================================
