----------------------------- MODULE MCStorage ------------------------------
(***************************************************************************)
(* The containers.  They share nothing, so that one run checks them all: a *)
(* behaviour is one of one of them.                                        *)
(***************************************************************************)
EXTENDS RingBuffer, IntArray, IntHeap, LinkList, BSTree

CONSTANTS hi, ok      \* messages

ShortAndLong == [m \in {hi, ok} |-> IF m = hi THEN 2 ELSE 40]
SmallInts == {-1, 0, 2, 3}

VARIABLE which        \* the container of this behaviour

vars == <<ringVars, arrayVars, heapVars, listVars, treeVars, which>>

Init == /\ which \in {"ring", "array", "heap", "list", "tree"}
        /\ RingInit /\ ArrayInit /\ HeapInit /\ ListInit /\ TreeInit
        /\ which # "array" => size = 0

RingSteps  == /\ which = "ring" /\ RingNext
              /\ UNCHANGED <<arrayVars, heapVars, listVars, treeVars, which>>
ArraySteps == /\ which = "array" /\ ArrayNext
              /\ UNCHANGED <<ringVars, heapVars, listVars, treeVars, which>>
HeapSteps  == /\ which = "heap" /\ HeapNext
              /\ UNCHANGED <<ringVars, arrayVars, listVars, treeVars, which>>
ListSteps  == /\ which = "list" /\ ListNext
              /\ UNCHANGED <<ringVars, arrayVars, heapVars, treeVars, which>>
TreeSteps  == /\ which = "tree" /\ TreeNext
              /\ UNCHANGED <<ringVars, arrayVars, heapVars, listVars, which>>

Next == RingSteps \/ ArraySteps \/ HeapSteps \/ ListSteps \/ TreeSteps

Spec == Init /\ [][Next]_vars

-----------------------------------------------------------------------------
(* The types of all containers, among them that no slot the text of the    *)
(* ring is made from is empty.                                             *)
StorageTypeOK == RingTypeOK /\ ArrayTypeOK /\ HeapTypeOK /\ ListTypeOK /\ TreeTypeOK

=============================================================================
