---------------------------- MODULE MallocTracker ----------------------------
(***************************************************************************)
(* What the leak checker promises: the program's calls take effect one at  *)
(* a time, and a report lists exactly the blocks that are not freed.       *)
(***************************************************************************)
CONSTANTS Block,      \* addresses
          Size,       \* sizes the program asks for
          NoSize      \* the "size" of an address that is not allocated

VARIABLES blocks,     \* what the program has allocated and not freed
          reported    \* the last report

vars == <<blocks, reported>>

NoBlocks == [b \in Block |-> NoSize]

Init == blocks = NoBlocks /\ reported = NoBlocks

Allocate(b, n) == /\ blocks[b] = NoSize
                  /\ blocks' = [blocks EXCEPT ![b] = n]
                  /\ UNCHANGED reported

Free(b) == /\ blocks[b] # NoSize
           /\ blocks' = [blocks EXCEPT ![b] = NoSize]
           /\ UNCHANGED reported

(* The block moves from b to c, or stays where it is and changes its size. *)
Reallocate(b, c, n) ==
  /\ blocks[b] # NoSize
  /\ c = b \/ blocks[c] = NoSize
  /\ blocks' = [x \in Block |-> CASE x = c -> n [] x = b /\ x # c -> NoSize
                                  [] OTHER -> blocks[x]]
  /\ UNCHANGED reported

Report == reported' = blocks /\ UNCHANGED blocks

Next == \/ \E b \in Block : Free(b) \/ \E n \in Size : Allocate(b, n)
        \/ \E b, c \in Block, n \in Size : Reallocate(b, c, n)
        \/ Report

Spec == Init /\ [][Next]_vars

=============================================================================
