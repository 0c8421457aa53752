------------------------------ MODULE IntHeap -------------------------------
(***************************************************************************)
(* Storage/linear/array/heap.c: the two operations it has, on an array     *)
(* that is full.  They exchange elements by a product and two quotients in *)
(* ints of a given width.  arr[-1] and a quotient by 0 are undefined       *)
(* behaviour: what the program does then is not modelled.                  *)
(***************************************************************************)
EXTENDS Integers, FiniteSets

CONSTANTS HeapSize,   \* heap->size
          HeapVal,    \* the values put into the array
          HalfWord    \* ints are -HalfWord .. HalfWord - 1

ASSUME HeapAssumption == /\ HeapSize \in Nat \ {0} /\ HalfWord \in Nat \ {0}
                         /\ HeapVal \subseteq -HalfWord .. HalfWord - 1

VARIABLES nodes,      \* heap->arr
          hpc         \* "empty", "filled" or "undefined"

heapVars == <<nodes, hpc>>

Index == 0 .. HeapSize - 1
Word == -HalfWord .. HalfWord - 1

HeapInit == nodes = [n \in Index |-> 0] /\ hpc = "empty"

(* create_heap and int_array_add                                           *)
Fill(f) == hpc = "empty" /\ nodes' = f /\ hpc' = "filled"

-----------------------------------------------------------------------------
LeftNodeIndex(n)   == IF n >= 0 /\ 2 * n + 1 < HeapSize THEN 2 * n + 1 ELSE -1
RightNodeIndex(n)  == IF n >= 0 /\ 2 * n + 2 < HeapSize THEN 2 * n + 2 ELSE -1
ParentNodeIndex(n) == IF n > 0 THEN (n - 1) \div 2 ELSE -1

(* Products wrap round, quotients are cut towards zero.                    *)
Times(x, y) == ((x * y + HalfWord) % (2 * HalfWord)) - HalfWord

Abs(x) == IF x < 0 THEN -x ELSE x

By(x, y) == IF (x < 0) = (y < 0) THEN Abs(x) \div Abs(y) ELSE -(Abs(x) \div Abs(y))

CanExchange(h, a, b) ==
  LET p == Times(h[a], h[b])
      q == By(p, h[b])
  IN  h[b] # 0 /\ q \in Word \ {0} /\ By(p, q) \in Word

(* A mutant: the second quotient is taken by the old value.                *)
ExchangedByOld(h, a, b) ==
  LET p == Times(h[a], h[b])
  IN  [h EXCEPT ![b] = By(p, h[b]), ![a] = By(p, h[b])]

Exchanged(h, a, b) ==
  LET p == Times(h[a], h[b])
      q == By(p, h[b])
  IN  [h EXCEPT ![b] = q, ![a] = By(p, q)]

Undefined == hpc' = "undefined" /\ UNCHANGED nodes

Exchange(h, a, b) == IF CanExchange(h, a, b)
                     THEN nodes' = Exchanged(h, a, b) /\ UNCHANGED hpc
                     ELSE Undefined

ShiftUp(n) ==
  /\ hpc = "filled"
  /\ LET parent == ParentNodeIndex(n)
     IN  parent >= 0 /\ nodes[n] < nodes[parent] /\ Exchange(nodes, n, parent)

(* The right child is compared with the left one, if that took the node's  *)
(* value, else with arr[-1].                                               *)
ShiftDown(n) ==
  /\ hpc = "filled"
  /\ LET left  == LeftNodeIndex(n)
         right == RightNodeIndex(n)
     IN  IF left < 0 \/ right < 0 \/ nodes[n] <= nodes[left]
            \/ ~CanExchange(nodes, n, left)
         THEN Undefined
         ELSE LET h == Exchanged(nodes, n, left)
              IN  IF h[left] > h[right] THEN Exchange(h, left, right)
                  ELSE nodes' = h /\ UNCHANGED hpc

HeapNext == \/ \E f \in [Index -> HeapVal] : Fill(f)
            \/ \E n \in Index : ShiftUp(n) \/ ShiftDown(n)

HeapSpec == HeapInit /\ [][HeapNext]_heapVars

-----------------------------------------------------------------------------
HeapTypeOK == nodes \in [Index -> Word] /\ hpc \in {"empty", "filled", "undefined"}

(* heap_shift_up, heap_shift_down: as long as the products of two elements *)
(* are ints and none is 0, a step moves values about and loses none.       *)
Count(h, v) == Cardinality({n \in Index : h[n] = v})

Exact == \A a, b \in Index : a # b => nodes[a] * nodes[b] \in Word \ {0}

HeapKeepsValues ==
  [][hpc = "filled" /\ Exact => \A v \in Word : Count(nodes', v) = Count(nodes, v)]_heapVars

=============================================================================
