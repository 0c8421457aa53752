------------------------------- MODULE BSTree -------------------------------
(***************************************************************************)
(* Storage/tree/tree.c.  A node is known by its place: the turns that lead *)
(* to it from the root.                                                    *)
(***************************************************************************)
EXTENDS Integers, Sequences

CONSTANTS TreeVal,    \* values
          MaxAdds     \* bound: how often each is added

ASSUME TreeAssumption == TreeVal \subseteq Int /\ MaxAdds \in Nat

VARIABLES tree,       \* the nodes: places to [val, count]
          treeSize,   \* tree->size
          treeDepth,  \* tree->depth
          place, new, \* where BSTree_add has come to with its node
          tpc,        \* "idle" or "add"
          added       \* history: how often each value was added

treeVars == <<tree, treeSize, treeDepth, place, new, tpc, added>>

TreeInit == /\ tree = [p \in {} |-> 0] /\ treeSize = 0 /\ treeDepth = 0
            /\ place = <<>> /\ new = 0 /\ tpc = "idle"
            /\ added = [v \in TreeVal |-> 0]

(* make_node, which must not fail, and the call.                           *)
TreeAdd(v) == /\ tpc = "idle" /\ added[v] < MaxAdds
              /\ place' = <<>> /\ new' = v /\ tpc' = "add"
              /\ added' = [added EXCEPT ![v] = @ + 1]
              /\ UNCHANGED <<tree, treeSize, treeDepth>>

Here == tpc = "add" /\ place \in DOMAIN tree

(* A mutant: an equal value goes to the right as well.                     *)
DescendEqual == /\ Here
                /\ place' = Append(place, IF tree[place].val > new THEN "left" ELSE "right")
                /\ UNCHANGED <<tree, treeSize, treeDepth, new, tpc, added>>

Descend == /\ Here /\ tree[place].val # new
           /\ place' = Append(place, IF tree[place].val > new THEN "left" ELSE "right")
           /\ UNCHANGED <<tree, treeSize, treeDepth, new, tpc, added>>

CountOneMore == /\ Here /\ tree[place].val = new
                /\ tree' = [tree EXCEPT ![place].count = @ + 1]
                /\ tpc' = "idle"
                /\ UNCHANGED <<treeSize, treeDepth, place, new, added>>

(* The new node; depth is counted like size.                               *)
Attach == /\ tpc = "add" /\ place \notin DOMAIN tree
          /\ tree' = [p \in DOMAIN tree \cup {place} |->
                        IF p = place THEN [val |-> new, count |-> 1] ELSE tree[p]]
          /\ treeSize' = treeSize + 1 /\ treeDepth' = treeDepth + 1
          /\ tpc' = "idle"
          /\ UNCHANGED <<place, new, added>>

TreeNext == (\E v \in TreeVal : TreeAdd(v)) \/ Descend \/ CountOneMore \/ Attach

TreeSpec == TreeInit /\ [][TreeNext]_treeVars

-----------------------------------------------------------------------------
TreeTypeOK == /\ \A p \in DOMAIN tree : /\ p \in Seq({"left", "right"})
                                        /\ tree[p].val \in TreeVal /\ tree[p].count \in Nat
              /\ treeSize \in Nat /\ treeDepth \in Nat
              /\ place \in Seq({"left", "right"}) /\ new \in TreeVal \cup {0}
              /\ tpc \in {"idle", "add"} /\ added \in [TreeVal -> Nat]

(* What print_BSTree prints, from a place on.                              *)
Longest == LET lens == {Len(p) : p \in DOMAIN tree} \cup {0}
           IN  CHOOSE n \in lens : \A m \in lens : m <= n

Printed ==
  LET places == UNION {[1 .. n -> {"left", "right"}] : n \in 0 .. Longest + 1}
      from[p \in places] == IF p \notin DOMAIN tree THEN <<>>
                            ELSE from[Append(p, "left")] \o <<tree[p]>>
                                 \o from[Append(p, "right")]
  IN  from[<<>>]

(* BSTree_add, print_BSTree: between two calls the tree prints every value *)
(* that was added once, in increasing order, with how often it was; size   *)
(* is the number of different values, which is what depth says as well.    *)
TreePrintsSorted ==
  tpc = "idle" =>
    /\ \A k, j \in 1 .. Len(Printed) : k < j => Printed[k].val < Printed[j].val
    /\ {Printed[k] : k \in 1 .. Len(Printed)}
         = {[val |-> v, count |-> added[v]] : v \in {w \in TreeVal : added[w] > 0}}
    /\ treeSize = Len(Printed) /\ treeDepth = treeSize

=============================================================================
