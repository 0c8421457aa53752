---------------------------- MODULE StorageProofs ----------------------------
(***************************************************************************)
(* Proofs about the containers that are made of nodes: the linked list and *)
(* the search tree; and the types of all containers together.              *)
(***************************************************************************)
EXTENDS MCStorage, ContainerProofs, NatLemmas

-----------------------------------------------------------------------------
(***************************************************************************)
(* The linked list.                                                        *)
(***************************************************************************)

(* The nodes at t[1], t[2] up to t[m], each pointing to the one behind it  *)
(* and the last one to NULL; and the pointer that leads to them.           *)
Held(t, m) == {t[k] : k \in 1 .. m}

Once(t, m) == \A j, k \in 1 .. m : t[j] = t[k] => j = k

Chain(t, m) == /\ m \in Nat /\ t \in [1 .. m -> Node] /\ Once(t, m)
               /\ \A k \in 1 .. m : next[t[k]] = IF k = m THEN Null ELSE t[k + 1]

To(t, m) == IF m = 0 THEN Null ELSE t[1]

(* The chain of the elements: behind the head, and once the head is freed, *)
(* behind the pointer linklist_destory walks with.                         *)
ElementsAre(t, m) ==
  /\ Chain(t, m)
  /\ Held(t, m) = live \ {head}
  /\ To(t, m) = IF head \in live THEN next[head] ELSE temp

ListInv ==
  /\ ListTypeOK
  /\ \E m \in Nat : \E t \in [1 .. m -> Node] : ElementsAre(t, m)
  /\ lpc \in {"idle", "add", "remove"} => head \in live
  /\ lpc = "start" => live = {}
  /\ lpc \in {"add", "remove"} => pre \in live /\ sought \in Datum
  /\ lpc = "remove" => temp = next[pre]
  /\ lpc = "destroy" /\ head \in live => temp = head
  /\ \A n \in live \ {head} : data[n] \in Datum

(* A chain has no more nodes than there are.                               *)
LEMMA ChainIsShort ==
  ASSUME IsFiniteSet(Node), NEW m, NEW t, Chain(t, m)
  PROVE  m <= Cardinality(Node) /\ Cardinality(Node) \in Nat
<1>1. m \in Nat /\ t \in Injection(1 .. m, Node)
  BY DEF Chain, Once, Injection, IsInjective
<1>2. IsFiniteSet(1 .. m) /\ Cardinality(1 .. m) = m
  BY <1>1, FS_Interval
<1> QED  BY <1>1, <1>2, FS_Injection, FS_CardinalityType

(* The pointers from the first node of a chain on lead through it.         *)
LEMMA TrailIsChain ==
  ASSUME IsFiniteSet(Node), NEW m, NEW t, Chain(t, m)
  PROVE  Trail(To(t, m)) = [k \in 0 .. Cardinality(Node) |->
                              IF k < m THEN t[k + 1] ELSE Null]
<1> DEFINE N == Cardinality(Node)
           F == [k \in 0 .. N |-> IF k < m THEN t[k + 1] ELSE Null]
           After(g, k) == IF k = 0 THEN To(t, m)
                          ELSE IF g[k - 1] = Null THEN Null ELSE next[g[k - 1]]
           P(g) == g = [k \in 0 .. N |-> After(g, k)]
<1>1. m \in Nat /\ N \in Nat /\ m <= N
  BY ChainIsShort DEF Chain
<1> HIDE DEF N
<1>2. \A k \in 0 .. N : F[k] = After(F, k)
  <2> TAKE k \in 0 .. N
  <2>1. CASE k = 0
    BY <1>1, <2>1 DEF To
  <2>2. CASE k # 0 /\ k - 1 < m
    <3>1. F[k - 1] = t[k] /\ k \in 1 .. m
      BY <1>1, <2>2
    <3>2. t[k] \in Node /\ next[t[k]] = IF k = m THEN Null ELSE t[k + 1]
      BY <3>1 DEF Chain
    <3> QED  BY <1>1, <2>2, <3>1, <3>2, NodesAssumption
  <2>3. CASE k # 0 /\ k - 1 >= m
    BY <1>1, <2>3
  <2> QED  BY <1>1, <2>1, <2>2, <2>3
<1>3. P(F)
  BY <1>2
<1>4. Trail(To(t, m)) = CHOOSE g : P(g)
  BY DEF Trail, N
<1> DEFINE G == Trail(To(t, m))
<1>5. P(G)
  <2> HIDE DEF P
  <2> QED  BY <1>3, <1>4
<1> HIDE DEF G
<1>6. \A k \in 0 .. N : G[k] = After(G, k)
  BY <1>5
<1> HIDE DEF F
<1>7. ASSUME NEW k0 \in 0 .. N, G[k0] # F[k0]
      PROVE  FALSE
  <2> DEFINE T == {k \in 0 .. N : G[k] # F[k]}
  <2>1. PICK k \in T : \A j \in T : k <= j
    <3>1. T \subseteq Nat /\ T # {}
      BY <1>1, <1>7
    <3> HIDE DEF T
    <3> QED  BY <3>1, NatLeast
  <2>2. k \in 0 .. N /\ G[k] # F[k]
    OBVIOUS
  <2>3. k # 0
    BY <1>2, <1>6, <2>2
  <2>4. k - 1 \in 0 .. N /\ ~ (k <= k - 1)
    BY <1>1, <2>2, <2>3
  <2>5. k - 1 \notin T
    BY <2>1, <2>4
  <2>6. G[k - 1] = F[k - 1]
    BY <2>4, <2>5
  <2> QED  BY <1>2, <1>6, <2>2, <2>3, <2>6
<1>8. \A k \in 0 .. N : G[k] = F[k]
  BY <1>7
<1> QED  BY <1>5, <1>8 DEF F, G, N

(* A sequence of m values with one more behind the i0th, and without the   *)
(* i0th; and what they hold.                                               *)
With(t, m, i0, x) ==
  [k \in 1 .. m + 1 |-> IF k <= i0 THEN t[k] ELSE IF k = i0 + 1 THEN x ELSE t[k - 1]]

Without(t, m, i0) == [k \in 1 .. m - 1 |-> IF k < i0 THEN t[k] ELSE t[k + 1]]

LEMMA RangeInserted ==
  ASSUME NEW m \in Nat, NEW t, NEW x, NEW i0 \in 0 .. m
  PROVE  Held(With(t, m, i0, x), m + 1) = Held(t, m) \cup {x}
<1> DEFINE u == With(t, m, i0, x)
<1> USE DEF With, Held
<1>1. \A k \in 1 .. m + 1 : u[k] \in Held(t, m) \cup {x}
  <2> TAKE k \in 1 .. m + 1
  <2>1. CASE k <= i0
    <3>1. k \in 1 .. m /\ u[k] = t[k]  BY <2>1
    <3> QED  BY <3>1
  <2>2. CASE k = i0 + 1
    BY <2>2
  <2>3. CASE k > i0 + 1
    <3>1. k - 1 \in 1 .. m /\ u[k] = t[k - 1]  BY <2>3
    <3> QED  BY <3>1
  <2> QED  BY <2>1, <2>2, <2>3
<1>2. u[i0 + 1] = x /\ i0 + 1 \in 1 .. m + 1
  OBVIOUS
<1>3. ASSUME NEW j \in 1 .. m  PROVE \E k \in 1 .. m + 1 : u[k] = t[j]
  <2>1. CASE j <= i0
    <3>1. j \in 1 .. m + 1 /\ u[j] = t[j]  BY <2>1
    <3> QED  BY <3>1
  <2>2. CASE j > i0
    <3>1. j + 1 \in 1 .. m + 1 /\ u[j + 1] = t[j]  BY <2>2
    <3> QED  BY <3>1
  <2> QED  BY <2>1, <2>2
<1> HIDE DEF u
<1>4. Held(u, m + 1) = Held(t, m) \cup {x}
  BY <1>1, <1>2, <1>3, Zenon
<1> QED  BY <1>4 DEF u

LEMMA RangeRemoved ==
  ASSUME NEW m \in Nat, NEW t, NEW i0 \in 1 .. m,
         Once(t, m)
  PROVE  /\ Held(Without(t, m, i0), m - 1) = Held(t, m) \ {t[i0]}
         /\ Once(Without(t, m, i0), m - 1)
<1> DEFINE u == Without(t, m, i0)
<1> USE DEF Held
<1> DEFINE from(k) == IF k < i0 THEN k ELSE k + 1
<1>1. \A k \in 1 .. m - 1 : from(k) \in 1 .. m /\ from(k) # i0 /\ u[k] = t[from(k)]
  BY DEF Without
<1>2. ASSUME NEW j \in 1 .. m, j # i0  PROVE \E k \in 1 .. m - 1 : j = from(k)
  <2>1. CASE j < i0
    <3>1. j \in 1 .. m - 1 /\ j = from(j)  BY <2>1
    <3> QED  BY <3>1
  <2>2. CASE j > i0
    <3>1. j - 1 \in 1 .. m - 1 /\ j = from(j - 1)  BY <2>2
    <3> QED  BY <3>1
  <2> QED  BY <1>2, <2>1, <2>2
<1>3. \A j, k \in 1 .. m - 1 : from(j) = from(k) => j = k
  OBVIOUS
<1> HIDE DEF from
<1>4. \A k \in 1 .. m - 1 : u[k] # t[i0]
  BY <1>1 DEF Once
<1>5. \A j, k \in 1 .. m - 1 : u[j] = u[k] => j = k
  <2> TAKE j, k \in 1 .. m - 1
  <2> HAVE u[j] = u[k]
  <2>1. from(j) = from(k)  BY <1>1 DEF Once
  <2> QED  BY <1>3, <2>1
<1>6. Held(u, m - 1) = Held(t, m) \ {t[i0]}
  <2>1. ASSUME NEW k \in 1 .. m - 1  PROVE u[k] \in Held(t, m) \ {t[i0]}
    BY <1>1, <1>4
  <2>2. ASSUME NEW j \in 1 .. m, t[j] # t[i0]  PROVE \E k \in 1 .. m - 1 : u[k] = t[j]
    <3>1. PICK k \in 1 .. m - 1 : j = from(k)  BY <1>2, <2>2
    <3> QED  BY <1>1, <3>1
  <2>3. ASSUME NEW x \in Held(t, m) \ {t[i0]}
        PROVE  x \in Held(u, m - 1)
    <3>1. PICK j \in 1 .. m : x = t[j]  OBVIOUS
    <3>2. PICK k \in 1 .. m - 1 : u[k] = t[j]  BY <2>2, <3>1
    <3> QED  BY <3>1, <3>2
  <2>4. ASSUME NEW x \in Held(u, m - 1)
        PROVE  x \in Held(t, m) \ {t[i0]}
    <3>1. PICK k \in 1 .. m - 1 : x = u[k]  OBVIOUS
    <3> QED  BY <2>1, <3>1
  <2> QED  BY <2>3, <2>4
<1> QED  BY <1>5, <1>6 DEF Once

(* One more node behind the head or behind an element.                     *)
LEMMA AddKeepsList ==
  ASSUME ListInv, NEW n \in Node, ListAdd(n),
         NEW m \in Nat, NEW t \in [1 .. m -> Node], ElementsAre(t, m),
         NEW i0 \in 0 .. m, pre = IF i0 = 0 THEN head ELSE t[i0],
         NEW u, u = With(t, m, i0, n)
  PROVE  ElementsAre(u, m + 1)'
<1>1. /\ head \in live /\ n \notin live /\ pre \in live
      /\ live' = live \cup {n} /\ head' = head
      /\ next' = [next EXCEPT ![pre] = n, ![n] = next[pre]]
      /\ DOMAIN next = Node /\ live \subseteq Node
  BY DEF ListInv, ListTypeOK, ListAdd
<1>2. /\ Held(t, m) = live \ {head}
      /\ Once(t, m)
      /\ \A k \in 1 .. m : next[t[k]] = IF k = m THEN Null ELSE t[k + 1]
      /\ next[head] = IF m = 0 THEN Null ELSE t[1]
  BY <1>1 DEF ElementsAre, Chain, To
<1>3. \A k \in 1 .. m : t[k] \in live /\ t[k] # head /\ t[k] # n
  BY <1>1, <1>2 DEF Held
<1>4. /\ u \in [1 .. m + 1 -> Node]
      /\ \A k \in 1 .. m + 1 : u[k] = IF k <= i0 THEN t[k]
                                      ELSE IF k = i0 + 1 THEN n ELSE t[k - 1]
  BY DEF With
<1>5. Once(u, m + 1)
  BY <1>2, <1>3 DEF Once, With
<1>6. \A k \in 1 .. m + 1 : next'[u[k]] = IF k = m + 1 THEN Null ELSE u[k + 1]
  <2> TAKE k \in 1 .. m + 1
  <2>1. CASE k < i0
    <3>1. u[k] = t[k] /\ t[k] # pre /\ u[k + 1] = t[k + 1]
      BY <1>2, <1>4, <2>1 DEF Once
    <3> QED  BY <1>1, <1>2, <1>3, <2>1, <3>1
  <2>2. CASE k = i0
    BY <1>1, <1>2, <1>3, <1>4, <2>2
  <2>3. CASE k = i0 + 1
    BY <1>1, <1>2, <1>3, <1>4, <2>3
  <2>4. CASE k > i0 + 1
    <3>1. k - 1 \in 1 .. m /\ u[k] = t[k - 1] /\ (k # m + 1 => u[k + 1] = t[k])
      BY <1>4, <2>4
    <3>2. t[k - 1] # pre
      BY <1>2, <1>3, <2>4 DEF Once
    <3> QED  BY <1>1, <1>2, <1>3, <3>1, <3>2
  <2> QED  BY <2>1, <2>2, <2>3, <2>4
<1>7. Held(u, m + 1) = live' \ {head'}
  <2>1. Held(u, m + 1) = Held(t, m) \cup {n}
    BY RangeInserted
  <2> QED  BY <1>1, <1>2, <2>1
<1>8. next'[head'] = u[1]
  BY <1>1, <1>2, <1>3, <1>4
<1>9. m + 1 \in Nat /\ m + 1 # 0 /\ head' \in live'
  BY <1>1
<1> QED
  BY <1>4, <1>5, <1>6, <1>7, <1>8, <1>9 DEF ElementsAre, Chain, To

(* One node less.                                                          *)
LEMMA RemoveKeepsList ==
  ASSUME ListInv, RemoveFound,
         NEW m \in Nat, NEW t \in [1 .. m -> Node], ElementsAre(t, m),
         NEW i0 \in 1 .. m, temp = t[i0],
         NEW u, u = Without(t, m, i0)
  PROVE  ElementsAre(u, m - 1)'
<1>1. /\ head \in live /\ pre \in live /\ next[pre] = temp
      /\ live' = live \ {temp} /\ head' = head
      /\ next' = [next EXCEPT ![pre] = next[temp]]
      /\ DOMAIN next = Node /\ live \subseteq Node
  BY DEF ListInv, ListTypeOK, RemoveFound
<1>2. /\ Held(t, m) = live \ {head}
      /\ Once(t, m)
      /\ \A k \in 1 .. m : next[t[k]] = IF k = m THEN Null ELSE t[k + 1]
      /\ next[head] = IF m = 0 THEN Null ELSE t[1]
  BY <1>1 DEF ElementsAre, Chain, To
<1>3. /\ \A k \in 1 .. m : t[k] \in live /\ t[k] # head /\ t[k] # Null
      /\ head # Null /\ temp # head
  BY <1>1, <1>2, NodesAssumption DEF Held
<1>4. pre = IF i0 = 1 THEN head ELSE t[i0 - 1]
  <2>1. CASE pre = head
    <3>1. t[1] = t[i0] /\ 1 \in 1 .. m  BY <1>1, <1>2, <2>1
    <3>2. i0 = 1  BY <1>2, <3>1 DEF Once
    <3> QED  BY <2>1, <3>2
  <2>2. CASE pre # head
    <3>1. PICK j \in 1 .. m : pre = t[j]
      <4>1. pre \in Held(t, m)  BY <1>1, <1>2, <2>2
      <4> QED  BY <4>1 DEF Held
    <3>2. j + 1 \in 1 .. m /\ t[j + 1] = t[i0]  BY <1>1, <1>2, <1>3, <3>1
    <3>3. j + 1 = i0  BY <1>2, <3>2 DEF Once
    <3> QED  BY <3>1, <3>3
  <2> QED  BY <2>1, <2>2
<1>5. /\ u \in [1 .. m - 1 -> Node] /\ m - 1 \in Nat
      /\ \A k \in 1 .. m - 1 : u[k] = IF k < i0 THEN t[k] ELSE t[k + 1]
  BY DEF Without
<1>6. \A k \in 1 .. m - 1 : next'[u[k]] = IF k = m - 1 THEN Null ELSE u[k + 1]
  <2> TAKE k \in 1 .. m - 1
  <2>1. CASE k < i0 - 1
    <3>1. u[k] = t[k] /\ u[k + 1] = t[k + 1] /\ k # m - 1
      BY <1>5, <2>1
    <3>2. t[k] # pre
      BY <1>2, <1>3, <1>4, <2>1 DEF Once
    <3> QED  BY <1>1, <1>2, <2>1, <3>1, <3>2
  <2>2. CASE k = i0 - 1
    <3>1. u[k] = pre /\ (k # m - 1 => u[k + 1] = t[i0 + 1])
      BY <1>4, <1>5, <2>2
    <3>2. next'[pre] = next[t[i0]]
      BY <1>1
    <3> QED  BY <1>2, <2>2, <3>1, <3>2
  <2>3. CASE k >= i0
    <3>1. u[k] = t[k + 1] /\ (k # m - 1 => u[k + 1] = t[k + 2])
      BY <1>5, <2>3
    <3>2. t[k + 1] # pre
      BY <1>2, <1>3, <1>4, <2>3 DEF Once
    <3>3. next'[t[k + 1]] = next[t[k + 1]]
      BY <1>1, <3>2
    <3>4. next[t[k + 1]] = IF k + 1 = m THEN Null ELSE t[(k + 1) + 1]
      BY <1>2
    <3> QED  BY <2>3, <3>1, <3>3, <3>4
  <2> QED  BY <2>1, <2>2, <2>3
<1>7. next'[head'] = IF m - 1 = 0 THEN Null ELSE u[1]
  <2>1. CASE i0 = 1
    <3>1. next'[head'] = next[t[1]]  BY <1>1, <1>3, <1>4, <2>1
    <3> QED  BY <1>2, <1>5, <2>1, <3>1
  <2>2. CASE i0 # 1
    <3>1. pre # head  BY <1>3, <1>4, <2>2
    <3> QED  BY <1>1, <1>2, <1>5, <2>2, <3>1
  <2> QED  BY <2>1, <2>2
<1>8. /\ Held(u, m - 1) = (live \ {head}) \ {temp}
      /\ Once(u, m - 1)
  <2>1. /\ Held(u, m - 1) = Held(t, m) \ {t[i0]}
        /\ Once(u, m - 1)
    BY <1>2, RangeRemoved
  <2> QED  BY <1>2, <2>1
<1>9. live' \ {head'} = (live \ {head}) \ {temp} /\ head' \in live'
  BY <1>1, <1>3
<1> QED
  BY <1>5, <1>6, <1>7, <1>8, <1>9 DEF ElementsAre, Chain, To

(* The first node goes, once the head is freed.                            *)
LEMMA DestroyKeepsList ==
  ASSUME ListInv, DestroyNext, head \notin live,
         NEW m \in Nat, NEW t \in [1 .. m -> Node], ElementsAre(t, m),
         NEW u, u = Without(t, m, 1)
  PROVE  m # 0 /\ temp = t[1] /\ ElementsAre(u, m - 1)'
<1>1. /\ live' = live \ {temp} /\ temp' = next[temp] /\ head' = head /\ next' = next
      /\ temp # Null
  BY DEF DestroyNext
<1>2. /\ Held(t, m) = live \ {head}
      /\ Once(t, m)
      /\ \A k \in 1 .. m : next[t[k]] = IF k = m THEN Null ELSE t[k + 1]
      /\ temp = IF m = 0 THEN Null ELSE t[1]
  BY DEF ElementsAre, Chain, To
<1>3. m # 0 /\ temp = t[1] /\ m - 1 \in Nat
  BY <1>1, <1>2
<1>4. u \in [1 .. m - 1 -> Node] /\ u = [k \in 1 .. m - 1 |-> t[k + 1]]
  BY <1>3 DEF Without
<1>5. /\ Held(u, m - 1) = (live \ {head}) \ {temp}
      /\ Once(u, m - 1)
    <2>2. 1 \in 1 .. m
    BY <1>3
  <2>3. /\ Held(u, m - 1) = Held(t, m) \ {t[1]}
        /\ Once(u, m - 1)
    <3>1. Once(t, m)  BY <1>2
    <3> QED  BY <2>2, <3>1, RangeRemoved
  <2> QED  BY <1>2, <1>3, <2>3
<1>6. \A k \in 1 .. m - 1 : next'[u[k]] = IF k = m - 1 THEN Null ELSE u[k + 1]
  BY <1>1, <1>2, <1>3, <1>4
<1>7. temp' = IF m - 1 = 0 THEN Null ELSE u[1]
  BY <1>1, <1>2, <1>3, <1>4
<1>8. live' \ {head'} = (live \ {head}) \ {temp} /\ head' \notin live'
  BY <1>1
<1> QED
  BY <1>3, <1>4, <1>5, <1>6, <1>7, <1>8 DEF ElementsAre, Chain, To

(* Every other step leaves the elements and what they point to alone.      *)
LEMMA OthersKeepList ==
  ASSUME ListInv, NEW m \in Nat, NEW t \in [1 .. m -> Node], ElementsAre(t, m),
         \/ \E n \in Node : InitCall(n)
         \/ \E p \in Node, v \in Datum : AddCalled(p, v) \/ RemoveCalled(p, v)
         \/ RemoveNext \/ RemoveEnds \/ DestroyCalled
         \/ DestroyNext /\ head \in live
         \/ DestroyEnds \/ ListUndefined \/ UNCHANGED listVars
  PROVE  ElementsAre(t, m)'
<1> USE NodesAssumption DEF ListInv, ListTypeOK, ElementsAre, Chain, To
<1>1. CASE \E n \in Node : InitCall(n)
  <2>1. lpc = "start" /\ live = {}
    BY <1>1 DEF InitCall
  <2>2. m = 0
    <3>1. m # 0 => t[1] \in live  BY DEF Held
    <3> QED  BY <2>1, <3>1
  <2> QED  BY <1>1, <2>1, <2>2 DEF InitCall
<1>2. CASE \/ \E p \in Node, v \in Datum : AddCalled(p, v) \/ RemoveCalled(p, v)
           \/ RemoveNext \/ RemoveEnds \/ DestroyCalled
  BY <1>2 DEF AddCalled, RemoveCalled, RemoveNext, RemoveEnds, DestroyCalled
<1>3. CASE DestroyNext /\ head \in live
  BY <1>3 DEF DestroyNext
<1>4. CASE DestroyEnds \/ ListUndefined \/ UNCHANGED listVars
  BY <1>4 DEF DestroyEnds, ListUndefined, listVars
<1> QED  BY <1>1, <1>2, <1>3, <1>4

LEMMA ListInitInv == ListInit => ListInv
<1> SUFFICES ASSUME ListInit PROVE ListInv
  OBVIOUS
<1> DEFINE t == [k \in 1 .. 0 |-> Null]
<1>1. t \in [1 .. 0 -> Node] /\ ElementsAre(t, 0)
  BY DEF ListInit, ElementsAre, Chain, To, Held, Once
<1>2. ListTypeOK
  BY DEF ListInit, ListTypeOK
<1> HIDE DEF t
<1> QED  BY <1>1, <1>2 DEF ListInit, ListInv

(* Behind a node of the list there is an element or nothing.               *)
LEMMA NextIsElement ==
  ASSUME NEW m \in Nat, NEW t \in [1 .. m -> Node], ElementsAre(t, m), NEW n \in live
  PROVE  next[n] \in (live \ {head}) \cup {Null}
<1>1. CASE n = head
  BY <1>1 DEF ElementsAre, Chain, To, Held
<1>2. CASE n # head
  <2>1. PICK j \in 1 .. m : n = t[j]
    BY <1>2 DEF ElementsAre, Held
  <2>2. CASE j = m
    BY <2>1, <2>2 DEF ElementsAre, Chain
  <2>3. CASE j # m
    <3>1. j + 1 \in 1 .. m /\ next[n] = t[j + 1]
      BY <2>1, <2>3 DEF ElementsAre, Chain
    <3> QED  BY <3>1 DEF ElementsAre, Held
  <2> QED  BY <2>2, <2>3
<1> QED  BY <1>1, <1>2

(* A node of the list is its head or holds an element.                     *)
LEMMA InsideIsElement ==
  ASSUME NEW m \in Nat, NEW t \in [1 .. m -> Node], ElementsAre(t, m), NEW p \in live
  PROVE  \E i0 \in 0 .. m : p = IF i0 = 0 THEN head ELSE t[i0]
<1>1. p # head => \E k \in 1 .. m : p = t[k]
  BY DEF ElementsAre, Held
<1> QED  BY <1>1

LEMMA ListStepInv == ListInv /\ [ListNext]_listVars => ListInv'
<1> SUFFICES ASSUME ListInv, [ListNext]_listVars PROVE ListInv'
  OBVIOUS
<1>1. PICK m \in Nat : \E t \in [1 .. m -> Node] : ElementsAre(t, m)
  BY DEF ListInv
<1>2. PICK t \in [1 .. m -> Node] : ElementsAre(t, m)
  BY <1>1
<1>3. \A n \in live : next[n] \in (live \ {head}) \cup {Null}
  BY <1>2, NextIsElement
<1> DEFINE Rest == /\ ListTypeOK
                   /\ lpc \in {"idle", "add", "remove"} => head \in live
                   /\ lpc = "start" => live = {}
                   /\ lpc \in {"add", "remove"} => pre \in live /\ sought \in Datum
                   /\ lpc = "remove" => temp = next[pre]
                   /\ lpc = "destroy" /\ head \in live => temp = head
                   /\ \A n \in live \ {head} : data[n] \in Datum
           Chained == \E k \in Nat : \E u \in [1 .. k -> Node] : ElementsAre(u, k)
<1>4. CASE \E n \in Node : InitCall(n)
  <2>1. Chained'  BY <1>2, <1>4, OthersKeepList
  <2>2. Rest'  BY <1>4 DEF ListInv, ListTypeOK, InitCall
  <2> QED  BY <2>1, <2>2 DEF ListInv
<1>5. CASE \E n \in Node : ListAdd(n)
  <2>1. PICK n \in Node : ListAdd(n)
    BY <1>5
  <2>2. PICK i0 \in 0 .. m : pre = IF i0 = 0 THEN head ELSE t[i0]
    <3>1. pre \in live
      BY <2>1 DEF ListAdd, ListInv
    <3> QED  BY <1>2, <3>1, InsideIsElement
  <2>3. ElementsAre(With(t, m, i0, n), m + 1)'
    BY <1>2, <2>1, <2>2, AddKeepsList
  <2>4. With(t, m, i0, n) \in [1 .. m + 1 -> Node] /\ m + 1 \in Nat
    BY DEF With
  <2>5. Chained'
    BY <2>3, <2>4
  <2>6. Rest'
    BY <2>1 DEF ListInv, ListTypeOK, ListAdd
  <2> QED  BY <2>5, <2>6 DEF ListInv
<1>6. CASE \/ \E p \in Node, v \in Datum : AddCalled(p, v) \/ RemoveCalled(p, v)
           \/ RemoveNext \/ RemoveEnds
  <2>1. Chained'  BY <1>2, <1>6, OthersKeepList
  <2>2. Rest'
    BY <1>3, <1>6 DEF ListInv, ListTypeOK, AddCalled, RemoveCalled, RemoveNext, RemoveEnds
  <2> QED  BY <2>1, <2>2 DEF ListInv
<1>7. CASE RemoveFound
  <2>1. pre \in live /\ temp = next[pre] /\ temp # Null
    BY <1>7 DEF ListInv, RemoveFound
  <2>2. PICK i0 \in 1 .. m : temp = t[i0]
    BY <1>2, <1>3, <2>1 DEF ElementsAre, Held
  <2>3. ElementsAre(Without(t, m, i0), m - 1)'
    BY <1>2, <1>7, <2>2, RemoveKeepsList
  <2>4. Without(t, m, i0) \in [1 .. m - 1 -> Node] /\ m - 1 \in Nat
    BY DEF Without
  <2>5. Chained'
    BY <2>3, <2>4
  <2>6. Rest'
    BY <1>3, <1>7, <2>1 DEF ListInv, ListTypeOK, RemoveFound
  <2> QED  BY <2>5, <2>6 DEF ListInv
<1>8. CASE DestroyCalled \/ DestroyEnds \/ ListUndefined \/ UNCHANGED listVars
  <2>1. Chained'  BY <1>2, <1>8, OthersKeepList
  <2>2. Rest'
    BY <1>8 DEF ListInv, ListTypeOK, DestroyCalled, DestroyEnds, ListUndefined, listVars
  <2> QED  BY <2>1, <2>2 DEF ListInv
<1>9. CASE DestroyNext
  <2>1. Chained'
    <3>1. CASE head \in live
      BY <1>2, <1>9, <3>1, OthersKeepList
    <3>2. CASE head \notin live
      <4>1. m # 0 /\ ElementsAre(Without(t, m, 1), m - 1)'
        BY <1>2, <1>9, <3>2, DestroyKeepsList
      <4>2. Without(t, m, 1) \in [1 .. m - 1 -> Node] /\ m - 1 \in Nat
        BY <4>1 DEF Without
      <4> QED  BY <4>1, <4>2
    <3> QED  BY <3>1, <3>2
  <2>2. temp \in live
    <3>1. head \notin live => m # 0 /\ temp = t[1]
      BY <1>2, <1>9, DestroyKeepsList
    <3> QED  BY <1>2, <1>9, <3>1 DEF ElementsAre, Held, ListInv, DestroyNext
  <2>3. Rest'
    BY <1>3, <1>9, <2>2 DEF ListInv, ListTypeOK, DestroyNext
  <2> QED  BY <2>1, <2>3 DEF ListInv
<1> QED
  BY <1>4, <1>5, <1>6, <1>7, <1>8, <1>9 DEF ListNext

LEMMA ListInvariant == ListSpec => []ListInv
BY ListInitInv, ListStepInv, PTL DEF ListSpec

(* What is met from a chain on is what it holds.                           *)
LEMMA MetIsHeld ==
  ASSUME IsFiniteSet(Node), NEW m, NEW t, Chain(t, m)
  PROVE  Met(To(t, m)) = Held(t, m) \cup {Null}
<1> DEFINE N == Cardinality(Node)
<1>1. m \in Nat /\ N \in Nat /\ m <= N
  BY ChainIsShort DEF Chain
<1>2. \A k \in 0 .. N : Trail(To(t, m))[k] = IF k < m THEN t[k + 1] ELSE Null
  BY TrailIsChain
<1>3. Met(To(t, m)) = {Trail(To(t, m))[k] : k \in 0 .. N}
  BY DEF Met
<1> HIDE DEF N
<1>4. \A k \in 0 .. N : Trail(To(t, m))[k] \in Held(t, m) \cup {Null}
  BY <1>1, <1>2 DEF Held
<1>5. \A x \in Held(t, m) : \E k \in 0 .. N : Trail(To(t, m))[k] = x
  <2> TAKE x \in Held(t, m)
  <2>1. PICK j \in 1 .. m : x = t[j]
    BY DEF Held
  <2>2. j - 1 \in 0 .. N /\ j - 1 < m /\ (j - 1) + 1 = j
    BY <1>1
  <2> QED  BY <1>2, <2>1, <2>2
<1>6. Trail(To(t, m))[m] = Null /\ m \in 0 .. N
  BY <1>1, <1>2
<1> QED  BY <1>3, <1>4, <1>5, <1>6

(* The whole list, while its head is there.                                *)
LEMMA WholeChain ==
  ASSUME ListInv, NEW m \in Nat, NEW t \in [1 .. m -> Node], ElementsAre(t, m), head \in live,
         NEW s, s = With(t, m, 0, head)
  PROVE  /\ Chain(s, m + 1) /\ Held(s, m + 1) = live /\ To(s, m + 1) = head
         /\ \A k \in 1 .. m : s[k + 1] = t[k]
<1>1. /\ s \in [1 .. m + 1 -> Node] /\ m + 1 \in Nat
      /\ \A k \in 1 .. m + 1 : s[k] = IF k = 1 THEN head ELSE t[k - 1]
  BY DEF With, ListInv, ListTypeOK
<1>2. Held(s, m + 1) = live
  <2>1. Held(s, m + 1) = Held(t, m) \cup {head}
    <3>1. 0 \in 0 .. m  OBVIOUS
    <3> QED  BY <3>1, RangeInserted
  <2> QED  BY <2>1 DEF ElementsAre
<1>3. \A k \in 1 .. m : t[k] # head
  BY DEF ElementsAre, Held
<1>4. Once(s, m + 1)
  BY <1>1, <1>3 DEF Once, ElementsAre, Chain
<1>5. \A k \in 1 .. m + 1 : next[s[k]] = IF k = m + 1 THEN Null ELSE s[k + 1]
  <2> TAKE k \in 1 .. m + 1
  <2>1. CASE k = 1
    BY <1>1, <2>1 DEF ElementsAre, To
  <2>2. CASE k # 1
    <3>1. k - 1 \in 1 .. m /\ s[k] = t[k - 1] /\ (k # m + 1 => s[k + 1] = t[k])
      BY <1>1, <2>2
    <3>2. next[t[k - 1]] = IF k - 1 = m THEN Null ELSE t[(k - 1) + 1]
      BY <3>1 DEF ElementsAre, Chain
    <3> QED  BY <3>1, <3>2
  <2> QED  BY <2>1, <2>2
<1> QED  BY <1>1, <1>2, <1>4, <1>5 DEF Chain, To

(* No node of the list is lost, and none is met after its free.            *)
THEOREM ListStaysChain ==
  ASSUME IsFiniteSet(Node)
  PROVE  ListSpec => []ListIsChain
<1>1. ListInv => ListIsChain
  <2> SUFFICES ASSUME ListInv PROVE ListIsChain
    OBVIOUS
  <2>1. PICK m \in Nat : \E t \in [1 .. m -> Node] : ElementsAre(t, m)
    BY DEF ListInv
  <2>2. PICK t \in [1 .. m -> Node] : ElementsAre(t, m)
    BY <2>1
  <2>3. CASE head \in live
    <3> DEFINE s == With(t, m, 0, head)
    <3>1. Chain(s, m + 1) /\ Held(s, m + 1) = live /\ To(s, m + 1) = head
      BY <2>2, <2>3, WholeChain
    <3> HIDE DEF s
    <3>2. Met(head) = live \cup {Null}
      BY <3>1, MetIsHeld
    <3> QED  BY <2>3, <3>2 DEF ListIsChain, First
  <2>4. CASE head \notin live
    <3>1. Chain(t, m) /\ To(t, m) = temp /\ Held(t, m) = live
      BY <2>2, <2>4 DEF ElementsAre
    <3>2. Met(temp) = live \cup {Null}
      BY <3>1, MetIsHeld
    <3> QED  BY <2>4, <3>2 DEF ListIsChain, First
  <2> QED  BY <2>3, <2>4
<1> QED  BY <1>1, ListInvariant, PTL

-----------------------------------------------------------------------------
(* The list of values that the nodes hold, and the place of each node.     *)
LEMMA TrailOfHead ==
  ASSUME IsFiniteSet(Node), ListInv, NEW m \in Nat, NEW t \in [1 .. m -> Node],
         ElementsAre(t, m), head \in live
  PROVE  /\ m + 1 <= Cardinality(Node) /\ Cardinality(Node) \in Nat
         /\ DOMAIN Trail(head) = 0 .. Cardinality(Node)
         /\ Trail(head)[0] = head
         /\ \A k \in 1 .. Cardinality(Node) : Trail(head)[k] = IF k <= m THEN t[k] ELSE Null
<1> DEFINE N == Cardinality(Node)
           s == With(t, m, 0, head)
<1>1. /\ Chain(s, m + 1) /\ To(s, m + 1) = head
      /\ \A k \in 1 .. m : s[k + 1] = t[k]
  BY WholeChain
<1>2. s[1] = head
  BY DEF With
<1> HIDE DEF s
<1>3. m + 1 <= N /\ N \in Nat
  BY <1>1, ChainIsShort
<1>4. Trail(head) = [k \in 0 .. N |-> IF k < m + 1 THEN s[k + 1] ELSE Null]
  BY <1>1, TrailIsChain
<1> HIDE DEF N
<1>5. Trail(head)[0] = head /\ DOMAIN Trail(head) = 0 .. N
  BY <1>2, <1>3, <1>4
<1>6. \A k \in 1 .. N : Trail(head)[k] = IF k <= m THEN t[k] ELSE Null
  BY <1>1, <1>3, <1>4
<1> QED  BY <1>3, <1>5, <1>6 DEF N

LEMMA ElementsIs ==
  ASSUME IsFiniteSet(Node), ListInv, NEW m \in Nat, NEW t \in [1 .. m -> Node],
         ElementsAre(t, m), head \in live
  PROVE  ListElements = [k \in 1 .. m |-> data[t[k]]]
<1> DEFINE N == Cardinality(Node)
           trail == Trail(head)
<1>1. /\ m + 1 <= N /\ N \in Nat
      /\ \A k \in 1 .. N : trail[k] = IF k <= m THEN t[k] ELSE Null
  BY TrailOfHead
<1>2. ListElements = [k \in 1 .. Cardinality({j \in 1 .. N : trail[j] # Null}) |-> data[trail[k]]]
  BY DEF ListElements
<1> HIDE DEF N, trail
<1>3. {j \in 1 .. N : trail[j] # Null} = 1 .. m
  <2>1. \A k \in 1 .. m : t[k] # Null
    BY NodesAssumption
  <2> QED  BY <1>1, <2>1
<1>4. Cardinality(1 .. m) = m
  BY FS_Interval
<1>5. \A k \in 1 .. m : trail[k] = t[k]
  BY <1>1
<1> QED  BY <1>2, <1>3, <1>4, <1>5

LEMMA PositionIs ==
  ASSUME IsFiniteSet(Node), ListInv, NEW m \in Nat, NEW t \in [1 .. m -> Node],
         ElementsAre(t, m), head \in live,
         NEW i0 \in 0 .. m, NEW n, n = IF i0 = 0 THEN head ELSE t[i0]
  PROVE  Position(n) = i0
<1> DEFINE N == Cardinality(Node)
           trail == Trail(head)
<1>1. /\ m + 1 <= N /\ N \in Nat /\ DOMAIN trail = 0 .. N /\ trail[0] = head
      /\ \A k \in 1 .. N : trail[k] = IF k <= m THEN t[k] ELSE Null
  BY TrailOfHead
<1>2. Position(n) = CHOOSE k \in DOMAIN trail : trail[k] = n
  BY DEF Position
<1> HIDE DEF N, trail
<1>3. i0 \in DOMAIN trail /\ trail[i0] = n
  BY <1>1
<1>4. \A k \in 1 .. m : t[k] # head
  BY DEF ElementsAre, Held
<1>5. \A j, k \in 1 .. m : t[j] = t[k] => j = k
  BY DEF ElementsAre, Chain, Once
<1>6. n # Null
  BY NodesAssumption DEF ListInv, ListTypeOK
<1>7. ASSUME NEW k \in DOMAIN trail, trail[k] = n  PROVE k = i0
  BY <1>1, <1>4, <1>5, <1>6, <1>7
<1> QED  BY <1>2, <1>3, <1>7

(* What the list shows while it is there, of this state and of the next.   *)
Shown(t, m, i0) ==
  /\ ListElements = [k \in 1 .. m |-> data[t[k]]]
  /\ lpc \in {"add", "remove"} /\ pre = (IF i0 = 0 THEN head ELSE t[i0])
       => ListCall = <<lpc, i0, sought>>

ShownFact == \A m \in Nat : \A t \in [1 .. m -> Node] : \A i0 \in 0 .. m :
               ListInv /\ ElementsAre(t, m) /\ head \in live => Shown(t, m, i0)

LEMMA ShownHolds == ASSUME IsFiniteSet(Node) PROVE ShownFact
BY ElementsIs, PositionIs DEF ShownFact, Shown, ListCall

LEMMA ShownFactPrimed ==
  ASSUME IsFiniteSet(Node) PROVE ShownFact'
<1>1. ShownFact
  BY ShownHolds
<1> QED  BY <1>1, PTL

LEMMA ShownAfter ==
  ASSUME IsFiniteSet(Node), ListInv', NEW m \in Nat, NEW t \in [1 .. m -> Node],
         ElementsAre(t, m)', head' \in live', NEW i0 \in 0 .. m
  PROVE  Shown(t, m, i0)'
BY ShownFactPrimed DEF ShownFact

LEMMA ListStepIsStep ==
  ASSUME IsFiniteSet(Node), ListInv, [ListNext]_listVars
  PROVE  [LinkedList!Next]_(LinkedList!vars)
<1> USE DEF LinkedList!vars
<1>1. PICK m \in Nat : \E t \in [1 .. m -> Node] : ElementsAre(t, m)
  BY DEF ListInv
<1>2. PICK t \in [1 .. m -> Node] : ElementsAre(t, m)
  BY <1>1
<1>3. ListInv'
  BY ListStepInv
<1>4. head \in live => \A i0 \in 0 .. m : Shown(t, m, i0)
  BY <1>2, ShownHolds DEF ShownFact
<1>5. /\ head \in live => ListElements = [k \in 1 .. m |-> data[t[k]]]
      /\ head \notin live => ListElements = <<>>
      /\ lpc \notin {"add", "remove"} => ListCall = <<>>
  <2>1. 0 \in 0 .. m
    OBVIOUS
  <2> QED  BY <1>4, <2>1 DEF Shown, ListElements, ListCall
<1>6. /\ head' \notin live' => ListElements' = <<>>
      /\ lpc' \notin {"add", "remove"} => ListCall' = <<>>
  BY DEF ListElements, ListCall
<1>7. \A k \in 1 .. m : t[k] \in live \ {head} /\ data[t[k]] \in Datum
  BY <1>2 DEF ElementsAre, Held, ListInv
<1>8. head \in live => /\ ListElements \in Seq(Datum) /\ Len(ListElements) = m
                       /\ \A k \in 1 .. m : ListElements[k] = data[t[k]]
  BY <1>5, <1>7
<1>9. ASSUME head \in live, lpc \in {"add", "remove"}
      PROVE  \E i0 \in 0 .. m : /\ pre = IF i0 = 0 THEN head ELSE t[i0]
                                /\ ListCall = <<lpc, i0, sought>>
  <2>1. pre \in live
    BY <1>9 DEF ListInv
  <2>2. PICK i0 \in 0 .. m : pre = IF i0 = 0 THEN head ELSE t[i0]
    BY <1>2, <2>1, InsideIsElement
  <2> QED  BY <1>4, <1>9, <2>2 DEF Shown
<1>10. ASSUME ElementsAre(t, m)', data' = data, head' = head, head \in live, head \in live'
       PROVE  /\ ListElements' = ListElements
              /\ \A i0 \in 0 .. m : Shown(t, m, i0)'
  <2>1. \A i0 \in 0 .. m : Shown(t, m, i0)'
    BY <1>3, <1>10, ShownAfter
  <2>2. 0 \in 0 .. m
    OBVIOUS
  <2> QED  BY <1>5, <1>10, <2>1, <2>2 DEF Shown
<1>11. CASE \E p \in Node, v \in Datum : AddCalled(p, v) \/ RemoveCalled(p, v)
  <2>1. PICK p \in Node, v \in Datum : AddCalled(p, v) \/ RemoveCalled(p, v)
    BY <1>11
  <2>2. /\ lpc = "idle" /\ p \in live /\ pre' = p /\ sought' = v /\ lpc' \in {"add", "remove"}
        /\ data' = data /\ head' = head /\ live' = live /\ head \in live
    BY <2>1 DEF AddCalled, RemoveCalled, ListInv
  <2>3. ElementsAre(t, m)'
    BY <1>2, <1>11, OthersKeepList
  <2>4. PICK i0 \in 0 .. m : p = IF i0 = 0 THEN head ELSE t[i0]
    BY <1>2, <2>2, InsideIsElement
  <2>5. ListElements' = ListElements /\ Shown(t, m, i0)'
    BY <1>10, <2>2, <2>3
  <2>6. ListCall' = <<lpc', i0, v>>
    BY <2>2, <2>4, <2>5 DEF Shown
  <2>7. ListCall = <<>> /\ i0 \in 0 .. Len(ListElements)
    BY <1>5, <1>8, <2>2
  <2>8. LinkedList!Called(lpc', i0, v)
    BY <2>5, <2>6, <2>7 DEF LinkedList!Called
  <2> QED  BY <2>2, <2>7, <2>8 DEF LinkedList!Next
<1>12. CASE \E n \in Node : ListAdd(n)
  <2>1. PICK n \in Node : ListAdd(n)
    BY <1>12
  <2>2. /\ lpc = "add" /\ lpc' = "idle" /\ n \notin live /\ head \in live /\ sought \in Datum
        /\ head' = head /\ live' = live \cup {n}
        /\ data' = [data EXCEPT ![n] = sought] /\ DOMAIN data = Node
    BY <2>1 DEF ListAdd, ListInv, ListTypeOK
  <2>3. PICK i0 \in 0 .. m : /\ pre = IF i0 = 0 THEN head ELSE t[i0]
                             /\ ListCall = <<"add", i0, sought>>
    BY <1>9, <2>2
  <2> DEFINE u == With(t, m, i0, n)
  <2>4. ElementsAre(u, m + 1)'
    BY <1>2, <2>1, <2>3, AddKeepsList
  <2>5. u \in [1 .. m + 1 -> Node] /\ m + 1 \in Nat /\ 0 \in 0 .. m + 1
    BY DEF With
  <2> HIDE DEF u
  <2>6. ListElements' = [k \in 1 .. m + 1 |-> data'[u[k]]]
    BY <1>3, <2>2, <2>4, <2>5, ShownAfter DEF Shown
  <2>7. \A k \in 1 .. m + 1 : data'[u[k]] =
          CASE k <= i0 -> ListElements[k] [] k = i0 + 1 -> sought
            [] OTHER -> ListElements[k - 1]
    BY <1>7, <1>8, <2>2 DEF u, With
  <2>8. LinkedList!Insert(i0, sought)
    BY <1>6, <1>8, <2>2, <2>3, <2>6, <2>7 DEF LinkedList!Insert
  <2> QED  BY <1>8, <2>2, <2>8 DEF LinkedList!Next
<1>13. CASE RemoveNext
  <2>1. /\ lpc = "remove" /\ lpc' = "remove" /\ pre \in live /\ temp = next[pre] /\ temp # Null
        /\ ~Matches(temp) /\ pre' = temp /\ sought' = sought /\ sought \in Datum
        /\ data' = data /\ head' = head /\ live' = live /\ head \in live
    BY <1>13 DEF RemoveNext, ListInv
  <2>2. PICK i0 \in 0 .. m : /\ pre = IF i0 = 0 THEN head ELSE t[i0]
                             /\ ListCall = <<"remove", i0, sought>>
    BY <1>9, <2>1
  <2>3. i0 + 1 \in 1 .. m /\ temp = t[i0 + 1]
    BY <1>2, <2>1, <2>2 DEF ElementsAre, Chain, To
  <2>4. ElementsAre(t, m)'
    BY <1>2, <1>13, OthersKeepList
  <2>5. ListElements' = ListElements /\ Shown(t, m, i0 + 1)'
    <3>1. i0 + 1 \in 0 .. m
      BY <2>3
    <3> QED  BY <1>10, <2>1, <2>4, <3>1
  <2>6. ListCall' = <<"remove", i0 + 1, sought>>
    BY <2>1, <2>3, <2>5 DEF Shown
  <2>7. i0 < Len(ListElements) /\ i0 \in 0 .. Len(ListElements)
    BY <1>8, <2>1, <2>3
  <2>8. ~LinkedList!Matches(i0 + 1, sought)
    <3>1. ListElements[i0 + 1] = data[temp] /\ data[temp] \in Int /\ sought \in Int
      BY <1>7, <1>8, <2>1, <2>3, NodesAssumption
    <3>2. ~(data[temp] > sought)
      BY <2>1, <3>1 DEF Matches
    <3> QED  BY <3>1, <3>2 DEF LinkedList!Matches, Greater
  <2>9. LinkedList!Pass(i0, sought)
    BY <2>2, <2>5, <2>6, <2>7, <2>8 DEF LinkedList!Pass
  <2> QED  BY <2>1, <2>7, <2>9 DEF LinkedList!Next
<1>14. CASE RemoveEnds
  <2>1. /\ lpc = "remove" /\ lpc' = "idle" /\ pre \in live /\ next[pre] = Null /\ sought \in Datum
        /\ data' = data /\ head' = head /\ live' = live /\ head \in live
    BY <1>14 DEF RemoveEnds, ListInv
  <2>2. PICK i0 \in 0 .. m : /\ pre = IF i0 = 0 THEN head ELSE t[i0]
                             /\ ListCall = <<"remove", i0, sought>>
    BY <1>9, <2>1
  <2>3. i0 = m
    <3>1. i0 # m => i0 + 1 \in 1 .. m /\ next[pre] = t[i0 + 1]
      BY <1>2, <2>1, <2>2 DEF ElementsAre, Chain, To
    <3> QED  BY <2>1, <3>1, NodesAssumption
  <2>4. ElementsAre(t, m)'
    BY <1>2, <1>14, OthersKeepList
  <2>5. ListElements' = ListElements /\ ListCall' = <<>>
    BY <1>6, <1>10, <2>1, <2>4
  <2>6. LinkedList!NotFound(i0, sought)
    BY <1>8, <2>1, <2>2, <2>3, <2>5 DEF LinkedList!NotFound
  <2> QED  BY <1>8, <2>1, <2>6 DEF LinkedList!Next
<1>15. CASE RemoveFound
  <2>1. /\ lpc = "remove" /\ lpc' = "idle" /\ pre \in live /\ temp = next[pre] /\ temp # Null
        /\ Matches(temp) /\ sought \in Datum
        /\ data' = data /\ head' = head /\ live' = live \ {temp} /\ head \in live
    BY <1>15 DEF RemoveFound, ListInv
  <2>2. PICK n0 \in 0 .. m : /\ pre = IF n0 = 0 THEN head ELSE t[n0]
                             /\ ListCall = <<"remove", n0, sought>>
    BY <1>9, <2>1
  <2> DEFINE i0 == n0 + 1
  <2>3. i0 \in 1 .. m /\ temp = t[i0]
    BY <1>2, <2>1, <2>2 DEF ElementsAre, Chain, To
  <2> DEFINE u == Without(t, m, i0)
  <2>4. ElementsAre(u, m - 1)'
    BY <1>2, <1>15, <2>3, RemoveKeepsList
  <2>5. u \in [1 .. m - 1 -> Node] /\ m - 1 \in Nat /\ 0 \in 0 .. m - 1
    BY <2>3 DEF Without
  <2>6. head' \in live'
    BY <1>7, <2>1, <2>3
  <2> HIDE DEF u
  <2>7. ListElements' = [k \in 1 .. m - 1 |-> data'[u[k]]]
    BY <1>3, <2>4, <2>5, <2>6, ShownAfter DEF Shown
  <2>8. \A k \in 1 .. m - 1 : data'[u[k]] = IF k < i0 THEN ListElements[k]
                                                        ELSE ListElements[k + 1]
    BY <1>8, <2>1, <2>3 DEF u, Without
  <2>9. LinkedList!Matches(i0, sought)
    <3>1. ListElements[i0] = data[temp] /\ data[temp] \in Datum /\ sought \in Datum
      BY <1>7, <1>8, <2>1, <2>3
    <3>2. data[temp] \in Int /\ sought \in Int
      BY <3>1, NodesAssumption
    <3>3. data[temp] > sought
      BY <2>1, <3>2 DEF Matches
    <3> QED  BY <3>1, <3>3 DEF LinkedList!Matches, Greater
  <2>10. i0 \in n0 + 1 .. Len(ListElements) /\ i0 \in 1 .. Len(ListElements)
         /\ n0 \in 0 .. Len(ListElements)
    BY <1>8, <2>1, <2>3
  <2>11. LinkedList!Delete(n0, sought, i0)
    <3>1. ListElements' = [k \in 1 .. Len(ListElements) - 1 |->
                             IF k < i0 THEN ListElements[k] ELSE ListElements[k + 1]]
      BY <1>8, <2>1, <2>7, <2>8
    <3> HIDE DEF i0
    <3> QED  BY <1>6, <2>1, <2>2, <2>9, <2>10, <3>1 DEF LinkedList!Delete
  <2> HIDE DEF i0
  <2> QED  BY <2>1, <2>10, <2>11 DEF LinkedList!Next
<1>16. CASE DestroyNext
  <2>1. /\ ListCall = <<>> /\ ListCall' = <<>> /\ live' = live \ {temp} /\ head' = head
    BY <1>5, <1>6, <1>16 DEF DestroyNext
  <2>2. head' \notin live'
    BY <1>16, <2>1 DEF DestroyNext, ListInv
  <2>3. LinkedList!Empty
    BY <1>6, <2>1, <2>2 DEF LinkedList!Empty
  <2> QED  BY <2>3 DEF LinkedList!Next
<1>17. CASE ListUndefined
  <2>1. ElementsAre(t, m)'
    BY <1>2, <1>17, OthersKeepList
  <2>2. data' = data /\ head' = head /\ live' = live /\ lpc' = "undefined"
    BY <1>17 DEF ListUndefined
  <2>3. ListElements' = ListElements /\ ListCall' = <<>>
    BY <1>5, <1>6, <1>10, <2>1, <2>2
  <2>4. CASE lpc = "add"
    <3>1. head \in live /\ sought \in Datum
      BY <2>4 DEF ListInv
    <3>2. PICK i0 \in 0 .. m : ListCall = <<"add", i0, sought>>
      BY <1>9, <2>4, <3>1
    <3>3. LinkedList!NoMemory(i0, sought)
      BY <2>3, <3>2 DEF LinkedList!NoMemory
    <3> QED  BY <1>8, <3>1, <3>3 DEF LinkedList!Next
  <2>5. CASE lpc # "add"
    BY <1>5, <1>17, <2>3, <2>5 DEF ListUndefined
  <2> QED  BY <2>4, <2>5
<1>18. CASE \/ \E n \in Node : InitCall(n)
            \/ DestroyCalled \/ DestroyEnds \/ UNCHANGED listVars
  <2>1. ElementsAre(t, m)'
    BY <1>2, <1>18, OthersKeepList
  <2>2. CASE \E n \in Node : InitCall(n)
    <3>1. PICK n \in Node : InitCall(n)
      BY <2>2
    <3>2. /\ lpc = "start" /\ lpc' = "idle" /\ live = {} /\ head' \in live'
      BY <3>1 DEF InitCall, ListInv
    <3>3. m = 0
      BY <1>7, <3>2
    <3>4. 0 \in 0 .. m /\ Shown(t, m, 0)'
      BY <1>3, <2>1, <3>2, ShownAfter
    <3>5. ListElements' = <<>>
      BY <3>3, <3>4 DEF Shown
    <3> QED  BY <1>5, <1>6, <3>2, <3>5
  <2>3. CASE DestroyCalled \/ DestroyEnds
    BY <1>5, <1>6, <1>10, <2>1, <2>3 DEF DestroyCalled, DestroyEnds
  <2>4. CASE UNCHANGED listVars
    BY <2>4 DEF listVars, ListElements, ListCall, Trail, Position
  <2> QED  BY <1>18, <2>2, <2>3, <2>4
<1> QED
  BY <1>11, <1>12, <1>13, <1>14, <1>15, <1>16, <1>17, <1>18 DEF ListNext

(* linklist_add puts its value behind the node it is given, if it returns; *)
(* linklist_remove takes out the first element behind its node that is     *)
(* greater than its value, and changes nothing if there is none;           *)
(* linklist_destory leaves no element.                                     *)
THEOREM ListCorrect ==
  ASSUME IsFiniteSet(Node)
  PROVE  ListSpec => ListIsList
<1>1. ListInit => LinkedList!Init
  BY NodesAssumption DEF ListInit, LinkedList!Init, ListElements, ListCall
<1>2. ListInv /\ [ListNext]_listVars => [LinkedList!Next]_(LinkedList!vars)
  BY ListStepIsStep
<1> QED
  BY <1>1, <1>2, ListInvariant, PTL DEF ListSpec, ListIsList, LinkedList!Spec

-----------------------------------------------------------------------------
(***************************************************************************)
(* The search tree.                                                        *)
(***************************************************************************)
Place == Seq({"left", "right"})

(* q is p or below it; q lies below p on the side d.                       *)
Below(p, q) == Len(p) <= Len(q) /\ \A k \in 1 .. Len(p) : q[k] = p[k]

Under(p, d, q) == /\ Len(p) < Len(q) /\ \A k \in 1 .. Len(p) : q[k] = p[k]
                  /\ q[Len(p) + 1] = d

(* What the nodes above a place ask of the value there.                    *)
Suits(q, v) == \A p \in DOMAIN tree : /\ Under(p, "left", q) => v < tree[p].val
                                      /\ Under(p, "right", q) => tree[p].val < v

(* How often a value was added by the calls that have ended.               *)
Done(v) == IF tpc = "add" /\ v = new THEN added[v] - 1 ELSE added[v]

TreeInv ==
  /\ TreeTypeOK
  /\ tpc = "add" => new \in TreeVal
  /\ DOMAIN tree \subseteq Place /\ place \in Place
  /\ tree \in [DOMAIN tree -> [val : TreeVal, count : Nat \ {0}]]
  /\ IsFiniteSet(DOMAIN tree) /\ treeSize = Cardinality(DOMAIN tree) /\ treeDepth = treeSize
  /\ \E b \in Nat : \A q \in DOMAIN tree : Len(q) <= b
  /\ \A q \in DOMAIN tree : Suits(q, tree[q].val)
  /\ \A q \in DOMAIN tree : \A p \in Place : Below(p, q) => p \in DOMAIN tree
  /\ \A q \in DOMAIN tree : tree[q].count = Done(tree[q].val)
  /\ \A v \in TreeVal : Done(v) >= 0
  /\ \A v \in TreeVal : Done(v) > 0 => \E q \in DOMAIN tree : tree[q].val = v
  /\ tpc = "add" => /\ Suits(place, new)
                    /\ \A p \in Place : Below(p, place) => p \in DOMAIN tree \/ p = place

(* A place is known by its length and its turns.                           *)
LEMMA SamePlace ==
  ASSUME NEW p \in Place, NEW q \in Place, Len(p) = Len(q), \A k \in 1 .. Len(p) : q[k] = p[k]
  PROVE  p = q
BY SeqEqual DEF Place

(* A turn more.                                                            *)
LEMMA OneTurnMore ==
  ASSUME NEW p \in Place, NEW d \in {"left", "right"}
  PROVE  /\ Append(p, d) \in Place /\ Len(Append(p, d)) = Len(p) + 1
         /\ \A k \in 1 .. Len(p) : Append(p, d)[k] = p[k]
         /\ Append(p, d)[Len(p) + 1] = d /\ Len(p) \in Nat
         /\ \A q \in Place : Below(Append(p, d), q) <=> Under(p, d, q)
<1>1. /\ Append(p, d) \in Place /\ Len(Append(p, d)) = Len(p) + 1
      /\ \A k \in 1 .. Len(p) : Append(p, d)[k] = p[k]
      /\ Append(p, d)[Len(p) + 1] = d /\ Len(p) \in Nat
  BY AppendProperties DEF Place
<1>2. ASSUME NEW q \in Place  PROVE Below(Append(p, d), q) <=> Under(p, d, q)
  <2>1. Len(q) \in Nat  BY DEF Place
  <2> QED  BY <1>1, <2>1 DEF Below, Under
<1> QED  BY <1>1, <1>2

(* Of two places one lies below the other, or they part somewhere.         *)
LEMMA PlacesPart ==
  ASSUME NEW q \in Place, NEW r \in Place, q # r
  PROVE  \E p \in Place : /\ Below(p, q) /\ Below(p, r)
                          /\ \/ p = q /\ (Under(p, "left", r) \/ Under(p, "right", r))
                             \/ p = r /\ (Under(p, "left", q) \/ Under(p, "right", q))
                             \/ Under(p, "left", q) /\ Under(p, "right", r)
                             \/ Under(p, "right", q) /\ Under(p, "left", r)
<1>0. /\ Len(q) \in Nat /\ Len(r) \in Nat
      /\ \A k \in 1 .. Len(q) : q[k] \in {"left", "right"}
      /\ \A k \in 1 .. Len(r) : r[k] \in {"left", "right"}
  BY DEF Place
<1> DEFINE T == {k \in 1 .. Len(q) : k <= Len(r) /\ q[k] # r[k]}
<1>1. CASE T # {}
  <2>1. PICK i0 \in T : \A k \in T : i0 <= k
    <3>1. T \subseteq Nat  BY <1>0
    <3> HIDE DEF T
    <3> QED  BY <1>1, <3>1, NatLeast
  <2>2. /\ i0 \in 1 .. Len(q) /\ i0 <= Len(r) /\ q[i0] # r[i0]
        /\ \A k \in 1 .. i0 - 1 : q[k] = r[k]
    BY <1>0, <2>1
  <2> DEFINE p == [k \in 1 .. i0 - 1 |-> q[k]]
  <2>3. p \in Place /\ Len(p) = i0 - 1 /\ \A k \in 1 .. i0 - 1 : p[k] = q[k]
    BY <1>0, <2>2 DEF Place
  <2> HIDE DEF p
  <2> QED  BY <1>0, <2>2, <2>3 DEF Below, Under
<1>2. CASE T = {} /\ Len(q) <= Len(r)
  <2>1. \A k \in 1 .. Len(q) : q[k] = r[k]
    BY <1>0, <1>2
  <2>2. Len(q) < Len(r)
    BY <1>0, <1>2, <2>1, SamePlace
  <2> QED  BY <1>0, <2>1, <2>2 DEF Below, Under
<1>3. CASE T = {} /\ Len(q) > Len(r)
  <2>1. \A k \in 1 .. Len(r) : q[k] = r[k]
    BY <1>0, <1>3
  <2> QED  BY <1>0, <1>3, <2>1 DEF Below, Under
<1> QED  BY <1>0, <1>1, <1>2, <1>3

(* No value is twice in the tree.                                          *)
LEMMA ValuesOnce ==
  ASSUME TreeInv, NEW q \in DOMAIN tree, NEW r \in Place, r # q, NEW v \in TreeVal,
         Suits(r, v), \A p \in Place : Below(p, r) => p \in DOMAIN tree \/ p = r,
         r \notin DOMAIN tree \/ v = tree[r].val
  PROVE  tree[q].val # v
<1>0. q \in Place /\ tree[q].val \in Int /\ v \in Int
  BY TreeAssumption DEF TreeInv, TreeTypeOK
<1>1. PICK p \in Place : /\ Below(p, q) /\ Below(p, r)
                         /\ \/ p = q /\ (Under(p, "left", r) \/ Under(p, "right", r))
                            \/ p = r /\ (Under(p, "left", q) \/ Under(p, "right", q))
                            \/ Under(p, "left", q) /\ Under(p, "right", r)
                            \/ Under(p, "right", q) /\ Under(p, "left", r)
  BY <1>0, PlacesPart
<1>2. p \in DOMAIN tree /\ tree[p].val \in Int
  BY <1>1, TreeAssumption DEF TreeInv, TreeTypeOK
<1>3. Suits(q, tree[q].val)
  BY DEF TreeInv
<1> QED  BY <1>0, <1>1, <1>2, <1>3 DEF Suits

LEMMA TreeInitInv == TreeInit => TreeInv
<1> SUFFICES ASSUME TreeInit PROVE TreeInv
  OBVIOUS
<1>1. DOMAIN tree = {}
  BY DEF TreeInit
<1>2. IsFiniteSet({}) /\ Cardinality({}) = 0
  BY FS_EmptySet
<1>3. place \in Place /\ 0 \in Nat
  BY DEF TreeInit, Place
<1> QED
  BY <1>1, <1>2, <1>3 DEF TreeInit, TreeInv, TreeTypeOK, Place, Done

LEMMA TreeAddInv == ASSUME TreeInv, NEW v \in TreeVal, TreeAdd(v)  PROVE TreeInv'
<1>1. /\ tpc = "idle" /\ tpc' = "add" /\ place' = <<>> /\ new' = v
      /\ added' = [added EXCEPT ![v] = @ + 1]
      /\ tree' = tree /\ treeSize' = treeSize /\ treeDepth' = treeDepth
  BY DEF TreeAdd
<1>2. \A w \in TreeVal : Done(w)' = Done(w) /\ added[w] \in Nat
  BY <1>1 DEF Done, TreeInv, TreeTypeOK
<1>3. place' \in Place /\ Len(place') = 0
  BY <1>1 DEF Place
<1>4. Suits(place, new)'
  BY <1>1, <1>3 DEF Suits, Under, TreeInv, Place
<1>5. \A p \in Place : Below(p, place') => p = place'
  BY <1>1, <1>3 DEF Below, Place
<1>6. \A q \in DOMAIN tree : Suits(q, tree[q].val)' <=> Suits(q, tree[q].val)
  BY <1>1 DEF Suits
<1>7. TreeTypeOK'
  BY <1>1, <1>3 DEF TreeTypeOK, TreeInv, Place
<1> QED
  BY <1>1, <1>2, <1>3, <1>4, <1>5, <1>6, <1>7 DEF TreeInv

LEMMA DescendInv == ASSUME TreeInv, Descend  PROVE TreeInv'
<1> DEFINE d == IF tree[place].val > new THEN "left" ELSE "right"
<1>1. /\ tpc = "add" /\ tpc' = "add" /\ place \in DOMAIN tree /\ tree[place].val # new
      /\ place' = Append(place, d) /\ UNCHANGED <<tree, treeSize, treeDepth, new, added>>
  BY DEF Descend, Here
<1>2. place \in Place /\ d \in {"left", "right"}
  BY DEF TreeInv
<1>3. /\ place' \in Place /\ Len(place') = Len(place) + 1 /\ Len(place) \in Nat
      /\ \A k \in 1 .. Len(place) : place'[k] = place[k]
      /\ place'[Len(place) + 1] = d
  BY <1>1, <1>2, OneTurnMore
<1>4. tree[place].val \in Int /\ new \in Int
  BY <1>1, TreeAssumption DEF TreeInv, TreeTypeOK
<1>5. ASSUME NEW p \in Place, NEW e \in {"left", "right"}, Under(p, e, place')
      PROVE  Under(p, e, place) \/ (p = place /\ e = d)
  <2>1. Len(p) \in Nat  BY DEF Place
  <2>2. CASE Len(p) < Len(place)
    BY <1>3, <1>5, <2>1, <2>2 DEF Under
  <2>3. CASE Len(p) >= Len(place)
    <3>1. Len(p) = Len(place)  BY <1>3, <1>5, <2>1, <2>3 DEF Under
    <3>2. \A k \in 1 .. Len(p) : place[k] = p[k]  BY <1>3, <1>5, <3>1 DEF Under
    <3>3. p = place  BY <1>2, <3>1, <3>2, SamePlace
    <3> QED  BY <1>3, <1>5, <3>3 DEF Under
  <2> QED  BY <1>3, <2>1, <2>2, <2>3
<1>6. Suits(place, new)'
  <2> SUFFICES ASSUME NEW p \in DOMAIN tree
               PROVE  /\ Under(p, "left", place') => new < tree[p].val
                      /\ Under(p, "right", place') => tree[p].val < new
    BY <1>1 DEF Suits
  <2>1. p \in Place /\ Suits(place, new)
    BY <1>1 DEF TreeInv
  <2> QED  BY <1>1, <1>4, <1>5, <2>1 DEF Suits
<1>7. \A p \in Place : Below(p, place') => p \in DOMAIN tree \/ p = place'
  <2> TAKE p \in Place
  <2> HAVE Below(p, place')
  <2>1. Len(p) \in Nat  BY DEF Place
  <2>2. CASE Len(p) = Len(place')
    BY <1>3, <2>1, <2>2, SamePlace DEF Below
  <2>3. CASE Len(p) # Len(place')
    <3>1. Below(p, place)
      BY <1>3, <2>1, <2>3 DEF Below
    <3> QED  BY <1>1, <3>1 DEF TreeInv
  <2> QED  BY <2>2, <2>3
<1>8. \A v \in TreeVal : Done(v)' = Done(v)
  BY <1>1 DEF Done
<1>9. \A q \in DOMAIN tree : Suits(q, tree[q].val)' <=> Suits(q, tree[q].val)
  BY <1>1 DEF Suits
<1>10. TreeTypeOK'
  BY <1>1, <1>3 DEF TreeTypeOK, TreeInv, Place
<1> QED
  BY <1>1, <1>3, <1>6, <1>7, <1>8, <1>9, <1>10 DEF TreeInv

LEMMA CountInv == ASSUME TreeInv, CountOneMore  PROVE TreeInv'
<1>1. /\ tpc = "add" /\ tpc' = "idle" /\ place \in DOMAIN tree /\ tree[place].val = new
      /\ tree' = [tree EXCEPT ![place].count = @ + 1]
      /\ UNCHANGED <<treeSize, treeDepth, place, new, added>>
  BY DEF CountOneMore, Here
<1>2. /\ DOMAIN tree' = DOMAIN tree
      /\ tree' \in [DOMAIN tree -> [val : TreeVal, count : Nat \ {0}]]
      /\ \A q \in DOMAIN tree : /\ tree'[q].val = tree[q].val
                                /\ tree'[q].count = IF q = place THEN tree[q].count + 1
                                                                 ELSE tree[q].count
  BY <1>1 DEF TreeInv
<1>3. \A q \in DOMAIN tree : q # place => tree[q].val # new
  <2> TAKE q \in DOMAIN tree
  <2> HAVE q # place
  <2>1. \A p \in Place : Below(p, place) => p \in DOMAIN tree \/ p = place
    BY <1>1 DEF TreeInv
  <2> QED  BY <1>1, <2>1, ValuesOnce DEF TreeInv
<1>4. \A v \in TreeVal : Done(v)' = IF v = new THEN Done(v) + 1 ELSE Done(v)
  BY <1>1 DEF Done, TreeInv, TreeTypeOK
<1>5. \A q \in DOMAIN tree : Suits(q, tree[q].val)' <=> Suits(q, tree[q].val)
  BY <1>2 DEF Suits
<1>6. TreeTypeOK'
  BY <1>1, <1>2 DEF TreeTypeOK, TreeInv
<1>7. \A q \in DOMAIN tree : tree'[q].count = Done(tree[q].val)'
  BY <1>1, <1>2, <1>3, <1>4 DEF TreeInv
<1>8. \A v \in TreeVal : Done(v)' > 0 => \E q \in DOMAIN tree : tree'[q].val = v
  BY <1>1, <1>2, <1>4 DEF TreeInv
<1>9. \A v \in TreeVal : Done(v)' >= 0
  <2> TAKE v \in TreeVal
  <2>1. Done(v) \in Int /\ Done(v) >= 0
    BY DEF Done, TreeInv, TreeTypeOK
  <2> QED  BY <1>4, <2>1
<1>10. \A q \in DOMAIN tree' : Suits(q, tree[q].val)'
  BY <1>2, <1>5 DEF TreeInv
<1>11. /\ DOMAIN tree' \subseteq Place /\ place' \in Place
       /\ IsFiniteSet(DOMAIN tree') /\ treeSize' = Cardinality(DOMAIN tree')
       /\ treeDepth' = treeSize'
       /\ \E b \in Nat : \A q \in DOMAIN tree' : Len(q) <= b
       /\ \A q \in DOMAIN tree' : \A p \in Place : Below(p, q) => p \in DOMAIN tree'
  BY <1>1, <1>2 DEF TreeInv
<1> QED
  BY <1>1, <1>2, <1>6, <1>7, <1>8, <1>9, <1>10, <1>11 DEF TreeInv

LEMMA AttachInv == ASSUME TreeInv, Attach  PROVE TreeInv'
<1>1. /\ tpc = "add" /\ tpc' = "idle" /\ place \notin DOMAIN tree
      /\ tree' = [p \in DOMAIN tree \cup {place} |->
                    IF p = place THEN [val |-> new, count |-> 1] ELSE tree[p]]
      /\ treeSize' = treeSize + 1 /\ treeDepth' = treeDepth + 1
      /\ UNCHANGED <<place, new, added>>
  BY DEF Attach
<1>2. /\ DOMAIN tree' = DOMAIN tree \cup {place}
      /\ tree' \in [DOMAIN tree' -> [val : TreeVal, count : Nat \ {0}]]
      /\ \A q \in DOMAIN tree : tree'[q] = tree[q]
      /\ tree'[place].val = new /\ tree'[place].count = 1
  BY <1>1 DEF TreeInv
<1>3. /\ place \in Place /\ new \in TreeVal /\ new \in Int /\ Len(place) \in Nat
      /\ Suits(place, new)
      /\ \A p \in Place : Below(p, place) => p \in DOMAIN tree \/ p = place
  BY <1>1, TreeAssumption DEF TreeInv, Place
<1>4. \A q \in DOMAIN tree : tree[q].val # new
  BY <1>1, <1>3, ValuesOnce DEF TreeInv
<1>5. \A q \in DOMAIN tree : ~Below(place, q)
  BY <1>1, <1>3 DEF TreeInv
<1>6. \A q \in Place, e \in {"left", "right"} : Under(place, e, q) => Below(place, q)
  <2> TAKE q \in Place, e \in {"left", "right"}
  <2>1. Len(q) \in Nat  BY DEF Place
  <2> QED  BY <1>3, <2>1 DEF Under, Below
<1>7. \A q \in DOMAIN tree' : Suits(q, tree[q].val)'
  <2> SUFFICES ASSUME NEW q \in DOMAIN tree', NEW p \in DOMAIN tree'
               PROVE  /\ Under(p, "left", q) => tree'[q].val < tree'[p].val
                      /\ Under(p, "right", q) => tree'[p].val < tree'[q].val
    BY DEF Suits
  <2>1. CASE p = place /\ q = place
    BY <1>3, <2>1 DEF Under
  <2>2. CASE p = place /\ q # place
    <3>1. q \in DOMAIN tree /\ q \in Place  BY <1>2, <2>2 DEF TreeInv
    <3> QED  BY <1>5, <1>6, <2>2, <3>1
  <2>3. CASE p # place /\ q = place
    <3>1. p \in DOMAIN tree /\ tree'[p] = tree[p]  BY <1>2, <2>3
    <3> QED  BY <1>2, <1>3, <2>3, <3>1 DEF Suits
  <2>4. CASE p # place /\ q # place
    <3>1. p \in DOMAIN tree /\ q \in DOMAIN tree /\ tree'[p] = tree[p] /\ tree'[q] = tree[q]
      BY <1>2, <2>4
    <3>2. Suits(q, tree[q].val)  BY <3>1 DEF TreeInv
    <3> QED  BY <3>1, <3>2 DEF Suits
  <2> QED  BY <2>1, <2>2, <2>3, <2>4
<1>8. \A v \in TreeVal : /\ Done(v)' = IF v = new THEN Done(v) + 1 ELSE Done(v)
                         /\ Done(v) \in Int /\ Done(v) >= 0
  BY <1>1 DEF Done, TreeInv, TreeTypeOK
<1>9. Done(new) = 0
  <2>1. ~ (Done(new) > 0)  BY <1>3, <1>4 DEF TreeInv
  <2> QED  BY <1>3, <1>8, <2>1
<1>10. \A q \in DOMAIN tree' : tree'[q].count = Done(tree[q].val)'
  <2> TAKE q \in DOMAIN tree'
  <2>1. CASE q = place
    BY <1>2, <1>3, <1>8, <1>9, <2>1
  <2>2. CASE q # place
    <3>1. q \in DOMAIN tree /\ tree'[q] = tree[q]  BY <1>2, <2>2
    <3>2. tree[q].count = Done(tree[q].val) /\ tree[q].val \in TreeVal
      BY <3>1 DEF TreeInv
    <3> QED  BY <1>4, <1>8, <3>1, <3>2
  <2> QED  BY <2>1, <2>2
<1>11. \A v \in TreeVal : Done(v)' > 0 => \E q \in DOMAIN tree' : tree'[q].val = v
  <2> TAKE v \in TreeVal
  <2>1. CASE v = new
    BY <1>2, <2>1
  <2>2. CASE v # new
    <3>1. Done(v)' > 0 => \E q \in DOMAIN tree : tree[q].val = v
      BY <1>8, <2>2 DEF TreeInv
    <3> QED  BY <1>2, <3>1
  <2> QED  BY <2>1, <2>2
<1>12. /\ IsFiniteSet(DOMAIN tree') /\ Cardinality(DOMAIN tree') = Cardinality(DOMAIN tree) + 1
  BY <1>1, <1>2, FS_AddElement DEF TreeInv
<1>13. \E b \in Nat : \A q \in DOMAIN tree' : Len(q) <= b
  <2>1. PICK b \in Nat : \A q \in DOMAIN tree : Len(q) <= b
    BY DEF TreeInv
  <2> DEFINE c == IF Len(place) <= b THEN b ELSE Len(place)
  <2>2. c \in Nat /\ c >= b /\ c >= Len(place)
    BY <1>3
  <2>3. \A q \in DOMAIN tree' : Len(q) <= c
    <3> TAKE q \in DOMAIN tree'
    <3>1. CASE q = place  BY <2>2, <3>1
    <3>2. CASE q # place
      <4>1. q \in DOMAIN tree /\ Len(q) \in Nat  BY <1>2, <3>2 DEF TreeInv, Place
      <4> HIDE DEF c
      <4> QED  BY <2>1, <2>2, <4>1
    <3> QED  BY <3>1, <3>2
  <2> HIDE DEF c
  <2> QED  BY <2>2, <2>3
<1>14. \A q \in DOMAIN tree' : \A p \in Place : Below(p, q) => p \in DOMAIN tree'
  BY <1>2, <1>3 DEF TreeInv
<1>15. TreeTypeOK'
  <2>1. \A p \in DOMAIN tree' : /\ p \in Seq({"left", "right"})
                                /\ tree'[p].val \in TreeVal /\ tree'[p].count \in Nat
    BY <1>2, <1>3 DEF TreeInv, Place
  <2> QED  BY <1>1, <2>1 DEF TreeInv, TreeTypeOK
<1>16. DOMAIN tree' \subseteq Place /\ place' \in Place /\ treeSize' = Cardinality(DOMAIN tree')
       /\ treeDepth' = treeSize'
  BY <1>1, <1>2, <1>3, <1>12 DEF TreeInv
<1>17. \A v \in TreeVal : Done(v)' >= 0
  BY <1>8
<1>18. tree' \in [DOMAIN tree' -> [val : TreeVal, count : Nat \ {0}]]
  BY <1>2
<1>19. tpc' # "add" /\ IsFiniteSet(DOMAIN tree')
  BY <1>1, <1>12
<1> QED
  BY <1>7, <1>10, <1>11, <1>13, <1>14, <1>15, <1>16, <1>17, <1>18, <1>19 DEF TreeInv

LEMMA TreeStepInv == TreeInv /\ [TreeNext]_treeVars => TreeInv'
<1> SUFFICES ASSUME TreeInv, [TreeNext]_treeVars PROVE TreeInv'
  OBVIOUS
<1>1. CASE UNCHANGED treeVars
  BY <1>1 DEF treeVars, TreeInv, TreeTypeOK, Suits, Done
<1> QED
  BY <1>1, TreeAddInv, DescendInv, CountInv, AttachInv DEF TreeNext

LEMMA TreeInvariant == TreeSpec => []TreeInv
BY TreeInitInv, TreeStepInv, PTL DEF TreeSpec

-----------------------------------------------------------------------------
(* What print_BSTree does at a place, and the places it may come to.       *)
Places == UNION {[1 .. n -> {"left", "right"}] : n \in 0 .. Longest + 1}

Step(g, p) == IF p \notin DOMAIN tree THEN <<>>
              ELSE g[Append(p, "left")] \o <<tree[p]>> \o g[Append(p, "right")]

Prints(g) == g = [p \in Places |-> Step(g, p)]

LEMMA PrintedIs == Printed = (CHOOSE g : Prints(g))[<<>>]
BY DEF Printed, Prints, Step, Places

LEMMA LongestIs ==
  ASSUME TreeInv
  PROVE  Longest \in Nat /\ \A q \in DOMAIN tree : Len(q) <= Longest
<1> DEFINE lens == {Len(p) : p \in DOMAIN tree} \cup {0}
           T == {n \in Nat : \A m \in lens : m <= n}
<1>1. lens \subseteq Nat
  BY DEF TreeInv, Place
<1>2. PICK b \in Nat : \A q \in DOMAIN tree : Len(q) <= b
  BY DEF TreeInv
<1>3. b \in T
  BY <1>2
<1>4. PICK c \in T : \A n \in T : c <= n
  <2>1. T \subseteq Nat /\ T # {}  BY <1>3
  <2> HIDE DEF T
  <2> QED  BY <2>1, NatLeast
<1>5. c \in Nat /\ \A m \in lens : m <= c
  OBVIOUS
<1>6. c \in lens
  <2> SUFFICES ASSUME c \notin lens PROVE FALSE
    OBVIOUS
  <2>1. c # 0
    OBVIOUS
  <2>2. c - 1 \in Nat
    BY <1>5, <2>1
  <2>3. \A m \in lens : m <= c - 1
    <3> HIDE DEF lens
    <3> QED  BY <1>1, <1>5
  <2>4. c - 1 \in T
    BY <2>2, <2>3
  <2>5. ~ (c <= c - 1)
    BY <1>5
  <2> QED  BY <1>4, <2>4, <2>5
<1> HIDE DEF lens
<1>7. Longest = CHOOSE n \in lens : \A m \in lens : m <= n
  BY DEF Longest, lens
<1>8. Longest \in lens /\ \A m \in lens : m <= Longest
  BY <1>5, <1>6, <1>7
<1> QED  BY <1>1, <1>8 DEF lens

LEMMA PlacesAre ==
  ASSUME TreeInv
  PROVE  \A p : p \in Places <=> p \in Place /\ Len(p) <= Longest + 1
<1>1. Longest \in Nat
  BY LongestIs
<1>2. ASSUME NEW p \in Places  PROVE p \in Place /\ Len(p) <= Longest + 1
  <2>1. PICK n \in 0 .. Longest + 1 : p \in [1 .. n -> {"left", "right"}]
    BY DEF Places
  <2>2. n \in Nat /\ n <= Longest + 1
    BY <1>1, <2>1
  <2>3. p \in Place /\ Len(p) = n
    BY <2>1, <2>2 DEF Place
  <2> QED  BY <2>2, <2>3
<1>3. ASSUME NEW p \in Place, Len(p) <= Longest + 1  PROVE p \in Places
  <2>1. p \in [1 .. Len(p) -> {"left", "right"}] /\ Len(p) \in 0 .. Longest + 1
    BY <1>1, <1>3 DEF Place
  <2> QED  BY <2>1 DEF Places
<1> QED  BY <1>2, <1>3

(* The places with less than n turns left to take.                         *)
Level(n) == {p \in Places : Len(p) + n >= Longest + 1}

LEMMA LevelsNest ==
  ASSUME TreeInv, NEW n \in Nat
  PROVE  /\ n = 0 => \A p \in Level(n) : p \notin DOMAIN tree
         /\ n > 0 => \A p \in Level(n) : p \in DOMAIN tree =>
              Append(p, "left") \in Level(n - 1) /\ Append(p, "right") \in Level(n - 1)
         /\ n >= Longest + 1 => Level(n) = Places
<1>1. Longest \in Nat /\ \A q \in DOMAIN tree : Len(q) <= Longest
  BY LongestIs
<1>2. \A p \in Places : p \in Place /\ Len(p) \in Nat
  BY PlacesAre DEF Place
<1>3. n = 0 => \A p \in Level(n) : p \notin DOMAIN tree
  BY <1>1, <1>2 DEF Level
<1>4. ASSUME n > 0, NEW p \in Level(n), p \in DOMAIN tree, NEW d \in {"left", "right"}
      PROVE  Append(p, d) \in Level(n - 1)
  <2>1. p \in Place /\ Len(p) \in Nat /\ Len(p) <= Longest /\ Len(p) + n >= Longest + 1
    BY <1>1, <1>2, <1>4 DEF Level
  <2>2. Append(p, d) \in Place /\ Len(Append(p, d)) = Len(p) + 1
    BY <2>1, OneTurnMore
  <2>3. Append(p, d) \in Places
    <3>1. Len(Append(p, d)) <= Longest + 1
      BY <1>1, <2>1, <2>2
    <3> QED  BY <2>2, <3>1, PlacesAre
  <2> QED  BY <1>1, <2>1, <2>2, <2>3 DEF Level
<1>5. n >= Longest + 1 => Level(n) = Places
  BY <1>1, <1>2 DEF Level
<1> QED  BY <1>3, <1>4, <1>5

(* There is such a function: print_BSTree comes to an end.                 *)
LEMMA PrintsExists ==
  ASSUME TreeInv
  PROVE  \E g : Prints(g)
<1> DEFINE Partial(g, n) == \A p \in Level(n) : g[p] = Step(g, p)
           T == {n \in Nat : ~ \E g : Partial(g, n)}
<1>1. Longest + 1 \in Nat
  BY LongestIs
<1>2. T = {}
  <2> SUFFICES ASSUME T # {} PROVE FALSE
    OBVIOUS
  <2>1. PICK n \in T : \A k \in T : n <= k
    <3>1. T \subseteq Nat  OBVIOUS
    <3> HIDE DEF T
    <3> QED  BY <3>1, NatLeast
  <2>2. n \in Nat /\ ~ \E g : Partial(g, n)
    OBVIOUS
  <2>3. CASE n = 0
    <3> DEFINE g == [p \in Places |-> <<>>]
    <3>1. Partial(g, 0)
      BY LevelsNest DEF Level, Step
    <3> QED  BY <2>2, <2>3, <3>1
  <2>4. CASE n > 0
    <3>1. n - 1 \in Nat /\ ~ (n <= n - 1)
      BY <2>2, <2>4
    <3>2. n - 1 \notin T
      BY <2>1, <3>1
    <3>3. PICK g : Partial(g, n - 1)
      BY <3>1, <3>2
    <3> DEFINE h == [p \in Places |-> Step(g, p)]
    <3>4. \A p \in Level(n - 1) : h[p] = g[p]
      BY <3>3 DEF Level
    <3>5. \A p \in Level(n) : h[p] = Step(g, p)
      BY DEF Level
    <3>6. \A p \in Level(n) : p \in DOMAIN tree =>
            Append(p, "left") \in Level(n - 1) /\ Append(p, "right") \in Level(n - 1)
      BY <2>2, <2>4, LevelsNest
    <3> HIDE DEF h
    <3>7. Partial(h, n)
      BY <3>4, <3>5, <3>6 DEF Step
    <3> QED  BY <2>2, <3>7
  <2> QED  BY <2>2, <2>3, <2>4
<1>3. PICK g : Partial(g, Longest + 1)
  BY <1>1, <1>2
<1>4. \A p \in Places : g[p] = Step(g, p)
  <2>1. Level(Longest + 1) = Places
    BY <1>1, LevelsNest
  <2> QED  BY <1>3, <2>1
<1> DEFINE h == [p \in Places |-> Step(g, p)]
<1>5. \A p \in Places : h[p] = g[p]
  BY <1>4
<1>6. \A p \in Places : p \in DOMAIN tree =>
        Append(p, "left") \in Places /\ Append(p, "right") \in Places
  <2> TAKE p \in Places
  <2> HAVE p \in DOMAIN tree
  <2>1. p \in Place /\ Len(p) <= Longest /\ Len(p) \in Nat /\ Longest \in Nat
    BY LongestIs, PlacesAre DEF Place
  <2>2. /\ Append(p, "left") \in Place /\ Len(Append(p, "left")) = Len(p) + 1
        /\ Append(p, "right") \in Place /\ Len(Append(p, "right")) = Len(p) + 1
    BY <2>1, OneTurnMore
  <2>3. Len(p) + 1 <= Longest + 1
    BY <2>1
  <2> QED  BY <2>2, <2>3, PlacesAre
<1>7. \A p \in Places : Step(h, p) = Step(g, p)
  <2> HIDE DEF h
  <2> QED  BY <1>5, <1>6 DEF Step
<1>8. Prints(h)
  BY <1>7 DEF Prints
<1> QED  BY <1>8

(* The nodes at a place and below it, and the text of them: every one of   *)
(* them once, in the order of their values.                                *)
Sub(p) == {q \in DOMAIN tree : Below(p, q)}

Record == [val : TreeVal, count : Nat \ {0}]

Texts(s) == {s[k] : k \in 1 .. Len(s)}

Rising(s) == \A k, j \in 1 .. Len(s) : k < j => s[k].val < s[j].val

Shows(s, Q) == /\ s \in Seq(Record) /\ Rising(s)
               /\ Texts(s) = {tree[q] : q \in Q}
               /\ IsFiniteSet(Q) /\ Len(s) = Cardinality(Q)

(* The texts of two sets of nodes and the node between them.               *)
LEMMA ShowsJoin ==
  ASSUME TreeInv, NEW Q, NEW R, NEW s, NEW t, NEW p \in DOMAIN tree,
         Shows(s, Q), Shows(t, R), Q \subseteq DOMAIN tree, R \subseteq DOMAIN tree,
         \A q \in Q : tree[q].val < tree[p].val,
         \A r \in R : tree[p].val < tree[r].val
  PROVE  Shows(s \o <<tree[p]>> \o t, Q \cup {p} \cup R)
<1> DEFINE e == tree[p]
           u == s \o <<e>>
           w == u \o t
<1>1. /\ e \in Record /\ s \in Seq(Record) /\ t \in Seq(Record)
      /\ Len(s) \in Nat /\ Len(t) \in Nat
  BY DEF TreeInv, Shows, Record
<1>2. \A x \in Record : x.val \in Int
  BY TreeAssumption DEF Record
<1> HIDE DEF e
<1>3. /\ u \in Seq(Record) /\ Len(u) = Len(s) + 1
      /\ \A k \in 1 .. Len(s) + 1 : u[k] = IF k <= Len(s) THEN s[k] ELSE e
  <2>1. <<e>> \in Seq(Record) /\ Len(<<e>>) = 1 /\ <<e>>[1] = e
    BY <1>1
  <2>2. /\ u \in Seq(Record) /\ Len(u) = Len(s) + 1
        /\ \A k \in 1 .. Len(s) + 1 : u[k] = IF k <= Len(s) THEN s[k] ELSE <<e>>[k - Len(s)]
    BY <1>1, <2>1, ConcatProperties
  <2>3. \A k \in 1 .. Len(s) + 1 : ~ (k <= Len(s)) => k - Len(s) = 1
    BY <1>1
  <2> QED  BY <2>1, <2>2, <2>3
<1> HIDE DEF u
<1>4. /\ w \in Seq(Record) /\ Len(w) = Len(s) + 1 + Len(t)
      /\ \A k \in 1 .. Len(w) : w[k] = IF k <= Len(s) + 1 THEN u[k] ELSE t[k - (Len(s) + 1)]
  <2>1. /\ w \in Seq(Record) /\ Len(w) = Len(u) + Len(t)
        /\ \A k \in 1 .. Len(u) + Len(t) : w[k] = IF k <= Len(u) THEN u[k] ELSE t[k - Len(u)]
    BY <1>1, <1>3, ConcatProperties
  <2> QED  BY <1>3, <2>1
<1> HIDE DEF w
<1>5. /\ \A k \in 1 .. Len(s) : s[k] \in Record /\ s[k].val < e.val
      /\ \A k \in 1 .. Len(t) : t[k] \in Record /\ e.val < t[k].val
  <2>1. \A k \in 1 .. Len(s) : \E q \in Q : s[k] = tree[q]
    BY DEF Shows, Texts
  <2>2. \A k \in 1 .. Len(t) : \E r \in R : t[k] = tree[r]
    BY DEF Shows, Texts
  <2> QED  BY <1>1, <2>1, <2>2 DEF e
<1>6. Rising(w)
  <2> SUFFICES ASSUME NEW k \in 1 .. Len(w), NEW j \in 1 .. Len(w), k < j
               PROVE  w[k].val < w[j].val
    BY DEF Rising
  <2>1. CASE j <= Len(s)
    <3>1. k \in 1 .. Len(s) /\ j \in 1 .. Len(s)
      BY <1>1, <1>4, <2>1
    <3>2. \A h \in 1 .. Len(s) : w[h] = s[h]
      <4> SUFFICES ASSUME NEW h \in 1 .. Len(s)  PROVE w[h] = s[h]
        OBVIOUS
      <4>1. h \in 1 .. Len(w) /\ h \in 1 .. Len(s) + 1 /\ h <= Len(s) + 1 /\ h <= Len(s)
        BY <1>1, <1>4
      <4>2. w[h] = u[h]  BY <1>4, <4>1
      <4> QED  BY <1>3, <4>1, <4>2
    <3>3. w[k] = s[k] /\ w[j] = s[j]
      BY <3>1, <3>2
    <3> QED  BY <3>1, <3>3 DEF Shows, Rising
  <2>2. CASE j = Len(s) + 1
    <3>1. w[k] = s[k] /\ w[j] = e /\ k \in 1 .. Len(s)
      BY <1>1, <1>3, <1>4, <2>2
    <3> QED  BY <1>5, <3>1
  <2>3. CASE j > Len(s) + 1
    <3>1. w[j] = t[j - (Len(s) + 1)] /\ j - (Len(s) + 1) \in 1 .. Len(t)
      BY <1>1, <1>4, <2>3
    <3>2. CASE k <= Len(s)
      <4>1. w[k] = s[k] /\ k \in 1 .. Len(s)
        BY <1>1, <1>3, <1>4, <3>2
      <4>2. /\ s[k].val < e.val /\ e.val < w[j].val
            /\ s[k].val \in Int /\ e.val \in Int /\ w[j].val \in Int
        BY <1>1, <1>2, <1>5, <3>1, <4>1
      <4> QED  BY <4>1, <4>2
    <3>3. CASE k = Len(s) + 1
      <4>1. w[k] = e
        BY <1>1, <1>3, <1>4, <3>3
      <4> QED  BY <1>5, <3>1, <4>1
    <3>4. CASE k > Len(s) + 1
      <4>1. /\ w[k] = t[k - (Len(s) + 1)] /\ k - (Len(s) + 1) \in 1 .. Len(t)
            /\ k - (Len(s) + 1) < j - (Len(s) + 1)
        BY <1>1, <1>4, <3>4
      <4> QED  BY <3>1, <4>1 DEF Shows, Rising
    <3> QED  BY <1>1, <3>2, <3>3, <3>4
  <2> QED  BY <1>1, <2>1, <2>2, <2>3
<1>7. Texts(w) = Texts(s) \cup {e} \cup Texts(t)
  <2>1. ASSUME NEW k \in 1 .. Len(w)  PROVE w[k] \in Texts(s) \cup {e} \cup Texts(t)
    <3>1. CASE k <= Len(s)
      <4>1. w[k] = s[k] /\ k \in 1 .. Len(s)
        BY <1>1, <1>3, <1>4, <3>1
      <4> QED  BY <4>1 DEF Texts
    <3>2. CASE k = Len(s) + 1
      BY <1>1, <1>3, <1>4, <3>2
    <3>3. CASE k > Len(s) + 1
      <4>1. w[k] = t[k - (Len(s) + 1)] /\ k - (Len(s) + 1) \in 1 .. Len(t)
        BY <1>1, <1>4, <3>3
      <4> QED  BY <4>1 DEF Texts
    <3> QED  BY <1>1, <3>1, <3>2, <3>3
  <2>2. ASSUME NEW k \in 1 .. Len(s)  PROVE s[k] \in Texts(w)
    <3>1. w[k] = s[k] /\ k \in 1 .. Len(w)
      BY <1>1, <1>3, <1>4
    <3> QED  BY <3>1 DEF Texts
  <2>3. e \in Texts(w)
    <3>1. w[Len(s) + 1] = e /\ Len(s) + 1 \in 1 .. Len(w)
      BY <1>1, <1>3, <1>4
    <3> QED  BY <3>1 DEF Texts
  <2>4. ASSUME NEW k \in 1 .. Len(t)  PROVE t[k] \in Texts(w)
    <3>1. w[Len(s) + 1 + k] = t[k] /\ Len(s) + 1 + k \in 1 .. Len(w)
      BY <1>1, <1>4
    <3> QED  BY <3>1 DEF Texts
  <2>5. Texts(w) \subseteq Texts(s) \cup {e} \cup Texts(t)
    BY <2>1 DEF Texts
  <2>6. Texts(s) \subseteq Texts(w) /\ Texts(t) \subseteq Texts(w)
    BY <2>2, <2>4 DEF Texts
  <2> QED  BY <2>3, <2>5, <2>6
<1>8. Texts(w) = {tree[q] : q \in Q \cup {p} \cup R}
  BY <1>7 DEF Shows, e
<1>9. /\ IsFiniteSet(Q \cup {p} \cup R)
      /\ Cardinality(Q \cup {p} \cup R) = Cardinality(Q) + 1 + Cardinality(R)
  <2>1. p \notin Q /\ p \notin R /\ Q \cap R = {}
    <3>1. \A q \in DOMAIN tree : tree[q].val \in Int
      BY <1>2 DEF TreeInv, Record
    <3> QED  BY <3>1
  <2>2. IsFiniteSet(Q) /\ IsFiniteSet(R)
    BY DEF Shows
  <2>3. IsFiniteSet(Q \cup {p}) /\ Cardinality(Q \cup {p}) = Cardinality(Q) + 1
    BY <2>1, <2>2, FS_AddElement
  <2>4. (Q \cup {p}) \cap R = {}
    BY <2>1
  <2>5. /\ IsFiniteSet(Q \cup {p} \cup R)
        /\ Cardinality(Q \cup {p} \cup R)
             = Cardinality(Q \cup {p}) + Cardinality(R) - Cardinality((Q \cup {p}) \cap R)
    BY <2>2, <2>3, FS_Union
  <2>6. /\ Cardinality((Q \cup {p}) \cap R) = 0
        /\ Cardinality(Q) \in Nat /\ Cardinality(R) \in Nat
    BY <2>2, <2>4, FS_EmptySet, FS_CardinalityType
  <2>7. Cardinality(Q \cup {p} \cup R) = Cardinality(Q) + 1 + Cardinality(R) - 0
    BY <2>3, <2>5, <2>6
  <2> QED  BY <2>5, <2>6, <2>7
<1>10. Len(w) = Cardinality(Q \cup {p} \cup R)
  <2>1. Len(s) = Cardinality(Q) /\ Len(t) = Cardinality(R)
    BY DEF Shows
  <2> QED  BY <1>4, <1>9, <2>1
<1>11. Shows(w, Q \cup {p} \cup R)
  BY <1>4, <1>6, <1>8, <1>9, <1>10 DEF Shows
<1> QED  BY <1>11 DEF w, u, e

(* The nodes below a place are those on its two sides and itself.          *)
LEMMA SubParts ==
  ASSUME TreeInv, NEW p \in Place
  PROVE  /\ p \notin DOMAIN tree => Sub(p) = {}
         /\ p \in DOMAIN tree =>
              /\ Sub(p) = Sub(Append(p, "left")) \cup {p} \cup Sub(Append(p, "right"))
              /\ \A q \in Sub(Append(p, "left")) : tree[q].val < tree[p].val
              /\ \A q \in Sub(Append(p, "right")) : tree[p].val < tree[q].val
<1>1. p \notin DOMAIN tree => Sub(p) = {}
  BY DEF Sub, TreeInv
<1>2. ASSUME p \in DOMAIN tree
      PROVE  /\ \A q \in Sub(Append(p, "left")) : tree[q].val < tree[p].val
             /\ \A q \in Sub(Append(p, "right")) : tree[p].val < tree[q].val
  BY <1>2, OneTurnMore DEF Sub, TreeInv, Suits
<1>3. ASSUME p \in DOMAIN tree, NEW q \in Sub(p), q # p
      PROVE  q \in Sub(Append(p, "left")) \cup Sub(Append(p, "right"))
  <2>1. /\ q \in Place /\ q \in DOMAIN tree /\ Below(p, q) /\ Len(p) \in Nat /\ Len(q) \in Nat
        /\ \A k \in 1 .. Len(q) : q[k] \in {"left", "right"}
    BY <1>3 DEF Sub, TreeInv, Place
  <2>2. Len(p) < Len(q)
    BY <1>3, <2>1, SamePlace DEF Below
  <2>3. Under(p, "left", q) \/ Under(p, "right", q)
    BY <2>1, <2>2 DEF Below, Under
  <2> QED  BY <2>1, <2>3, OneTurnMore DEF Sub
<1>4. ASSUME p \in DOMAIN tree, NEW d \in {"left", "right"}, NEW q \in Sub(Append(p, d))
      PROVE  q \in Sub(p)
  <2>1. q \in Place /\ q \in DOMAIN tree /\ Under(p, d, q) /\ Len(p) \in Nat /\ Len(q) \in Nat
    BY <1>4, OneTurnMore DEF Sub, TreeInv, Place
  <2> QED  BY <2>1 DEF Sub, Under, Below
<1>5. p \in DOMAIN tree => p \in Sub(p)
  <2>1. Len(p) \in Nat  BY DEF Place
  <2> QED  BY <2>1 DEF Sub, Below
<1> QED  BY <1>1, <1>2, <1>3, <1>4, <1>5

(* print_BSTree prints of every place what lies there and below.           *)
LEMMA PlacesPrint ==
  ASSUME TreeInv, NEW g, Prints(g)
  PROVE  \A p \in Places : Shows(g[p], Sub(p))
<1> DEFINE Ok(n) == \A p \in Level(n) : Shows(g[p], Sub(p))
           T == {n \in Nat : ~ Ok(n)}
<1>1. \A p \in Places : g[p] = Step(g, p)
  BY DEF Prints
<1>2. \A p \in Places : p \in Place
  BY PlacesAre
<1>3. Shows(<<>>, {})
  BY FS_EmptySet DEF Shows, Rising, Texts
<1>4. T = {}
  <2> SUFFICES ASSUME T # {} PROVE FALSE
    OBVIOUS
  <2>1. PICK n \in T : \A k \in T : n <= k
    <3>1. T \subseteq Nat  OBVIOUS
    <3> HIDE DEF T
    <3> QED  BY <3>1, NatLeast
  <2>2. n \in Nat /\ ~ Ok(n)
    OBVIOUS
  <2>3. PICK p \in Level(n) : ~ Shows(g[p], Sub(p))
    BY <2>2
  <2>4. p \in Places /\ p \in Place
    BY <1>2 DEF Level
  <2>5. CASE p \notin DOMAIN tree
    <3>1. g[p] = <<>> /\ Sub(p) = {}
      BY <1>1, <2>4, <2>5, SubParts DEF Step
    <3> QED  BY <1>3, <2>3, <3>1
  <2>6. CASE p \in DOMAIN tree
    <3>1. n > 0
      BY <2>2, <2>6, LevelsNest
    <3>2. n - 1 \in Nat /\ ~ (n <= n - 1)
      BY <2>2, <3>1
    <3>3. Ok(n - 1)
      BY <2>1, <3>2
    <3> DEFINE l == Append(p, "left")
               r == Append(p, "right")
    <3>4. l \in Level(n - 1) /\ r \in Level(n - 1)
      BY <2>2, <2>6, <3>1, LevelsNest
    <3>5. Shows(g[l], Sub(l)) /\ Shows(g[r], Sub(r))
      BY <3>3, <3>4
    <3>6. /\ Sub(p) = Sub(l) \cup {p} \cup Sub(r)
          /\ \A q \in Sub(l) : tree[q].val < tree[p].val
          /\ \A q \in Sub(r) : tree[p].val < tree[q].val
      BY <2>4, <2>6, SubParts
    <3>7. Sub(l) \subseteq DOMAIN tree /\ Sub(r) \subseteq DOMAIN tree
      BY DEF Sub
    <3>8. g[p] = g[l] \o <<tree[p]>> \o g[r]
      BY <1>1, <2>4, <2>6 DEF Step
    <3> HIDE DEF l, r
    <3>9. Shows(g[p], Sub(p))
      BY <2>6, <3>5, <3>6, <3>7, <3>8, ShowsJoin
    <3> QED  BY <2>3, <3>9
  <2> QED  BY <2>5, <2>6
<1>5. Longest + 1 \in Nat
  BY LongestIs
<1>6. Ok(Longest + 1) /\ Level(Longest + 1) = Places
  BY <1>4, <1>5, LevelsNest
<1> QED  BY <1>6

(* Between two calls the tree prints every value that was added once, in   *)
(* increasing order and with how often it was added.                       *)
THEOREM TreeSorts == TreeSpec => []TreePrintsSorted
<1>1. TreeInv => TreePrintsSorted
  <2> SUFFICES ASSUME TreeInv, tpc = "idle"
               PROVE  TreePrintsSorted
    BY DEF TreePrintsSorted
  <2> DEFINE g == CHOOSE f : Prints(f)
  <2>1. Prints(g)
    BY PrintsExists
  <2> HIDE DEF g
  <2>2. <<>> \in Places
    <3>1. <<>> \in Place /\ Len(<<>>) = 0 /\ Longest \in Nat
      BY LongestIs DEF Place
    <3> QED  BY <3>1, PlacesAre
  <2>3. Shows(g[<<>>], Sub(<<>>))
    BY <2>1, <2>2, PlacesPrint
  <2>4. Sub(<<>>) = DOMAIN tree
    <3>1. \A q \in DOMAIN tree : Len(q) \in Nat
      BY DEF TreeInv, Place
    <3>2. Len(<<>>) = 0 /\ 1 .. 0 = {}
      OBVIOUS
    <3>3. \A q \in DOMAIN tree : Below(<<>>, q)
      BY <3>1, <3>2 DEF Below
    <3> QED  BY <3>3 DEF Sub
  <2>5. Printed = g[<<>>]
    BY PrintedIs DEF g
  <2>6. Shows(Printed, DOMAIN tree)
    BY <2>3, <2>4, <2>5
  <2>7. {tree[q] : q \in DOMAIN tree}
          = {[val |-> v, count |-> added[v]] : v \in {w \in TreeVal : added[w] > 0}}
    <3>1. \A v : Done(v) = added[v]
      BY DEF Done
    <3>2. ASSUME NEW q \in DOMAIN tree
          PROVE  /\ tree[q].val \in {w \in TreeVal : added[w] > 0}
                 /\ tree[q] = [val |-> tree[q].val, count |-> added[tree[q].val]]
      BY <3>1 DEF TreeInv
    <3>3. ASSUME NEW v \in {w \in TreeVal : added[w] > 0}
          PROVE  \E q \in DOMAIN tree : tree[q] = [val |-> v, count |-> added[v]]
      <4>1. PICK q \in DOMAIN tree : tree[q].val = v
        BY <3>1 DEF TreeInv
      <4> QED  BY <3>2, <4>1
    <3> QED  BY <3>2, <3>3
  <2>8. treeSize = Len(Printed) /\ treeDepth = treeSize
    BY <2>6 DEF Shows, TreeInv
  <2> QED  BY <2>6, <2>7, <2>8 DEF TreePrintsSorted, Shows, Rising, Texts
<1> QED  BY <1>1, TreeInvariant, PTL

-----------------------------------------------------------------------------
(***************************************************************************)
(* The containers together.                                                *)
(***************************************************************************)
StorageInv == RingTypeOK /\ ArrayInv /\ HeapTypeOK /\ ListInv /\ TreeInv

(* Every container keeps its types, whichever of them a behaviour is of.   *)
THEOREM StorageTypes == Spec => []StorageTypeOK
<1>1. Init => StorageInv
  BY RingInitTypeOK, ArrayInitInv, HeapInitType, ListInitInv, TreeInitInv DEF Init, StorageInv
<1>2. StorageInv /\ [Next]_vars => StorageInv'
  BY RingStepTypeOK, ArrayStepInv, HeapNextType, ListStepInv, TreeStepInv
  DEF StorageInv, Next, vars, RingSteps, ArraySteps, HeapSteps, ListSteps, TreeSteps
<1>3. StorageInv => StorageTypeOK
  BY DEF StorageInv, StorageTypeOK, ArrayInv, ListInv, TreeInv
<1> QED  BY <1>1, <1>2, <1>3, PTL DEF Spec
=============================================================================
