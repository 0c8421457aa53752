------------------------ MODULE CheckMemoryLeakProofs ------------------------
(***************************************************************************)
(* Theorems about CheckMemoryLeak: its types; the map is the heap whenever *)
(* nobody is inside a wrapper; the reports are exact.                      *)
(***************************************************************************)
EXTENDS CheckMemoryLeak, TLAPS

LEMMA OpTypes ==
  /\ AnySize \in Size /\ Main \in Thread
  /\ \A fn \in Fn, p \in Block \cup {Null}, n \in Size : Op(fn, p, n) \in Ops
  /\ Status \in Ops /\ Op("final", Null, AnySize) \in Ops
<1>1. AnySize \in Size /\ Main \in Thread
  BY SizesAreNumbers, ThreadsDistinct DEF AnySize
<1>2. \A fn \in Fn, p \in Block \cup {Null}, n \in Size : Op(fn, p, n) \in Ops
  BY DEF Op, Ops
<1> QED
  BY <1>1, <1>2 DEF Status, Fn

LEMMA TypesInit == Init => TypeOK
<1> SUFFICES ASSUME Init PROVE TypeOK
  OBVIOUS
<1> USE DEF Init, TypeOK
<1>1. pc \in [Actor -> Pc] /\ monitor_id \in Actor \cup {None}
  BY DEF Pc, Holding, Actor
<1>2. op \in [Actor -> Ops]
  BY OpTypes
<1>3. NoBlocks \in [Block -> Size \cup {NoSize}]
  BY DEF NoBlocks
<1> QED
  BY <1>1, <1>2, <1>3, SizesAreNumbers

LEMMA TypesNext ==
  ASSUME TypeOK, [Next]_vars PROVE TypeOK'
<1> USE DEF TypeOK, Pc, Holding, Actor, At, Goto
<1>0. AnySize \in Size /\ Main \in Thread /\ Status \in Ops
      /\ Op("final", Null, AnySize) \in Ops
  BY OpTypes
<1>1. \A fn \in Fn, p \in Block \cup {Null}, n \in Size : Op(fn, p, n) \in Ops
  BY OpTypes
<1>2. ASSUME NEW t \in Thread, NEW o \in Ops, Call(t, o) PROVE TypeOK'
  BY <1>2 DEF Call
<1>3. ASSUME NEW t \in Thread, Program(t) PROVE TypeOK'
  <2>1. CASE Wrapped(t)
    <3>1. owned \cup {Null} \subseteq Block \cup {Null}
      OBVIOUS
    <3> QED
      BY <1>0, <1>1, <1>2, <2>1, <3>1 DEF Wrapped, Fn, Status
  <2>2. CASE LibraryAlloc(t)
    BY <2>2 DEF LibraryAlloc, libVars
  <2>3. CASE SetMallocSizeCheckPoint(t)
    BY <2>3, SizesAreNumbers DEF SetMallocSizeCheckPoint, libVars, heapVars
  <2>4. CASE Create(t) \/ Finish(t)
    BY <2>4 DEF Create, Finish, libVars, heapVars, runVars
  <2> QED
    BY <1>3, <2>1, <2>2, <2>3, <2>4 DEF Program
<1>4. ASSUME NEW t \in Actor, Wrapper(t) PROVE TypeOK'
  <2> USE DEF heapVars, runVars
  <2>0. op[t] \in Ops /\ op[t].ptr \in Block \cup {Null} /\ op[t].size \in Size
        /\ res[t] \in Block \cup {Null}
    BY DEF Ops
  <2>1. CASE Lock(t)
    BY <2>1 DEF Lock, FirstStep
  <2>2. CASE LibcMalloc(t)
    BY <2>0, <2>2 DEF LibcMalloc
  <2>3. CASE LibcRealloc(t)
    BY <2>0, <2>3 DEF LibcRealloc
  <2>4. CASE Erase(t)
    BY <2>0, <2>4 DEF Erase
  <2>5. CASE LibcFree(t)
    BY <2>0, <2>5 DEF LibcFree
  <2>6. CASE Insert(t)
    BY <2>0, <2>6 DEF Insert
  <2>7. CASE PrintStatus(t)
    BY <2>0, <2>7 DEF PrintStatus
  <2>8. CASE Unlock(t)
    <3>1. Kept(t) \ {Null} \subseteq Block
      BY <2>0 DEF Kept
    <3> QED
      BY <2>8, <3>1 DEF Unlock
  <2> QED
    BY <1>4, <2>1, <2>2, <2>3, <2>4, <2>5, <2>6, <2>7, <2>8 DEF Wrapper
<1>5. CASE StopThreads \/ MainReturns
  BY <1>5 DEF StopThreads, MainReturns, libVars, heapVars, runVars
<1>6. CASE MonitorStep
  BY <1>0, <1>6 DEF MonitorStep, MonitorCheck, MonitorSize, MonitorWake,
                    libVars, heapVars, runVars
<1>7. CASE DeInit
  BY <1>0, <1>7, ZenonT(30) DEF DeInit, ThreadDestroy, Join, MempoolDestroy,
                    heapVars, runVars
<1>8. CASE UNCHANGED vars
  BY <1>8 DEF vars, libVars, heapVars, runVars
<1> QED
  BY <1>3, <1>4, <1>5, <1>6, <1>7, <1>8 DEF Next

(* Every variable of the checker keeps its type: in particular no entry is *)
(* made for the null pointer, and an entry holds a size the program asked  *)
(* for.                                                                    *)
THEOREM LeakTypes == Spec => []TypeOK
BY TypesInit, TypesNext, PTL DEF Spec

-----------------------------------------------------------------------------
(* The map and the heap.                                                   *)

LEMMA MapInit == Init => MapInv
<1> SUFFICES ASSUME Init PROVE MapInv
  OBVIOUS
<1> USE ThreadsDistinct DEF Init, Holding, Actor
<1>1. LockInv /\ \A t \in Actor : pc[t] \notin Holding
  BY DEF LockInv
<1>2. MapAgrees({})
  BY DEF MapAgrees, Ours, NoBlocks
<1>3. \A t \in Actor : HolderInv(t)
  BY <1>1 DEF HolderInv
<1> QED
  BY <1>1, <1>2, <1>3 DEF MapInv

(* A step that touches neither the map nor what came through the wrappers, *)
(* and nobody who is inside the mutex.                                     *)
LEMMA OutsideStep ==
  ASSUME TypeOK, MapInv, mutex' = mutex, info_map' = info_map, Ours' = Ours,
         \A b \in foreign' : heap'[b] # NoSize,
         \A t \in Actor :
           \/ pc[t] \notin Holding /\ pc'[t] \notin Holding
           \/ /\ pc'[t] = pc[t] /\ op'[t] = op[t] /\ res'[t] = res[t]
  PROVE  MapInv'
<1>1. LockInv'
  BY DEF MapInv, LockInv
<1>2. \A S : MapAgrees(S)' <=> MapAgrees(S)
  BY DEF MapAgrees
<1>3. ASSUME NEW t \in Actor PROVE HolderInv(t)'
  <2>1. HolderInv(t)
    BY DEF MapInv
  <2>2. CASE pc'[t] \notin Holding
    BY <2>2 DEF HolderInv, Holding
  <2>3. CASE pc'[t] = pc[t] /\ op'[t] = op[t] /\ res'[t] = res[t]
    BY <2>1, <2>3 DEF HolderInv, MapAgrees
  <2> QED
    BY <2>2, <2>3
<1>4. mutex' = None => MapAgrees({})'
  BY <1>2 DEF MapInv, MapAgrees
<1> QED
  BY <1>1, <1>3, <1>4 DEF MapInv

(* A step of the thread that holds the mutex, which keeps it.              *)
LEMMA InsideStep ==
  ASSUME TypeOK, MapInv, NEW t \in Actor, pc[t] \in Holding, mutex' = mutex,
         NEW l \in Holding, pc' = [pc EXCEPT ![t] = l],
         HolderInv(t)', \A b \in foreign' : heap'[b] # NoSize
  PROVE  MapInv'
<1>1. /\ mutex = t /\ mutex' # None
      /\ \A u \in Actor \ {t} : pc[u] \notin Holding /\ pc'[u] \notin Holding
      /\ pc'[t] \in Holding
  BY ThreadsDistinct DEF MapInv, LockInv, TypeOK, Actor
<1>2. LockInv'
  BY <1>1 DEF LockInv
<1>3. \A u \in Actor \ {t} : HolderInv(u)'
  BY <1>1 DEF HolderInv, Holding
<1> QED
  BY <1>1, <1>2, <1>3 DEF MapInv

(* Taking the mutex, and leaving it.                                       *)
LEMMA EnterStep ==
  ASSUME TypeOK, MapInv, NEW t \in Actor, mutex = None, mutex' = t,
         NEW l \in Holding, pc' = [pc EXCEPT ![t] = l],
         \/ l \in {"print", "join"}
         \/ l = "libc" /\ op[t].fn # "free"
         \/ l = "erase" /\ op[t].fn = "free",
         op' = op, info_map' = info_map, Ours' = Ours,
         \A b \in foreign' : heap'[b] # NoSize
  PROVE  MapInv'
<1>1. /\ \A u \in Actor : pc[u] \notin Holding
      /\ \A u \in Actor \ {t} : pc'[u] \notin Holding
      /\ pc'[t] = l /\ mutex' # None
  BY ThreadsDistinct DEF MapInv, LockInv, TypeOK, Actor
<1>2. LockInv'
  BY <1>1 DEF LockInv
<1>3. MapAgrees({})'
  BY DEF MapInv, MapAgrees
<1>4. \A u \in Actor \ {t} : HolderInv(u)'
  BY <1>1 DEF HolderInv, Holding
<1>5. HolderInv(t)'
  BY <1>1, <1>3 DEF HolderInv
<1> QED
  BY <1>1, <1>2, <1>4, <1>5 DEF MapInv

LEMMA LeaveStep ==
  ASSUME TypeOK, MapInv, NEW t \in Actor, pc[t] \in {"unlock", "join"},
         mutex' = None, NEW l \in Pc \ Holding, pc' = [pc EXCEPT ![t] = l],
         info_map' = info_map, heap' = heap, foreign' = foreign
  PROVE  MapInv'
<1>1. /\ mutex = t
      /\ \A u \in Actor : pc'[u] \notin Holding
  BY DEF MapInv, LockInv, TypeOK, Holding
<1>2. LockInv'
  BY <1>1, ThreadsDistinct DEF LockInv, Actor
<1>3. MapAgrees({})'
  BY DEF MapInv, HolderInv, MapAgrees, Ours
<1>4. \A u \in Actor : HolderInv(u)'
  BY <1>1 DEF HolderInv, Holding
<1> QED
  BY <1>2, <1>3, <1>4 DEF MapInv

(* What the steps outside the mutex leave of the heap.                     *)
LEMMA ProgramKeepsMap ==
  ASSUME TypeOK, MapInv, NEW t \in Thread, Program(t)
  PROVE  MapInv' /\ Ours' = Ours /\ UNCHANGED printed
<1> USE DEF At, Goto, Holding
<1>1. t \in Actor /\ pc \in [Actor -> Pc] /\ op \in [Actor -> Ops]
  BY DEF TypeOK, Actor
<1>2. CASE \E o : Call(t, o)
  <2>1. Ours' = Ours
    BY <1>2 DEF Call, Ours
  <2>2. MapInv'
    BY <1>1, <1>2, <2>1, OutsideStep DEF Call, MapInv
  <2> QED
    BY <1>2, <2>1, <2>2 DEF Call
<1>3. CASE LibraryAlloc(t)
  <2>1. PICK b \in Block, n \in Size :
          /\ heap[b] = NoSize /\ heap' = [heap EXCEPT ![b] = n]
          /\ foreign' = foreign \cup {b}
    BY <1>3 DEF LibraryAlloc
  <2>2. heap \in [Block -> Size \cup {NoSize}] /\ n # NoSize
    BY SizesAreNumbers DEF TypeOK
  <2>3. \A x \in foreign' : heap'[x] # NoSize
    BY <2>1, <2>2 DEF MapInv, TypeOK
  <2>4. \A x \in Block : Ours'[x] = Ours[x]
    BY <2>1, <2>2 DEF Ours
  <2>5. Ours' = Ours
    BY <2>4 DEF Ours
  <2>6. mutex' = mutex /\ info_map' = info_map /\ op' = op /\ res' = res
        /\ pc' = pc /\ printed' = printed
    BY <1>3 DEF LibraryAlloc, libVars
  <2> QED
    BY <2>3, <2>5, <2>6, OutsideStep
<1>4. CASE SetMallocSizeCheckPoint(t)
  <2>1. Ours' = Ours
    BY <1>4 DEF SetMallocSizeCheckPoint, heapVars, Ours
  <2> QED
    BY <1>1, <1>4, <2>1, OutsideStep
       DEF SetMallocSizeCheckPoint, libVars, heapVars, MapInv
<1>5. CASE Create(t) \/ Finish(t)
  <2>1. Ours' = Ours
    BY <1>5 DEF Create, Finish, heapVars, Ours
  <2> QED
    BY <1>1, <1>5, <2>1, OutsideStep
       DEF Create, Finish, libVars, heapVars, runVars, MapInv
<1> QED
  BY <1>2, <1>3, <1>4, <1>5 DEF Program, Wrapped
(* What the steps inside the mutex do to the program's blocks: nothing, or *)
(* what libc's call does; a listing is the program's blocks.               *)
Takes(p, b, n) ==
  Ours' = [x \in Block |-> CASE x = b -> n [] x = p /\ x # b -> NoSize
                              [] OTHER -> Ours[x]]
BlocksChange ==
  \/ Ours' = Ours
  \/ \E b \in Block, n \in Size : Ours[b] = NoSize /\ Ours' = [Ours EXCEPT ![b] = n]
  \/ \E b \in Block : Ours' = [Ours EXCEPT ![b] = NoSize]
  \/ \E p, b \in Block, n \in Size : (b = p \/ Ours[b] = NoSize) /\ Takes(p, b, n)

LEMMA WrapperKeepsMap ==
  ASSUME 0 \notin Size, TypeOK, MapInv, NEW t \in Actor, Wrapper(t)
  PROVE  /\ MapInv'
         /\ \/ BlocksChange /\ UNCHANGED printed
            \/ Ours' = Ours /\ printed' = Ours
<1> USE DEF At, Goto
<1>1. /\ pc \in [Actor -> Pc] /\ op \in [Actor -> Ops]
      /\ op[t] \in Ops /\ op[t].fn \in Fn /\ op[t].size \in Size
      /\ op[t].ptr \in Block \cup {Null} /\ Null \notin Block
      /\ res \in [Actor -> Block \cup {Null}] /\ op[t].size # 0
      /\ op[t].size # NoSize
      /\ heap \in [Block -> Size \cup {NoSize}] /\ foreign \subseteq Block
      /\ info_map \in [Block -> Size \cup {NoSize}]
  BY NullIsNoBlock, SizesAreNumbers, ZenonT(30) DEF TypeOK, Ops
<1>2. /\ Ours \in [Block -> Size \cup {NoSize}]
      /\ \A x \in Block : Ours[x] = IF x \in foreign THEN NoSize ELSE heap[x]
      /\ \A x \in foreign : heap[x] # NoSize
      /\ HolderInv(t)
  BY <1>1 DEF Ours, MapInv
<1>3. CASE Lock(t)
  <2>1. Ours' = Ours
    BY <1>3 DEF Lock, heapVars, Ours
  <2>2. LET l == FirstStep(op[t].fn)
        IN \/ l = "print"
           \/ l = "libc" /\ op[t].fn # "free"
           \/ l = "erase" /\ op[t].fn = "free"
    BY <1>1 DEF FirstStep
  <2>3. MapInv'
    BY <1>2, <1>3, <2>1, <2>2, EnterStep DEF Lock, heapVars, Holding
  <2> QED
    BY <1>3, <2>1, <2>3 DEF Lock, BlocksChange
<1>4. CASE LibcMalloc(t)
  <2>1. pc[t] = "libc" /\ MapAgrees({}) /\ op[t].ptr = Null /\ op[t].fn # "free"
    BY <1>2, <1>4 DEF LibcMalloc, HolderInv
  <2>2. CASE heap' = heap
    <3>1. Ours' = Ours /\ MapAgrees({})' /\ \A S : MapAgrees(S)'
      BY <1>4, <2>1, <2>2 DEF LibcMalloc, Ours, MapAgrees
    <3>2. PICK l \in {"insert", "erase", "unlock"} : pc' = [pc EXCEPT ![t] = l]
      BY <1>4 DEF LibcMalloc
    <3>3. CASE /\ res' = [res EXCEPT ![t] = Null]
               /\ Goto(t, IF op[t].fn = "malloc" THEN "insert" ELSE "unlock")
      <4>1. HolderInv(t)'
        BY <1>1, <1>4, <3>1, <3>3 DEF LibcMalloc, HolderInv
      <4>2. MapInv'
        <5>1. mutex' = mutex /\ \A x \in foreign' : heap'[x] # NoSize
          BY <1>2, <1>4, <2>2 DEF LibcMalloc
        <5> QED
          BY <2>1, <3>2, <4>1, <5>1, InsideStep DEF Holding
      <4> QED
        BY <1>4, <3>1, <4>2 DEF LibcMalloc, BlocksChange
    <3>4. CASE \E b \in Block : heap[b] = NoSize /\ heap' = [heap EXCEPT ![b] = op[t].size]
      BY <1>1, <2>2, <3>4
    <3> QED
      BY <1>4, <3>3, <3>4 DEF LibcMalloc
  <2>3. CASE heap' # heap
    <3>1. PICK b \in Block :
            /\ heap[b] = NoSize /\ heap' = [heap EXCEPT ![b] = op[t].size]
            /\ res' = [res EXCEPT ![t] = b]
            /\ Goto(t, IF op[t].fn = "malloc" THEN "insert" ELSE "erase")
      BY <1>4, <2>3 DEF LibcMalloc
    <3>2. /\ b \notin foreign /\ Ours[b] = NoSize /\ foreign' = foreign
          /\ info_map' = info_map /\ op' = op /\ mutex' = mutex
          /\ printed' = printed
      BY <1>2, <1>4, <3>1 DEF LibcMalloc
    <3>3. Ours' = [Ours EXCEPT ![b] = op[t].size]
      BY <1>1, <1>2, <3>1, <3>2 DEF Ours
    <3>4. MapAgrees({b})' /\ MapAgrees({b, Null})' /\ info_map'[b] = NoSize
          /\ Ours'[b] = op[t].size
      BY <1>1, <1>2, <2>1, <3>2, <3>3 DEF MapAgrees
    <3>5. HolderInv(t)'
      <4>1. op'[t] = op[t] /\ res'[t] = b
            /\ pc'[t] = IF op[t].fn = "malloc" THEN "insert" ELSE "erase"
        BY <1>1, <1>4, <3>1, <3>2 DEF LibcMalloc
      <4> QED
        BY <1>1, <2>1, <3>2, <3>4, <4>1 DEF HolderInv
    <3>6. MapInv'
      BY <1>1, <1>2, <2>1, <3>1, <3>2, <3>5, InsideStep DEF Holding
    <3> QED
      BY <1>1, <3>2, <3>3, <3>6 DEF BlocksChange
  <2> QED
    BY <2>2, <2>3
<1>5. CASE LibcRealloc(t)
  <2> DEFINE p == op[t].ptr
             n == op[t].size
  <2>1. /\ pc[t] = "libc" /\ MapAgrees({}) /\ p \in Block /\ op[t].fn # "free"
        /\ info_map' = info_map /\ op' = op /\ mutex' = mutex /\ printed' = printed
    BY <1>1, <1>2, <1>5 DEF LibcRealloc, HolderInv
  <2>2. CASE UNCHANGED <<heap, foreign>>
    <3>1. Ours' = Ours /\ MapAgrees({})' /\ \A x \in foreign' : heap'[x] # NoSize
      BY <1>2, <2>1, <2>2 DEF Ours, MapAgrees
    <3>2. CASE res' = [res EXCEPT ![t] = Null] /\ Goto(t, "unlock")
      <4>1. HolderInv(t)'
        BY <1>1, <3>1, <3>2 DEF HolderInv
      <4>2. MapInv'
        BY <2>1, <3>1, <3>2, <4>1, InsideStep DEF Holding
      <4> QED
        BY <2>1, <3>1, <4>2 DEF BlocksChange
    <3>3. CASE ~(res' = [res EXCEPT ![t] = Null] /\ Goto(t, "unlock"))
      <4>1. PICK b \in Block : /\ b = p \/ heap[b] = NoSize
                               /\ heap'[b] = n
                               /\ foreign' = foreign \ {p}
                               /\ res' = [res EXCEPT ![t] = b]
                               /\ Goto(t, "erase")
        BY <1>1, <1>5, <3>3 DEF LibcRealloc
      <4>2. b = p /\ b \notin foreign /\ Ours[b] = n
        BY <1>1, <1>2, <2>1, <2>2, <4>1
      <4>3. HolderInv(t)'
        <5>1. op'[t] = op[t] /\ res'[t] = b /\ pc'[t] = "erase" /\ Ours'[b] = n
              /\ MapAgrees({b, p})'
          BY <1>1, <2>1, <3>1, <4>1, <4>2 DEF MapAgrees
        <5> QED
          BY <2>1, <4>2, <5>1 DEF HolderInv
      <4>4. MapInv'
        BY <2>1, <3>1, <4>1, <4>3, InsideStep DEF Holding
      <4> QED
        BY <2>1, <3>1, <4>4 DEF BlocksChange
    <3> QED
      BY <3>2, <3>3
  <2>3. CASE ~UNCHANGED <<heap, foreign>>
    <3>1. PICK b \in Block :
            /\ b = p \/ heap[b] = NoSize
            /\ heap' = [x \in Block |-> CASE x = b -> n
                                          [] x = p /\ x # b -> NoSize
                                          [] OTHER -> heap[x]]
            /\ foreign' = foreign \ {p}
            /\ res' = [res EXCEPT ![t] = b]
            /\ Goto(t, "erase")
      BY <1>1, <1>5, <2>3 DEF LibcRealloc
    <3>2. b \notin foreign' /\ (b = p \/ (Ours[b] = NoSize /\ b \notin foreign))
      BY <1>2, <3>1
    <3>3. Takes(p, b, n)
      BY <1>1, <1>2, <2>1, <3>1, <3>2 DEF Ours, Takes
    <3>4. \A x \in foreign' : heap'[x] # NoSize
      BY <1>1, <1>2, <3>1, <3>2
    <3>5. HolderInv(t)'
      <4>1. op'[t] = op[t] /\ res'[t] = b /\ pc'[t] = "erase"
        BY <1>1, <2>1, <3>1
      <4>2. /\ Ours'[b] = n /\ MapAgrees({b, p})'
            /\ p # b => info_map'[b] = NoSize /\ Ours'[p] = NoSize
        BY <1>1, <2>1, <3>2, <3>3 DEF MapAgrees, Takes
      <4> QED
        BY <2>1, <4>1, <4>2 DEF HolderInv
    <3>6. MapInv'
      BY <2>1, <3>1, <3>4, <3>5, InsideStep DEF Holding
    <3> QED
      BY <1>1, <2>1, <3>2, <3>3, <3>6 DEF BlocksChange
  <2> QED
    BY <2>2, <2>3
<1>6. CASE Erase(t)
  <2>1. /\ pc[t] = "erase" /\ op' = op /\ mutex' = mutex /\ printed' = printed
        /\ res' = res /\ heap' = heap /\ foreign' = foreign
    BY <1>6 DEF Erase, heapVars
  <2>2. Ours' = Ours /\ \A x \in foreign' : heap'[x] # NoSize
    BY <1>2, <2>1 DEF Ours
  <2>3. \A x \in Block : info_map'[x] = IF x = op[t].ptr THEN NoSize ELSE info_map[x]
    BY <1>1, <1>6 DEF Erase
  <2>4. CASE op[t].fn = "free"
    <3>1. MapAgrees({op[t].ptr})' /\ (op[t].ptr \in Block => info_map'[op[t].ptr] = NoSize)
      BY <1>2, <2>1, <2>2, <2>3, <2>4 DEF HolderInv, MapAgrees
    <3>2. pc' = [pc EXCEPT ![t] = "libcfree"]
      BY <1>6, <2>4 DEF Erase
    <3>3. HolderInv(t)'
      BY <1>1, <2>1, <3>1, <3>2 DEF HolderInv
    <3>4. MapInv'
      BY <2>1, <2>2, <3>2, <3>3, InsideStep DEF Holding
    <3> QED
      BY <2>1, <2>2, <3>4 DEF BlocksChange
  <2>5. CASE op[t].fn # "free"
    <3>1. /\ res[t] \in Block /\ info_map'[res[t]] = NoSize
          /\ Ours'[res[t]] = op[t].size /\ MapAgrees({res[t]})'
      BY <1>2, <2>1, <2>2, <2>3, <2>5 DEF HolderInv, MapAgrees
    <3>2. pc' = [pc EXCEPT ![t] = "insert"]
      BY <1>6, <2>5 DEF Erase
    <3>3. HolderInv(t)'
      BY <1>1, <2>1, <3>1, <3>2 DEF HolderInv
    <3>4. MapInv'
      BY <2>1, <2>2, <3>2, <3>3, InsideStep DEF Holding
    <3> QED
      BY <2>1, <2>2, <3>4 DEF BlocksChange
  <2> QED
    BY <2>4, <2>5
<1>7. CASE LibcFree(t)
  <2> DEFINE p == op[t].ptr
  <2>1. /\ pc[t] = "libcfree" /\ op' = op /\ mutex' = mutex /\ printed' = printed
        /\ info_map' = info_map /\ pc' = [pc EXCEPT ![t] = "unlock"]
    BY <1>7 DEF LibcFree
  <2>2. /\ MapAgrees({p}) /\ (p \in Block => info_map[p] = NoSize)
    BY <1>2, <2>1 DEF HolderInv
  <2>3. /\ \A x \in Block : Ours'[x] = IF x = p THEN NoSize ELSE Ours[x]
        /\ \A x \in foreign' : heap'[x] # NoSize
    BY <1>1, <1>2, <1>7 DEF LibcFree, Ours
  <2>4. MapAgrees({})'
    BY <2>1, <2>2, <2>3 DEF MapAgrees
  <2>5. HolderInv(t)'
    BY <1>1, <2>1, <2>4 DEF HolderInv
  <2>6. MapInv'
    BY <2>1, <2>3, <2>5, InsideStep DEF Holding
  <2>7. BlocksChange
    <3>1. Ours' = [x \in Block |-> Ours'[x]]
      BY DEF Ours
    <3>2. p \in Block => Ours' = [Ours EXCEPT ![p] = NoSize]
      BY <1>2, <2>3, <3>1
    <3>3. p \notin Block => Ours' = Ours
      BY <1>2, <2>3, <3>1
    <3> QED
      BY <3>2, <3>3 DEF BlocksChange
  <2> QED
    BY <2>1, <2>6, <2>7
<1>8. CASE Insert(t)
  <2> DEFINE b == res[t]
  <2>1. /\ pc[t] = "insert" /\ op' = op /\ mutex' = mutex /\ printed' = printed
        /\ heap' = heap /\ foreign' = foreign /\ pc' = [pc EXCEPT ![t] = "unlock"]
    BY <1>8 DEF Insert, heapVars
  <2>2. Ours' = Ours /\ \A x \in foreign' : heap'[x] # NoSize
    BY <1>2, <2>1 DEF Ours
  <2>3. /\ MapAgrees({b})
        /\ b \in Block => info_map[b] = NoSize /\ Ours[b] = op[t].size
    BY <1>2, <2>1 DEF HolderInv
  <2>4. \A x \in Block : info_map'[x] = IF x = b THEN op[t].size ELSE info_map[x]
    BY <1>1, <1>8, <2>3 DEF Insert
  <2>5. MapAgrees({})'
    BY <2>2, <2>3, <2>4 DEF MapAgrees
  <2>6. HolderInv(t)'
    BY <1>1, <2>1, <2>5 DEF HolderInv
  <2>7. MapInv'
    BY <2>1, <2>2, <2>6, InsideStep DEF Holding
  <2> QED
    BY <2>1, <2>2, <2>7 DEF BlocksChange
<1>9. CASE PrintStatus(t)
  <2>1. /\ pc[t] = "print" /\ op' = op /\ mutex' = mutex /\ info_map' = info_map
        /\ heap' = heap /\ foreign' = foreign /\ pc' = [pc EXCEPT ![t] = "unlock"]
    BY <1>9 DEF PrintStatus, heapVars
  <2>2. Ours' = Ours /\ \A x \in foreign' : heap'[x] # NoSize
    BY <1>2, <2>1 DEF Ours
  <2>3. MapAgrees({}) /\ MapAgrees({})'
    BY <1>2, <2>1, <2>2 DEF HolderInv, MapAgrees
  <2>4. HolderInv(t)'
    BY <1>1, <2>1, <2>3 DEF HolderInv
  <2>5. MapInv'
    BY <2>1, <2>2, <2>4, InsideStep DEF Holding
  <2>6. printed' = Ours
    BY <1>1, <1>2, <1>9, <2>3 DEF PrintStatus, MapAgrees
  <2> QED
    BY <2>2, <2>5, <2>6
<1>10. CASE Unlock(t)
  <2>1. /\ pc[t] = "unlock" /\ mutex' = None /\ info_map' = info_map
        /\ heap' = heap /\ foreign' = foreign /\ printed' = printed
    BY <1>10 DEF Unlock
  <2>2. PICK l \in {"down", "sleep", "run"} : pc' = [pc EXCEPT ![t] = l]
    <3>1. op[t].fn = "final" => pc' = [pc EXCEPT ![t] = "down"]
      BY <1>10 DEF Unlock
    <3>2. op[t].fn # "final" /\ t = Monitor => pc' = [pc EXCEPT ![t] = "sleep"]
      BY <1>10 DEF Unlock
    <3>3. op[t].fn # "final" /\ t # Monitor => pc' = [pc EXCEPT ![t] = "run"]
      BY <1>10 DEF Unlock
    <3> QED
      BY <3>1, <3>2, <3>3
  <2>3. l \in Pc \ Holding
    BY <2>2 DEF Pc, Holding
  <2>4. MapInv'
    BY <2>1, <2>2, <2>3, LeaveStep
  <2>5. Ours' = Ours
    BY <2>1 DEF Ours
  <2> QED
    BY <2>1, <2>4, <2>5 DEF BlocksChange
<1> QED
  BY <1>3, <1>4, <1>5, <1>6, <1>7, <1>8, <1>9, <1>10 DEF Wrapper

(* The other steps leave the program's blocks and the listing alone.       *)
LEMMA OtherKeepsMap ==
  ASSUME TypeOK, MapInv,
         StopThreads \/ MainReturns \/ MonitorStep \/ DeInit \/ UNCHANGED vars
  PROVE  MapInv' /\ Ours' = Ours /\ UNCHANGED printed
<1> USE DEF At, Goto
<1>1. /\ pc \in [Actor -> Pc] /\ Main \in Actor /\ Monitor \in Actor
      /\ op \in [Actor -> Ops]
  BY ThreadsDistinct DEF TypeOK, Actor
<1>2. Ours' = Ours /\ printed' = printed /\ info_map' = info_map
      /\ heap' = heap /\ foreign' = foreign
  BY DEF StopThreads, MainReturns, MonitorStep, MonitorCheck, MonitorSize,
         MonitorWake, DeInit, ThreadDestroy, Join, MempoolDestroy, vars,
         libVars, heapVars, runVars, Ours
<1>3. \A x \in foreign' : heap'[x] # NoSize
  BY <1>2 DEF MapInv
<1>4. CASE StopThreads \/ MainReturns \/ MonitorStep \/ MempoolDestroy \/ UNCHANGED vars
  <2>1. \A t \in Actor :
          \/ pc[t] \notin Holding /\ pc'[t] \notin Holding
          \/ pc'[t] = pc[t] /\ op'[t] = op[t] /\ res'[t] = res[t]
    BY <1>1, <1>4
       DEF StopThreads, MainReturns, MonitorStep, MonitorCheck, MonitorSize,
           MonitorWake, MempoolDestroy, vars, libVars, heapVars, runVars, Holding
  <2>2. mutex' = mutex
    BY <1>4
       DEF StopThreads, MainReturns, MonitorStep, MonitorCheck, MonitorSize,
           MonitorWake, MempoolDestroy, vars, libVars
  <2> QED
    BY <1>2, <1>3, <2>1, <2>2, OutsideStep
<1>5. CASE ThreadDestroy
  <2>1. CASE monitor_id = None
    <3>1. /\ mutex' = mutex /\ op' = op /\ res' = res
          /\ \A t \in Actor : \/ pc[t] \notin Holding /\ pc'[t] \notin Holding
                             \/ pc'[t] = pc[t]
      BY <1>1, <1>5, <2>1 DEF ThreadDestroy, Holding
    <3> QED
      BY <1>2, <1>3, <3>1, OutsideStep
  <2>2. CASE monitor_id # None
    <3>1. /\ mutex = None /\ mutex' = Main /\ op' = op
          /\ pc' = [pc EXCEPT ![Main] = "join"]
      BY <1>5, <2>2 DEF ThreadDestroy
    <3>2. MapInv'
      BY <1>1, <1>2, <1>3, <3>1, EnterStep DEF Holding
    <3> QED
      BY <1>2, <3>2
  <2> QED
    BY <2>1, <2>2
<1>6. CASE Join
  <2>1. pc[Main] = "join" /\ mutex' = None /\ pc' = [pc EXCEPT ![Main] = "pool"]
    BY <1>6 DEF Join
  <2>2. "pool" \in Pc \ Holding
    BY DEF Pc, Holding
  <2>3. MapInv'
    BY <1>1, <1>2, <2>1, <2>2, LeaveStep
  <2> QED
    BY <1>2, <2>3
<1> QED
  BY <1>4, <1>5, <1>6 DEF DeInit

LEMMA MapNext ==
  ASSUME 0 \notin Size, TypeOK, MapInv, [Next]_vars
  PROVE  /\ MapInv'
         /\ \/ BlocksChange /\ UNCHANGED printed
            \/ Ours' = Ours /\ printed' = Ours
<1>1. CASE \E t \in Thread : Program(t)
  BY <1>1, ProgramKeepsMap DEF BlocksChange
<1>2. CASE \E t \in Actor : Wrapper(t)
  BY <1>2, WrapperKeepsMap
<1>3. CASE StopThreads \/ MainReturns \/ MonitorStep \/ DeInit \/ UNCHANGED vars
  BY <1>3, OtherKeepsMap DEF BlocksChange
<1> QED
  BY <1>1, <1>2, <1>3 DEF Next

(* A program that never asks for 0 bytes: at every line of every wrapper    *)
(* the map differs from the heap in the one address that line is about, and *)
(* nobody else is inside.                                                   *)
THEOREM MapHolds == 0 \notin Size /\ Spec => []MapInv
<1>1. 0 \notin Size /\ TypeOK /\ MapInv /\ [Next]_vars => MapInv'
  BY MapNext
<1>2. 0 \notin Size => (0 \notin Size)'
  OBVIOUS
<1> QED
  BY <1>1, <1>2, TypesInit, TypesNext, MapInit, PTL DEF Spec

(* A program that never asks for 0 bytes: whenever nobody is inside a      *)
(* wrapper, and whenever somebody prints it, _malloc_info_map is exactly   *)
(* what the program has allocated through the wrappers and not freed.      *)
THEOREM MapStaysExact == 0 \notin Size /\ Spec => []MapIsHeap
<1>1. TypeOK /\ MapInv => MapIsHeap
  <2> SUFFICES ASSUME TypeOK, MapInv, mutex = None \/ pc[mutex] = "print"
               PROVE  info_map = Ours
    BY DEF MapIsHeap
  <2>1. MapAgrees({})
    <3>1. CASE mutex = None
      BY <3>1 DEF MapInv
    <3>2. CASE mutex \in Actor
      BY <3>2 DEF MapInv, HolderInv
    <3> QED
      BY <3>1, <3>2 DEF TypeOK
  <2>2. info_map \in [Block -> Size \cup {NoSize}]
    BY DEF TypeOK
  <2> QED
    BY <2>1, <2>2 DEF MapAgrees, Ours
<1> QED
  BY <1>1, MapHolds, LeakTypes, PTL

(* A program that never asks for 0 bytes sees the reports of MallocTracker:*)
(* what the wrappers' threads and malloc_size_monitor print is what is     *)
(* allocated at that moment, as if every call were one step.               *)
THEOREM ReportsImplementTracker == 0 \notin Size /\ Spec => ReportsAreExact
<1>1. Init => Tracker!Init
  <2> SUFFICES ASSUME Init PROVE Tracker!Init
    OBVIOUS
  <2> QED
    BY DEF Init, NoBlocks, Ours, Tracker!Init, Tracker!NoBlocks
<1>2. ASSUME 0 \notin Size, TypeOK, MapInv, [Next]_vars
      PROVE  [Tracker!Next]_Tracker!vars
  <2> USE DEF Tracker!Next, Tracker!vars
  <2>0. Ours \in [Block -> Size \cup {NoSize}]
    BY <1>2 DEF Ours, TypeOK
  <2>1. CASE Ours' = Ours /\ printed' = Ours
    BY <2>1 DEF Tracker!Report
  <2>2. CASE BlocksChange /\ UNCHANGED printed
    <3>1. CASE Ours' = Ours
      BY <2>2, <3>1
    <3>2. CASE \E b \in Block, n \in Size :
                 Ours[b] = NoSize /\ Ours' = [Ours EXCEPT ![b] = n]
      BY <2>2, <3>2 DEF Tracker!Allocate
    <3>3. CASE \E b \in Block : Ours' = [Ours EXCEPT ![b] = NoSize]
      <4>1. PICK b \in Block : Ours' = [Ours EXCEPT ![b] = NoSize]
        BY <3>3
      <4>2. Ours[b] = NoSize => Ours' = Ours
        BY <2>0, <4>1
      <4> QED
        BY <2>2, <4>1, <4>2 DEF Tracker!Free
    <3>4. CASE \E p, b \in Block, n \in Size :
                 (b = p \/ Ours[b] = NoSize) /\ Takes(p, b, n)
      <4>1. PICK p \in Block, b \in Block, n \in Size :
              (b = p \/ Ours[b] = NoSize) /\ Takes(p, b, n)
        BY <3>4
      <4>2. Ours[p] # NoSize => Tracker!Reallocate(p, b, n)
        BY <2>2, <4>1 DEF Tracker!Reallocate, Takes
      <4>3. Ours[p] = NoSize => Tracker!Allocate(b, n)
        <5>1. ASSUME Ours[p] = NoSize PROVE Ours' = [Ours EXCEPT ![b] = n]
          BY <2>0, <4>1, <5>1 DEF Takes
        <5> QED
          BY <2>2, <4>1, <5>1 DEF Tracker!Allocate
      <4> QED
        BY <4>1, <4>2, <4>3
    <3> QED
      BY <2>2, <3>1, <3>2, <3>3, <3>4 DEF BlocksChange
  <2> QED
    BY <1>2, <2>1, <2>2, MapNext
<1>3. 0 \notin Size => (0 \notin Size)'
  OBVIOUS
<1>4. 0 \notin Size /\ TypeOK /\ MapInv /\ [Next]_vars => MapInv'
  BY MapNext
<1> QED
  BY <1>1, <1>2, <1>3, <1>4, TypesInit, TypesNext, MapInit, PTL
     DEF Spec, ReportsAreExact, Tracker!Spec

=============================================================================
