--------------------------- MODULE CheckMemoryLeak ---------------------------
(***************************************************************************)
(* CCheckMemoryLeak.cpp: the shared library that records what a program    *)
(* linked with --wrap allocates, its monitor thread, and the constructor   *)
(* and destructor that start and join that thread.  The library's own      *)
(* calls of malloc and free, and those of other libraries, are not wrapped.*)
(***************************************************************************)
EXTENDS Naturals, FiniteSets

CONSTANTS
  Thread,      \* the threads of the program
  Main,        \* the one that runs main, and the destructor when it returns
  Monitor,     \* malloc_size_monitor's thread
  Clash,       \* the thread whose pthread_t the program keeps in a variable
               \* named monitor_id, next to its own thread_exit; None: neither
  Block,       \* addresses
  Null,        \* the null pointer
  Size,        \* sizes the program asks for
  NoSize,      \* no entry in the map, or an address that is not allocated
  None,        \* nobody holds the mutex, no thread id
  CheckPoints, \* values given to the check point
  Unset,       \* its initial value
  MaxCalls     \* bound: calls of each thread

ASSUME ThreadsDistinct == /\ Main \in Thread /\ Monitor \notin Thread
                          /\ None \notin Thread \cup {Monitor}
                          /\ Clash \in (Thread \ {Main}) \cup {None}
ASSUME NullIsNoBlock == Null \notin Block
ASSUME SizesAreNumbers == /\ Size \subseteq Nat /\ Size # {} /\ NoSize \notin Nat
                          /\ CheckPoints \subseteq Nat /\ Unset \in Nat
                          /\ MaxCalls \in Nat

Actor == Thread \cup {Monitor}

VARIABLES
  mutex,       \* _mutex: who holds it
  info_map,    \* _malloc_info_map: the recorded size of each address
  heap,        \* libc's heap: the size of each allocated block
  foreign,     \* blocks that were not allocated through the wrappers
  owned,       \* pointers the program holds and may free
  pc,          \* where each thread is
  op,          \* the call each thread is in
  res,         \* p, the pointer the call will return
  calls,       \* calls so far
  monitor_id, thread_exit, check_point,
  printed      \* the listing printed last

libVars == <<mutex, info_map, op, res>>
heapVars == <<heap, foreign, owned>>
runVars == <<calls, monitor_id, thread_exit, check_point>>
vars == <<libVars, heapVars, runVars, pc, printed>>

Fn == {"malloc", "free", "realloc", "status", "final"}
Op(fn, ptr, size) == [fn |-> fn, ptr |-> ptr, size |-> size]
Ops == [fn : Fn, ptr : Block \cup {Null}, size : Size]

(* Inside the mutex: before libc, after libc with the map still to be      *)
(* updated, before the unlock; the destructor at its pthread_join.         *)
Holding == {"libc", "erase", "libcfree", "insert", "print", "unlock", "join"}
Pc == Holding \cup {"unborn", "run", "lock", "check", "size", "sleep",
                    "deinit", "pool", "done", "down"}

TypeOK ==
  /\ mutex \in Actor \cup {None}
  /\ info_map \in [Block -> Size \cup {NoSize}]
  /\ heap \in [Block -> Size \cup {NoSize}]
  /\ foreign \in SUBSET Block /\ owned \in SUBSET Block
  /\ pc \in [Actor -> Pc]
  /\ op \in [Actor -> Ops] /\ res \in [Actor -> Block \cup {Null}]
  /\ calls \in [Thread -> Nat]
  /\ monitor_id \in Actor \cup {None}
  /\ thread_exit \in BOOLEAN /\ check_point \in Nat
  /\ printed \in [Block -> Size \cup {NoSize}]

NoBlocks == [b \in Block |-> NoSize]
AnySize == CHOOSE n \in Size : TRUE
Status == Op("status", Null, AnySize)

(* CCheckMemoryLeakInit has run: the monitor thread exists, or could not   *)
(* be created.                                                             *)
Init ==
  /\ mutex = None /\ info_map = NoBlocks /\ heap = NoBlocks
  /\ foreign = {} /\ owned = {}
  /\ op = [t \in Actor |-> Status] /\ res = [t \in Actor |-> Null]
  /\ calls = [t \in Thread |-> 0]
  /\ thread_exit = FALSE /\ check_point = Unset /\ printed = NoBlocks
  /\ \E created \in BOOLEAN :
       /\ monitor_id = IF created THEN Monitor ELSE None
       /\ pc = [t \in Actor |-> CASE t = Main -> "run"
                                  [] t = Monitor /\ created -> "check"
                                  [] OTHER -> "unborn"]

Up == pc[Main] # "down"
At(t, l) == Up /\ pc[t] = l
Goto(t, l) == pc' = [pc EXCEPT ![t] = l]

-----------------------------------------------------------------------------
(* The program.                                                            *)

Call(t, o) ==
  /\ At(t, "run") /\ calls[t] < MaxCalls
  /\ calls' = [calls EXCEPT ![t] = @ + 1]
  /\ op' = [op EXCEPT ![t] = o]
  /\ owned' = owned \ {o.ptr}
  /\ Goto(t, "lock")
  /\ UNCHANGED <<mutex, info_map, res, heap, foreign, monitor_id, thread_exit,
                 check_point, printed>>

(* __wrap_malloc, __wrap_calloc, __wrap_realloc, __wrap_free and           *)
(* CCheckMemoryLeakInfo, with the pointers a correct program passes.       *)
Wrapped(t) ==
  \/ \E n \in Size : Call(t, Op("malloc", Null, n))
  \/ \E p \in owned \cup {Null} :
       \/ Call(t, Op("free", p, AnySize))
       \/ \E n \in Size : Call(t, Op("realloc", p, n))
  \/ Call(t, Status)

(* A library allocates for the program (strdup, getline): not recorded.    *)
LibraryAlloc(t) ==
  /\ At(t, "run") /\ calls[t] < MaxCalls
  /\ calls' = [calls EXCEPT ![t] = @ + 1]
  /\ \E b \in Block, n \in Size : /\ heap[b] = NoSize
                                  /\ heap' = [heap EXCEPT ![b] = n]
                                  /\ foreign' = foreign \cup {b}
                                  /\ owned' = owned \cup {b}
  /\ UNCHANGED <<libVars, pc, monitor_id, thread_exit, check_point, printed>>

SetMallocSizeCheckPoint(t) ==
  /\ At(t, "run") /\ calls[t] < MaxCalls
  /\ calls' = [calls EXCEPT ![t] = @ + 1]
  /\ check_point' \in CheckPoints
  /\ UNCHANGED <<libVars, heapVars, pc, monitor_id, thread_exit, printed>>

(* The program creates a thread, whose id goes where Clash says; the       *)
(* thread returns; the program tells its threads to stop and joins them.   *)
Create(t) ==
  /\ At(Main, "run") /\ pc[t] = "unborn" /\ t \in Thread
  /\ Goto(t, "run")
  /\ monitor_id' = IF t = Clash THEN t ELSE monitor_id
  /\ UNCHANGED <<libVars, heapVars, calls, thread_exit, check_point, printed>>

Finish(t) ==
  /\ At(t, "run") /\ t # Main /\ Goto(t, "done")
  /\ UNCHANGED <<libVars, heapVars, runVars, printed>>

StopThreads ==
  /\ At(Main, "run") /\ ~thread_exit
  /\ Clash # None /\ pc[Clash] # "unborn"
  /\ thread_exit' = TRUE
  /\ UNCHANGED <<libVars, heapVars, calls, monitor_id, check_point, pc, printed>>

(* main returns when it has joined the threads it created.                 *)
MainReturns ==
  /\ At(Main, "run")
  /\ \A t \in Thread \ {Main} : pc[t] \in {"unborn", "done"}
  /\ Goto(Main, "deinit")
  /\ UNCHANGED <<libVars, heapVars, runVars, printed>>

-----------------------------------------------------------------------------
(* The wrappers, under THREAD_AUTOLOCK.                                    *)

FirstStep(fn) == CASE fn \in {"malloc", "realloc"} -> "libc"
                   [] fn = "free" -> "erase"
                   [] OTHER -> "print"

(* Mutant of Lock: automutex does not wait.                                *)
LockUnguarded(t) ==
  /\ At(t, "lock")
  /\ mutex' = t
  /\ Goto(t, FirstStep(op[t].fn))
  /\ UNCHANGED <<info_map, op, res, heapVars, runVars, printed>>

Lock(t) ==
  /\ At(t, "lock") /\ mutex = None
  /\ mutex' = t
  /\ Goto(t, FirstStep(op[t].fn))
  /\ UNCHANGED <<info_map, op, res, heapVars, runVars, printed>>

(* malloc and calloc return a block that is not in use, or NULL; realloc   *)
(* of a null pointer is malloc.                                            *)
LibcMalloc(t) ==
  /\ At(t, "libc") /\ op[t].ptr = Null
  /\ \/ \E b \in Block : /\ heap[b] = NoSize
                         /\ heap' = [heap EXCEPT ![b] = op[t].size]
                         /\ res' = [res EXCEPT ![t] = b]
                         /\ Goto(t, IF op[t].fn = "malloc" THEN "insert" ELSE "erase")
     \/ /\ res' = [res EXCEPT ![t] = Null]
        /\ Goto(t, IF op[t].fn = "malloc" THEN "insert" ELSE "unlock")
        /\ heap' = heap
  /\ UNCHANGED <<mutex, info_map, op, foreign, owned, runVars, printed>>

(* realloc resizes the block where it is or moves it; or returns NULL:     *)
(* because it failed, or because it was asked for 0 bytes and freed it.    *)
LibcRealloc(t) ==
  LET p == op[t].ptr
      n == op[t].size
  IN /\ At(t, "libc") /\ p # Null
     /\ \/ \E b \in Block :
             /\ n > 0 /\ (b = p \/ heap[b] = NoSize)
             /\ heap' = [x \in Block |-> CASE x = b -> n
                                           [] x = p /\ x # b -> NoSize
                                           [] OTHER -> heap[x]]
             /\ foreign' = foreign \ {p}
             /\ res' = [res EXCEPT ![t] = b]
             /\ Goto(t, "erase")
        \/ /\ n > 0
           /\ res' = [res EXCEPT ![t] = Null]
           /\ Goto(t, "unlock")
           /\ UNCHANGED <<heap, foreign>>
        \/ /\ n = 0
           /\ heap' = [heap EXCEPT ![p] = NoSize]
           /\ foreign' = foreign \ {p}
           /\ res' = [res EXCEPT ![t] = Null]
           /\ Goto(t, "unlock")
     /\ UNCHANGED <<mutex, info_map, op, owned, runVars, printed>>

(* Mutant of Erase: the entry of a block that realloc moved stays.         *)
EraseFreedOnly(t) ==
  /\ At(t, "erase")
  /\ IF op[t].fn = "free" /\ op[t].ptr # Null
     THEN info_map' = [info_map EXCEPT ![op[t].ptr] = NoSize]
     ELSE info_map' = info_map
  /\ Goto(t, IF op[t].fn = "free" THEN "libcfree" ELSE "insert")
  /\ UNCHANGED <<mutex, op, res, heapVars, runVars, printed>>

(* remove_free_pointer_info: nothing for NULL, a complaint for a pointer   *)
(* that is not in the map.                                                 *)
Erase(t) ==
  /\ At(t, "erase")
  /\ IF op[t].ptr # Null
     THEN info_map' = [info_map EXCEPT ![op[t].ptr] = NoSize]
     ELSE info_map' = info_map
  /\ Goto(t, IF op[t].fn = "free" THEN "libcfree" ELSE "insert")
  /\ UNCHANGED <<mutex, op, res, heapVars, runVars, printed>>

LibcFree(t) ==
  /\ At(t, "libcfree") /\ Goto(t, "unlock")
  /\ IF op[t].ptr # Null
     THEN /\ heap' = [heap EXCEPT ![op[t].ptr] = NoSize]
          /\ foreign' = foreign \ {op[t].ptr}
     ELSE UNCHANGED <<heap, foreign>>
  /\ res' = [res EXCEPT ![t] = Null]
  /\ UNCHANGED <<mutex, info_map, op, owned, runVars, printed>>

(* Mutant of Insert: a NULL from libc is recorded as well.                 *)
InsertNull(t) ==
  /\ At(t, "insert") /\ Goto(t, "unlock")
  /\ info_map' = [b \in Block \cup {res[t]} |->
                    IF b = res[t] THEN op[t].size ELSE info_map[b]]
  /\ UNCHANGED <<mutex, op, res, heapVars, runVars, printed>>

(* save_malloc_pointer_info: map::insert keeps an entry that is there.     *)
Insert(t) ==
  /\ At(t, "insert") /\ Goto(t, "unlock")
  /\ IF res[t] # Null /\ info_map[res[t]] = NoSize
     THEN info_map' = [info_map EXCEPT ![res[t]] = op[t].size]
     ELSE info_map' = info_map
  /\ UNCHANGED <<mutex, op, res, heapVars, runVars, printed>>

(* malloc_info_map_status prints the whole map.                            *)
PrintStatus(t) ==
  /\ At(t, "print") /\ Goto(t, "unlock")
  /\ printed' = info_map
  /\ res' = [res EXCEPT ![t] = Null]
  /\ UNCHANGED <<mutex, info_map, op, heapVars, runVars>>

(* The pointer is returned; after a realloc that failed the program still  *)
(* has the old one.                                                        *)
Kept(t) == IF op[t].fn = "realloc" /\ res[t] = Null /\ op[t].size > 0
           THEN {op[t].ptr} ELSE {res[t]}
Unlock(t) ==
  /\ At(t, "unlock")
  /\ mutex' = None
  /\ owned' = owned \cup (Kept(t) \ {Null})
  /\ Goto(t, CASE op[t].fn = "final" -> "down"
               [] op[t].fn # "final" /\ t = Monitor -> "sleep"
               [] OTHER -> "run")
  /\ UNCHANGED <<info_map, op, res, heap, foreign, runVars, printed>>

-----------------------------------------------------------------------------
(* malloc_size_monitor: thread_exit and the size of the map are read       *)
(* without the mutex.                                                      *)

MonitorCheck ==
  /\ At(Monitor, "check")
  /\ Goto(Monitor, IF thread_exit THEN "done" ELSE "size")
  /\ UNCHANGED <<libVars, heapVars, runVars, printed>>

MapSize == Cardinality({b \in Block : info_map[b] # NoSize})

(* Mutant of MonitorSize: the check point is not looked at.                *)
MonitorSizeAlways ==
  /\ At(Monitor, "size")
  /\ op' = [op EXCEPT ![Monitor] = Status]
  /\ Goto(Monitor, "lock")
  /\ UNCHANGED <<mutex, info_map, res, heapVars, runVars, printed>>

MonitorSize ==
  /\ At(Monitor, "size")
  /\ op' = [op EXCEPT ![Monitor] = Status]
  /\ Goto(Monitor, IF check_point <= MapSize THEN "lock" ELSE "sleep")
  /\ UNCHANGED <<mutex, info_map, res, heapVars, runVars, printed>>

MonitorWake ==
  /\ At(Monitor, "sleep") /\ Goto(Monitor, "check")
  /\ UNCHANGED <<libVars, heapVars, runVars, printed>>

(* CCheckMemoryLeakDeInit: malloc_size_monitor_thread_destroy holds the    *)
(* mutex while it joins the thread that monitor_id names;                  *)
(* my_mempool_destroy takes it and leaves it; then the last report.        *)
ThreadDestroy ==
  /\ At(Main, "deinit") /\ mutex = None
  /\ thread_exit' = TRUE
  /\ IF monitor_id = None
     THEN Goto(Main, "pool") /\ UNCHANGED mutex
     ELSE Goto(Main, "join") /\ mutex' = Main
  /\ UNCHANGED <<info_map, op, res, heapVars, calls, monitor_id, check_point,
                 printed>>

Join ==
  /\ At(Main, "join") /\ pc[monitor_id] = "done"
  /\ mutex' = None /\ Goto(Main, "pool")
  /\ UNCHANGED <<info_map, op, res, heapVars, runVars, printed>>

MempoolDestroy ==
  /\ At(Main, "pool") /\ mutex = None
  /\ op' = [op EXCEPT ![Main] = Op("final", Null, AnySize)]
  /\ Goto(Main, "lock")
  /\ UNCHANGED <<mutex, info_map, res, heapVars, runVars, printed>>

Program(t) == Wrapped(t) \/ LibraryAlloc(t) \/ SetMallocSizeCheckPoint(t)
              \/ Create(t) \/ Finish(t)
Wrapper(t) == \/ Lock(t) \/ LibcMalloc(t) \/ LibcRealloc(t) \/ Erase(t)
              \/ LibcFree(t) \/ Insert(t) \/ PrintStatus(t) \/ Unlock(t)
MonitorStep == MonitorCheck \/ MonitorSize \/ MonitorWake
DeInit == ThreadDestroy \/ Join \/ MempoolDestroy

Next == \/ \E t \in Thread : Program(t)
        \/ \E t \in Actor : Wrapper(t)
        \/ StopThreads \/ MainReturns \/ MonitorStep \/ DeInit

Spec == Init /\ [][Next]_vars

(* Every thread that can run does; the program need not make a call, but   *)
(* its threads return in the end, and so does main.                        *)
Fairness ==
  /\ \A t \in Actor : WF_vars(Wrapper(t))
  /\ \A t \in Thread : WF_vars(Finish(t))
  /\ WF_vars(MonitorStep) /\ WF_vars(DeInit) /\ WF_vars(MainReturns)

FairSpec == Spec /\ Fairness

-----------------------------------------------------------------------------
Ours == [b \in Block |-> IF b \in foreign THEN NoSize ELSE heap[b]]

(* Whenever nobody is inside a wrapper, and whenever somebody prints it,   *)
(* the map is exactly the heap: every block that came through a wrapper,   *)
(* with the size it was asked for last, and no other address.              *)
MapIsHeap == mutex = None \/ pc[mutex] = "print" => info_map = Ours

(* Why: whoever is inside the mutex knows where the map and the heap still *)
(* differ, and nobody else can be inside.                                  *)
MapAgrees(S) == \A b \in Block \ S : info_map[b] = Ours[b]
LockInv == \A t \in Actor : pc[t] \in Holding <=> mutex = t
HolderInv(t) ==
  LET p == op[t].ptr
      b == res[t]
  IN /\ pc[t] \in {"libc", "print", "unlock", "join"} => MapAgrees({})
     /\ pc[t] = "libc" => op[t].fn # "free"
     /\ pc[t] = "erase" /\ op[t].fn = "free" => MapAgrees({})
     /\ pc[t] = "erase" /\ op[t].fn # "free" =>
          /\ b \in Block /\ Ours[b] = op[t].size /\ MapAgrees({b, p})
          /\ p # b => info_map[b] = NoSize
          /\ p \in Block \ {b} => Ours[p] = NoSize
     /\ pc[t] = "libcfree" =>
          MapAgrees({p}) /\ (p \in Block => info_map[p] = NoSize)
     /\ pc[t] = "insert" =>
          /\ MapAgrees({b})
          /\ b \in Block => info_map[b] = NoSize /\ Ours[b] = op[t].size
MapInv == /\ LockInv
          /\ mutex = None => MapAgrees({})
          /\ \A t \in Actor : HolderInv(t)
          /\ \A b \in foreign : heap[b] # NoSize

(* The reports are those of a program whose calls take effect one at a     *)
(* time, whatever its threads and the monitor interleave.                  *)
Tracker == INSTANCE MallocTracker WITH blocks <- Ours, reported <- printed
ReportsAreExact == Tracker!Spec

(* The destructor finishes: "== Check Memory Leak Exit ==" is printed.     *)
ExitReported == pc[Main] = "deinit" ~> pc[Main] = "down"

=============================================================================
