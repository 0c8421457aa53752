------------------------------ MODULE LinkList ------------------------------
(***************************************************************************)
(* Storage/linear/linklist: the list of main.c with its storage structure. *)
(* Nodes are blocks of memory; a use of one that is freed, or of what was  *)
(* never set, is undefined behaviour, and what the program does then is    *)
(* not modelled.                                                           *)
(***************************************************************************)
EXTENDS Integers, Sequences, FiniteSets

CONSTANTS Node,       \* blocks malloc has for nodes
          Datum,      \* values
          Null,
          Garbage     \* the data of a node that got none: the head

ASSUME NodesAssumption == Null \notin Node /\ Garbage \notin Datum /\ Datum \subseteq Int

VARIABLES live,       \* nodes allocated
          next, data, \* what nodes hold
          head,       \* list->storage; assist->head is the same until both go
          lpc,        \* inside which call
          pre, temp,  \* the locals of the calls: linklist_add has a pre_node only
          sought      \* the value linklist_add puts in, linklist_remove compares with

listVars == <<live, next, data, head, lpc, pre, temp, sought>>

ListInit ==
  /\ live = {} /\ head = Null
  /\ next = [n \in Node |-> Null] /\ data = [n \in Node |-> Garbage]
  /\ lpc = "start" /\ pre = Null /\ temp = Null /\ sought = Garbage

(* storage and linklist_init                                               *)
InitCall(n) ==
  /\ lpc = "start" /\ n \notin live
  /\ live' = live \cup {n}
  /\ next' = [next EXCEPT ![n] = Null]
  /\ head' = n /\ lpc' = "idle"
  /\ UNCHANGED <<data, pre, temp, sought>>

(* linklist_add behind a node p, with node_create.                         *)
AddCalled(p, v) ==
  /\ lpc = "idle" /\ p \in live
  /\ lpc' = "add" /\ pre' = p /\ sought' = v
  /\ UNCHANGED <<live, next, data, head, temp>>

ListAdd(n) ==
  /\ lpc = "add" /\ n \notin live
  /\ live' = live \cup {n}
  /\ data' = [data EXCEPT ![n] = sought]
  /\ next' = [next EXCEPT ![pre] = n, ![n] = next[pre]]
  /\ lpc' = "idle"
  /\ UNCHANGED <<head, pre, temp, sought>>

(* node_create stores the value before it looks whether there is a block   *)
(* for it; once linklist_destory has run, list->storage is no node, and a  *)
(* second linklist_destory walks what is freed.                            *)
ListUndefined ==
  /\ lpc \in {"add", "destroyed"} \/ (lpc = "destroy" /\ temp \in live /\ data[temp] = Garbage)
  /\ lpc' = "undefined"
  /\ UNCHANGED <<live, next, data, head, pre, temp, sought>>

-----------------------------------------------------------------------------
RemoveCalled(p, v) ==
  /\ lpc = "idle" /\ p \in live
  /\ lpc' = "remove" /\ pre' = p /\ temp' = next[p] /\ sought' = v
  /\ UNCHANGED <<live, next, data, head>>

(* A mutant: an equal one matches too.                                     *)
MatchesAtLeast(n) == data[n] - sought >= 0

(* linklist_compare: 0, which remove takes for a match, of a greater value. *)
Matches(n) == data[n] - sought > 0

RemoveNext == /\ lpc = "remove" /\ temp # Null /\ ~Matches(temp)
              /\ pre' = temp /\ temp' = next[temp]
              /\ UNCHANGED <<live, next, data, head, lpc, sought>>

RemoveEnds == /\ lpc = "remove" /\ temp = Null
              /\ lpc' = "idle"
              /\ UNCHANGED <<live, next, data, head, pre, temp, sought>>

(* A mutant: the predecessor is left at the node that goes.                *)
UnlinksNothing == /\ lpc = "remove" /\ temp # Null /\ Matches(temp)
                  /\ live' = live \ {temp}
                  /\ lpc' = "idle" /\ temp' = Null
                  /\ UNCHANGED <<next, data, head, pre, sought>>

RemoveFound == /\ lpc = "remove" /\ temp # Null /\ Matches(temp)
               /\ next' = [next EXCEPT ![pre] = next[temp]]
               /\ live' = live \ {temp}
               /\ lpc' = "idle" /\ temp' = Null
               /\ UNCHANGED <<data, head, pre, sought>>

-----------------------------------------------------------------------------
DestroyCalled == /\ lpc = "idle"
                 /\ lpc' = "destroy" /\ temp' = head
                 /\ UNCHANGED <<live, next, data, head, pre, sought>>

(* node_destory takes the garbage of the head for its data, unless it      *)
(* happens to be NULL, in which case there is none to free.                *)
DestroyNext == /\ lpc = "destroy" /\ temp # Null
               /\ live' = live \ {temp} /\ temp' = next[temp]
               /\ UNCHANGED <<next, data, head, lpc, pre, sought>>

DestroyEnds == /\ lpc = "destroy" /\ temp = Null
               /\ lpc' = "destroyed"
               /\ UNCHANGED <<live, next, data, head, pre, temp, sought>>

ListNext == \/ \E n \in Node : InitCall(n)
            \/ \E p \in Node, v \in Datum : AddCalled(p, v) \/ RemoveCalled(p, v)
            \/ \E n \in Node : ListAdd(n)
            \/ RemoveNext \/ RemoveEnds \/ RemoveFound
            \/ DestroyCalled \/ DestroyNext \/ DestroyEnds
            \/ ListUndefined

ListSpec == ListInit /\ [][ListNext]_listVars

-----------------------------------------------------------------------------
ListTypeOK ==
  /\ live \subseteq Node /\ next \in [Node -> Node \cup {Null}]
  /\ data \in [Node -> Datum \cup {Garbage}]
  /\ {head, pre, temp} \subseteq Node \cup {Null}
  /\ lpc \in {"start", "idle", "add", "remove", "destroy", "destroyed", "undefined"}
  /\ sought \in Datum \cup {Garbage}

(* The nodes from n on, in their order, and then Null for ever.            *)
Trail(n) ==
  LET step[k \in 0 .. Cardinality(Node)] ==
        IF k = 0 THEN n ELSE IF step[k - 1] = Null THEN Null ELSE next[step[k - 1]]
  IN  step

Met(n) == {Trail(n)[k] : k \in 0 .. Cardinality(Node)}

(* The list as a caller sees it, or what linklist_destory has left of it.  *)
First == IF head \in live THEN head ELSE temp

(* The pointers from the head on lead, once each, through the blocks that  *)
(* are allocated and end at NULL, in the middle of a removal or of         *)
(* linklist_destory too: no node is lost and none is met after its free.   *)
ListIsChain == Met(First) = live \cup {Null}

(* Refinement: linklist_add puts its value behind the node it is given;    *)
(* linklist_remove takes out, of the elements behind its node, the first   *)
(* one that linklist_compare matches.  That is the first GREATER than its  *)
(* value, and one equal to it stays: the list is given for meant what the  *)
(* code compares, and promises no more than that.                          *)
ListElements ==
  LET trail == Trail(head)
  IN  IF head \in live
      THEN [k \in 1 .. Cardinality({j \in 1 .. Cardinality(Node) : trail[j] # Null})
              |-> data[trail[k]]]
      ELSE <<>>

Position(n) == CHOOSE k \in DOMAIN Trail(head) : Trail(head)[k] = n

ListCall == IF lpc \in {"add", "remove"} THEN <<lpc, Position(pre), sought>> ELSE <<>>

Greater == {p \in Datum \X Datum : p[1] > p[2]}

LinkedList == INSTANCE IntList WITH Val <- Datum, Meant <- Greater,
                                    list <- ListElements, call <- ListCall

ListIsList == LinkedList!Spec

=============================================================================
