------------------------------ MODULE IntList -------------------------------
(***************************************************************************)
(* What the containers of integers promise: a list.  A call names a place  *)
(* and a value.  One that adds puts that value in behind that place, or    *)
(* nothing; one that removes takes out one element behind that place of    *)
(* those that are meant by the value, and changes nothing only if there is *)
(* none.                                                                   *)
(***************************************************************************)
EXTENDS Naturals, Sequences

CONSTANTS Val,
          Meant    \* pairs: an element, a value that is asked for

VARIABLES list,
          call     \* the call that has begun: its kind, place and value

vars == <<list, call>>

Init == list = <<>> /\ call = <<>>

Called(kind, n, v) ==
  /\ call = <<>> /\ n \in 0 .. Len(list)
  /\ call' = <<kind, n, v>>
  /\ UNCHANGED list

Insert(n, v) ==
  /\ call = <<"add", n, v>>
  /\ list' = [k \in 1 .. Len(list) + 1 |->
                CASE k <= n -> list[k] [] k = n + 1 -> v [] OTHER -> list[k - 1]]
  /\ call' = <<>>

NoMemory(n, v) == /\ call = <<"add", n, v>>
                  /\ call' = <<>>
                  /\ UNCHANGED list

Matches(k, v) == <<list[k], v>> \in Meant

(* A caller who looks behind one element after the other.                  *)
Pass(n, v) ==
  /\ call = <<"remove", n, v>> /\ n < Len(list) /\ ~Matches(n + 1, v)
  /\ call' = <<"remove", n + 1, v>>
  /\ UNCHANGED list

Delete(n, v, i) ==
  /\ call = <<"remove", n, v>> /\ i \in n + 1 .. Len(list) /\ Matches(i, v)
  /\ list' = [k \in 1 .. Len(list) - 1 |-> IF k < i THEN list[k] ELSE list[k + 1]]
  /\ call' = <<>>

NotFound(n, v) ==
  /\ call = <<"remove", n, v>> /\ \A k \in n + 1 .. Len(list) : ~Matches(k, v)
  /\ call' = <<>>
  /\ UNCHANGED list

Empty == call = <<>> /\ list' = <<>> /\ UNCHANGED call

Next == \/ \E n \in 0 .. Len(list), v \in Val :
             \/ Called("add", n, v) \/ Insert(n, v) \/ NoMemory(n, v)
             \/ Called("remove", n, v) \/ Pass(n, v) \/ NotFound(n, v)
             \/ \E i \in 1 .. Len(list) : Delete(n, v, i)
        \/ Empty

Spec == Init /\ [][Next]_vars

=============================================================================
