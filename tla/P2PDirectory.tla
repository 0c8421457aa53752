---------------------------- MODULE P2PDirectory ----------------------------
(***************************************************************************)
(* What P2PServer promises of its client list: the set of the processes    *)
(* that have logged in, from which only a process that is gone is taken.   *)
(***************************************************************************)
CONSTANT Peer

VARIABLES members,  \* the processes the server lists
          gone      \* the processes that have ended

vars == <<members, gone>>

Init == members = {} /\ gone = {}

Join(p) == /\ p \notin members
           /\ members' = members \cup {p}
           /\ UNCHANGED gone

Depart(p) == /\ gone' = gone \cup {p}
             /\ UNCHANGED members

Leave(p) == /\ p \in members \cap gone
            /\ members' = members \ {p}
            /\ UNCHANGED gone

Next == \E p \in Peer : Join(p) \/ Depart(p) \/ Leave(p)

Spec == Init /\ [][Next]_vars

=============================================================================
