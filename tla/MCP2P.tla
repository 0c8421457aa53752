------------------------------- MODULE MCP2P --------------------------------
(***************************************************************************)
(* Two client processes with distinct names.                               *)
(***************************************************************************)
EXTENDS P2P

CONSTANTS a, b, na, nb

TwoPeers == {a, b}
TwoNames == [p \in TwoPeers |-> IF p = a THEN na ELSE nb]

Never     == [p \in TwoPeers |-> 0]
Once      == [p \in TwoPeers |-> 1]
OnlyAOnce == [p \in TwoPeers |-> IF p = a THEN 1 ELSE 0]
OnlyATwice == [p \in TwoPeers |-> IF p = a THEN 2 ELSE 0]
TwiceAndOnce == [p \in TwoPeers |-> IF p = a THEN 2 ELSE 1]
=============================================================================
