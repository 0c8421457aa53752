------------------------------ MODULE MCNatTcp ------------------------------
(***************************************************************************)
(* Every filter with and without a mapping per destination, and every kind *)
(* of hairpin translation.                                                 *)
(***************************************************************************)
EXTENDS NatTcp

Kinds == {k \in Nats : k.hairpin = "yes" \/ (k.filter = "drop" /\ ~k.symmetric)}
=============================================================================
