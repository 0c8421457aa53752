-------------------------- MODULE MCCheckMemoryLeak --------------------------
(***************************************************************************)
(* The program's main thread and one or two others, on a heap of two or    *)
(* three blocks.                                                           *)
(***************************************************************************)
EXTENDS CheckMemoryLeak, TLC

Symmetry == Permutations(Block)
=============================================================================
