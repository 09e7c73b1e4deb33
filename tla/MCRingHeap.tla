----------------------------- MODULE MCRingHeap -----------------------------
(***************************************************************************)
(* Instances of RingHeap for TLC.                                          *)
(***************************************************************************)
EXTENDS RingHeap, TLC

(* Nodes differ in nothing but their names, and neither do keys.            *)
Symmetry == Permutations(Node) \cup Permutations(Key)
=============================================================================
