--------------------------- MODULE MCReplication ----------------------------
(***************************************************************************)
(* Instances of Replication for TLC.                                       *)
(***************************************************************************)
EXTENDS Replication

(* The members in some ring order.                                          *)
AllButJoiner == SetToSeq(Peer \ {Joiner})

(* Requests differ in nothing but their names.                              *)
Symmetry == Permutations(Request)
=============================================================================
