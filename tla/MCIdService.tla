---------------------------- MODULE MCIdService -----------------------------
(***************************************************************************)
(* Instances of IdService for TLC.                                         *)
(***************************************************************************)
EXTENDS IdService

CONSTANTS p1, p2, p3

ThreePeers == <<p1, p2, p3>>
=============================================================================
