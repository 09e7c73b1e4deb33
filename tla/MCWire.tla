------------------------------- MODULE MCWire -------------------------------
(***************************************************************************)
(* Instances of Wire for TLC: which messages are sent.                     *)
(***************************************************************************)
EXTENDS Wire

(* Two or three messages of up to three bytes.                              *)
UpToThree == [1..2 -> 0..3] \cup [1..3 -> 0..3]
=============================================================================
