------------------------------ MODULE RingWalk ------------------------------
(***************************************************************************)
(* What the users of the ring do with it, on the sequence of its keys: it  *)
(* grows at its end, loses keys, turns, and is walked by a cursor that may *)
(* have the key behind it removed.  The cursor is a position.  This is the *)
(* view that Gateway and Replication take of ring_list.c.                  *)
(***************************************************************************)
EXTENDS Ring

CONSTANTS Key, MaxRing

VARIABLES
  ring,     \* the keys, from the root on
  walk,     \* the walk under way: "none", "check" or "tell"
  pos       \* the position of its cursor; after the last is the root again

vars == <<ring, walk, pos>>

Init == ring = <<>> /\ walk = "none" /\ pos = 1

(* Between walks.                                                            *)
Change ==
  /\ walk = "none"
  /\ \/ Len(ring) < MaxRing /\ \E k \in Key : ring' = ring_append(ring, k)
     \/ \E k \in Key : ring' = ring_remove(ring, k)
     \/ ring # <<>> /\ ring' = ring_next(ring)
     \/ ring # <<>> /\ ring' = <<Last(ring)>> \o Front(ring)
  /\ UNCHANGED <<walk, pos>>

(* A walk of the gateway begins at the root, one of a peer behind it.        *)
Begin ==
  /\ walk = "none" /\ ring # <<>>
  /\ \/ walk' = "check" /\ pos' = 1
     \/ walk' = "tell" /\ pos' = 2
  /\ UNCHANGED ring

(* The position at which a walk is over.                                     *)
Over == pos = IF walk = "check" THEN Len(ring) ELSE Len(ring) + 1

Step ==
  /\ walk # "none" /\ ~Over
  /\ \/ pos' = pos + 1 /\ UNCHANGED ring
     \/ ring' = ring_remove(ring, ring[pos]) /\ UNCHANGED pos
  /\ UNCHANGED walk

End == walk # "none" /\ Over /\ walk' = "none" /\ pos' = 1 /\ UNCHANGED ring

Next == Change \/ Begin \/ Step \/ End

Spec == Init /\ [][Next]_vars
=============================================================================
