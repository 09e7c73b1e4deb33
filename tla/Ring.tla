-------------------------------- MODULE Ring --------------------------------
(***************************************************************************)
(* The circular doubly linked list of ring_list.c, seen as the sequence of *)
(* its keys in `next` order, starting with the element the root pointer    *)
(* refers to.  The empty sequence is the NULL root.  Moving the root       *)
(* pointer one node on is a rotation of the sequence.                      *)
(***************************************************************************)
EXTENDS SequencesExt

(* ring_append and the ring_push it calls: the new node becomes the         *)
(* predecessor of the root, that is, the last element; in an empty ring it  *)
(* becomes the root.                                                        *)
ring_append(r, k) == Append(r, k)

(* ring_remove: the search starts at the root and frees the first node whose *)
(* key equals k.  If that node is the root, its successor becomes the root;  *)
(* a ring without the key is left alone.                                     *)
ring_remove(r, k) == RemoveFirst(r, k)

(* Faulty variant: the root pointer stays where it is.                       *)
ring_next_none(r) == r

(* root = root->next, in a ring that is not empty.                          *)
ring_next(r) == Append(Tail(r), Head(r))
=============================================================================
