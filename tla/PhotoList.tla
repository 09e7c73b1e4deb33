----------------------------- MODULE PhotoList ------------------------------
(***************************************************************************)
(* The singly linked list of photos of linked_list.c, seen as the sequence *)
(* of its nodes from the root on.  A node is a record [id, keyword, node]: *)
(* the photo's id, its keyword array up to n_keywords, and which of the    *)
(* nodes of one photo it is (a photo can be inserted twice).               *)
(***************************************************************************)
EXTENDS SequencesExt

(* Faulty variant: the new root does not point to the old one.               *)
list_insert_cut(l, e) == <<e>>

(* list_insert: the new node becomes the root.                              *)
list_insert(l, e) == <<e>> \o l

(* equal_data compares ids only; list_search and list_remove stop at the    *)
(* first node that matches.                                                 *)
Holds(l, id) == \E i \in 1..Len(l) : l[i].id = id
list_search(l, id) == l[SelectInSeq(l, LAMBDA e : e.id = id)]

(* Faulty variant: the root is removed whatever the id.                      *)
list_remove_root(l, id) == IF l = <<>> THEN l ELSE Tail(l)

list_remove(l, id) == RemoveFirstMatch(l, LAMBDA e : e.id = id)

(* search_keyword: the photo has the keyword.                               *)
search_keyword(e, k) == \E i \in 1..Len(e.keyword) : e.keyword[i] = k

(* The ids of the photos of a list.                                         *)
Ids(l) == {l[i].id : i \in 1..Len(l)}
=============================================================================
