------------------------------ MODULE RingHeap ------------------------------
(***************************************************************************)
(* The ring of ring_list.c as it is in memory: nodes with a key, a next    *)
(* and a prev pointer, a root pointer, and the nodes that are allocated;   *)
(* with the walks of its users, which hold a pointer into it (aux) while   *)
(* they have nodes removed: that of connection_peer, which begins at the   *)
(* root and ends at the last node, and that of broadcastPeersAndNotify,    *)
(* which begins behind the root, the peer's own node, and ends there.      *)
(* Every operation runs under the lock of its list, and is one step.       *)
(***************************************************************************)
EXTENDS Naturals, FiniteSets

CONSTANTS
  Node,     \* the nodes that malloc may give
  NULL,     \* the pointer to no node
  Key       \* the keys, data_r

ASSUME RingHeapAssumption == IsFiniteSet(Node) /\ NULL \notin Node

VARIABLES
  next, prev, key,   \* the fields of each node; a freed one keeps its values
  live,              \* the nodes that are allocated
  root,              \* the root pointer
  walk,              \* the walk under way: "none", "check" or "tell"
  aux                \* its cursor

heap == <<next, prev, key, live>>
vars == <<heap, root, walk, aux>>

Init ==
  /\ next = [n \in Node |-> NULL] /\ prev = [n \in Node |-> NULL]
  /\ key \in {[n \in Node |-> k] : k \in Key}
  /\ live = {} /\ root = NULL
  /\ walk = "none" /\ aux = NULL

-----------------------------------------------------------------------------
(* The node a loop over next, from the root on, comes to at its i-th turn.   *)
Visited == LET at[i \in 1..Cardinality(Node)] ==
                 IF i = 1 THEN root ELSE next[at[i - 1]]
           IN  at

(* The number of nodes such a loop visits before it is at the root again.    *)
ring_count == IF root = NULL THEN 0
              ELSE Cardinality({Visited[i] : i \in DOMAIN Visited})

(* Faulty variant: the old last node keeps the root as its successor.        *)
PushHalf(n) ==
  /\ prev' = [prev EXCEPT ![n] = prev[root], ![root] = n]
  /\ next' = [next EXCEPT ![n] = root]

(* Faulty variant: n becomes the successor of the root.                      *)
PushBehind(n) ==
  /\ prev' = [prev EXCEPT ![next[root]] = n, ![n] = root]
  /\ next' = [next EXCEPT ![n] = next[root], ![root] = n]

(* ring_push into a ring: n becomes the predecessor of the root.             *)
PushBefore(n) ==
  /\ prev' = [prev EXCEPT ![n] = prev[root], ![root] = n]
  /\ next' = [next EXCEPT ![prev[root]] = n, ![n] = root]

(* ring_append: a node is allocated and pushed.                              *)
ring_append(k) == \E n \in Node \ live :
  /\ live' = live \cup {n}
  /\ key' = [key EXCEPT ![n] = k]
  /\ IF root = NULL
     THEN /\ root' = n
          /\ next' = [next EXCEPT ![n] = n] /\ prev' = [prev EXCEPT ![n] = n]
     ELSE PushBefore(n) /\ UNCHANGED root

(* The root after the i-th node is removed: its successor if it is the root, *)
(* and NULL if it was the only one.                                          *)
RootAfter(i) == CASE i > 1 -> root
                  [] i = 1 /\ next[root] = root -> NULL
                  [] i = 1 /\ next[root] # root -> next[root]

(* The turns at which a search from the root meets key k.                    *)
Meets(k) == {i \in 1..ring_count : key[Visited[i]] = k}

(* ring_remove: the first node with key k is unlinked and freed; the node    *)
(* before it is the last one visited, or prev of the root.                   *)
ring_remove(k) ==
  IF Meets(k) = {} THEN UNCHANGED <<heap, root>>
  ELSE \E i \in Meets(k) :
    /\ \A j \in Meets(k) : i <= j
    /\ LET n == Visited[i]
           before == IF i = 1 THEN prev[n] ELSE Visited[i - 1]
       IN  /\ next' = [next EXCEPT ![before] = next[n]]
           /\ prev' = [prev EXCEPT ![next[n]] = before]
           /\ live' = live \ {n}
    /\ root' = RootAfter(i)
    /\ UNCHANGED key
-----------------------------------------------------------------------------
(* Between walks: registration, removal of a key, the next peer in turn for  *)
(* a client, and the new peer's step to its own node.                        *)
Change ==
  /\ walk = "none"
  /\ \/ \E k \in Key : ring_append(k) \/ ring_remove(k)
     \/ /\ root # NULL
        /\ root' = next[root] \/ root' = prev[root]
        /\ UNCHANGED heap
  /\ UNCHANGED <<walk, aux>>

Begin ==
  /\ walk = "none" /\ root # NULL
  /\ \/ walk' = "check" /\ aux' = root
     \/ walk' = "tell" /\ aux' = next[root]
  /\ UNCHANGED <<heap, root>>

(* The loop conditions aux->next != peer_list and aux != peer_list.          *)
Over == IF walk = "check" THEN next[aux] = root ELSE aux = root

Online ==
  /\ walk # "none" /\ ~Over
  /\ aux' = next[aux]
  /\ UNCHANGED <<heap, root, walk>>

(* Faulty variant: the node the cursor has moved to is removed.              *)
DroppedNext == key[next[aux]]

(* The key that is removed: aux->prev->K, with aux moved on already.         *)
Dropped == key[prev[next[aux]]]

(* The node under the cursor refuses: the cursor moves on, and then the node *)
(* behind it is removed by its key.  A peer does not refuse itself.          *)
Refused ==
  /\ walk # "none" /\ ~Over
  /\ walk = "tell" => key[aux] # key[root]
  /\ aux' = next[aux]
  /\ ring_remove(Dropped)
  /\ UNCHANGED walk

End ==
  /\ walk # "none" /\ Over
  /\ walk' = "none" /\ aux' = NULL
  /\ UNCHANGED <<heap, root>>

Next == Change \/ Begin \/ Online \/ Refused \/ End

Spec == Init /\ [][Next]_vars
-----------------------------------------------------------------------------
(* Type invariant: every variable stays within its type.                     *)
TypeOK ==
  /\ next \in [Node -> Node \cup {NULL}] /\ prev \in [Node -> Node \cup {NULL}]
  /\ key \in [Node -> Key]
  /\ live \subseteq Node /\ root \in live \cup {NULL}
  /\ walk \in {"none", "check", "tell"} /\ aux \in Node \cup {NULL}

(* Every variable keeps its type, and the heap is one ring: next and prev    *)
(* are inverse on the allocated nodes and lead to allocated nodes only, a    *)
(* loop from the root visits all of them                                     *)
(* (nothing leaks, nothing that was freed is reached), and there is a root   *)
(* as long as there is a node (ring_list.c: ring_push, ring_remove).         *)
OneRing ==
  /\ TypeOK
  /\ root = NULL <=> live = {}
  /\ \A n \in live : /\ next[n] \in live /\ prev[next[n]] = n
                     /\ prev[n] \in live /\ next[prev[n]] = n
  /\ root # NULL => {Visited[i] : i \in DOMAIN Visited} = live

(* A walk never holds a pointer to a freed node, although it frees nodes     *)
(* next to its cursor, the root among them, finding them by keys that may    *)
(* occur more than once (gateway.c and peer.c: the loops over aux).          *)
CursorLive == walk # "none" => aux \in live

(* The position of the cursor in the order of the ring.                      *)
Position == IF walk = "tell" /\ aux = root THEN ring_count + 1
            ELSE CHOOSE i \in 1..ring_count : Visited[i] = aux

(* The keys from the root on, and the position, 1 when there is no walk.     *)
Keys == [i \in 1..ring_count |-> key[Visited[i]]]
Cursor == IF walk = "none" THEN 1 ELSE Position

Sequence == INSTANCE RingWalk WITH
  MaxRing <- Cardinality(Node), ring <- Keys, pos <- Cursor

(* The pointers implement the sequence: append, remove and the moves of the  *)
(* root do to the keys what the operators of Ring say, and a cursor keeps    *)
(* its position when the node behind it goes (ring_list.c with the loops of  *)
(* gateway.c and peer.c).                                                    *)
ImplementsRing == Sequence!Spec
=============================================================================
