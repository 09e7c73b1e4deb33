------------------------------ MODULE Gallery -------------------------------
(***************************************************************************)
(* What the replication of peer.c promises, without lists, files, locks,   *)
(* threads or rings.  Every peer shows a set of photos with keywords.  A   *)
(* request of a client takes effect at its home, and only then at the      *)
(* peers that are told of it; at each of them at one moment, at most once, *)
(* some time after it was told.  Nothing else changes what a peer shows.   *)
(***************************************************************************)
EXTENDS Naturals

CONSTANTS
  Peer,      \* the peers
  NoPeer,    \* no peer at all
  Request,   \* the requests of clients
  Keyword,   \* the keywords they name
  PhotoId,   \* the ids of photos
  Initial    \* the photos every peer shows at the start

VARIABLES
  issued,    \* per request: what it asks for, and its home
  stage,     \* per request and peer: "none", "told" or "done"
  shown      \* per peer: the photos it shows, each with its keywords

vars == <<issued, stage, shown>>

NotIssued == [op |-> "none", photo |-> 0, keyword |-> "", home |-> NoPeer]

Init ==
  /\ issued = [r \in Request |-> NotIssued]
  /\ stage = [r \in Request |-> [p \in Peer |-> "none"]]
  /\ shown = [p \in Peer |-> Initial]

(* A photo to be added has an id that no photo and no request has.          *)
Fresh(id) == /\ \A p \in Peer : \A e \in shown[p] : e.id # id
             /\ \A r \in Request : issued[r].photo # id

Ask(r, p, id) ==
  /\ issued[r] = NotIssued
  /\ \/ /\ Fresh(id)
        /\ issued' = [issued EXCEPT ![r] =
             [op |-> "add", photo |-> id, keyword |-> "", home |-> p]]
     \/ issued' = [issued EXCEPT ![r] =
          [op |-> "delete", photo |-> id, keyword |-> "", home |-> p]]
     \/ \E k \in Keyword : issued' = [issued EXCEPT ![r] =
          [op |-> "keyword", photo |-> id, keyword |-> k, home |-> p]]
  /\ stage' = [stage EXCEPT ![r][p] = "told"]
  /\ UNCHANGED shown

Tell(r, p) ==
  /\ stage[r][p] = "none"
  /\ issued[r].home # NoPeer /\ stage[r][issued[r].home] = "done"
  /\ stage' = [stage EXCEPT ![r][p] = "told"]
  /\ UNCHANGED <<issued, shown>>

(* Photo e with one more keyword, if it is the one named.                    *)
Tagged(e, id, k) == IF e.id = id THEN [e EXCEPT !.keyword = @ \cup {k}] ELSE e

(* What a request may make of a set of photos.  A keyword may be refused.    *)
Effect(q, s) ==
  CASE q.op = "add"     -> {s \cup {[id |-> q.photo, keyword |-> {}]}}
    [] q.op = "delete"  -> {{e \in s : e.id # q.photo}}
    [] q.op = "keyword" -> {s, {Tagged(e, q.photo, q.keyword) : e \in s}}

(* The request takes effect.                                                *)
Apply(r, p) ==
  /\ stage[r][p] = "told"
  /\ \E s \in Effect(issued[r], shown[p]) : shown' = [shown EXCEPT ![p] = s]
  /\ stage' = [stage EXCEPT ![r][p] = "done"]
  /\ UNCHANGED issued

Next ==
  \E r \in Request, p \in Peer :
    (\E id \in PhotoId : Ask(r, p, id)) \/ Tell(r, p) \/ Apply(r, p)

Spec == Init /\ [][Next]_vars
=============================================================================
