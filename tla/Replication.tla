---------------------------- MODULE Replication -----------------------------
(***************************************************************************)
(* The photos of the gallery, replicated by the peers (peer.c).  A client  *)
(* sends a request to one peer, its home; the home applies it to its own   *)
(* photo list and files, and then tells every other peer of its peer_list, *)
(* one TCP connection each.  Every connection is served by a thread of its *)
(* own, so that the handlers of different requests interleave at a peer in *)
(* any order.                                                              *)
(*                                                                         *)
(* pc[r][p] says where the thread that handles request r at peer p stands. *)
(* A step is a critical section, or the stretch of code between two of     *)
(* them that touches shared state.                                         *)
(*                                                                         *)
(* One peer, the joiner, may enter while the others work: it registers     *)
(* with the first member, gets its photos, tells the other members, and    *)
(* only then listens.                                                      *)
(***************************************************************************)
EXTENDS PhotoList, Ring, FiniteSets

CONSTANTS
  Peer,          \* all peers
  Members,       \* the peers in service from the start, in ring order
  Joiner,        \* the peer that enters later, or NoPeer
  NoPeer,        \* no peer at all
  Request,       \* the requests of clients, each sent at most once
  NoRequest,     \* no request at all
  Op,            \* the operations clients ask for
  Target,        \* the photos that keyword and delete requests name
  Keyword,       \* the keywords clients add
  MAX_KEYWORDS,  \* the size of the keyword array of a photo
  Preloaded,     \* number of photos every member holds at the start
  MaxCrashes     \* bound of the model: peers that are killed

ASSUME ReplicationAssumption ==
  /\ NoPeer \notin Peer /\ NoRequest \notin Request
  /\ Members \in Seq(Peer) /\ Members # <<>>
  /\ \A i, j \in 1..Len(Members) : Members[i] = Members[j] => i = j
  /\ Joiner \in (Peer \ ToSet(Members)) \cup {NoPeer}
  /\ Peer = ToSet(Members) \cup ({Joiner} \ {NoPeer})
  /\ Op \subseteq {"add", "keyword", "delete"} /\ Target \subseteq Nat \ {0}
  /\ MAX_KEYWORDS \in Nat /\ Preloaded \in Nat /\ MaxCrashes \in Nat

VARIABLES
  photo_list,  \* per peer: its list of photos
  files,       \* per peer: the ids of the files in its directory
  peer_list,   \* per peer: the other peers, in the order it tells them
  peer_lock,   \* per peer: the request whose thread holds peer_lock
  status,      \* per peer: "outside", "joining", "up", or how it ended
  photo_id,    \* the gateway's counter: the last photo id given out
  req,         \* per request: what it asks for and its home
  pc,          \* per request and peer: where its thread stands
  found,       \* per request and peer: the node its keyword is to go into
  cursor,      \* per request: position in peer_list of its broadcast
  entering,    \* per member: how far the joiner is known to it
  crashes      \* number of peers killed so far

gallery == <<photo_list, files>>
ring    == <<peer_list, peer_lock, cursor>>
clients == <<photo_id, req>>
members == <<status, entering, crashes>>
vars    == <<gallery, ring, clients, pc, found, members>>

NoOp == [op |-> "none", photo |-> 0, keyword |-> "", home |-> NoPeer]

(* The ring of peer p, from its own node on: the gateway's list, which ends  *)
(* with p, and then the peers that registered later; so all the others in    *)
(* the order in which they entered.                                          *)
RingOf(p) == ring_remove(Members, p)

Init ==
  /\ photo_list = [p \in Peer |-> IF p = Joiner THEN <<>> ELSE
       [i \in 1..Preloaded |->
          [id |-> Preloaded + 1 - i, keyword |-> <<>>, node |-> "start"]]]
  /\ files = [p \in Peer |-> IF p = Joiner THEN {} ELSE 1..Preloaded]
  /\ peer_list = [p \in Peer |-> RingOf(p)]
  /\ peer_lock = [p \in Peer |-> NoRequest]
  /\ status = [p \in Peer |-> IF p = Joiner THEN "outside" ELSE "up"]
  /\ photo_id = Preloaded
  /\ req = [r \in Request |-> NoOp]
  /\ pc = [r \in Request |-> [p \in Peer |-> "none"]]
  /\ found = [r \in Request |-> [p \in Peer |-> "none"]]
  /\ cursor = [r \in Request |-> 1]
  /\ entering = [p \in Peer |-> "unknown"]
  /\ crashes = 0
-----------------------------------------------------------------------------
Up(p) == status[p] = "up"

(* The thread of request r at peer p goes to stage s.                        *)
Goto(r, p, s) == pc' = [pc EXCEPT ![r][p] = s]

(* Peer p ends with fault f: none of its threads takes another step.         *)
Fault(p, f) == status' = [status EXCEPT ![p] = f]

(* Where a handler begins.                                                   *)
Start(op) == CASE op = "add"     -> "insert"
               [] op = "keyword" -> "find"
               [] op = "delete"  -> "remove"

(* Faulty variant: a peer also broadcasts what it was told by another.       *)
AfterEcho(r, p) == "lock"

(* What follows the local effect of a request: its home broadcasts it, any   *)
(* other peer is done with it.                                               *)
After(r, p) == IF p = req[r].home THEN "lock" ELSE "done"

(* A client sends request r to peer p.  For a new photo the home first gets  *)
(* an id from the gateway; the two other requests name a photo that exists   *)
(* or existed.                                                               *)
Issue(r, p) ==
  /\ Up(p) /\ req[r].op = "none"
  /\ \/ /\ "add" \in Op
        /\ photo_id' = photo_id + 1
        /\ req' = [req EXCEPT ![r] = [op |-> "add", photo |-> photo_id + 1,
                                      keyword |-> "", home |-> p]]
     \/ /\ \E o \in Op \cap {"keyword", "delete"}, id \in Target \cap 1..photo_id,
              k \in Keyword :
             req' = [req EXCEPT ![r] =
               [op |-> o, photo |-> id,
                keyword |-> IF o = "keyword" THEN k ELSE "", home |-> p]]
        /\ UNCHANGED photo_id
  /\ Goto(r, p, Start(req'[r].op))
  /\ UNCHANGED <<gallery, ring, members, found>>

(* add_photo: the photo enters the list ...                                  *)
AddInsert(r, p) ==
  /\ Up(p) /\ pc[r][p] = "insert"
  /\ photo_list' = [photo_list EXCEPT ![p] =
       list_insert(@, [id |-> req[r].photo, keyword |-> <<>>, node |-> "add"])]
  /\ Goto(r, p, "store")
  /\ UNCHANGED <<ring, clients, members, files, found>>

(* Faulty variant: the file is written at the home only.                     *)
AddStoreHome(r, p) ==
  /\ Up(p) /\ pc[r][p] = "store"
  /\ files' = [files EXCEPT ![p] =
                 @ \cup (IF p = req[r].home THEN {req[r].photo} ELSE {})]
  /\ Goto(r, p, After(r, p))
  /\ UNCHANGED <<ring, clients, members, photo_list, found>>

(* ... before its bytes are received and its file is written.                *)
AddStore(r, p) ==
  /\ Up(p) /\ pc[r][p] = "store"
  /\ files' = [files EXCEPT ![p] = @ \cup {req[r].photo}]
  /\ Goto(r, p, After(r, p))
  /\ UNCHANGED <<ring, clients, members, photo_list, found>>

(* The node that list_search finds in the list of peer p.                    *)
Match(r, p) == list_search(photo_list[p], req[r].photo)

(* The checks of add_keyword: the photo is there, has room, and does not     *)
(* have the keyword yet.                                                     *)
Addable(r, p) ==
  /\ Holds(photo_list[p], req[r].photo)
  /\ Len(Match(r, p).keyword) < MAX_KEYWORDS
  /\ ~search_keyword(Match(r, p), req[r].keyword)

(* add_keyword: the photo is searched under photo_lock, and the checks are   *)
(* made on the node found after the lock is released.  A check that fails    *)
(* ends the request; the client is answered -2, -1 or -3.                    *)
KeywordFind(r, p) ==
  /\ Up(p) /\ pc[r][p] = "find"
  /\ IF Addable(r, p)
     THEN /\ found' = [found EXCEPT ![r][p] = Match(r, p).node]
          /\ Goto(r, p, "put")
     ELSE /\ Goto(r, p, "done")
          /\ UNCHANGED found
  /\ UNCHANGED <<gallery, ring, clients, members>>

(* The node the thread of request r has found, while it is in the list.      *)
Node(r, p) ==
  {i \in DOMAIN photo_list[p] : /\ photo_list[p][i].id = req[r].photo
                                /\ photo_list[p][i].node = found[r][p]}

(* The keyword is written at the end of the node's array.                    *)
Put(r, p, i) == photo_list' =
  [photo_list EXCEPT ![p][i].keyword = Append(@, req[r].keyword)]

(* The keyword is written under photo_lock into the node found before.  If   *)
(* the node was freed meanwhile, or its array filled up, memory is corrupted *)
(* and the model does not follow the peer any further.                       *)
KeywordPut(r, p) ==
  /\ Up(p) /\ pc[r][p] = "put"
  /\ \/ /\ Node(r, p) = {}
        /\ Fault(p, "freed")
        /\ UNCHANGED <<photo_list, pc, found>>
     \/ \E i \in Node(r, p) :
          IF Len(photo_list[p][i].keyword) < MAX_KEYWORDS
          THEN /\ Put(r, p, i)
               /\ Goto(r, p, After(r, p))
               /\ found' = [found EXCEPT ![r][p] = "none"]
               /\ UNCHANGED status
          ELSE /\ Fault(p, "overrun")
               /\ UNCHANGED <<photo_list, pc, found>>
  /\ UNCHANGED <<files, ring, clients, entering, crashes>>

(* delete_photo: the photo leaves the list; if it is not there the request   *)
(* ends, and the client is answered 0 ...                                    *)
DeleteRemove(r, p) ==
  /\ Up(p) /\ pc[r][p] = "remove"
  /\ photo_list' = [photo_list EXCEPT ![p] = list_remove(@, req[r].photo)]
  /\ Goto(r, p, IF Holds(photo_list[p], req[r].photo) THEN "unlink" ELSE "done")
  /\ UNCHANGED <<ring, clients, members, files, found>>

(* ... and its file is unlinked after photo_lock is released.                *)
DeleteUnlink(r, p) ==
  /\ Up(p) /\ pc[r][p] = "unlink"
  /\ files' = [files EXCEPT ![p] = @ \ {req[r].photo}]
  /\ Goto(r, p, After(r, p))
  /\ UNCHANGED <<ring, clients, members, photo_list, found>>
-----------------------------------------------------------------------------
(* broadcastPeersAndNotify, called by the home of request r.  The walk holds *)
(* peer_lock from the first connection to the last.                          *)

BcastLock(r, p) ==
  /\ Up(p) /\ pc[r][p] = "lock" /\ peer_lock[p] = NoRequest
  /\ peer_lock' = [peer_lock EXCEPT ![p] = r]
  /\ cursor' = [cursor EXCEPT ![r] = 1]
  /\ Goto(r, p, "bcast")
  /\ UNCHANGED <<gallery, clients, members, peer_list, found>>

(* Faulty variant: the last peer of the ring is not told.                    *)
TellShort(r, p) == cursor[r] < Len(peer_list[p])

(* The walk is not over: aux != peer_list.                                   *)
Tell(r, p) == cursor[r] <= Len(peer_list[p])

(* The next peer accepts the connection.  It is told of a new photo by       *)
(* send_photo, which opens the file again: if it is gone, fseek is called    *)
(* with a NULL pointer.                                                      *)
BcastSend(r, p) ==
  /\ Up(p) /\ pc[r][p] = "bcast" /\ Tell(r, p)
  /\ LET q == peer_list[p][cursor[r]]
     IN  /\ Up(q)
         /\ IF req[r].op = "add" /\ req[r].photo \notin files[p]
            THEN Fault(p, "nofile") /\ UNCHANGED <<pc, cursor>>
            ELSE /\ Goto(r, q, Start(req[r].op))
                 /\ cursor' = [cursor EXCEPT ![r] = @ + 1]
                 /\ UNCHANGED status
  /\ UNCHANGED <<gallery, clients, peer_list, peer_lock, entering, crashes, found>>

(* Faulty variant: the walk also skips the peer after the one removed.       *)
DropSkipping(r, p) ==
  /\ peer_list' = [peer_list EXCEPT ![p] = ring_remove(@, @[cursor[r]])]
  /\ cursor' = [cursor EXCEPT ![r] = @ + 1]

(* Faulty variant: the cursor goes back to the node before the one removed.  *)
DropBack(r, p) ==
  /\ peer_list' = [peer_list EXCEPT ![p] = ring_remove(@, @[cursor[r]])]
  /\ cursor' = [cursor EXCEPT ![r] = @ - 1]

(* Faulty variant: the peer that refuses is tried again.                     *)
DropNot(r, p) == UNCHANGED <<peer_list, cursor>>

(* The cursor moves on and the node it has left is removed: its position in  *)
(* the list stays the same.                                                  *)
Drop(r, p) ==
  /\ peer_list' = [peer_list EXCEPT ![p] = ring_remove(@, @[cursor[r]])]
  /\ UNCHANGED cursor

(* The next peer refuses: it is reported to the gateway and removed.         *)
BcastDrop(r, p) ==
  /\ Up(p) /\ pc[r][p] = "bcast" /\ Tell(r, p)
  /\ ~Up(peer_list[p][cursor[r]])
  /\ Drop(r, p)
  /\ UNCHANGED <<gallery, clients, members, peer_lock, pc, found>>

BcastEnd(r, p) ==
  /\ Up(p) /\ pc[r][p] = "bcast" /\ ~Tell(r, p)
  /\ peer_lock' = [peer_lock EXCEPT ![p] = NoRequest]
  /\ Goto(r, p, "done")
  /\ UNCHANGED <<gallery, clients, members, peer_list, cursor, found>>
-----------------------------------------------------------------------------
(* The joiner.  entering[q] is "unknown" until member q is told of it,       *)
(* "asked" while its first member has the joiner in its ring and has not     *)
(* sent the photos yet, "told" while the message to q is on its way, and     *)
(* "known" in the end.                                                       *)

First == Members[1]

(* register_peer: the new peer is appended, and so told last.                *)
Register(q) ==
  /\ Up(q) /\ peer_lock[q] = NoRequest
  /\ peer_list' = [peer_list EXCEPT ![q] = ring_append(@, Joiner)]

(* The joiner connects to the first member and asks for the photos; it is    *)
(* registered there before they are sent.  A member that does not listen     *)
(* any more ends the joiner (connect_peer).                                  *)
JoinAsk ==
  /\ Joiner # NoPeer /\ status[Joiner] = "outside"
  /\ IF Up(First)
     THEN /\ Register(First)
          /\ status' = [status EXCEPT ![Joiner] = "joining"]
          /\ entering' = [entering EXCEPT ![First] = "asked"]
     ELSE Fault(Joiner, "exited") /\ UNCHANGED <<peer_list, entering>>
  /\ UNCHANGED <<gallery, clients, peer_lock, pc, cursor, crashes, found>>

(* Faulty variant: the oldest photo is left out.                             *)
SnapshotShort(l) == Tail(Reverse(l))

(* The photos in the order the joiner has them: it inserts one after the     *)
(* other, and so reverses the order.                                         *)
Snapshot(l) == Reverse(l)

(* send_all_photos holds photo_lock throughout; the joiner inserts and       *)
(* stores each photo it receives.  A listed photo without a file ends the    *)
(* member.                                                                   *)
JoinPhotos ==
  /\ Joiner # NoPeer /\ status[Joiner] = "joining"
  /\ Up(First) /\ entering[First] = "asked"
  /\ IF Ids(photo_list[First]) \subseteq files[First]
     THEN LET l == Snapshot(photo_list[First])
          IN  /\ photo_list' = [photo_list EXCEPT ![Joiner] =
                   [i \in DOMAIN l |-> [l[i] EXCEPT !.node = "join"]]]
              /\ files' = [files EXCEPT ![Joiner] = Ids(l)]
              /\ entering' = [entering EXCEPT ![First] = "known"]
              /\ UNCHANGED status
     ELSE Fault(First, "nofile") /\ UNCHANGED <<photo_list, files, entering>>
  /\ UNCHANGED <<ring, clients, pc, crashes, found>>

(* Faulty variant: the joiner never learns that the member has ended.        *)
JoinNoPhotosWait == FALSE

(* The first member ended before it sent its photos: the joiner either fails *)
(* to receive, and ends, or reads the end of the connection as the length    *)
(* zero and enters without a photo.                                          *)
JoinNoPhotos ==
  /\ Joiner # NoPeer /\ status[Joiner] = "joining"
  /\ ~Up(First) /\ entering[First] = "asked"
  /\ \/ Fault(Joiner, "exited") /\ UNCHANGED entering
     \/ entering' = [entering EXCEPT ![First] = "known"] /\ UNCHANGED status
  /\ UNCHANGED <<gallery, ring, clients, pc, found, crashes>>

(* The members after the first, in ring order: the next one not told yet.    *)
NextTold == CHOOSE i \in 2..Len(Members) :
              /\ entering[Members[i]] = "unknown"
              /\ \A h \in 2..(i - 1) : entering[Members[h]] # "unknown"
AllTold == \A i \in 2..Len(Members) : entering[Members[i]] # "unknown"

(* The joiner connects to the next member and tells it, or ends if it is     *)
(* refused.                                                                  *)
JoinTell ==
  /\ Joiner # NoPeer /\ status[Joiner] = "joining"
  /\ entering[First] = "known" /\ ~AllTold
  /\ LET q == Members[NextTold]
     IN  IF Up(q) THEN /\ entering' = [entering EXCEPT ![q] = "told"]
                       /\ UNCHANGED status
                  ELSE Fault(Joiner, "exited") /\ UNCHANGED entering
  /\ UNCHANGED <<gallery, ring, clients, pc, crashes, found>>

(* A member's thread serves the message of the joiner.                       *)
JoinRegister(q) ==
  /\ entering[q] = "told"
  /\ Register(q)
  /\ entering' = [entering EXCEPT ![q] = "known"]
  /\ UNCHANGED <<gallery, clients, peer_lock, status, pc, cursor, crashes, found>>

(* The joiner listens: bind, listen and the accept loop of main.             *)
JoinListen ==
  /\ Joiner # NoPeer /\ status[Joiner] = "joining"
  /\ entering[First] = "known" /\ AllTold
  /\ status' = [status EXCEPT ![Joiner] = "up"]
  /\ UNCHANGED <<gallery, ring, clients, pc, entering, crashes, found>>
-----------------------------------------------------------------------------
(* A peer is killed, or ends itself with exit() on an I/O error.             *)
Crash(p) ==
  /\ crashes < MaxCrashes /\ Up(p)
  /\ Fault(p, "crashed")
  /\ crashes' = crashes + 1
  /\ UNCHANGED <<gallery, ring, clients, pc, entering, found>>

(* The thread of request r at peer p takes its next step.                    *)
Handle(r, p) ==
  \/ AddInsert(r, p) \/ AddStore(r, p)
  \/ KeywordFind(r, p) \/ KeywordPut(r, p)
  \/ DeleteRemove(r, p) \/ DeleteUnlink(r, p)
  \/ BcastLock(r, p) \/ BcastSend(r, p) \/ BcastDrop(r, p) \/ BcastEnd(r, p)

Join ==
  JoinAsk \/ JoinPhotos \/ JoinNoPhotos \/ JoinTell \/ JoinListen

Next ==
  \/ \E r \in Request, p \in Peer : Issue(r, p) \/ Handle(r, p)
  \/ Join
  \/ \E q \in Peer : JoinRegister(q) \/ Crash(q)

Spec == Init /\ [][Next]_vars

(* Every thread of a peer that is up goes on, and gets peer_lock if the lock *)
(* is free again and again.  Clients need not ask; a joiner that has begun   *)
(* goes on.                                                                  *)
Fairness ==
  /\ \A r \in Request, p \in Peer :
       WF_vars(Handle(r, p)) /\ SF_vars(BcastLock(r, p))
  /\ WF_vars(JoinPhotos \/ JoinNoPhotos \/ JoinTell \/ JoinListen)
  /\ \A q \in Peer : SF_vars(JoinRegister(q))

FairSpec == Spec /\ Fairness
-----------------------------------------------------------------------------
(* Type invariant: every variable stays within its type.                     *)
TypeOK ==
  /\ photo_list \in [Peer ->
       Seq([id : Nat, keyword : Seq(Keyword), node : {"start", "add", "join"}])]
  /\ files \in [Peer -> SUBSET (1..photo_id)]
  /\ peer_list \in [Peer -> Seq(Peer)]
  /\ peer_lock \in [Peer -> Request \cup {NoRequest}]
  /\ status \in [Peer -> {"outside", "joining", "up", "crashed", "exited",
                          "freed", "overrun", "nofile"}]
  /\ photo_id \in Nat
  /\ req \in [Request ->
       [op : {"none", "add", "keyword", "delete"}, photo : 0..photo_id,
        keyword : Keyword \cup {""}, home : Peer \cup {NoPeer}]]
  /\ pc \in [Request -> [Peer -> {"none", "insert", "store", "find", "put",
               "remove", "unlink", "lock", "bcast", "done"}]]
  /\ found \in [Request -> [Peer -> {"none", "start", "add", "join"}]]
  /\ cursor \in [Request -> Nat \ {0}]
  /\ entering \in [Peer -> {"unknown", "asked", "told", "known"}]
  /\ crashes \in 0..MaxCrashes

(* Nothing is under way: every request sent is finished at its home, no      *)
(* thread of a peer in service has work left, and nobody is entering.        *)
Settled ==
  /\ \A r \in Request : req[r].op # "none" => pc[r][req[r].home] = "done"
  /\ \A r \in Request, p \in Peer : Up(p) => pc[r][p] \in {"none", "done"}
  /\ \A p \in Peer : status[p] # "joining" /\ (Up(p) => entering[p] # "told")

(* What a client can learn from peer p: its photos and their keywords.       *)
Shown(p) == {[id |-> e.id, keyword |-> ToSet(e.keyword)] : e \in ToSet(photo_list[p])}

(* The replicas agree.  Once nothing is under way, any two peers in service  *)
(* show the same photos with the same keywords, and each has a file for      *)
(* exactly the photos it lists, whatever the requests, their homes, the      *)
(* order in which the handlers ran, and the peers that were killed after     *)
(* they had finished their own requests (peer.c: add_photo, add_keyword,     *)
(* delete_photo "from the system").                                          *)
Convergence ==
  Settled => \A p, q \in Peer : Up(p) /\ Up(q) =>
    Shown(p) = Shown(q) /\ files[p] = Ids(photo_list[p])

(* No peer lists a photo twice: an id names one photo (gateway.c: "unique    *)
(* photo id").                                                               *)
NoDuplicatePhoto ==
  \A p \in Peer : \A i, j \in DOMAIN photo_list[p] :
    photo_list[p][i].id = photo_list[p][j].id => i = j

(* At most one walk of a peer's ring is under way, and its cursor is inside  *)
(* the ring or just behind its end, although the ring shrinks under it and   *)
(* grows between walks.                                                      *)
OneWalk ==
  \A r \in Request, p \in Peer : (Up(p) /\ pc[r][p] = "bcast") =>
    /\ peer_lock[p] = r /\ p = req[r].home
    /\ cursor[r] <= Len(peer_list[p]) + 1

(* When a walk is over, every peer in service that its home still has in its *)
(* ring has been told, although peers that refused were cut out of the ring  *)
(* under the cursor (peer.c: broadcastPeersAndNotify).                       *)
ToldAll ==
  [][ \A r \in Request, p \in Peer :
        (pc[r][p] = "bcast" /\ pc'[r][p] = "done") =>
          \A q \in ToSet(peer_list[p]) : Up(q) => pc[r][q] # "none" ]_vars

(* A peer dies of its own races only when there was a race: it writes a      *)
(* keyword into a node that was freed only if a request has deleted that     *)
(* photo there, and behind the end of the array only if another keyword was  *)
(* written after this one had been checked (peer.c: add_keyword, between the *)
(* unlock and the second lock).                                              *)
FaultNeedsRace ==
  [][ \A r \in Request, p \in Peer :
        KeywordPut(r, p) /\ status'[p] \in {"freed", "overrun"} =>
          \E s \in Request \ {r} :
            /\ req[s].photo = req[r].photo
            /\ req[s].op = IF status'[p] = "freed" THEN "delete" ELSE "keyword"
            /\ pc[s][p] \notin {"none", "remove", "find", "put"} ]_vars

(* A joiner that is in service has every photo the gallery had when it       *)
(* started, with its file, whatever is added while it enters, provided the   *)
(* member that sends the photos has not failed (peer.c: "asks to one of them  *)
(* for the photos already in the system").                                   *)
JoinerHasOld ==
  \A p \in Peer : (p = Joiner /\ Up(p) /\ Up(First)) =>
    /\ 1..Preloaded \subseteq Ids(photo_list[p])
    /\ Ids(photo_list[p]) \ files[p] \subseteq
         {req[r].photo : r \in {r \in Request : pc[r][p] = "store"}}

(* Every request that a client sends is finished by its home, unless the     *)
(* home fails: no walk waits for ever for a peer or for another walk.        *)
RequestsEnd ==
  \A r \in Request, p \in Peer :
    (req[r].home = p) ~> (pc[r][p] = "done" \/ ~Up(p))

(* A joiner that has been let in gets into service, or ends.                 *)
JoinerEnters == Joiner # NoPeer =>
  (status[Joiner] = "joining" ~> status[Joiner] # "joining")
-----------------------------------------------------------------------------
(* The abstract gallery.  A request is told at a peer while its thread has   *)
(* not had its effect on the photo list yet, and done from then on.          *)
Stage(s) == CASE s = "none" -> "none"
              [] s \in {"insert", "find", "put", "remove"} -> "told"
              [] OTHER -> "done"

Abstract == INSTANCE Gallery WITH
  PhotoId <- 1..(Preloaded + Cardinality(Request)),
  Initial <- {[id |-> i, keyword |-> {}] : i \in 1..Preloaded},
  issued  <- req,
  stage   <- [r \in Request |-> [p \in Peer |-> Stage(pc[r][p])]],
  shown   <- [p \in Peer |-> Shown(p)]

(* Without a joiner, the peers implement the gallery: whatever the threads   *)
(* of a peer interleave and whoever is killed, each request takes effect at  *)
(* once, at most once, at its home first, and nothing else changes what a    *)
(* peer shows (peer.c: add_photo, add_keyword, delete_photo).                *)
ImplementsGallery == Abstract!Spec
=============================================================================
