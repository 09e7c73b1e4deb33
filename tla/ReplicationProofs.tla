-------------------------- MODULE ReplicationProofs -------------------------
(***************************************************************************)
(* What holds of Replication for any peers, rings, photos and requests,    *)
(* and any number of peers that are killed.                                *)
(*                                                                         *)
(*   walks      WalkInv: the walk of a ring holds its lock, is inside it,  *)
(*              and has told everybody it has left behind                  *)
(*   types      TypeInv: the types, and the stages a request can be at     *)
(*   telling    OnceInv: a request is told to a peer at most once          *)
(*   order      Forward: the threads only go forward                       *)
(*   lists      ListInv: a photo enters a list at most once                *)
(*   races      RaceInv: what a keyword may meet between check and write   *)
(*   the joiner OldInv: photos of the start stay where nothing is deleted  *)
(*   spreading  SpreadInv, ConvInv: what a peer lists is what the requests *)
(*              that reached it have made of the photos of the start       *)
(*   the gallery MapInv: every step is one of Gallery, or none             *)
(*                                                                         *)
(* Each invariant is inductive with those before it.                       *)
(***************************************************************************)
EXTENDS Replication, RingProofs, FiniteSetTheorems

Stages == {"none", "insert", "store", "find", "put", "remove", "unlink", "lock",
           "bcast", "done"}

(* The types of the variables a walk uses.                                   *)
WalkTypes ==
  /\ pc \in [Request -> [Peer -> Stages]]
  /\ peer_list \in [Peer -> Seq(Peer)]
  /\ peer_lock \in [Peer -> Request \cup {NoRequest}]
  /\ cursor \in [Request -> Nat \ {0}]
  /\ DOMAIN req = Request

(* A thread belongs to a request that was sent, and only the home walks.     *)
Threads ==
  \A r \in Request, p \in Peer :
    /\ pc[r][p] # "none" => req[r].op \in {"add", "keyword", "delete"}
    /\ pc[r][p] \in {"lock", "bcast"} => p = req[r].home

(* A message of a joiner is on its way only if there is one.                 *)
Joins == \A q \in Peer : entering[q] = "told" => Joiner # NoPeer

(* A walk holds the lock of its ring, is inside it or just behind its end,   *)
(* and has told everybody it has left behind.                                *)
Walk(r, p) ==
  /\ peer_lock[p] = r
  /\ cursor[r] <= Len(peer_list[p]) + 1
  /\ \A i \in 1..Len(peer_list[p]) :
       i < cursor[r] => pc[r][peer_list[p][i]] # "none"

Walks == \A r \in Request, p \in Peer : pc[r][p] = "bcast" => Walk(r, p)

WalkInv == WalkTypes /\ Threads /\ Joins /\ Walks
-----------------------------------------------------------------------------
(* What the assumptions say of the constants.                                *)
LEMMA ConstantTypes ==
  /\ NoRequest \notin Request
  /\ Members \in Seq(Peer) /\ First \in Peer
  /\ Joiner # NoPeer => Joiner \in Peer
<1>1. First \in Peer
  BY ReplicationAssumption, EmptySeq, ElementOfSeq DEF First
<1> QED
  BY <1>1, ReplicationAssumption

(* The ring without the key that stands where the cursor is: what is before  *)
(* the cursor afterwards was before it.                                      *)
LEMMA DropBehind ==
  ASSUME NEW S, NEW l \in Seq(S), NEW c \in 1..Len(l)
  PROVE  /\ ring_remove(l, l[c]) \in Seq(S)
         /\ Len(ring_remove(l, l[c])) = Len(l) - 1
         /\ \A i \in 1..(Len(l) - 1) :
              i < c => ring_remove(l, l[c])[i] \in {l[h] : h \in 1..(c - 1)}
<1>1. PICK j \in 1..Len(l) :
        /\ l[j] = l[c] /\ \A i \in 1..Len(l) : i < j => l[i] # l[c]
        /\ ring_remove(l, l[c]) \in Seq(S)
        /\ Len(ring_remove(l, l[c])) = Len(l) - 1
        /\ \A i \in 1..(Len(l) - 1) :
             ring_remove(l, l[c])[i] = IF i < j THEN l[i] ELSE l[i + 1]
  BY RingRemoveKey
<1>2. Len(l) \in Nat /\ j <= c
  BY <1>1, LenProperties
<1>3. ASSUME NEW i \in 1..(Len(l) - 1), i < c
      PROVE  ring_remove(l, l[c])[i] \in {l[h] : h \in 1..(c - 1)}
  <2>1. CASE i < j
    BY <1>1, <1>2, <1>3, <2>1
  <2>2. CASE ~(i < j) /\ i + 1 < c
    <3>1. i + 1 \in 1..Len(l) /\ ring_remove(l, l[c])[i] = l[i + 1]
      BY <1>1, <1>2, <2>2
    <3> QED
      BY <2>2, <3>1
  <2>3. CASE ~(i < j) /\ i + 1 = c
    <3>1. j < c /\ ring_remove(l, l[c])[i] = l[j]
      BY <1>1, <1>2, <2>3
    <3> QED
      BY <3>1
  <2> QED
    BY <1>2, <1>3, <2>1, <2>2, <2>3
<1> QED
  BY <1>1, <1>3

(* The places of a ring hold peers.                                          *)
LEMMA RingPeers ==
  ASSUME WalkTypes
  PROVE  \A p \in Peer : /\ Len(peer_list[p]) \in Nat
                         /\ \A i \in 1..Len(peer_list[p]) : peer_list[p][i] \in Peer
BY LenProperties, ElementOfSeq DEF WalkTypes

LEMMA WalkInit == Init => WalkInv
<1> SUFFICES ASSUME Init PROVE WalkInv
  OBVIOUS
<1>1. \A p \in Peer : RingOf(p) \in Seq(Peer)
  BY ConstantTypes, RingRemoveType DEF RingOf
<1>2. WalkTypes
  BY <1>1 DEF Init, WalkTypes, Stages
<1>3. Threads /\ Joins /\ Walks
  BY DEF Init, Threads, Joins, Walks
<1> QED
  BY <1>2, <1>3 DEF WalkInv

(* A walk goes on while no thread of its request goes back to "none" and     *)
(* ring, lock and cursor stay as they are.                                   *)
LEMMA WalkStays ==
  ASSUME WalkTypes, NEW r \in Request, NEW p \in Peer, Walk(r, p),
         peer_list'[p] = peer_list[p], peer_lock'[p] = peer_lock[p],
         cursor'[r] = cursor[r],
         \A q \in Peer : pc[r][q] # "none" => pc'[r][q] # "none"
  PROVE  Walk(r, p)'
BY RingPeers DEF Walk

(* A thread moves, and its move does not begin a walk.                       *)
LEMMA MoveKeeps ==
  ASSUME WalkInv, NEW r \in Request, NEW p \in Peer, NEW s \in Stages,
         s \notin {"none", "bcast"}, s = "lock" => p = req[r].home,
         pc[r][p] # "none", Goto(r, p, s),
         UNCHANGED <<peer_list, peer_lock, cursor, req, entering>>
  PROVE  WalkInv'
<1>1. WalkTypes /\ Threads /\ Joins /\ Walks
  BY DEF WalkInv
<1>2. pc' = [pc EXCEPT ![r][p] = s]
  BY DEF Goto
<1>3. /\ pc' \in [Request -> [Peer -> Stages]] /\ pc'[r][p] = s
      /\ \A t \in Request, q \in Peer : t # r \/ q # p => pc'[t][q] = pc[t][q]
  BY <1>1, <1>2 DEF WalkTypes
<1>4. WalkTypes' /\ Joins'
  BY <1>1, <1>3 DEF WalkTypes, Joins
<1>5. Threads'
  BY <1>1, <1>3 DEF Threads
<1>6. Walks'
  <2>1. SUFFICES ASSUME NEW t \in Request, NEW q \in Peer, pc'[t][q] = "bcast"
                 PROVE  Walk(t, q)'
    BY DEF Walks
  <2>2. Walk(t, q)
    BY <1>1, <1>3, <2>1 DEF Walks
  <2>3. \A m \in Peer : pc[t][m] # "none" => pc'[t][m] # "none"
    BY <1>3
  <2> QED
    BY <1>1, <2>2, <2>3, WalkStays
<1> QED
  BY <1>4, <1>5, <1>6 DEF WalkInv

(* A step that leaves threads, rings and requests alone.                     *)
LEMMA OthersKeep ==
  ASSUME WalkInv, UNCHANGED <<peer_list, peer_lock, cursor, req, pc>>,
         Joiner # NoPeer \/ UNCHANGED entering
  PROVE  WalkInv'
BY DEF WalkInv, WalkTypes, Threads, Joins, Walks, Walk

(* What a handler does after the local effect is no walk yet.                *)
LEMMA AfterStage ==
  ASSUME NEW r \in Request, NEW p \in Peer
  PROVE  /\ After(r, p) \in Stages /\ After(r, p) \notin {"none", "bcast"}
         /\ After(r, p) = "lock" => p = req[r].home
BY DEF After, Stages

(* A client's request: its threads come into being.                          *)
LEMMA IssueKeeps ==
  ASSUME WalkInv, NEW r \in Request, NEW p \in Peer, Issue(r, p)
  PROVE  WalkInv'
<1>1. WalkTypes /\ Threads /\ Joins /\ Walks
  BY DEF WalkInv
<1>2. /\ req[r].op = "none"
      /\ UNCHANGED <<peer_list, peer_lock, cursor, entering>>
      /\ pc' = [pc EXCEPT ![r][p] = Start(req'[r].op)]
  BY DEF Issue, Goto, ring, members
<1>3. /\ req'[r].op \in {"add", "keyword", "delete"} /\ req'[r].home = p
      /\ \A t \in Request : t # r => req'[t] = req[t]
      /\ DOMAIN req' = Request
  <2>1. PICK order : /\ req' = [req EXCEPT ![r] = order]
                     /\ order.op \in {"add", "keyword", "delete"} /\ order.home = p
    <3>1. CASE req' = [req EXCEPT ![r] = [op |-> "add", photo |-> photo_id + 1,
                                          keyword |-> "", home |-> p]]
      <4> DEFINE add == [op |-> "add", photo |-> photo_id + 1, keyword |-> "", home |-> p]
      <4>1. add.op = "add" /\ add.home = p
        OBVIOUS
      <4>2. req' = [req EXCEPT ![r] = add]
        BY <3>1
      <4> HIDE DEF add
      <4> QED
        BY <4>1, <4>2
    <3>2. CASE \E o \in Op \cap {"keyword", "delete"}, id \in Target \cap 1..photo_id,
                  k \in Keyword :
                 req' = [req EXCEPT ![r] =
                   [op |-> o, photo |-> id,
                    keyword |-> IF o = "keyword" THEN k ELSE "", home |-> p]]
      <4>1. PICK o \in {"keyword", "delete"}, id \in Nat, k \in Keyword :
              req' = [req EXCEPT ![r] =
                [op |-> o, photo |-> id,
                 keyword |-> IF o = "keyword" THEN k ELSE "", home |-> p]]
        BY <3>2, ReplicationAssumption
      <4> DEFINE edit == [op |-> o, photo |-> id,
                          keyword |-> IF o = "keyword" THEN k ELSE "", home |-> p]
      <4>2. edit.op \in {"keyword", "delete"} /\ edit.home = p
        OBVIOUS
      <4>3. req' = [req EXCEPT ![r] = edit]
        BY <4>1
      <4> HIDE DEF edit
      <4> QED
        BY <4>2, <4>3
    <3> QED
      BY <3>1, <3>2 DEF Issue
  <2> QED
    BY <1>1, <2>1 DEF WalkTypes
<1>4. /\ Start(req'[r].op) \in Stages
      /\ Start(req'[r].op) \notin {"none", "lock", "bcast"}
  BY <1>3 DEF Start, Stages
<1>5. /\ pc' \in [Request -> [Peer -> Stages]] /\ pc'[r][p] = Start(req'[r].op)
      /\ \A t \in Request, q \in Peer : t # r \/ q # p => pc'[t][q] = pc[t][q]
  BY <1>1, <1>2, <1>4 DEF WalkTypes
<1>6. \A q \in Peer : pc[r][q] = "none"
  BY <1>1, <1>2 DEF Threads
<1>7. WalkTypes' /\ Joins'
  BY <1>1, <1>2, <1>3, <1>5 DEF WalkTypes, Joins
<1>8. Threads'
  <2>1. SUFFICES ASSUME NEW t \in Request, NEW q \in Peer
                 PROVE  /\ pc'[t][q] # "none" => req'[t].op \in {"add", "keyword", "delete"}
                        /\ pc'[t][q] \in {"lock", "bcast"} => q = req'[t].home
    BY DEF Threads
  <2>2. CASE t # r
    BY <1>1, <1>3, <1>5, <2>2 DEF Threads
  <2>3. CASE t = r
    BY <1>3, <1>4, <1>5, <1>6, <2>3
  <2> QED
    BY <2>2, <2>3
<1>9. Walks'
  <2>1. SUFFICES ASSUME NEW t \in Request, NEW q \in Peer, pc'[t][q] = "bcast"
                 PROVE  Walk(t, q)'
    BY DEF Walks
  <2>2. t # r /\ pc[t][q] = "bcast"
    BY <1>4, <1>5, <1>6, <2>1
  <2>3. \A m \in Peer : pc[t][m] # "none" => pc'[t][m] # "none"
    BY <1>5, <2>2
  <2> QED
    BY <1>1, <1>2, <2>2, <2>3, WalkStays DEF Walks
<1> QED
  BY <1>7, <1>8, <1>9 DEF WalkInv

(* The handlers of the three kinds of request.                               *)
LEMMA HandlerKeeps ==
  ASSUME WalkInv, NEW r \in Request, NEW p \in Peer,
         \/ AddInsert(r, p) \/ AddStore(r, p)
         \/ KeywordFind(r, p) \/ KeywordPut(r, p)
         \/ DeleteRemove(r, p) \/ DeleteUnlink(r, p)
  PROVE  WalkInv'
<1>1. CASE AddInsert(r, p)
  <2>1. /\ pc[r][p] # "none" /\ Goto(r, p, "store")
        /\ UNCHANGED <<peer_list, peer_lock, cursor, req, entering>>
    BY <1>1 DEF AddInsert, ring, clients, members
  <2> QED
    BY <2>1, MoveKeeps DEF Stages
<1>2. CASE AddStore(r, p)
  <2>1. /\ pc[r][p] # "none" /\ Goto(r, p, After(r, p))
        /\ UNCHANGED <<peer_list, peer_lock, cursor, req, entering>>
    BY <1>2 DEF AddStore, ring, clients, members
  <2> QED
    BY <2>1, AfterStage, MoveKeeps
<1>3. CASE KeywordFind(r, p)
  <2>1. /\ pc[r][p] # "none" /\ (Goto(r, p, "put") \/ Goto(r, p, "done"))
        /\ UNCHANGED <<peer_list, peer_lock, cursor, req, entering>>
    BY <1>3 DEF KeywordFind, ring, clients, members
  <2>2. CASE Goto(r, p, "put")
    BY <2>1, <2>2, MoveKeeps DEF Stages
  <2>3. CASE Goto(r, p, "done")
    BY <2>1, <2>3, MoveKeeps DEF Stages
  <2> QED
    BY <2>1, <2>2, <2>3
<1>4. CASE KeywordPut(r, p)
  <2>1. /\ pc[r][p] # "none" /\ (Goto(r, p, After(r, p)) \/ UNCHANGED pc)
        /\ UNCHANGED <<peer_list, peer_lock, cursor, req, entering>>
    BY <1>4 DEF KeywordPut, ring, clients
  <2>2. CASE Goto(r, p, After(r, p))
    BY <2>1, <2>2, AfterStage, MoveKeeps
  <2>3. CASE UNCHANGED pc
    BY <2>1, <2>3, OthersKeep
  <2> QED
    BY <2>1, <2>2, <2>3
<1>5. CASE DeleteRemove(r, p)
  <2>1. /\ pc[r][p] # "none" /\ (Goto(r, p, "unlink") \/ Goto(r, p, "done"))
        /\ UNCHANGED <<peer_list, peer_lock, cursor, req, entering>>
    BY <1>5 DEF DeleteRemove, ring, clients, members
  <2>2. CASE Goto(r, p, "unlink")
    BY <2>1, <2>2, MoveKeeps DEF Stages
  <2>3. CASE Goto(r, p, "done")
    BY <2>1, <2>3, MoveKeeps DEF Stages
  <2> QED
    BY <2>1, <2>2, <2>3
<1>6. CASE DeleteUnlink(r, p)
  <2>1. /\ pc[r][p] # "none" /\ Goto(r, p, After(r, p))
        /\ UNCHANGED <<peer_list, peer_lock, cursor, req, entering>>
    BY <1>6 DEF DeleteUnlink, ring, clients, members
  <2> QED
    BY <2>1, AfterStage, MoveKeeps
<1> QED
  BY <1>1, <1>2, <1>3, <1>4, <1>5, <1>6
-----------------------------------------------------------------------------
(* A walk begins: nobody else can be walking this ring, and nobody has been  *)
(* left behind.                                                              *)
LEMMA LockKeeps ==
  ASSUME WalkInv, NEW r \in Request, NEW p \in Peer, BcastLock(r, p)
  PROVE  WalkInv'
<1>1. WalkTypes /\ Threads /\ Joins /\ Walks
  BY DEF WalkInv
<1>2. /\ pc[r][p] = "lock" /\ peer_lock[p] = NoRequest
      /\ peer_lock' = [peer_lock EXCEPT ![p] = r]
      /\ cursor' = [cursor EXCEPT ![r] = 1]
      /\ pc' = [pc EXCEPT ![r][p] = "bcast"]
      /\ UNCHANGED <<peer_list, req, entering>>
  BY DEF BcastLock, Goto, clients, members
<1>3. /\ pc' \in [Request -> [Peer -> Stages]] /\ pc'[r][p] = "bcast"
      /\ \A t \in Request, q \in Peer : t # r \/ q # p => pc'[t][q] = pc[t][q]
  BY <1>1, <1>2 DEF WalkTypes, Stages
<1>4. WalkTypes' /\ Joins'
  BY <1>1, <1>2, <1>3 DEF WalkTypes, Joins
<1>5. Threads'
  BY <1>1, <1>2, <1>3 DEF Threads
<1>6. Walks'
  <2>1. SUFFICES ASSUME NEW t \in Request, NEW q \in Peer, pc'[t][q] = "bcast"
                 PROVE  Walk(t, q)'
    BY DEF Walks
  <2>2. CASE t = r /\ q = p
    <3>1. peer_lock'[p] = r /\ cursor'[r] = 1 /\ Len(peer_list[p]) \in Nat
      BY <1>1, <1>2, RingPeers DEF WalkTypes
    <3> QED
      BY <1>2, <2>2, <3>1 DEF Walk
  <2>3. CASE t # r \/ q # p
    <3>1. pc[t][q] = "bcast" /\ Walk(t, q)
      BY <1>1, <1>3, <2>1, <2>3 DEF Walks
    <3>2. q # p
      BY <1>2, <3>1, ConstantTypes DEF Walk
    <3>3. t # r
      BY <1>1, <1>2, <3>1, <3>2 DEF Threads
    <3>4. peer_lock'[q] = peer_lock[q] /\ cursor'[t] = cursor[t]
      BY <1>1, <1>2, <3>2, <3>3 DEF WalkTypes
    <3> QED
      BY <1>1, <1>2, <1>3, <3>1, <3>3, <3>4, WalkStays
  <2> QED
    BY <2>2, <2>3
<1> QED
  BY <1>4, <1>5, <1>6 DEF WalkInv

(* A peer is told, and the cursor leaves it behind.                          *)
LEMMA SendKeeps ==
  ASSUME WalkInv, NEW r \in Request, NEW p \in Peer, BcastSend(r, p)
  PROVE  WalkInv'
<1>1. WalkTypes /\ Threads /\ Joins /\ Walks
  BY DEF WalkInv
<1> DEFINE q == peer_list[p][cursor[r]]
<1>2. /\ pc[r][p] = "bcast" /\ cursor[r] <= Len(peer_list[p])
      /\ UNCHANGED <<peer_list, peer_lock, req, entering>>
      /\ \/ UNCHANGED <<pc, cursor>>
         \/ /\ pc' = [pc EXCEPT ![r][q] = Start(req[r].op)]
            /\ cursor' = [cursor EXCEPT ![r] = @ + 1]
  BY DEF BcastSend, Tell, Goto, clients
<1>3. /\ cursor[r] \in Nat \ {0} /\ Len(peer_list[p]) \in Nat
      /\ cursor[r] \in 1..Len(peer_list[p]) /\ q \in Peer
  <2>1. cursor[r] \in Nat \ {0} /\ Len(peer_list[p]) \in Nat
    BY <1>1, RingPeers DEF WalkTypes
  <2>2. cursor[r] \in 1..Len(peer_list[p])
    BY <1>2, <2>1
  <2> QED
    BY <1>1, <2>1, <2>2, RingPeers
<1> HIDE DEF q
<1>4. CASE UNCHANGED <<pc, cursor>>
  BY <1>2, <1>4, OthersKeep
<1>5. CASE /\ pc' = [pc EXCEPT ![r][q] = Start(req[r].op)]
           /\ cursor' = [cursor EXCEPT ![r] = @ + 1]
  <2>1. /\ Start(req[r].op) \in Stages
        /\ Start(req[r].op) \notin {"none", "lock", "bcast"}
    <3>1. req[r].op \in {"add", "keyword", "delete"}
      BY <1>1, <1>2 DEF Threads
    <3> QED
      BY <3>1 DEF Start, Stages
  <2>2. /\ pc' \in [Request -> [Peer -> Stages]] /\ pc'[r][q] = Start(req[r].op)
        /\ \A t \in Request, m \in Peer : t # r \/ m # q => pc'[t][m] = pc[t][m]
    BY <1>1, <1>3, <1>5, <2>1 DEF WalkTypes
  <2>3. WalkTypes' /\ Joins'
    BY <1>1, <1>2, <1>5, <2>2 DEF WalkTypes, Joins
  <2>4. Threads'
    BY <1>1, <1>2, <2>1, <2>2 DEF Threads
  <2>5. Walks'
    <3>1. SUFFICES ASSUME NEW t \in Request, NEW m \in Peer, pc'[t][m] = "bcast"
                   PROVE  Walk(t, m)'
      BY DEF Walks
    <3>2. pc[t][m] = "bcast" /\ Walk(t, m)
      BY <1>1, <2>1, <2>2, <3>1 DEF Walks
    <3>3. \A k \in Peer : pc[t][k] # "none" => pc'[t][k] # "none"
      BY <2>1, <2>2
    <3>4. CASE t # r
      <4>1. cursor'[t] = cursor[t]
        BY <1>1, <1>5, <3>4 DEF WalkTypes
      <4> QED
        BY <1>1, <1>2, <3>2, <3>3, <4>1, WalkStays
    <3>5. CASE t = r
      <4>1. m = p
        BY <1>1, <1>2, <3>2, <3>5 DEF Threads
      <4>2. cursor'[r] = cursor[r] + 1
        BY <1>1, <1>5 DEF WalkTypes
      <4>3. ASSUME NEW i \in 1..Len(peer_list[p]), i < cursor[r] + 1
            PROVE  pc'[r][peer_list[p][i]] # "none"
        <5>1. CASE i = cursor[r]
          BY <2>1, <2>2, <5>1 DEF q
        <5>2. CASE i # cursor[r]
          <6>1. i < cursor[r] /\ peer_list[p][i] \in Peer
            BY <1>1, <1>3, <4>3, <5>2, RingPeers
          <6> QED
            BY <3>2, <3>3, <3>5, <4>1, <6>1 DEF Walk
        <5> QED
          BY <5>1, <5>2
      <4> QED
        BY <1>2, <1>3, <3>2, <3>5, <4>1, <4>2, <4>3 DEF Walk
    <3> QED
      BY <3>4, <3>5
  <2> QED
    BY <2>3, <2>4, <2>5 DEF WalkInv
<1> QED
  BY <1>2, <1>4, <1>5 DEF q

(* A peer that refuses is cut out: nobody who was not told comes to stand    *)
(* before the cursor.                                                        *)
LEMMA DropKeeps ==
  ASSUME WalkInv, NEW r \in Request, NEW p \in Peer, BcastDrop(r, p)
  PROVE  WalkInv'
<1>1. WalkTypes /\ Threads /\ Joins /\ Walks
  BY DEF WalkInv
<1> DEFINE l == peer_list[p]
           c == cursor[r]
<1>2. /\ pc[r][p] = "bcast" /\ c <= Len(l)
      /\ peer_list' = [peer_list EXCEPT ![p] = ring_remove(l, l[c])]
      /\ UNCHANGED <<peer_lock, cursor, req, entering, pc>>
  BY DEF BcastDrop, Drop, Tell, clients, members
<1>3. l \in Seq(Peer) /\ Len(l) \in Nat /\ c \in Nat \ {0} /\ Walk(r, p)
  BY <1>1, <1>2, RingPeers DEF WalkTypes, Walks
<1>4. c \in 1..Len(l)
  BY <1>2, <1>3
<1>5. /\ ring_remove(l, l[c]) \in Seq(Peer)
      /\ Len(ring_remove(l, l[c])) = Len(l) - 1
      /\ \A i \in 1..(Len(l) - 1) :
           i < c => ring_remove(l, l[c])[i] \in {l[h] : h \in 1..(c - 1)}
  <2> HIDE DEF l, c
  <2> QED
    BY <1>3, <1>4, DropBehind
<1>6. /\ peer_list' \in [Peer -> Seq(Peer)]
      /\ peer_list'[p] = ring_remove(l, l[c])
      /\ \A m \in Peer : m # p => peer_list'[m] = peer_list[m]
  BY <1>1, <1>2, <1>5 DEF WalkTypes
<1>7. WalkTypes' /\ Joins' /\ Threads'
  BY <1>1, <1>2, <1>6 DEF WalkTypes, Joins, Threads
<1>8. Walks'
  <2>1. SUFFICES ASSUME NEW t \in Request, NEW m \in Peer, pc[t][m] = "bcast"
                 PROVE  Walk(t, m)'
    BY <1>2 DEF Walks
  <2>2. Walk(t, m)
    BY <1>1, <2>1 DEF Walks
  <2>3. CASE m # p
    BY <1>1, <1>2, <1>6, <2>2, <2>3, WalkStays
  <2>4. CASE m = p
    <3>1. t = r
      BY <1>3, <2>2, <2>4 DEF Walk
    <3>2. \A i \in 1..Len(l) : i < c => pc[r][l[i]] # "none"
      BY <1>3 DEF Walk
    <3> HIDE DEF l, c
    <3>3. \A i \in 1..(Len(l) - 1) : i < c => pc[r][ring_remove(l, l[c])[i]] # "none"
      <4>1. \A k \in {l[h] : h \in 1..(c - 1)} : pc[r][k] # "none"
        <5>1. \A h \in 1..(c - 1) : h \in 1..Len(l) /\ h < c
          BY <1>3, <1>4
        <5> QED
          BY <3>2, <5>1
      <4> QED
        BY <1>5, <4>1
    <3>4. c <= Len(l) - 1 + 1
      BY <1>3, <1>4
    <3>5. /\ cursor'[r] = c /\ peer_list'[p] = ring_remove(l, l[c])
          /\ peer_lock'[p] = r /\ pc' = pc
      BY <1>2, <1>3, <1>6 DEF c, Walk
    <3> QED
      BY <1>5, <2>4, <3>1, <3>3, <3>4, <3>5 DEF Walk
  <2> QED
    BY <2>3, <2>4
<1> QED
  BY <1>7, <1>8 DEF WalkInv

(* A walk ends and gives the ring back.                                      *)
LEMMA EndKeeps ==
  ASSUME WalkInv, NEW r \in Request, NEW p \in Peer, BcastEnd(r, p)
  PROVE  WalkInv'
<1>1. WalkTypes /\ Threads /\ Joins /\ Walks
  BY DEF WalkInv
<1>2. /\ pc[r][p] = "bcast"
      /\ peer_lock' = [peer_lock EXCEPT ![p] = NoRequest]
      /\ pc' = [pc EXCEPT ![r][p] = "done"]
      /\ UNCHANGED <<peer_list, cursor, req, entering>>
  BY DEF BcastEnd, Goto, clients, members
<1>3. /\ pc' \in [Request -> [Peer -> Stages]] /\ pc'[r][p] = "done"
      /\ \A t \in Request, q \in Peer : t # r \/ q # p => pc'[t][q] = pc[t][q]
  BY <1>1, <1>2 DEF WalkTypes, Stages
<1>4. WalkTypes' /\ Joins'
  BY <1>1, <1>2, <1>3 DEF WalkTypes, Joins
<1>5. Threads'
  BY <1>1, <1>2, <1>3 DEF Threads
<1>6. Walks'
  <2>1. SUFFICES ASSUME NEW t \in Request, NEW q \in Peer, pc'[t][q] = "bcast"
                 PROVE  Walk(t, q)'
    BY DEF Walks
  <2>2. pc[t][q] = "bcast" /\ Walk(t, q) /\ Walk(r, p) /\ (t # r \/ q # p)
    BY <1>1, <1>2, <1>3, <2>1 DEF Walks
  <2>3. q # p
    BY <2>2 DEF Walk
  <2>4. peer_lock'[q] = peer_lock[q]
    BY <1>1, <1>2, <2>3 DEF WalkTypes
  <2> QED
    BY <1>1, <1>2, <1>3, <2>2, <2>4, WalkStays
<1> QED
  BY <1>4, <1>5, <1>6 DEF WalkInv

(* A joiner is registered in a ring that nobody walks.                       *)
LEMMA RegisterKeeps ==
  ASSUME WalkInv, NEW q \in Peer, Register(q), Joiner # NoPeer,
         UNCHANGED <<peer_lock, cursor, req, pc>>
  PROVE  WalkInv'
<1>1. WalkTypes /\ Threads /\ Joins /\ Walks
  BY DEF WalkInv
<1>2. /\ peer_lock[q] = NoRequest
      /\ peer_list' = [peer_list EXCEPT ![q] = ring_append(@, Joiner)]
  BY DEF Register
<1>3. ring_append(peer_list[q], Joiner) \in Seq(Peer)
  BY <1>1, ConstantTypes, AppendProperties DEF WalkTypes, ring_append
<1>4. WalkTypes' /\ Joins' /\ Threads'
  BY <1>1, <1>2, <1>3 DEF WalkTypes, Joins, Threads
<1>5. Walks'
  <2>1. SUFFICES ASSUME NEW t \in Request, NEW m \in Peer, pc[t][m] = "bcast"
                 PROVE  Walk(t, m)'
    BY DEF Walks
  <2>2. Walk(t, m)
    BY <1>1, <2>1 DEF Walks
  <2>3. m # q
    BY <1>2, <2>2, ConstantTypes DEF Walk
  <2>4. peer_list'[m] = peer_list[m]
    BY <1>1, <1>2, <2>3 DEF WalkTypes
  <2> QED
    BY <1>1, <2>2, <2>4, WalkStays
<1> QED
  BY <1>4, <1>5 DEF WalkInv

(* The joiner's steps.                                                       *)
LEMMA JoinKeeps ==
  ASSUME WalkInv, Join
  PROVE  WalkInv'
<1>1. CASE JoinAsk
  <2>1. CASE Up(First)
    <3>1. /\ Joiner # NoPeer /\ Register(First)
          /\ UNCHANGED <<peer_lock, cursor, req, pc>>
      BY <1>1, <2>1 DEF JoinAsk, clients
    <3> QED
      BY <3>1, ConstantTypes, RegisterKeeps
  <2>2. CASE ~Up(First)
    <3>1. UNCHANGED <<peer_list, peer_lock, cursor, req, pc, entering>>
      BY <1>1, <2>2 DEF JoinAsk, clients
    <3> QED
      BY <3>1, OthersKeep
  <2> QED
    BY <2>1, <2>2
<1>2. CASE JoinPhotos \/ JoinNoPhotos \/ JoinTell \/ JoinListen
  <2>1. Joiner # NoPeer /\ UNCHANGED <<peer_list, peer_lock, cursor, req, pc>>
    BY <1>2 DEF JoinPhotos, JoinNoPhotos, JoinTell, JoinListen, ring, clients
  <2> QED
    BY <2>1, OthersKeep
<1> QED
  BY <1>1, <1>2 DEF Join

LEMMA WalkStep == WalkInv /\ [Next]_vars => WalkInv'
<1> SUFFICES ASSUME WalkInv, [Next]_vars PROVE WalkInv'
  OBVIOUS
<1>1. ASSUME NEW r \in Request, NEW p \in Peer, Issue(r, p) \/ Handle(r, p)
      PROVE  WalkInv'
  BY <1>1, IssueKeeps, HandlerKeeps, LockKeeps, SendKeeps, DropKeeps, EndKeeps
     DEF Handle
<1>2. ASSUME NEW q \in Peer, JoinRegister(q) PROVE WalkInv'
  <2>1. /\ Register(q) /\ Joiner # NoPeer
        /\ UNCHANGED <<peer_lock, cursor, req, pc>>
    BY <1>2 DEF JoinRegister, clients, WalkInv, Joins
  <2> QED
    BY <2>1, RegisterKeeps
<1>3. ASSUME NEW q \in Peer, Crash(q) PROVE WalkInv'
  <2>1. UNCHANGED <<peer_list, peer_lock, cursor, req, pc, entering>>
    BY <1>3 DEF Crash, ring, clients
  <2> QED
    BY <2>1, OthersKeep
<1>4. CASE UNCHANGED vars
  <2>1. UNCHANGED <<peer_list, peer_lock, cursor, req, pc, entering>>
    BY <1>4 DEF vars, ring, clients, members
  <2> QED
    BY <2>1, OthersKeep
<1> QED
  BY <1>1, <1>2, <1>3, <1>4, JoinKeeps DEF Next

LEMMA WalkHolds == Spec => []WalkInv
BY WalkInit, WalkStep, PTL DEF Spec
-----------------------------------------------------------------------------
(* At most one walk of a peer's ring is under way, and its cursor stays in   *)
(* the ring, for any number of peers and requests (peer.c:                   *)
(* broadcastPeersAndNotify, register_peer).                                  *)
THEOREM WalkCorrect == Spec => []OneWalk
<1>1. WalkInv => OneWalk
  BY DEF WalkInv, Threads, Walks, Walk, OneWalk
<1> QED
  BY <1>1, WalkHolds, PTL

(* Only the end of its walk takes a home from the walk to "done".            *)
LEMMA DoneByEnd ==
  ASSUME WalkInv, [Next]_vars, NEW r \in Request, NEW p \in Peer,
         pc[r][p] = "bcast", pc'[r][p] = "done"
  PROVE  ~Tell(r, p)
<1>1. WalkTypes /\ Threads
  BY DEF WalkInv
<1>2. pc' # pc
  OBVIOUS
<1>3. ASSUME NEW t \in Request, NEW m \in Peer, Issue(t, m) PROVE FALSE
  <2>1. req[t].op = "none" /\ pc' = [pc EXCEPT ![t][m] = Start(req'[t].op)]
    BY <1>3 DEF Issue, Goto
  <2>2. t # r
    BY <1>1, <2>1 DEF Threads
  <2> QED
    BY <1>1, <2>1, <2>2 DEF WalkTypes
<1>4. ASSUME NEW t \in Request, NEW m \in Peer,
             \/ AddInsert(t, m) \/ AddStore(t, m)
             \/ KeywordFind(t, m) \/ KeywordPut(t, m)
             \/ DeleteRemove(t, m) \/ DeleteUnlink(t, m) \/ BcastLock(t, m)
      PROVE  FALSE
  <2>1. PICK s : pc[t][m] # "bcast" /\ pc' = [pc EXCEPT ![t][m] = s]
    BY <1>2, <1>4 DEF AddInsert, AddStore, KeywordFind, KeywordPut, DeleteRemove,
                      DeleteUnlink, BcastLock, Goto
  <2> QED
    BY <1>1, <2>1 DEF WalkTypes
<1>5. ASSUME NEW t \in Request, NEW m \in Peer, BcastSend(t, m) PROVE FALSE
  <2>1. PICK k : pc[t][m] = "bcast" /\ pc' = [pc EXCEPT ![t][k] = Start(req[t].op)]
    BY <1>2, <1>5 DEF BcastSend, Goto
  <2>2. Start(req[t].op) # "done"
    BY <1>1, <2>1 DEF Threads, Start
  <2> QED
    BY <1>1, <2>1, <2>2 DEF WalkTypes
<1>6. ASSUME NEW t \in Request, NEW m \in Peer, BcastDrop(t, m) PROVE FALSE
  BY <1>2, <1>6 DEF BcastDrop
<1>7. ASSUME NEW t \in Request, NEW m \in Peer, BcastEnd(t, m) PROVE ~Tell(r, p)
  <2>1. ~Tell(t, m) /\ pc' = [pc EXCEPT ![t][m] = "done"]
    BY <1>7 DEF BcastEnd, Goto
  <2>2. t = r /\ m = p
    BY <1>1, <2>1 DEF WalkTypes
  <2> QED
    BY <2>1, <2>2
<1>8. ~Join /\ ~UNCHANGED vars /\ \A q \in Peer : ~JoinRegister(q) /\ ~Crash(q)
  BY <1>2 DEF Join, JoinAsk, JoinPhotos, JoinNoPhotos, JoinTell, JoinListen,
              JoinRegister, Crash, vars
<1> QED
  BY <1>3, <1>4, <1>5, <1>6, <1>7, <1>8 DEF Next, Handle

(* A walk that ends has told every peer its home still has in its ring,      *)
(* however many of them were cut out under the cursor (peer.c:               *)
(* broadcastPeersAndNotify).                                                 *)
THEOREM ToldCorrect == Spec => ToldAll
<1>1. ASSUME WalkInv, [Next]_vars, NEW r \in Request, NEW p \in Peer,
             pc[r][p] = "bcast", pc'[r][p] = "done", NEW q \in ToSet(peer_list[p])
      PROVE  pc[r][q] # "none"
  <2>1. ~Tell(r, p)
    BY <1>1, DoneByEnd
  <2>2. WalkTypes /\ Walk(r, p)
    BY <1>1 DEF WalkInv, Walks
  <2>3. Len(peer_list[p]) \in Nat /\ cursor[r] \in Nat /\ peer_list[p] \in Seq(Peer)
    BY <2>2, RingPeers DEF WalkTypes
  <2>4. PICK i \in 1..Len(peer_list[p]) : peer_list[p][i] = q
    BY <2>3, <1>1 DEF ToSet
  <2>5. i < cursor[r]
    BY <2>1, <2>3 DEF Tell
  <2> QED
    BY <2>2, <2>4, <2>5 DEF Walk
<1>2. WalkInv /\ [Next]_vars =>
        [ \A r \in Request, p \in Peer :
            (pc[r][p] = "bcast" /\ pc'[r][p] = "done") =>
              \A q \in ToSet(peer_list[p]) : Up(q) => pc[r][q] # "none" ]_vars
  BY <1>1
<1> QED
  BY <1>2, WalkHolds, PTL DEF Spec, ToldAll
-----------------------------------------------------------------------------
(* Lists of photos.                                                          *)

(* A node of a photo list.                                                   *)
Photo == [id : Nat, keyword : Seq(Keyword), node : {"start", "add", "join"}]

(* A photo is listed with a keyword.                                         *)
Tagged(l, id, k) == \E i \in 1..Len(l) : l[i].id = id /\ k \in ToSet(l[i].keyword)

(* No photo is listed twice.                                                 *)
Single(l) == \A i, j \in 1..Len(l) : l[i].id = l[j].id => i = j

(* list_insert, on a list of any length.                                     *)
LEMMA InsertList ==
  ASSUME NEW S, NEW l \in Seq(S), NEW e \in S
  PROVE  /\ list_insert(l, e) \in Seq(S)
         /\ Len(list_insert(l, e)) = Len(l) + 1
         /\ list_insert(l, e)[1] = e
         /\ \A i \in 1..Len(l) : list_insert(l, e)[i + 1] = l[i]
<1>1. <<e>> \in Seq(S) /\ Len(<<e>>) = 1 /\ <<e>>[1] = e /\ Len(l) \in Nat
  BY LenProperties
<1>2. /\ <<e>> \o l \in Seq(S)
      /\ Len(<<e>> \o l) = 1 + Len(l)
      /\ \A i \in 1..(1 + Len(l)) :
           (<<e>> \o l)[i] = IF i <= 1 THEN <<e>>[i] ELSE l[i - 1]
  BY <1>1, ConcatProperties
<1>3. list_insert(l, e) = <<e>> \o l
  BY DEF list_insert
<1>4. ASSUME NEW i \in 1..Len(l) PROVE list_insert(l, e)[i + 1] = l[i]
  <2>1. i + 1 \in 1..(1 + Len(l)) /\ ~(i + 1 <= 1) /\ (i + 1) - 1 = i
    BY <1>1
  <2> QED
    BY <1>2, <1>3, <2>1
<1> QED
  BY <1>1, <1>2, <1>3, <1>4

(* The first node of a photo in a list that holds it.                        *)
LEMMA FirstMatch ==
  ASSUME NEW S, NEW l \in Seq(S), NEW id, Holds(l, id)
  PROVE  LET j == SelectInSeq(l, LAMBDA e : e.id = id)
         IN  /\ j \in 1..Len(l) /\ l[j].id = id
             /\ \A i \in 1..Len(l) : i < j => l[i].id # id
<1> DEFINE I == {i \in 1..Len(l) : l[i].id = id}
<1>1. I \in SUBSET Nat /\ I # {}
  BY DEF Holds
<1>2. Min(I) \in I /\ \A y \in I : Min(I) <= y
  BY <1>1, LeastNat
<1>3. SelectInSeq(l, LAMBDA e : e.id = id) = Min(I)
  BY <1>1 DEF SelectInSeq
<1>4. \A i \in 1..Len(l) : i < Min(I) => l[i].id # id
  BY <1>1, <1>2
<1> QED
  BY <1>2, <1>3, <1>4

(* list_search and list_remove stop there.                                   *)
LEMMA SearchList ==
  ASSUME NEW S, NEW l \in Seq(S), NEW id, Holds(l, id)
  PROVE  \E j \in 1..Len(l) : list_search(l, id) = l[j] /\ l[j].id = id
BY FirstMatch DEF list_search

LEMMA RemoveList ==
  ASSUME NEW S, NEW l \in Seq(S), NEW id, Holds(l, id)
  PROVE  \E j \in 1..Len(l) :
           /\ l[j].id = id
           /\ list_remove(l, id) \in Seq(S)
           /\ Len(list_remove(l, id)) = Len(l) - 1
           /\ \A i \in 1..(Len(l) - 1) :
                list_remove(l, id)[i] = IF i < j THEN l[i] ELSE l[i + 1]
<1> DEFINE j == SelectInSeq(l, LAMBDA e : e.id = id)
<1>1. /\ j \in 1..Len(l) /\ l[j].id = id
      /\ \A i \in 1..Len(l) : i < j => l[i].id # id
  BY FirstMatch
<1>2. list_remove(l, id) = RemoveAt(l, j)
  BY DEF list_remove, RemoveFirstMatch, Holds
<1> HIDE DEF j
<1> QED
  BY <1>1, <1>2, RemoveAtProperties

LEMMA RemoveNone ==
  ASSUME NEW l, NEW id, ~Holds(l, id)
  PROVE  list_remove(l, id) = l
BY DEF list_remove, RemoveFirstMatch, Holds

LEMMA RemoveType ==
  ASSUME NEW S, NEW l \in Seq(S), NEW id
  PROVE  list_remove(l, id) \in Seq(S)
<1>1. CASE Holds(l, id)
  BY <1>1, RemoveList
<1>2. CASE ~Holds(l, id)
  BY <1>2, RemoveNone
<1> QED
  BY <1>1, <1>2
-----------------------------------------------------------------------------
(* What the three operations do to the photos listed and their keywords.     *)
LEMMA InsertShows ==
  ASSUME NEW l \in Seq(Photo), NEW e \in Photo, e.keyword = <<>>
  PROVE  /\ list_insert(l, e) \in Seq(Photo)
         /\ Ids(list_insert(l, e)) = Ids(l) \cup {e.id}
         /\ \A id, k : Tagged(list_insert(l, e), id, k) <=> Tagged(l, id, k)
         /\ Single(l) /\ e.id \notin Ids(l) => Single(list_insert(l, e))
<1> DEFINE m == list_insert(l, e)
<1>1. /\ m \in Seq(Photo) /\ Len(m) = Len(l) + 1 /\ m[1] = e
      /\ \A i \in 1..Len(l) : m[i + 1] = l[i]
  BY InsertList
<1>2. Len(l) \in Nat
  BY LenProperties
<1> HIDE DEF m
<1>3. \A i \in 1..Len(m) : i = 1 \/ (i - 1 \in 1..Len(l) /\ m[i] = l[i - 1])
  <2>1. SUFFICES ASSUME NEW i \in 1..Len(m), i # 1
                 PROVE  i - 1 \in 1..Len(l) /\ m[i] = l[i - 1]
    OBVIOUS
  <2>2. i - 1 \in 1..Len(l) /\ (i - 1) + 1 = i
    BY <1>1, <1>2, <2>1
  <2> QED
    BY <1>1, <2>2
<1>4. \A i \in 1..Len(l) : i + 1 \in 1..Len(m)
  BY <1>1, <1>2
<1>5. 1 \in 1..Len(m)
  BY <1>1, <1>2
<1>6. Ids(m) = Ids(l) \cup {e.id}
  <2>1. Ids(m) \subseteq Ids(l) \cup {e.id}
    BY <1>1, <1>3 DEF Ids
  <2>2. Ids(l) \cup {e.id} \subseteq Ids(m)
    <3>1. e.id \in Ids(m)
      BY <1>1, <1>5 DEF Ids
    <3>2. \A i \in 1..Len(l) : l[i].id \in Ids(m)
      BY <1>1, <1>4 DEF Ids
    <3> QED
      BY <3>1, <3>2 DEF Ids
  <2> QED
    BY <2>1, <2>2
<1>7. ASSUME NEW id, NEW k PROVE Tagged(m, id, k) <=> Tagged(l, id, k)
  <2>1. k \notin ToSet(m[1].keyword)
    BY <1>1 DEF ToSet
  <2>2. ASSUME Tagged(m, id, k) PROVE Tagged(l, id, k)
    <3>1. PICK i \in 1..Len(m) : m[i].id = id /\ k \in ToSet(m[i].keyword)
      BY <2>2 DEF Tagged
    <3> QED
      BY <1>3, <2>1, <3>1 DEF Tagged
  <2>3. ASSUME Tagged(l, id, k) PROVE Tagged(m, id, k)
    <3>1. PICK i \in 1..Len(l) : l[i].id = id /\ k \in ToSet(l[i].keyword)
      BY <2>3 DEF Tagged
    <3>2. i + 1 \in 1..Len(m) /\ m[i + 1] = l[i]
      BY <1>1, <1>4
    <3> QED
      BY <3>1, <3>2 DEF Tagged
  <2> QED
    BY <2>2, <2>3
<1>8. ASSUME Single(l), e.id \notin Ids(l) PROVE Single(m)
  <2>1. SUFFICES ASSUME NEW i \in 1..Len(m), NEW j \in 1..Len(m), m[i].id = m[j].id
                 PROVE  i = j
    BY DEF Single
  <2>2. \A h \in 1..Len(l) : l[h].id # e.id
    BY <1>8 DEF Ids
  <2>3. CASE i = 1
    BY <1>1, <1>3, <2>1, <2>2, <2>3
  <2>4. CASE j = 1
    BY <1>1, <1>3, <2>1, <2>2, <2>4
  <2>5. CASE i # 1 /\ j # 1
    <3>1. i - 1 = j - 1
      BY <1>3, <1>8, <2>1, <2>5 DEF Single
    <3> QED
      BY <1>1, <1>2, <3>1
  <2> QED
    BY <2>3, <2>4, <2>5
<1> QED
  BY <1>1, <1>6, <1>7, <1>8 DEF m

LEMMA RemoveShows ==
  ASSUME NEW l \in Seq(Photo), NEW id, Single(l)
  PROVE  /\ list_remove(l, id) \in Seq(Photo)
         /\ Ids(list_remove(l, id)) = Ids(l) \ {id}
         /\ \A d, k : Tagged(list_remove(l, id), d, k) <=> d # id /\ Tagged(l, d, k)
         /\ Single(list_remove(l, id))
         /\ \A i \in 1..Len(list_remove(l, id)) :
              \E h \in 1..Len(l) : list_remove(l, id)[i] = l[h]
<1> DEFINE m == list_remove(l, id)
<1>1. Len(l) \in Nat
  BY LenProperties
<1>2. CASE ~Holds(l, id)
  <2>1. m = l
    BY <1>2, RemoveNone
  <2>2. \A i \in 1..Len(l) : l[i].id # id
    BY <1>2 DEF Holds
  <2> QED
    BY <2>1, <2>2 DEF Ids, Tagged
<1>3. CASE Holds(l, id)
  <2>1. PICK j \in 1..Len(l) :
          /\ l[j].id = id /\ m \in Seq(Photo) /\ Len(m) = Len(l) - 1
          /\ \A i \in 1..(Len(l) - 1) : m[i] = IF i < j THEN l[i] ELSE l[i + 1]
    BY <1>3, RemoveList
  <2> HIDE DEF m
  <2>2. \A i \in 1..Len(l) : l[i].id = id <=> i = j
    BY <2>1 DEF Single
  <2> DEFINE from(i) == IF i < j THEN i ELSE i + 1
  <2>3. \A i \in 1..Len(m) : from(i) \in 1..Len(l) /\ from(i) # j /\ m[i] = l[from(i)]
    <3>1. SUFFICES ASSUME NEW i \in 1..Len(m)
                   PROVE  from(i) \in 1..Len(l) /\ from(i) # j /\ m[i] = l[from(i)]
      OBVIOUS
    <3>2. i \in 1..(Len(l) - 1)
      BY <2>1
    <3> QED
      BY <1>1, <2>1, <3>2
  <2>4. \A h \in 1..Len(l) : h # j => \E i \in 1..Len(m) : m[i] = l[h]
    <3>1. SUFFICES ASSUME NEW h \in 1..Len(l), h # j
                   PROVE  \E i \in 1..Len(m) : m[i] = l[h]
      OBVIOUS
    <3>2. CASE h < j
      <4>1. h \in 1..(Len(l) - 1)
        BY <1>1, <3>2
      <4> QED
        BY <2>1, <3>2, <4>1
    <3>3. CASE h > j
      <4>1. h - 1 \in 1..(Len(l) - 1) /\ ~(h - 1 < j) /\ (h - 1) + 1 = h
        BY <1>1, <3>3
      <4> QED
        BY <2>1, <4>1
    <3> QED
      BY <1>1, <3>1, <3>2, <3>3
  <2>5. Ids(m) = Ids(l) \ {id}
    <3>1. Ids(m) \subseteq Ids(l) \ {id}
      BY <2>2, <2>3 DEF Ids
    <3>2. Ids(l) \ {id} \subseteq Ids(m)
      <4>1. SUFFICES ASSUME NEW h \in 1..Len(l), l[h].id # id
                     PROVE  l[h].id \in Ids(m)
        BY DEF Ids
      <4>2. PICK i \in 1..Len(m) : m[i] = l[h]
        BY <2>2, <2>4, <4>1
      <4> QED
        BY <4>2 DEF Ids
    <3> QED
      BY <3>1, <3>2
  <2>6. ASSUME NEW d, NEW k PROVE Tagged(m, d, k) <=> d # id /\ Tagged(l, d, k)
    <3>1. ASSUME Tagged(m, d, k) PROVE d # id /\ Tagged(l, d, k)
      <4>1. PICK i \in 1..Len(m) : m[i].id = d /\ k \in ToSet(m[i].keyword)
        BY <3>1 DEF Tagged
      <4>2. PICK h \in 1..Len(l) : h # j /\ m[i] = l[h]
        BY <2>3
      <4> QED
        BY <2>2, <4>1, <4>2 DEF Tagged
    <3>2. ASSUME d # id, Tagged(l, d, k) PROVE Tagged(m, d, k)
      <4>1. PICK h \in 1..Len(l) : l[h].id = d /\ k \in ToSet(l[h].keyword)
        BY <3>2 DEF Tagged
      <4>2. PICK i \in 1..Len(m) : m[i] = l[h]
        BY <2>2, <2>4, <3>2, <4>1
      <4> QED
        BY <4>1, <4>2 DEF Tagged
    <3> QED
      BY <3>1, <3>2
  <2>7. Single(m)
    <3>1. SUFFICES ASSUME NEW i \in 1..Len(m), NEW h \in 1..Len(m), m[i].id = m[h].id
                   PROVE  i = h
      BY DEF Single
    <3>2. from(i) = from(h)
      <4> HIDE DEF from
      <4> QED
        BY <2>3, <3>1 DEF Single
    <3>3. i \in Int /\ h \in Int /\ j \in Int
      OBVIOUS
    <3> QED
      BY <3>2, <3>3
  <2>8. \A i \in 1..Len(m) : \E h \in 1..Len(l) : m[i] = l[h]
    BY <2>3
  <2> QED
    BY <2>1, <2>5, <2>6, <2>7, <2>8 DEF m
<1> QED
  BY <1>2, <1>3

(* The keyword is written at the end of the array of node i.                 *)
LEMMA PutShows ==
  ASSUME NEW l \in Seq(Photo), NEW i \in 1..Len(l), NEW w \in Keyword
  PROVE  LET m == [l EXCEPT ![i].keyword = Append(@, w)]
         IN  /\ m \in Seq(Photo) /\ Len(m) = Len(l)
             /\ \A h \in 1..Len(l) :
                  /\ m[h].id = l[h].id /\ m[h].node = l[h].node
                  /\ Len(m[h].keyword) =
                       IF h = i THEN Len(l[h].keyword) + 1 ELSE Len(l[h].keyword)
                  /\ ToSet(m[h].keyword) =
                       IF h = i THEN ToSet(l[h].keyword) \cup {w} ELSE ToSet(l[h].keyword)
<1> DEFINE e == [l[i] EXCEPT !.keyword = Append(@, w)]
           m == [l EXCEPT ![i].keyword = Append(@, w)]
<1>1. m = [l EXCEPT ![i] = e]
  OBVIOUS
<1>2. l[i] \in Photo /\ l[i].keyword \in Seq(Keyword)
  <2>1. l[i] \in Photo
    BY ElementOfSeq
  <2> QED
    BY <2>1 DEF Photo
<1>3. /\ Append(l[i].keyword, w) \in Seq(Keyword)
      /\ Len(Append(l[i].keyword, w)) = Len(l[i].keyword) + 1
  BY <1>2, AppendProperties
<1>4. ToSet(Append(l[i].keyword, w)) = ToSet(l[i].keyword) \cup {w}
  BY <1>2, RingAppendSet DEF ring_append
<1>5. /\ e \in Photo /\ e.id = l[i].id /\ e.node = l[i].node
      /\ e.keyword = Append(l[i].keyword, w)
  BY <1>2, <1>3 DEF Photo
<1> HIDE DEF e
<1> HIDE DEF m
<1>6. /\ [l EXCEPT ![i] = e] \in Seq(Photo)
      /\ Len([l EXCEPT ![i] = e]) = Len(l)
      /\ \A h \in 1..Len(l) : [l EXCEPT ![i] = e][h] = IF h = i THEN e ELSE l[h]
  BY <1>5, ExceptSeq
<1>7. /\ m \in Seq(Photo) /\ Len(m) = Len(l)
      /\ \A h \in 1..Len(l) : m[h] = IF h = i THEN e ELSE l[h]
  BY <1>1, <1>6
<1>8. ASSUME NEW h \in 1..Len(l)
      PROVE  /\ m[h].id = l[h].id /\ m[h].node = l[h].node
             /\ Len(m[h].keyword) =
                  IF h = i THEN Len(l[h].keyword) + 1 ELSE Len(l[h].keyword)
             /\ ToSet(m[h].keyword) =
                  IF h = i THEN ToSet(l[h].keyword) \cup {w} ELSE ToSet(l[h].keyword)
  BY <1>3, <1>4, <1>5, <1>7
<1> QED
  BY <1>7, <1>8 DEF m
-----------------------------------------------------------------------------
(* Types.                                                                    *)

(* The types of what a request works on.                                     *)
DataTypes ==
  /\ photo_id \in Nat
  /\ photo_list \in [Peer -> Seq(Photo)]
  /\ files \in [Peer -> SUBSET (1..photo_id)]
  /\ req \in [Request ->
       [op : {"none", "add", "keyword", "delete"}, photo : 0..photo_id,
        keyword : Keyword \cup {""}, home : Peer \cup {NoPeer}]]
  /\ found \in [Request -> [Peer -> {"none", "start", "add", "join"}]]

(* The types of what peers enter and leave by.                               *)
StateTypes ==
  /\ status \in [Peer -> {"outside", "joining", "up", "crashed", "exited",
                          "freed", "overrun", "nofile"}]
  /\ entering \in [Peer -> {"unknown", "asked", "told", "known"}]
  /\ crashes \in 0..MaxCrashes

(* A request that was sent names a photo, has a home, and names a keyword if *)
(* it is to add one.                                                         *)
Orders ==
  \A r \in Request :
    /\ req[r].op = "none" => req[r] = NoOp
    /\ req[r].op # "none" => /\ req[r].photo \in 1..photo_id
                             /\ req[r].home \in Peer
    /\ req[r].op = "keyword" => req[r].keyword \in Keyword

(* The stages of a request of each kind.                                     *)
Kind(op) ==
  CASE op = "none"    -> {"none"}
    [] op = "add"     -> {"none", "insert", "store", "lock", "bcast", "done"}
    [] op = "keyword" -> {"none", "find", "put", "lock", "bcast", "done"}
    [] op = "delete"  -> {"none", "remove", "unlink", "lock", "bcast", "done"}

Kinds == \A r \in Request, p \in Peer : pc[r][p] \in Kind(req[r].op)

TypeInv == WalkInv /\ DataTypes /\ StateTypes /\ Orders /\ Kinds

LEMMA TypesGiven == TypeInv => TypeOK
BY DEF TypeInv, WalkInv, WalkTypes, DataTypes, StateTypes, TypeOK, Photo, Stages

LEMMA TypeInit == Init => TypeInv
<1> SUFFICES ASSUME Init PROVE TypeInv
  OBVIOUS
<1>1. WalkInv
  BY WalkInit
<1>2. DataTypes
  <2>1. ASSUME NEW i \in 1..Preloaded
        PROVE  [id |-> Preloaded + 1 - i, keyword |-> <<>>, node |-> "start"] \in Photo
    BY ReplicationAssumption DEF Photo
  <2> DEFINE start == [i \in 1..Preloaded |->
                 [id |-> Preloaded + 1 - i, keyword |-> <<>>, node |-> "start"]]
  <2>2. start \in [1..Preloaded -> Photo] /\ Preloaded \in Nat
    BY <2>1, ReplicationAssumption
  <2>3. photo_list \in [Peer -> Seq(Photo)]
    <3>1. photo_list = [p \in Peer |-> IF p = Joiner THEN <<>> ELSE start]
      BY DEF Init
    <3> HIDE DEF start
    <3>2. start \in Seq(Photo)
      BY <2>2, SeqDef
    <3> QED
      BY <3>1, <3>2
  <2>4. req \in [Request ->
          [op : {"none", "add", "keyword", "delete"}, photo : 0..photo_id,
           keyword : Keyword \cup {""}, home : Peer \cup {NoPeer}]]
    <3>1. NoOp \in [op : {"none", "add", "keyword", "delete"}, photo : {0},
                    keyword : Keyword \cup {""}, home : Peer \cup {NoPeer}]
      BY DEF NoOp
    <3>2. 0 \in 0..photo_id
      BY ReplicationAssumption DEF Init
    <3> QED
      BY <3>1, <3>2 DEF Init
  <2>5. photo_id \in Nat /\ files \in [Peer -> SUBSET (1..photo_id)]
    BY ReplicationAssumption DEF Init
  <2> QED
    BY <2>3, <2>4, <2>5 DEF Init, DataTypes
<1>3. StateTypes
  BY ReplicationAssumption DEF Init, StateTypes
<1>4. Orders /\ Kinds
  BY DEF Init, Orders, Kinds, Kind, NoOp
<1> QED
  BY <1>1, <1>2, <1>3, <1>4 DEF TypeInv

(* A thread moves on within the stages of its kind.                          *)
LEMMA KindMove ==
  ASSUME WalkTypes, Kinds, NEW r \in Request, NEW p \in Peer,
         NEW s \in Kind(req[r].op), Goto(r, p, s), UNCHANGED req
  PROVE  Kinds'
BY DEF WalkTypes, Kinds, Goto

(* What a thread at a stage knows of its request.                            *)
LEMMA StageKind ==
  ASSUME TypeInv, NEW r \in Request, NEW p \in Peer
  PROVE  /\ pc[r][p] \in {"insert", "store"} => req[r].op = "add"
         /\ pc[r][p] \in {"find", "put"} => req[r].op = "keyword"
         /\ pc[r][p] \in {"remove", "unlink"} => req[r].op = "delete"
         /\ pc[r][p] # "none" => /\ req[r].op \in {"add", "keyword", "delete"}
                                 /\ req[r].photo \in 1..photo_id /\ req[r].photo \in Nat
                                 /\ req[r].home \in Peer
<1>1. req[r].op \in {"none", "add", "keyword", "delete"}
  BY DEF TypeInv, DataTypes
<1>2. pc[r][p] \in Kind(req[r].op)
  BY DEF TypeInv, Kinds
<1>3. pc[r][p] # "none" => /\ req[r].photo \in 1..photo_id /\ req[r].home \in Peer
  BY <1>1, <1>2 DEF TypeInv, Orders, Kind
<1>4. photo_id \in Nat
  BY DEF TypeInv, DataTypes
<1> QED
  BY <1>1, <1>2, <1>3, <1>4 DEF Kind

LEMMA IssueTypes ==
  ASSUME TypeInv, NEW r \in Request, NEW p \in Peer, Issue(r, p)
  PROVE  DataTypes' /\ StateTypes' /\ Orders' /\ Kinds'
<1>1. WalkTypes /\ Threads /\ DataTypes /\ StateTypes /\ Orders /\ Kinds
  BY DEF TypeInv, WalkInv
<1>2. /\ req[r].op = "none"
      /\ pc' = [pc EXCEPT ![r][p] = Start(req'[r].op)]
      /\ UNCHANGED <<photo_list, files, status, entering, crashes, found>>
  BY DEF Issue, Goto, gallery, members
<1>3. photo_id \in Nat
  BY <1>1 DEF DataTypes
<1>4. \E o \in {"add", "keyword", "delete"}, id \in Nat, k \in Keyword \cup {""} :
         /\ req' = [req EXCEPT ![r] = [op |-> o, photo |-> id, keyword |-> k, home |-> p]]
         /\ o = "keyword" => k \in Keyword
         /\ id \in 1..photo_id' /\ photo_id' \in Nat /\ photo_id <= photo_id'
  <2>1. CASE /\ photo_id' = photo_id + 1
             /\ req' = [req EXCEPT ![r] = [op |-> "add", photo |-> photo_id + 1,
                                           keyword |-> "", home |-> p]]
    <3>1. photo_id' = photo_id + 1
      BY <2>1
    <3>2. photo_id + 1 \in 1..photo_id' /\ photo_id' \in Nat /\ photo_id <= photo_id'
      BY <1>3, <3>1
    <3>3. photo_id + 1 \in Nat
      BY <1>3
    <3> QED
      BY <2>1, <3>2, <3>3
  <2>2. CASE /\ \E o \in Op \cap {"keyword", "delete"}, id \in Target \cap 1..photo_id,
                    k \in Keyword :
                  req' = [req EXCEPT ![r] =
                    [op |-> o, photo |-> id,
                     keyword |-> IF o = "keyword" THEN k ELSE "", home |-> p]]
             /\ UNCHANGED photo_id
    <3>1. PICK o \in {"keyword", "delete"}, id \in 1..photo_id, k \in Keyword :
                  req' = [req EXCEPT ![r] =
                    [op |-> o, photo |-> id,
                     keyword |-> IF o = "keyword" THEN k ELSE "", home |-> p]]
      BY <2>2
    <3>2. photo_id' = photo_id
      BY <2>2
    <3>3. photo_id' = photo_id /\ photo_id' \in Nat /\ photo_id <= photo_id'
      BY <1>3, <3>2
    <3>4. id \in Nat /\ id \in 1..photo_id'
      BY <3>3
    <3>5. CASE o = "keyword"
      BY <3>1, <3>3, <3>5, <3>4
    <3>6. CASE o = "delete"
      BY <3>1, <3>3, <3>6, <3>4
    <3> QED
      BY <3>5, <3>6
  <2> QED
    BY <2>1, <2>2 DEF Issue
<1>5. PICK o, id, k :
         /\ o \in {"add", "keyword", "delete"} /\ id \in Nat
         /\ k \in Keyword \cup {""}
         /\ req' = [req EXCEPT ![r] = [op |-> o, photo |-> id, keyword |-> k, home |-> p]]
         /\ o = "keyword" => k \in Keyword
         /\ id \in 1..photo_id' /\ photo_id' \in Nat /\ photo_id <= photo_id'
  BY <1>4
<1> DEFINE order == [op |-> o, photo |-> id, keyword |-> k, home |-> p]
<1>6. /\ order.op = o /\ order.photo = id /\ order.keyword = k /\ order.home = p
      /\ order \in [op : {"none", "add", "keyword", "delete"}, photo : 0..photo_id',
                    keyword : Keyword \cup {""}, home : Peer \cup {NoPeer}]
  <2>1. photo_id' \in Nat
    BY <1>5
  <2>2. id \in 1..photo_id'
    BY <1>5
  <2>3. id \in 0..photo_id'
    BY <2>1, <2>2
  <2> QED
    BY <1>5, <2>3
<1>7. req' = [req EXCEPT ![r] = order]
  BY <1>5
<1> HIDE DEF order
<1>8. req'[r] = order /\ \A t \in Request : t # r => req'[t] = req[t]
  BY <1>1, <1>7 DEF DataTypes
<1>9. 0..photo_id \subseteq 0..photo_id' /\ 1..photo_id \subseteq 1..photo_id'
  <2>1. photo_id' \in Nat /\ photo_id <= photo_id'
    BY <1>5
  <2>2. \A h \in Int : h <= photo_id => h <= photo_id'
    BY <1>3, <2>1
  <2> QED
    BY <1>3, <2>1, <2>2
<1>10. req' \in [Request ->
         [op : {"none", "add", "keyword", "delete"}, photo : 0..photo_id',
          keyword : Keyword \cup {""}, home : Peer \cup {NoPeer}]]
  <2>1. req \in [Request ->
          [op : {"none", "add", "keyword", "delete"}, photo : 0..photo_id',
           keyword : Keyword \cup {""}, home : Peer \cup {NoPeer}]]
    BY <1>1, <1>9 DEF DataTypes
  <2> QED
    BY <1>6, <1>7, <2>1
<1>11. DataTypes'
  <2>1. files' \in [Peer -> SUBSET (1..photo_id')]
    BY <1>1, <1>2, <1>9 DEF DataTypes
  <2> QED
    BY <1>1, <1>2, <1>5, <1>10, <2>1 DEF DataTypes
<1>12. StateTypes'
  BY <1>1, <1>2 DEF StateTypes
<1>13. Orders'
  <2>1. ASSUME NEW t \in Request
        PROVE  /\ req'[t].op = "none" => req'[t] = NoOp
               /\ req'[t].op # "none" => /\ req'[t].photo \in 1..photo_id'
                                         /\ req'[t].home \in Peer
               /\ req'[t].op = "keyword" => req'[t].keyword \in Keyword
    BY <1>1, <1>5, <1>6, <1>8, <1>9 DEF Orders
  <2> QED
    BY <2>1 DEF Orders, NoOp
<1>14. Kinds'
  <2>1. \A q \in Peer : pc[r][q] = "none"
    BY <1>1, <1>2 DEF Threads
  <2>2. Start(o) \in Kind(o) /\ "none" \in Kind(o)
    BY <1>5 DEF Start, Kind
  <2> QED
    BY <1>1, <1>2, <1>6, <1>8, <2>1, <2>2 DEF Kinds, WalkTypes
<1> QED
  BY <1>11, <1>12, <1>13, <1>14

LEMMA AddTypes ==
  ASSUME TypeInv, NEW r \in Request, NEW p \in Peer, AddInsert(r, p) \/ AddStore(r, p)
  PROVE  DataTypes' /\ StateTypes' /\ Orders' /\ Kinds'
<1>1. WalkTypes /\ DataTypes /\ StateTypes /\ Orders /\ Kinds
  BY DEF TypeInv, WalkInv
<1>2. /\ req[r].op = "add" /\ req[r].photo \in 1..photo_id /\ req[r].photo \in Nat
      /\ UNCHANGED <<photo_id, req, found, status, entering, crashes>>
  BY StageKind DEF AddInsert, AddStore, clients, members
<1>3. StateTypes' /\ Orders'
  BY <1>1, <1>2 DEF StateTypes, Orders, NoOp
<1>4. Kinds'
  <2>1. PICK s \in Kind(req[r].op) : Goto(r, p, s)
    BY <1>2 DEF AddInsert, AddStore, Kind, After
  <2> QED
    BY <1>1, <1>2, <2>1, KindMove
<1>5. DataTypes'
  <2>1. CASE AddInsert(r, p)
    <3> DEFINE e == [id |-> req[r].photo, keyword |-> <<>>, node |-> "add"]
    <3>1. e \in Photo
      BY <1>2 DEF Photo
    <3>2. /\ photo_list' = [photo_list EXCEPT ![p] = list_insert(@, e)]
          /\ UNCHANGED files
      BY <2>1 DEF AddInsert
    <3> HIDE DEF e
    <3>3. list_insert(photo_list[p], e) \in Seq(Photo)
      BY <1>1, <3>1, InsertList DEF DataTypes
    <3>4. photo_list' \in [Peer -> Seq(Photo)]
      BY <1>1, <3>2, <3>3 DEF DataTypes
    <3> QED
      BY <1>1, <1>2, <3>2, <3>4 DEF DataTypes
  <2>2. CASE AddStore(r, p)
    <3>1. /\ files' = [files EXCEPT ![p] = @ \cup {req[r].photo}]
          /\ UNCHANGED photo_list
      BY <2>2 DEF AddStore
    <3>2. files' \in [Peer -> SUBSET (1..photo_id)]
      BY <1>1, <1>2, <3>1 DEF DataTypes
    <3> QED
      BY <1>1, <1>2, <3>1, <3>2 DEF DataTypes
  <2> QED
    BY <2>1, <2>2
<1> QED
  BY <1>3, <1>4, <1>5

(* The node that list_search finds.                                          *)
LEMMA MatchPhoto ==
  ASSUME TypeInv, NEW r \in Request, NEW p \in Peer,
         Holds(photo_list[p], req[r].photo)
  PROVE  \E j \in 1..Len(photo_list[p]) :
           /\ Match(r, p) = photo_list[p][j]
           /\ photo_list[p][j].id = req[r].photo
           /\ photo_list[p][j] \in Photo
<1>1. photo_list[p] \in Seq(Photo)
  BY DEF TypeInv, DataTypes
<1>2. PICK j \in 1..Len(photo_list[p]) :
        /\ list_search(photo_list[p], req[r].photo) = photo_list[p][j]
        /\ photo_list[p][j].id = req[r].photo
  BY <1>1, SearchList
<1>3. photo_list[p][j] \in Photo
  BY <1>1, ElementOfSeq
<1> QED
  BY <1>2, <1>3 DEF Match

LEMMA KeywordTypes ==
  ASSUME TypeInv, NEW r \in Request, NEW p \in Peer, KeywordFind(r, p) \/ KeywordPut(r, p)
  PROVE  DataTypes' /\ StateTypes' /\ Orders' /\ Kinds'
<1>1. WalkTypes /\ DataTypes /\ StateTypes /\ Orders /\ Kinds
  BY DEF TypeInv, WalkInv
<1>2. /\ req[r].op = "keyword" /\ req[r].keyword \in Keyword
      /\ UNCHANGED <<photo_id, req, files, entering, crashes>>
  BY <1>1, StageKind DEF KeywordFind, KeywordPut, clients, members, gallery, Orders
<1>3. Orders'
  BY <1>1, <1>2 DEF Orders, NoOp
<1>4. StateTypes'
  <2>1. CASE UNCHANGED status
    BY <1>1, <1>2, <2>1 DEF StateTypes
  <2>2. CASE Fault(p, "freed") \/ Fault(p, "overrun")
    BY <1>1, <1>2, <2>2 DEF StateTypes, Fault
  <2> QED
    BY <2>1, <2>2 DEF KeywordFind, KeywordPut, members
<1>5. Kinds'
  <2>1. CASE UNCHANGED pc
    BY <1>1, <1>2, <2>1 DEF Kinds
  <2>2. ASSUME NEW s \in Kind(req[r].op), Goto(r, p, s) PROVE Kinds'
    BY <1>1, <1>2, <2>2, KindMove
  <2>3. {"put", "done", After(r, p)} \subseteq Kind(req[r].op)
    BY <1>2 DEF Kind, After
  <2>4. UNCHANGED pc \/ \E s \in {"put", "done", After(r, p)} : Goto(r, p, s)
    BY DEF KeywordFind, KeywordPut
  <2> QED
    BY <2>1, <2>2, <2>3, <2>4
<1>6. DataTypes'
  <2>1. CASE KeywordFind(r, p)
    <3>1. UNCHANGED photo_list
      BY <2>1 DEF KeywordFind, gallery
    <3>2. found' \in [Request -> [Peer -> {"none", "start", "add", "join"}]]
      <4>1. CASE Addable(r, p)
        <5>1. Match(r, p).node \in {"start", "add", "join"}
          BY <4>1, MatchPhoto DEF Addable, Photo
        <5>2. found' = [found EXCEPT ![r][p] = Match(r, p).node]
          BY <2>1, <4>1 DEF KeywordFind
        <5> QED
          BY <1>1, <5>1, <5>2 DEF DataTypes
      <4>2. CASE ~Addable(r, p)
        BY <1>1, <2>1, <4>2 DEF KeywordFind, DataTypes
      <4> QED
        BY <4>1, <4>2
    <3> QED
      BY <1>1, <1>2, <3>1, <3>2 DEF DataTypes
  <2>2. CASE KeywordPut(r, p)
    <3>1. found' \in [Request -> [Peer -> {"none", "start", "add", "join"}]]
      <4>1. UNCHANGED found \/ found' = [found EXCEPT ![r][p] = "none"]
        BY <2>2 DEF KeywordPut
      <4>2. found \in [Request -> [Peer -> {"none", "start", "add", "join"}]]
        BY <1>1 DEF DataTypes
      <4>3. CASE found' = [found EXCEPT ![r][p] = "none"]
        BY <4>2, <4>3
      <4> QED
        BY <4>1, <4>2, <4>3
    <3>2. CASE UNCHANGED photo_list
      BY <1>1, <1>2, <3>1, <3>2 DEF DataTypes
    <3>3. CASE \E i \in Node(r, p) : Put(r, p, i)
      <4>1. PICK i \in Node(r, p) : Put(r, p, i)
        BY <3>3
      <4> DEFINE l == photo_list[p]
                 m == [l EXCEPT ![i].keyword = Append(@, req[r].keyword)]
      <4>2. l \in Seq(Photo) /\ i \in 1..Len(l)
        BY <1>1, <4>1, LenProperties DEF DataTypes, Node
      <4>3. m \in Seq(Photo)
        BY <1>2, <4>2, PutShows
      <4>4. photo_list' = [photo_list EXCEPT ![p] = m]
        BY <4>1 DEF Put
      <4> HIDE DEF m
      <4>5. photo_list' \in [Peer -> Seq(Photo)]
        BY <1>1, <4>3, <4>4 DEF DataTypes
      <4> QED
        BY <1>1, <1>2, <3>1, <4>5 DEF DataTypes
    <3> QED
      BY <2>2, <3>2, <3>3 DEF KeywordPut
  <2> QED
    BY <2>1, <2>2
<1> QED
  BY <1>3, <1>4, <1>5, <1>6

LEMMA DeleteTypes ==
  ASSUME TypeInv, NEW r \in Request, NEW p \in Peer, DeleteRemove(r, p) \/ DeleteUnlink(r, p)
  PROVE  DataTypes' /\ StateTypes' /\ Orders' /\ Kinds'
<1>1. WalkTypes /\ DataTypes /\ StateTypes /\ Orders /\ Kinds
  BY DEF TypeInv, WalkInv
<1>2. /\ req[r].op = "delete"
      /\ UNCHANGED <<photo_id, req, found, status, entering, crashes>>
  BY StageKind DEF DeleteRemove, DeleteUnlink, clients, members
<1>3. StateTypes' /\ Orders'
  BY <1>1, <1>2 DEF StateTypes, Orders, NoOp
<1>4. Kinds'
  <2>1. PICK s \in {"unlink", "done", After(r, p)} : Goto(r, p, s)
    BY DEF DeleteRemove, DeleteUnlink
  <2>2. s \in Kind(req[r].op)
    BY <1>2, <2>1 DEF Kind, After
  <2> QED
    BY <1>1, <1>2, <2>1, <2>2, KindMove
<1>5. DataTypes'
  <2>1. CASE DeleteRemove(r, p)
    <3>1. /\ photo_list' = [photo_list EXCEPT ![p] = list_remove(@, req[r].photo)]
          /\ UNCHANGED files
      BY <2>1 DEF DeleteRemove
    <3>2. list_remove(photo_list[p], req[r].photo) \in Seq(Photo)
      BY <1>1, RemoveType DEF DataTypes
    <3>3. photo_list' \in [Peer -> Seq(Photo)]
      BY <1>1, <3>1, <3>2 DEF DataTypes
    <3> QED
      BY <1>1, <1>2, <3>1, <3>3 DEF DataTypes
  <2>2. CASE DeleteUnlink(r, p)
    BY <1>1, <1>2, <2>2 DEF DeleteUnlink, DataTypes
  <2> QED
    BY <2>1, <2>2
<1> QED
  BY <1>3, <1>4, <1>5

LEMMA BcastTypes ==
  ASSUME TypeInv, NEW r \in Request, NEW p \in Peer,
         \/ BcastLock(r, p) \/ BcastSend(r, p) \/ BcastDrop(r, p) \/ BcastEnd(r, p)
  PROVE  DataTypes' /\ StateTypes' /\ Orders' /\ Kinds'
<1>1. WalkTypes /\ DataTypes /\ StateTypes /\ Orders /\ Kinds
  BY DEF TypeInv, WalkInv
<1>2. UNCHANGED <<photo_list, files, photo_id, req, found, entering, crashes>>
  BY DEF BcastLock, BcastSend, BcastDrop, BcastEnd, gallery, clients, members
<1>3. DataTypes' /\ Orders'
  BY <1>1, <1>2 DEF DataTypes, Orders, NoOp
<1>4. StateTypes'
  <2>1. UNCHANGED status \/ Fault(p, "nofile")
    BY DEF BcastLock, BcastSend, BcastDrop, BcastEnd, members
  <2> QED
    BY <1>1, <1>2, <2>1 DEF StateTypes, Fault
<1>5. req[r].op \in {"add", "keyword", "delete"}
  BY StageKind DEF BcastLock, BcastSend, BcastDrop, BcastEnd
<1>6. {"bcast", "done", Start(req[r].op)} \subseteq Kind(req[r].op)
  BY <1>5 DEF Kind, Start
<1>7. \/ UNCHANGED pc
      \/ \E q \in Peer, s \in {"bcast", "done", Start(req[r].op)} : Goto(r, q, s)
  <2>1. CASE BcastSend(r, p)
    <3>1. cursor[r] \in 1..Len(peer_list[p])
      <4>1. cursor[r] \in Nat \ {0} /\ Len(peer_list[p]) \in Nat
        BY <1>1, RingPeers DEF WalkTypes
      <4> QED
        BY <2>1, <4>1 DEF BcastSend, Tell
    <3>2. peer_list[p][cursor[r]] \in Peer
      BY <1>1, <3>1, RingPeers
    <3> QED
      BY <2>1, <3>2 DEF BcastSend
  <2> QED
    BY <2>1 DEF BcastLock, BcastDrop, BcastEnd
<1>8. Kinds'
  <2>1. CASE UNCHANGED pc
    BY <1>1, <1>2, <2>1 DEF Kinds
  <2>2. ASSUME NEW q \in Peer, NEW s \in Kind(req[r].op), Goto(r, q, s) PROVE Kinds'
    BY <1>1, <1>2, <2>2, KindMove
  <2> QED
    BY <1>6, <1>7, <2>1, <2>2
<1> QED
  BY <1>3, <1>4, <1>8

(* What the joiner gets: the photos of the first member, under new nodes.    *)
LEMMA SnapshotPhotos ==
  ASSUME NEW l \in Seq(Photo)
  PROVE  LET m == [i \in DOMAIN Snapshot(l) |-> [Snapshot(l)[i] EXCEPT !.node = "join"]]
         IN  /\ m \in Seq(Photo) /\ Len(m) = Len(l)
             /\ Ids(m) = Ids(l) /\ Ids(Snapshot(l)) = Ids(l)
<1> DEFINE s == Snapshot(l)
           m == [i \in DOMAIN s |-> [s[i] EXCEPT !.node = "join"]]
<1>1. /\ Len(l) \in Nat
      /\ \A i \in 1..Len(l) : l[i] \in Photo
  BY LenProperties, ElementOfSeq
<1>2. /\ DOMAIN s = 1..Len(l) /\ \A i \in 1..Len(l) : s[i] = l[Len(l) - i + 1]
  BY DEF Snapshot, Reverse
<1>3. \A i \in 1..Len(l) : Len(l) - i + 1 \in 1..Len(l)
  BY <1>1
<1>4. /\ m = [i \in 1..Len(l) |-> [s[i] EXCEPT !.node = "join"]]
      /\ \A i \in 1..Len(l) : [s[i] EXCEPT !.node = "join"] \in Photo
  BY <1>1, <1>2, <1>3 DEF Photo
<1>5. /\ m \in Seq(Photo) /\ Len(m) = Len(l)
  BY <1>1, <1>4
<1>6. \A i \in 1..Len(l) : m[i].id = l[Len(l) - i + 1].id
  BY <1>1, <1>2, <1>3, <1>4 DEF Photo
<1>7. \A h \in 1..Len(l) : Len(l) - (Len(l) - h + 1) + 1 = h
  BY <1>1
<1>8. Len(s) = Len(l)
  BY <1>1, <1>2 DEF Snapshot, Reverse
<1> HIDE DEF s, m
<1>9. Ids(m) = Ids(l)
  <2>1. \A i \in 1..Len(m) : \E h \in 1..Len(l) : m[i].id = l[h].id
    BY <1>3, <1>5, <1>6
  <2>2. \A h \in 1..Len(l) : \E i \in 1..Len(m) : m[i].id = l[h].id
    BY <1>3, <1>5, <1>6, <1>7
  <2>3. Ids(m) \subseteq Ids(l)
    BY <2>1 DEF Ids
  <2>4. Ids(l) \subseteq Ids(m)
    BY <2>2 DEF Ids
  <2> QED
    BY <2>3, <2>4
<1>10. Ids(s) = Ids(l)
  BY <1>2, <1>3, <1>7, <1>8 DEF Ids
<1> QED
  BY <1>5, <1>9, <1>10 DEF s, m
-----------------------------------------------------------------------------
LEMMA FirstMember ==
  /\ First \in Peer /\ First \in ToSet(Members)
  /\ Joiner # NoPeer => Joiner \in Peer /\ Joiner \notin ToSet(Members)
  /\ \A i \in 1..Len(Members) : Members[i] \in ToSet(Members) /\ Members[i] \in Peer
  /\ \A i \in 2..Len(Members) : i \in 1..Len(Members) /\ Members[i] # First
  /\ Len(Members) \in Nat
<1>1. Members \in Seq(Peer) /\ Len(Members) \in Nat /\ DOMAIN Members = 1..Len(Members)
  BY ReplicationAssumption, LenProperties
<1>2. 1 \in 1..Len(Members)
  BY <1>1, EmptySeq, ReplicationAssumption
<1>3. \A i \in 1..Len(Members) : Members[i] \in ToSet(Members) /\ Members[i] \in Peer
  BY <1>1, ElementOfSeq DEF ToSet
<1>4. \A i \in 2..Len(Members) : i \in 1..Len(Members) /\ i # 1
  BY <1>1
<1>5. \A i \in 2..Len(Members) : i \in 1..Len(Members) /\ Members[i] # First
  BY <1>2, <1>4, ReplicationAssumption DEF First
<1> QED
  BY <1>1, <1>2, <1>3, <1>5, ConstantTypes, ReplicationAssumption DEF First

(* The member the joiner tells next has not been told.                       *)
LEMMA NextToldUnknown ==
  ASSUME ~AllTold
  PROVE  NextTold \in 2..Len(Members) /\ entering[Members[NextTold]] = "unknown"
<1> DEFINE T == {i \in 2..Len(Members) : entering[Members[i]] = "unknown"}
<1>1. T \in SUBSET Nat /\ T # {}
  BY DEF AllTold
<1>2. Min(T) \in T /\ \A y \in T : Min(T) <= y
  BY <1>1, LeastNat
<1>3. \A h \in 2..(Min(T) - 1) : entering[Members[h]] # "unknown"
  <2>1. SUFFICES ASSUME NEW h \in 2..(Min(T) - 1), entering[Members[h]] = "unknown"
                 PROVE  FALSE
    OBVIOUS
  <2>2. Min(T) \in Nat /\ Len(Members) \in Nat /\ Min(T) <= Len(Members)
    BY <1>1, <1>2, FirstMember
  <2>3. h \in 2..Len(Members) /\ h < Min(T) /\ h \in Nat
    BY <2>2
  <2>4. h \in T
    BY <2>1, <2>3
  <2> HIDE DEF T
  <2> QED
    BY <1>2, <2>2, <2>3, <2>4
<1>4. \E i \in 2..Len(Members) :
        /\ entering[Members[i]] = "unknown"
        /\ \A h \in 2..(i - 1) : entering[Members[h]] # "unknown"
  BY <1>2, <1>3
<1> QED
  BY <1>4 DEF NextTold

LEMMA JoinTypes ==
  ASSUME TypeInv, Join
  PROVE  DataTypes' /\ StateTypes' /\ Orders' /\ Kinds'
<1>1. WalkTypes /\ DataTypes /\ StateTypes /\ Orders /\ Kinds
  BY DEF TypeInv, WalkInv
<1>2. UNCHANGED <<photo_id, req, pc, found, crashes>>
  BY DEF Join, JoinAsk, JoinPhotos, JoinNoPhotos, JoinTell, JoinListen, clients, members
<1>3. Joiner # NoPeer /\ Joiner \in Peer /\ First \in Peer
  BY FirstMember DEF Join, JoinAsk, JoinPhotos, JoinNoPhotos, JoinTell, JoinListen
<1>4. Orders' /\ Kinds'
  BY <1>1, <1>2 DEF Orders, Kinds, NoOp
<1>5. StateTypes'
  <2>1. \/ UNCHANGED status
        \/ \E q \in Peer, f \in {"joining", "up", "exited", "nofile"} :
             status' = [status EXCEPT ![q] = f]
    BY <1>3 DEF Join, JoinAsk, JoinPhotos, JoinNoPhotos, JoinTell, JoinListen, Fault
  <2>2. \/ UNCHANGED entering
        \/ \E q \in Peer, s \in {"asked", "told", "known"} :
             entering' = [entering EXCEPT ![q] = s]
    <3>1. CASE JoinTell
      <4>1. NextTold \in 2..Len(Members)
        BY <3>1, NextToldUnknown DEF JoinTell
      <4>2. Members[NextTold] \in Peer
        BY <4>1, FirstMember
      <4> QED
        BY <3>1, <4>2 DEF JoinTell
    <3> QED
      BY <1>3, <3>1 DEF Join, JoinAsk, JoinPhotos, JoinNoPhotos, JoinListen
  <2>3. status' \in [Peer -> {"outside", "joining", "up", "crashed", "exited",
                              "freed", "overrun", "nofile"}]
    BY <1>1, <2>1 DEF StateTypes
  <2>4. entering' \in [Peer -> {"unknown", "asked", "told", "known"}]
    BY <1>1, <2>2 DEF StateTypes
  <2> QED
    BY <1>1, <1>2, <2>3, <2>4 DEF StateTypes
<1>6. DataTypes'
  <2>1. CASE UNCHANGED gallery
    BY <1>1, <1>2, <2>1 DEF DataTypes, gallery
  <2>2. CASE JoinPhotos
    <3> DEFINE l == photo_list[First]
               m == [i \in DOMAIN Snapshot(l) |-> [Snapshot(l)[i] EXCEPT !.node = "join"]]
    <3>1. CASE Ids(l) \subseteq files[First]
      <4>1. l \in Seq(Photo) /\ files[First] \subseteq 1..photo_id
        BY <1>1, <1>3 DEF DataTypes
      <4>2. /\ photo_list' = [photo_list EXCEPT ![Joiner] = m]
            /\ files' = [files EXCEPT ![Joiner] = Ids(Snapshot(l))]
        BY <2>2, <3>1 DEF JoinPhotos
      <4>3. m \in Seq(Photo) /\ Ids(Snapshot(l)) \subseteq 1..photo_id
        <5> HIDE DEF l
        <5> QED
          BY <3>1, <4>1, SnapshotPhotos
      <4> HIDE DEF l, m
      <4> QED
        BY <1>1, <1>2, <4>2, <4>3 DEF DataTypes
    <3>2. CASE ~(Ids(l) \subseteq files[First])
      BY <2>1, <2>2, <3>2 DEF JoinPhotos, gallery
    <3> QED
      BY <3>1, <3>2
  <2> QED
    BY <2>1, <2>2 DEF Join, JoinAsk, JoinNoPhotos, JoinTell, JoinListen
<1> QED
  BY <1>4, <1>5, <1>6

LEMMA TypeStep == TypeInv /\ [Next]_vars => TypeInv'
<1> SUFFICES ASSUME TypeInv, [Next]_vars PROVE TypeInv'
  OBVIOUS
<1>1. WalkInv'
  BY WalkStep DEF TypeInv
<1>2. WalkTypes /\ DataTypes /\ StateTypes /\ Orders /\ Kinds
  BY DEF TypeInv, WalkInv
<1>3. ASSUME NEW q \in Peer, JoinRegister(q)
      PROVE  DataTypes' /\ StateTypes' /\ Orders' /\ Kinds'
  <2>1. /\ UNCHANGED <<photo_list, files, photo_id, req, status, pc, crashes, found>>
        /\ entering' = [entering EXCEPT ![q] = "known"]
    BY <1>3 DEF JoinRegister, gallery, clients
  <2> QED
    BY <1>2, <2>1 DEF DataTypes, StateTypes, Orders, Kinds, NoOp
<1>4. ASSUME NEW q \in Peer, Crash(q)
      PROVE  DataTypes' /\ StateTypes' /\ Orders' /\ Kinds'
  <2>1. /\ UNCHANGED <<photo_list, files, photo_id, req, pc, entering, found>>
        /\ status' = [status EXCEPT ![q] = "crashed"]
        /\ crashes' = crashes + 1 /\ crashes < MaxCrashes
    BY <1>4 DEF Crash, Fault, gallery, clients
  <2>2. crashes' \in 0..MaxCrashes
    BY <1>2, <2>1, ReplicationAssumption DEF StateTypes
  <2>3. StateTypes'
    BY <1>2, <2>1, <2>2 DEF StateTypes
  <2> QED
    BY <1>2, <2>1, <2>3 DEF DataTypes, Orders, Kinds, NoOp
<1>5. CASE UNCHANGED vars
  <2>1. UNCHANGED <<photo_list, files, photo_id, req, status, pc, entering, crashes, found>>
    BY <1>5 DEF vars, gallery, clients, members
  <2>2. DataTypes'
    BY <1>2, <2>1 DEF DataTypes
  <2>3. StateTypes'
    BY <1>2, <2>1 DEF StateTypes
  <2>4. Orders'
    BY <1>2, <2>1 DEF Orders, NoOp
  <2>5. Kinds'
    BY <1>2, <2>1 DEF Kinds
  <2> QED
    BY <1>1, <2>2, <2>3, <2>4, <2>5 DEF TypeInv
<1> QED
  BY <1>1, <1>3, <1>4, <1>5, IssueTypes, AddTypes, KeywordTypes, DeleteTypes,
     BcastTypes, JoinTypes DEF Next, Handle, TypeInv

LEMMA TypesHold == Spec => []TypeInv
BY TypeInit, TypeStep, PTL DEF Spec

(* Every variable keeps its type, for any peers, requests and bounds (peer.c, *)
(* with linked_list.c and ring_list.c).                                      *)
THEOREM TypeCorrect == Spec => []TypeOK
BY TypesHold, TypesGiven, PTL
-----------------------------------------------------------------------------
(* Telling: a request is told to a peer at most once.                        *)

(* A ring names no peer twice, and not the peer it belongs to.               *)
Proper(l, p) ==
  /\ \A i, j \in 1..Len(l) : l[i] = l[j] => i = j
  /\ \A i \in 1..Len(l) : l[i] # p

Rings == \A p \in Peer : Proper(peer_list[p], p)

(* How far the joiner is known to member q, and what q's ring says of it.    *)
Entered(q) ==
  /\ entering[q] # "unknown" =>
       /\ Joiner # NoPeer /\ status[Joiner] # "outside" /\ q \in ToSet(Members)
  /\ entering[q] = "told" => q # First
  /\ entering[q] = "asked" => q = First
  /\ Joiner # NoPeer /\ q # Joiner /\ Joiner \in ToSet(peer_list[q]) =>
       entering[q] \in {"asked", "known"}

Entries == \A q \in Peer : Entered(q)

(* Nobody talks to a peer before it listens.                                 *)
Outside ==
  \A p \in Peer : status[p] \in {"outside", "joining"} =>
    p = Joiner /\ \A r \in Request : pc[r][p] = "none"

(* Before the walk of request r its home alone knows of it; during the walk  *)
(* nobody from the cursor on does.                                           *)
Untold(r, p) ==
  /\ pc[r][p] # "none"
  /\ pc[r][p] \notin {"bcast", "done"} => \A q \in Peer \ {p} : pc[r][q] = "none"
  /\ pc[r][p] = "bcast" =>
       \A i \in 1..Len(peer_list[p]) :
         i >= cursor[r] => pc[r][peer_list[p][i]] = "none"

Untolds == \A r \in Request, p \in Peer : req[r].home = p => Untold(r, p)

OnceInv == Rings /\ Entries /\ Outside /\ Untolds

(* What the six local steps of a handler have in common.                     *)
Local(r, p) ==
  /\ Up(p)
  /\ pc[r][p] \in {"insert", "store", "find", "put", "remove", "unlink"}
  /\ UNCHANGED <<ring, clients, entering, crashes>>
  /\ \/ UNCHANGED status /\ \E s \in {"store", "put", "unlink", "lock", "done"} : Goto(r, p, s)
     \/ UNCHANGED pc /\ \E f \in {"freed", "overrun"} : Fault(p, f)

LEMMA LocalStep ==
  ASSUME NEW r \in Request, NEW p \in Peer,
         \/ AddInsert(r, p) \/ AddStore(r, p)
         \/ KeywordFind(r, p) \/ KeywordPut(r, p)
         \/ DeleteRemove(r, p) \/ DeleteUnlink(r, p)
  PROVE  Local(r, p)
<1>1. After(r, p) \in {"lock", "done"}
  BY DEF After
<1>2. CASE AddInsert(r, p) \/ AddStore(r, p)
  BY <1>1, <1>2 DEF AddInsert, AddStore, Local, members
<1>3. CASE KeywordFind(r, p) \/ KeywordPut(r, p)
  BY <1>1, <1>3 DEF KeywordFind, KeywordPut, Local, members
<1>4. CASE DeleteRemove(r, p) \/ DeleteUnlink(r, p)
  BY <1>1, <1>4 DEF DeleteRemove, DeleteUnlink, Local, members
<1> QED
  BY <1>2, <1>3, <1>4

(* A step of any kind, by what it does to threads, rings and members.        *)
LEMMA StepCases ==
  ASSUME [Next]_vars
  PROVE  \/ \E r \in Request, p \in Peer :
              \/ Issue(r, p) \/ Local(r, p) \/ BcastLock(r, p) \/ BcastSend(r, p)
              \/ BcastDrop(r, p) \/ BcastEnd(r, p)
         \/ Join
         \/ \E q \in Peer : JoinRegister(q) \/ Crash(q)
         \/ UNCHANGED vars
BY LocalStep DEF Next, Handle
-----------------------------------------------------------------------------
(* m is list l without the node of key k, which was not there twice.         *)
Without(m, l, k) ==
  /\ \A i, j \in 1..Len(m) : m[i] = m[j] => i = j
  /\ \A i \in 1..Len(m) : m[i] # k /\ \E h \in 1..Len(l) : m[i] = l[h]

LEMMA RemoveProperly ==
  ASSUME NEW S, NEW l \in Seq(S), NEW k,
         \A i, j \in 1..Len(l) : l[i] = l[j] => i = j
  PROVE  Without(ring_remove(l, k), l, k)
<1> DEFINE m == ring_remove(l, k)
<1>1. Len(l) \in Nat
  BY LenProperties
<1>2. CASE \E i \in 1..Len(l) : l[i] = k
  <2>1. PICK j \in 1..Len(l) :
          /\ l[j] = k /\ \A i \in 1..Len(l) : i < j => l[i] # k
          /\ m \in Seq(S) /\ Len(m) = Len(l) - 1
          /\ \A i \in 1..(Len(l) - 1) : m[i] = IF i < j THEN l[i] ELSE l[i + 1]
    BY <1>2, RingRemoveKey
  <2> HIDE DEF m
  <2> DEFINE from(i) == IF i < j THEN i ELSE i + 1
  <2>2. \A i \in 1..Len(m) : from(i) \in 1..Len(l) /\ from(i) # j /\ m[i] = l[from(i)]
    <3>1. SUFFICES ASSUME NEW i \in 1..Len(m)
                   PROVE  from(i) \in 1..Len(l) /\ from(i) # j /\ m[i] = l[from(i)]
      OBVIOUS
    <3>2. i \in 1..(Len(l) - 1)
      BY <2>1
    <3> QED
      BY <1>1, <2>1, <3>2
  <2>3. \A i, h \in 1..Len(m) : from(i) = from(h) => i = h
    <3>1. j \in Int
      OBVIOUS
    <3> QED
      BY <3>1
  <2> HIDE DEF from
  <2>4. \A i, h \in 1..Len(m) : m[i] = m[h] => i = h
    BY <2>2, <2>3
  <2>5. \A i \in 1..Len(m) : m[i] # k /\ \E h \in 1..Len(l) : m[i] = l[h]
    BY <2>1, <2>2
  <2> QED
    BY <2>4, <2>5 DEF m, Without
<1>3. CASE ~ \E i \in 1..Len(l) : l[i] = k
  BY <1>3, RingRemoveNone DEF Without
<1> QED
  BY <1>2, <1>3

LEMMA RemoveProper ==
  ASSUME NEW S, NEW l \in Seq(S), NEW p, NEW k, Proper(l, p)
  PROVE  Proper(ring_remove(l, k), p)
<1>1. Without(ring_remove(l, k), l, k)
  BY RemoveProperly DEF Proper
<1> QED
  BY <1>1 DEF Proper, Without

LEMMA AppendProper ==
  ASSUME NEW S, NEW l \in Seq(S), NEW p, NEW k \in S, Proper(l, p), k # p,
         k \notin ToSet(l)
  PROVE  Proper(ring_append(l, k), p)
<1> DEFINE m == ring_append(l, k)
<1>1. /\ Len(l) \in Nat /\ Len(m) = Len(l) + 1 /\ m[Len(l) + 1] = k
      /\ \A i \in 1..Len(l) : m[i] = l[i]
  BY LenProperties, AppendProperties DEF ring_append
<1>2. \A i \in 1..Len(l) : l[i] # k
  BY LenProperties DEF ToSet
<1> HIDE DEF m
<1>3. \A i \in 1..Len(m) : i \in 1..Len(l) \/ i = Len(l) + 1
  BY <1>1
<1>4. \A i \in 1..Len(m) : m[i] # p
  BY <1>1, <1>3 DEF Proper
<1>5. \A i, j \in 1..Len(m) : m[i] = m[j] => i = j
  BY <1>1, <1>2, <1>3 DEF Proper
<1> QED
  BY <1>4, <1>5 DEF Proper, m

LEMMA OnceInit == Init => OnceInv
<1> SUFFICES ASSUME Init PROVE OnceInv
  OBVIOUS
<1>1. Rings
  <2>1. SUFFICES ASSUME NEW p \in Peer PROVE Proper(RingOf(p), p)
    BY DEF Init, Rings
  <2>2. Members \in Seq(Peer) /\ Proper(Members, NoPeer)
    <3>1. \A i \in 1..Len(Members) : Members[i] # NoPeer
      BY FirstMember, ReplicationAssumption
    <3> QED
      BY <3>1, ReplicationAssumption DEF Proper
  <2>3. Proper(ring_remove(Members, p), NoPeer)
    BY <2>2, RemoveProper
  <2>4. \A i \in 1..Len(ring_remove(Members, p)) : ring_remove(Members, p)[i] # p
    <3>1. Without(ring_remove(Members, p), Members, p)
      BY <2>2, RemoveProperly DEF Proper
    <3> QED
      BY <3>1 DEF Without
  <2> QED
    BY <2>3, <2>4 DEF RingOf, Proper
<1>2. Entries
  <2>1. SUFFICES ASSUME NEW q \in Peer, Joiner # NoPeer
                 PROVE  Joiner \notin ToSet(RingOf(q))
    BY DEF Init, Entries, Entered
  <2>2. Joiner \notin ToSet(Members) /\ Members \in Seq(Peer)
    BY <2>1, FirstMember, ReplicationAssumption
  <2> QED
    BY <2>2, RingRemoveSet DEF RingOf
<1>3. Outside /\ Untolds
  BY ReplicationAssumption DEF Init, Outside, Untolds, NoOp
<1> QED
  BY <1>1, <1>2, <1>3 DEF OnceInv

(* A ring changes by losing a peer that refuses, or by the registration of   *)
(* the joiner.                                                               *)
LEMMA RingsStep ==
  ASSUME TypeInv, OnceInv, [Next]_vars
  PROVE  Rings'
<1>1. WalkTypes /\ Rings /\ Entries
  BY DEF TypeInv, WalkInv, OnceInv
<1>2. ASSUME NEW q \in Peer, Register(q), Joiner # NoPeer, q # Joiner,
             Joiner \notin ToSet(peer_list[q])
      PROVE  Rings'
  <2>1. peer_list' = [peer_list EXCEPT ![q] = ring_append(@, Joiner)]
    BY <1>2 DEF Register
  <2>2. peer_list[q] \in Seq(Peer) /\ Joiner \in Peer /\ Proper(peer_list[q], q)
    BY <1>1, <1>2, FirstMember DEF WalkTypes, Rings
  <2>3. Proper(ring_append(peer_list[q], Joiner), q)
    BY <1>2, <2>2, AppendProper
  <2>4. \A p \in Peer : peer_list'[p] = IF p = q THEN ring_append(peer_list[q], Joiner)
                                        ELSE peer_list[p]
    BY <1>1, <2>1 DEF WalkTypes
  <2> QED
    BY <1>1, <2>3, <2>4 DEF Rings
<1>3. CASE JoinAsk
  <2>1. CASE Up(First)
    <3>1. Register(First) /\ Joiner # NoPeer /\ status[Joiner] = "outside"
      BY <1>3, <2>1 DEF JoinAsk
    <3>2. First \in Peer /\ First # Joiner
      BY <3>1, FirstMember
    <3>3. Joiner \notin ToSet(peer_list[First])
      BY <1>1, <3>1, <3>2 DEF Entries, Entered
    <3> QED
      BY <1>2, <3>1, <3>2, <3>3
  <2>2. CASE ~Up(First)
    BY <1>1, <1>3, <2>2 DEF JoinAsk, Rings
  <2> QED
    BY <2>1, <2>2
<1>4. ASSUME NEW q \in Peer, JoinRegister(q) PROVE Rings'
  <2>1. Register(q) /\ entering[q] = "told"
    BY <1>4 DEF JoinRegister
  <2>2. Joiner # NoPeer /\ q \in ToSet(Members)
    BY <1>1, <2>1 DEF Entries, Entered
  <2>3. q # Joiner
    BY <2>2, FirstMember
  <2>4. Joiner \notin ToSet(peer_list[q])
    BY <1>1, <2>1, <2>2, <2>3 DEF Entries, Entered
  <2> QED
    BY <1>2, <2>1, <2>2, <2>3, <2>4
<1>5. ASSUME NEW r \in Request, NEW p \in Peer, BcastDrop(r, p) PROVE Rings'
  <2>1. PICK k : peer_list' = [peer_list EXCEPT ![p] = ring_remove(@, k)]
    BY <1>5 DEF BcastDrop, Drop
  <2>2. peer_list[p] \in Seq(Peer) /\ Proper(peer_list[p], p)
    BY <1>1 DEF WalkTypes, Rings
  <2>3. Proper(ring_remove(peer_list[p], k), p)
    BY <2>2, RemoveProper
  <2>4. \A q \in Peer : peer_list'[q] = IF q = p THEN ring_remove(peer_list[p], k)
                                        ELSE peer_list[q]
    BY <1>1, <2>1 DEF WalkTypes
  <2> QED
    BY <1>1, <2>3, <2>4 DEF Rings
<1>6. UNCHANGED peer_list => Rings'
  BY <1>1 DEF Rings
<1>7. \/ UNCHANGED peer_list \/ JoinAsk
      \/ \E q \in Peer : JoinRegister(q)
      \/ \E r \in Request, p \in Peer : BcastDrop(r, p)
  <2>1. ASSUME NEW r \in Request, NEW p \in Peer,
               \/ Issue(r, p) \/ Local(r, p) \/ BcastLock(r, p) \/ BcastSend(r, p)
               \/ BcastEnd(r, p)
        PROVE  UNCHANGED peer_list
    BY <2>1 DEF Issue, Local, BcastLock, BcastSend, BcastEnd, ring
  <2>2. ASSUME Join, ~JoinAsk PROVE UNCHANGED peer_list
    BY <2>2 DEF Join, JoinPhotos, JoinNoPhotos, JoinTell, JoinListen, ring
  <2>3. ASSUME NEW q \in Peer, Crash(q) PROVE UNCHANGED peer_list
    BY <2>3 DEF Crash, ring
  <2>4. UNCHANGED vars => UNCHANGED peer_list
    BY DEF vars, ring
  <2> QED
    BY StepCases, <2>1, <2>2, <2>3, <2>4
<1> QED
  BY <1>3, <1>4, <1>5, <1>6, <1>7

(* The joiner stays where it is while rings lose peers only and it does not  *)
(* go back outside.                                                          *)
LEMMA EntriesStay ==
  ASSUME Entries, UNCHANGED entering,
         \A q \in Peer : ToSet(peer_list'[q]) \subseteq ToSet(peer_list[q]),
         Joiner # NoPeer /\ status[Joiner] # "outside" => status'[Joiner] # "outside"
  PROVE  Entries'
BY DEF Entries, Entered

LEMMA EntriesStep ==
  ASSUME TypeInv, OnceInv, [Next]_vars
  PROVE  Entries'
<1>1. WalkTypes /\ StateTypes /\ Entries
  BY DEF TypeInv, WalkInv, OnceInv
<1>2. \A q \in Peer : q # Joiner \/ q \notin ToSet(Members) \/ Joiner = NoPeer
  BY FirstMember
<1>3. ASSUME NEW r \in Request, NEW p \in Peer,
             \/ Issue(r, p) \/ Local(r, p) \/ BcastLock(r, p) \/ BcastSend(r, p)
             \/ BcastEnd(r, p)
      PROVE  Entries'
  <2>1. UNCHANGED <<peer_list, entering>>
    BY <1>3 DEF Issue, Local, BcastLock, BcastSend, BcastEnd, ring, members
  <2>2. UNCHANGED status \/ \E f \in {"freed", "overrun", "nofile"} : Fault(p, f)
    BY <1>3 DEF Issue, Local, BcastLock, BcastSend, BcastEnd, members
  <2>3. Joiner # NoPeer /\ status[Joiner] # "outside" => status'[Joiner] # "outside"
    BY <1>1, <2>2, FirstMember DEF StateTypes, Fault
  <2> QED
    BY <1>1, <2>1, <2>3, EntriesStay
<1>4. ASSUME NEW r \in Request, NEW p \in Peer, BcastDrop(r, p) PROVE Entries'
  <2>1. PICK k : peer_list' = [peer_list EXCEPT ![p] = ring_remove(@, k)]
    BY <1>4 DEF BcastDrop, Drop
  <2>2. ToSet(ring_remove(peer_list[p], k)) \subseteq ToSet(peer_list[p])
    BY <1>1, RingRemoveSet DEF WalkTypes
  <2>3. \A q \in Peer : ToSet(peer_list'[q]) \subseteq ToSet(peer_list[q])
    BY <1>1, <2>1, <2>2 DEF WalkTypes
  <2> QED
    BY <1>1, <1>4, <2>3, EntriesStay DEF BcastDrop, members
<1>5. ASSUME NEW q \in Peer, Crash(q) PROVE Entries'
  <2>1. UNCHANGED <<peer_list, entering>> /\ Fault(q, "crashed")
    BY <1>5 DEF Crash, ring
  <2>2. Joiner # NoPeer /\ status[Joiner] # "outside" => status'[Joiner] # "outside"
    BY <1>1, <2>1, FirstMember DEF StateTypes, Fault
  <2> QED
    BY <1>1, <2>1, <2>2, EntriesStay
<1>6. CASE UNCHANGED vars
  BY <1>1, <1>6, EntriesStay DEF vars, ring, members
<1>7. ASSUME NEW q \in Peer, q \in ToSet(Members), Joiner # NoPeer, Register(q),
             NEW s \in {"asked", "known"}, entering' = [entering EXCEPT ![q] = s],
             s = "asked" => q = First, status'[Joiner] # "outside"
      PROVE  Entries'
  <2>1. \A p \in Peer : p # q => peer_list'[p] = peer_list[p] /\ entering'[p] = entering[p]
    BY <1>1, <1>7 DEF WalkTypes, StateTypes, Register
  <2>2. entering'[q] = s
    BY <1>1, <1>7 DEF StateTypes
  <2> QED
    BY <1>1, <1>7, <2>1, <2>2 DEF Entries, Entered
<1>8. CASE JoinAsk
  <2>1. Joiner # NoPeer /\ Joiner \in Peer /\ First \in Peer /\ First \in ToSet(Members)
    BY <1>8, FirstMember DEF JoinAsk
  <2>2. CASE Up(First)
    <3>1. /\ Register(First) /\ entering' = [entering EXCEPT ![First] = "asked"]
          /\ status'[Joiner] = "joining"
      BY <1>1, <1>8, <2>1, <2>2 DEF JoinAsk, StateTypes
    <3> QED
      BY <1>7, <2>1, <3>1
  <2>3. CASE ~Up(First)
    <3>1. UNCHANGED <<peer_list, entering>> /\ status'[Joiner] = "exited"
      BY <1>1, <1>8, <2>1, <2>3 DEF JoinAsk, Fault, StateTypes
    <3> QED
      BY <1>1, <3>1, EntriesStay
  <2> QED
    BY <2>2, <2>3
<1>9. ASSUME NEW q \in Peer, JoinRegister(q) PROVE Entries'
  <2>1. /\ Register(q) /\ entering[q] = "told" /\ UNCHANGED status
        /\ entering' = [entering EXCEPT ![q] = "known"]
    BY <1>9 DEF JoinRegister
  <2>2. Joiner # NoPeer /\ q \in ToSet(Members) /\ status[Joiner] # "outside"
    BY <1>1, <2>1 DEF Entries, Entered
  <2> QED
    BY <1>7, <2>1, <2>2
<1>10. CASE JoinPhotos \/ JoinNoPhotos \/ JoinListen
  <2>1. Joiner # NoPeer /\ Joiner \in Peer /\ First \in Peer /\ status[Joiner] = "joining"
    BY <1>10, FirstMember DEF JoinPhotos, JoinNoPhotos, JoinListen
  <2>2. /\ UNCHANGED peer_list
        /\ \/ UNCHANGED status
           \/ \E p \in Peer, f \in {"nofile", "exited", "up"} : status' = [status EXCEPT ![p] = f]
        /\ \/ UNCHANGED entering
           \/ entering[First] = "asked" /\ entering' = [entering EXCEPT ![First] = "known"]
    BY <1>10, <2>1 DEF JoinPhotos, JoinNoPhotos, JoinListen, ring, Fault
  <2>3. status'[Joiner] # "outside"
    BY <1>1, <2>1, <2>2 DEF StateTypes
  <2>4. CASE UNCHANGED entering
    BY <1>1, <2>2, <2>3, <2>4, EntriesStay
  <2>5. CASE entering[First] = "asked" /\ entering' = [entering EXCEPT ![First] = "known"]
    <3>1. \A q \in Peer : entering'[q] = IF q = First THEN "known" ELSE entering[q]
      BY <1>1, <2>5 DEF StateTypes
    <3> QED
      BY <1>1, <2>1, <2>2, <2>3, <2>5, <3>1 DEF Entries, Entered
  <2> QED
    BY <2>2, <2>4, <2>5
<1>11. CASE JoinTell
  <2> DEFINE q == Members[NextTold]
  <2>1. Joiner # NoPeer /\ Joiner \in Peer /\ status[Joiner] = "joining"
    BY <1>11, FirstMember DEF JoinTell
  <2>2. NextTold \in 2..Len(Members) /\ entering[q] = "unknown"
    BY <1>11, NextToldUnknown DEF JoinTell
  <2>3. q \in Peer /\ q \in ToSet(Members) /\ q # First
    BY <2>2, FirstMember
  <2>4. /\ UNCHANGED peer_list
        /\ \/ UNCHANGED status /\ entering' = [entering EXCEPT ![q] = "told"]
           \/ UNCHANGED entering /\ Fault(Joiner, "exited")
    BY <1>11 DEF JoinTell, ring
  <2> HIDE DEF q
  <2>5. status'[Joiner] # "outside"
    BY <1>1, <2>1, <2>4 DEF StateTypes, Fault
  <2>6. CASE UNCHANGED entering
    BY <1>1, <2>4, <2>5, <2>6, EntriesStay
  <2>7. CASE entering' = [entering EXCEPT ![q] = "told"]
    <3>1. \A p \in Peer : entering'[p] = IF p = q THEN "told" ELSE entering[p]
      BY <1>1, <2>7 DEF StateTypes
    <3>2. q # Joiner
      BY <2>1, <2>3, FirstMember
    <3> QED
      BY <1>1, <2>1, <2>2, <2>3, <2>4, <2>5, <3>1, <3>2 DEF Entries, Entered
  <2> QED
    BY <2>4, <2>6, <2>7
<1> QED
  BY StepCases, <1>3, <1>4, <1>5, <1>6, <1>8, <1>9, <1>10, <1>11 DEF Join
-----------------------------------------------------------------------------
LEMMA OutsideStep ==
  ASSUME TypeInv, OnceInv, [Next]_vars
  PROVE  Outside'
<1>1. WalkTypes /\ StateTypes /\ Outside
  BY DEF TypeInv, WalkInv, OnceInv
<1>2. ASSUME UNCHANGED pc,
             \A p \in Peer : status'[p] \in {"outside", "joining"} =>
               status[p] \in {"outside", "joining"}
      PROVE  Outside'
  BY <1>1, <1>2 DEF Outside
<1>3. ASSUME NEW r \in Request, NEW q \in Peer, NEW s, Goto(r, q, s), Up(q), UNCHANGED status
      PROVE  Outside'
  <2>1. \A t \in Request, p \in Peer : p # q => pc'[t][p] = pc[t][p]
    BY <1>1, <1>3 DEF Goto, WalkTypes
  <2> QED
    BY <1>1, <1>3, <2>1 DEF Outside, Up
<1>4. ASSUME NEW p \in Peer, NEW f \in {"freed", "overrun", "nofile", "crashed", "exited", "up"},
             status' = [status EXCEPT ![p] = f], UNCHANGED pc
      PROVE  Outside'
  BY <1>1, <1>2, <1>4 DEF StateTypes
<1>5. CASE UNCHANGED <<pc, status>>
  BY <1>2, <1>5
<1>6. ASSUME NEW r \in Request, NEW p \in Peer,
             \/ Issue(r, p) \/ Local(r, p) \/ BcastLock(r, p) \/ BcastDrop(r, p)
             \/ BcastEnd(r, p)
      PROVE  Outside'
  <2>1. \/ UNCHANGED <<pc, status>>
        \/ UNCHANGED pc /\ \E f \in {"freed", "overrun"} : Fault(p, f)
        \/ Up(p) /\ UNCHANGED status /\ \E s : Goto(r, p, s)
    BY <1>6 DEF Issue, Local, BcastLock, BcastDrop, BcastEnd, members
  <2> QED
    BY <1>3, <1>4, <1>5, <2>1 DEF Fault
<1>7. ASSUME NEW r \in Request, NEW p \in Peer, BcastSend(r, p) PROVE Outside'
  <2> DEFINE q == peer_list[p][cursor[r]]
  <2>1. q \in Peer
    <3>1. cursor[r] \in Nat \ {0} /\ Len(peer_list[p]) \in Nat /\ cursor[r] <= Len(peer_list[p])
      BY <1>1, <1>7, RingPeers DEF WalkTypes, BcastSend, Tell
    <3>2. cursor[r] \in 1..Len(peer_list[p])
      BY <3>1
    <3> QED
      BY <1>1, <3>2, RingPeers
  <2>2. \/ UNCHANGED pc /\ Fault(p, "nofile")
        \/ Up(q) /\ UNCHANGED status /\ Goto(r, q, Start(req[r].op))
    BY <1>7 DEF BcastSend
  <2> HIDE DEF q
  <2> QED
    BY <1>3, <1>4, <2>1, <2>2 DEF Fault
<1>8. CASE JoinAsk
  <2>1. Joiner \in Peer /\ status[Joiner] = "outside" /\ UNCHANGED pc
    BY <1>8, FirstMember DEF JoinAsk
  <2>2. \A p \in Peer : p # Joiner => status'[p] = status[p]
    BY <1>1, <1>8 DEF JoinAsk, Fault, StateTypes
  <2> QED
    BY <1>1, <2>1, <2>2 DEF Outside
<1>9. CASE JoinPhotos \/ JoinNoPhotos \/ JoinTell \/ JoinListen
  <2>1. Joiner \in Peer /\ First \in Peer
    BY <1>9, FirstMember DEF JoinPhotos, JoinNoPhotos, JoinTell, JoinListen
  <2>2. /\ UNCHANGED pc
        /\ \/ UNCHANGED status
           \/ \E p \in Peer, f \in {"nofile", "exited", "up"} : status' = [status EXCEPT ![p] = f]
    BY <1>9, <2>1 DEF JoinPhotos, JoinNoPhotos, JoinTell, JoinListen, Fault
  <2> QED
    BY <1>4, <1>5, <2>2
<1>10. ASSUME NEW q \in Peer, JoinRegister(q) \/ Crash(q) PROVE Outside'
  BY <1>4, <1>5, <1>10 DEF JoinRegister, Crash, Fault
<1>11. CASE UNCHANGED vars
  BY <1>5, <1>11 DEF vars, members
<1> QED
  BY StepCases, <1>6, <1>7, <1>8, <1>9, <1>10, <1>11 DEF Join

(* A request is told to nobody who knows of it already.                      *)
LEMMA ToldOnce ==
  ASSUME TypeInv, OnceInv, NEW r \in Request, NEW p \in Peer, BcastSend(r, p)
  PROVE  /\ cursor[r] \in 1..Len(peer_list[p])
         /\ peer_list[p][cursor[r]] \in Peer /\ peer_list[p][cursor[r]] # p
         /\ pc[r][peer_list[p][cursor[r]]] = "none"
         /\ p = req[r].home
<1>1. WalkTypes /\ Threads /\ Rings /\ Untolds
  BY DEF TypeInv, WalkInv, OnceInv
<1>2. pc[r][p] = "bcast" /\ cursor[r] <= Len(peer_list[p])
  BY DEF BcastSend, Tell
<1>3. cursor[r] \in Nat \ {0} /\ Len(peer_list[p]) \in Nat
  BY <1>1, RingPeers DEF WalkTypes
<1>4. cursor[r] \in 1..Len(peer_list[p]) /\ cursor[r] >= cursor[r]
  BY <1>2, <1>3
<1>5. p = req[r].home
  BY <1>1, <1>2 DEF Threads
<1>6. pc[r][peer_list[p][cursor[r]]] = "none"
  BY <1>1, <1>2, <1>4, <1>5 DEF Untolds, Untold
<1> QED
  BY <1>1, <1>4, <1>5, <1>6, RingPeers DEF Rings, Proper

(* The state of a request at its home stays as it is while its threads, its  *)
(* cursor and the ring of its home do.                                       *)
LEMMA UntoldStays ==
  ASSUME NEW r \in Request, NEW p \in Peer, Untold(r, p),
         \A q \in Peer : pc'[r][q] = pc[r][q],
         pc[r][p] = "bcast" => /\ cursor'[r] = cursor[r] /\ peer_list'[p] = peer_list[p]
                               /\ \A i \in 1..Len(peer_list[p]) : peer_list[p][i] \in Peer
  PROVE  Untold(r, p)'
BY DEF Untold

LEMMA UntoldsStep ==
  ASSUME TypeInv, OnceInv, [Next]_vars
  PROVE  Untolds'
<1>1. WalkTypes /\ Threads /\ Walks /\ DataTypes /\ Orders /\ Rings /\ Untolds
  BY DEF TypeInv, WalkInv, OnceInv
<1>2. \A p \in Peer : \A i \in 1..Len(peer_list[p]) : peer_list[p][i] \in Peer
  BY <1>1, RingPeers
<1>3. ASSUME UNCHANGED <<pc, req>>,
             \A r \in Request, p \in Peer : pc[r][p] = "bcast" =>
               cursor'[r] = cursor[r] /\ peer_list'[p] = peer_list[p]
      PROVE  Untolds'
  BY <1>1, <1>2, <1>3, UntoldStays DEF Untolds
<1>4. ASSUME NEW r \in Request, NEW p \in Peer, NEW s, s \notin {"none", "bcast"},
             Goto(r, p, s), pc[r][p] \notin {"none", "done"}, pc[r][p] = "bcast" => s = "done",
             UNCHANGED <<req, cursor, peer_list>>
      PROVE  Untolds'
  <2>1. /\ pc'[r][p] = s
        /\ \A t \in Request, q \in Peer : t # r \/ q # p => pc'[t][q] = pc[t][q]
    BY <1>1, <1>4 DEF Goto, WalkTypes
  <2>2. SUFFICES ASSUME NEW t \in Request, NEW h \in Peer, req[t].home = h
                 PROVE  Untold(t, h)'
    BY <1>4 DEF Untolds
  <2>3. Untold(t, h)
    BY <1>1, <2>2 DEF Untolds
  <2>4. CASE t # r
    BY <1>2, <1>4, <2>1, <2>3, <2>4, UntoldStays
  <2>5. CASE t = r /\ h = p
    BY <1>4, <2>1, <2>3, <2>5 DEF Untold
  <2>6. CASE t = r /\ h # p
    <3>1. pc[r][h] \in {"bcast", "done"} /\ pc'[r][h] = pc[r][h]
      BY <1>4, <2>1, <2>3, <2>6 DEF Untold
    <3>2. \A i \in 1..Len(peer_list[h]) : pc[r][peer_list[h][i]] = "none" =>
            peer_list[h][i] # p /\ pc'[r][peer_list[h][i]] = "none"
      BY <1>2, <1>4, <2>1
    <3> QED
      BY <1>4, <2>3, <2>6, <3>1, <3>2 DEF Untold
  <2> QED
    BY <2>4, <2>5, <2>6
<1>5. ASSUME NEW r \in Request, NEW p \in Peer, Issue(r, p) PROVE Untolds'
  <2>1. /\ req[r].op = "none" /\ UNCHANGED <<cursor, peer_list>>
        /\ pc' = [pc EXCEPT ![r][p] = Start(req'[r].op)]
    BY <1>5 DEF Issue, Goto, ring
  <2>2. /\ req'[r].op \in {"add", "keyword", "delete"} /\ req'[r].home = p
        /\ \A t \in Request : t # r => req'[t] = req[t]
    <3>1. \E o \in {"add", "keyword", "delete"} : \E id, k :
            req' = [req EXCEPT ![r] = [op |-> o, photo |-> id, keyword |-> k, home |-> p]]
      BY <1>5 DEF Issue
    <3>2. PICK o \in {"add", "keyword", "delete"} : \E id, k :
            req' = [req EXCEPT ![r] = [op |-> o, photo |-> id, keyword |-> k, home |-> p]]
      BY <3>1
    <3>3. PICK id, k :
            req' = [req EXCEPT ![r] = [op |-> o, photo |-> id, keyword |-> k, home |-> p]]
      BY <3>2
    <3>4. req'[r] = [op |-> o, photo |-> id, keyword |-> k, home |-> p]
      BY <1>1, <3>3 DEF DataTypes
    <3>5. \A t \in Request : t # r => req'[t] = req[t]
      BY <1>1, <3>3 DEF DataTypes
    <3> QED
      BY <3>4, <3>5
  <2>3. /\ pc'[r][p] \notin {"none", "bcast", "done"}
        /\ \A t \in Request, q \in Peer : t # r \/ q # p => pc'[t][q] = pc[t][q]
        /\ \A q \in Peer : pc[r][q] = "none"
    BY <1>1, <2>1, <2>2 DEF WalkTypes, Threads, Start
  <2>4. SUFFICES ASSUME NEW t \in Request, NEW h \in Peer, req'[t].home = h
                 PROVE  Untold(t, h)'
    BY DEF Untolds
  <2>5. CASE t = r
    BY <2>2, <2>3, <2>4, <2>5 DEF Untold
  <2>6. CASE t # r
    BY <1>1, <1>2, <2>1, <2>2, <2>3, <2>4, <2>6, UntoldStays DEF Untolds
  <2> QED
    BY <2>5, <2>6
<1>6. ASSUME NEW r \in Request, NEW p \in Peer, Local(r, p) PROVE Untolds'
  <2>1. UNCHANGED <<req, cursor, peer_list>>
    BY <1>6 DEF Local, ring, clients
  <2>2. CASE UNCHANGED pc
    BY <1>3, <2>1, <2>2
  <2>3. CASE \E s \in {"store", "put", "unlink", "lock", "done"} : Goto(r, p, s)
    <3>1. PICK s \in {"store", "put", "unlink", "lock", "done"} : Goto(r, p, s)
      BY <2>3
    <3>2. pc[r][p] \notin {"none", "done", "bcast"}
      BY <1>6 DEF Local
    <3> QED
      BY <1>4, <2>1, <3>1, <3>2
  <2> QED
    BY <1>6, <2>2, <2>3 DEF Local
<1>7. ASSUME NEW r \in Request, NEW p \in Peer, BcastLock(r, p) PROVE Untolds'
  <2>1. /\ pc[r][p] = "lock" /\ UNCHANGED <<req, peer_list>>
        /\ cursor' = [cursor EXCEPT ![r] = 1] /\ pc' = [pc EXCEPT ![r][p] = "bcast"]
    BY <1>7 DEF BcastLock, Goto, clients
  <2>2. /\ pc'[r][p] = "bcast"
        /\ \A t \in Request, q \in Peer : t # r \/ q # p => pc'[t][q] = pc[t][q]
        /\ \A t \in Request : t # r => cursor'[t] = cursor[t]
    BY <1>1, <2>1 DEF WalkTypes
  <2>3. req[r].home = p /\ Untold(r, p)
    BY <1>1, <2>1 DEF Threads, Untolds
  <2>4. SUFFICES ASSUME NEW t \in Request, NEW h \in Peer, req[t].home = h
                 PROVE  Untold(t, h)'
    BY <2>1 DEF Untolds
  <2>5. CASE t = r
    <3>1. \A q \in Peer \ {p} : pc'[r][q] = "none"
      BY <2>1, <2>2, <2>3 DEF Untold
    <3>2. \A i \in 1..Len(peer_list[p]) : pc'[r][peer_list[p][i]] = "none"
      BY <1>1, <1>2, <3>1 DEF Rings, Proper
    <3> QED
      BY <2>1, <2>2, <2>3, <2>4, <2>5, <3>2 DEF Untold
  <2>6. CASE t # r
    BY <1>1, <1>2, <2>1, <2>2, <2>4, <2>6, UntoldStays DEF Untolds
  <2> QED
    BY <2>5, <2>6
<1>8. ASSUME NEW r \in Request, NEW p \in Peer, BcastSend(r, p) PROVE Untolds'
  <2> DEFINE c == cursor[r]
             q == peer_list[p][c]
  <2>1. /\ c \in 1..Len(peer_list[p]) /\ q \in Peer /\ q # p /\ pc[r][q] = "none"
        /\ p = req[r].home
    BY <1>8, ToldOnce
  <2>2. UNCHANGED <<req, peer_list>>
    BY <1>8 DEF BcastSend, clients
  <2>3. CASE UNCHANGED <<pc, cursor>>
    BY <1>3, <2>2, <2>3
  <2>4. CASE Goto(r, q, Start(req[r].op)) /\ cursor' = [cursor EXCEPT ![r] = @ + 1]
    <3>1. c \in Nat /\ cursor'[r] = c + 1 /\ \A t \in Request : t # r => cursor'[t] = cursor[t]
      BY <1>1, <2>4 DEF WalkTypes
    <3>2. \A t \in Request, k \in Peer : t # r \/ k # q => pc'[t][k] = pc[t][k]
      BY <1>1, <2>1, <2>4 DEF WalkTypes, Goto
    <3>3. pc[r][p] = "bcast" /\ Untold(r, p)
      BY <1>1, <1>8, <2>1 DEF BcastSend, Untolds
    <3>4. SUFFICES ASSUME NEW t \in Request, NEW h \in Peer, req[t].home = h
                   PROVE  Untold(t, h)'
      BY <2>2 DEF Untolds
    <3>5. CASE t = r
      <4>1. h = p /\ pc'[r][p] = "bcast"
        BY <2>1, <3>2, <3>3, <3>4, <3>5
      <4>2. ASSUME NEW i \in 1..Len(peer_list[p]), i >= c + 1
            PROVE  pc'[r][peer_list[p][i]] = "none"
        <5>1. i # c /\ i >= c
          BY <3>1, <4>2
        <5>2. peer_list[p][i] # q
          BY <1>1, <2>1, <5>1 DEF Rings, Proper
        <5>3. pc[r][peer_list[p][i]] = "none"
          BY <3>3, <5>1 DEF Untold
        <5> QED
          BY <1>2, <3>2, <5>2, <5>3
      <4> QED
        BY <2>2, <3>1, <3>5, <4>1, <4>2 DEF Untold
    <3>6. CASE t # r
      BY <1>1, <1>2, <2>2, <3>1, <3>2, <3>4, <3>6, UntoldStays DEF Untolds
    <3> QED
      BY <3>5, <3>6
  <2> QED
    BY <1>8, <2>3, <2>4 DEF BcastSend
<1>9. ASSUME NEW r \in Request, NEW p \in Peer, BcastDrop(r, p) PROVE Untolds'
  <2> DEFINE c == cursor[r]
             l == peer_list[p]
  <2>1. /\ UNCHANGED <<req, pc, cursor>> /\ pc[r][p] = "bcast" /\ c <= Len(l)
        /\ peer_list' = [peer_list EXCEPT ![p] = ring_remove(l, l[c])]
    BY <1>9 DEF BcastDrop, Drop, Tell, clients, members
  <2>2. c \in Nat \ {0} /\ Len(l) \in Nat /\ l \in Seq(Peer)
    BY <1>1, RingPeers DEF WalkTypes
  <2>3. c \in 1..Len(l)
    BY <2>1, <2>2
  <2>4. /\ peer_list'[p] = ring_remove(l, l[c])
        /\ \A q \in Peer : q # p => peer_list'[q] = peer_list[q]
    BY <1>1, <2>1 DEF WalkTypes
  <2>5. req[r].home = p /\ Untold(r, p) /\ Proper(l, p)
    BY <1>1, <2>1 DEF Threads, Untolds, Rings
  <2>6. SUFFICES ASSUME NEW t \in Request, NEW h \in Peer, req[t].home = h
                 PROVE  Untold(t, h)'
    BY <2>1 DEF Untolds
  <2>7. CASE t = r
    <3>1. \A i \in 1..Len(l) : i >= c => pc[r][l[i]] = "none"
      BY <2>1, <2>5 DEF Untold
    <3> HIDE DEF l, c
    <3>2. PICK j \in 1..Len(l) :
            /\ l[j] = l[c] /\ \A i \in 1..Len(l) : i < j => l[i] # l[c]
            /\ ring_remove(l, l[c]) \in Seq(Peer)
            /\ Len(ring_remove(l, l[c])) = Len(l) - 1
            /\ \A i \in 1..(Len(l) - 1) :
                 ring_remove(l, l[c])[i] = IF i < j THEN l[i] ELSE l[i + 1]
      BY <2>2, <2>3, RingRemoveKey
    <3>3. j = c
      BY <2>3, <2>5, <3>2 DEF Proper
    <3>4. ASSUME NEW i \in 1..(Len(l) - 1), i >= c
          PROVE  pc[r][ring_remove(l, l[c])[i]] = "none"
      <4>1. i + 1 \in 1..Len(l) /\ i + 1 >= c /\ ~(i < j)
        BY <2>2, <3>3, <3>4
      <4> QED
        BY <3>1, <3>2, <4>1
    <3>5. cursor'[r] = c /\ h = p /\ pc' = pc
      BY <2>1, <2>5, <2>6, <2>7 DEF c
    <3> QED
      BY <2>1, <2>4, <2>7, <3>2, <3>4, <3>5 DEF Untold
  <2>8. CASE t # r
    <3>1. pc[t][h] = "bcast" => h # p
      BY <1>1, <2>1, <2>8 DEF Walks, Walk
    <3>2. pc[t][h] = "bcast" => peer_list'[h] = peer_list[h] /\ cursor'[t] = cursor[t]
      BY <2>1, <2>4, <3>1
    <3>3. Untold(t, h) /\ \A q \in Peer : pc'[t][q] = pc[t][q]
      BY <1>1, <2>1, <2>6 DEF Untolds
    <3> QED
      BY <1>2, <3>2, <3>3, UntoldStays
  <2> QED
    BY <2>7, <2>8
<1>10. ASSUME NEW r \in Request, NEW p \in Peer, BcastEnd(r, p) PROVE Untolds'
  <2>1. /\ pc[r][p] = "bcast" /\ Goto(r, p, "done")
        /\ UNCHANGED <<req, cursor, peer_list>>
    BY <1>10 DEF BcastEnd, clients
  <2> QED
    BY <1>4, <2>1
<1>11. ASSUME NEW q \in Peer, Register(q), UNCHANGED <<pc, req, cursor>> PROVE Untolds'
  <2>1. \A r \in Request, p \in Peer : pc[r][p] = "bcast" => p # q
    BY <1>1, <1>11, ConstantTypes DEF Walks, Walk, Register
  <2>2. \A p \in Peer : p # q => peer_list'[p] = peer_list[p]
    BY <1>1, <1>11 DEF WalkTypes, Register
  <2> QED
    BY <1>3, <1>11, <2>1, <2>2
<1>12. CASE Join
  <2>1. UNCHANGED <<pc, req, cursor>>
    BY <1>12 DEF Join, JoinAsk, JoinPhotos, JoinNoPhotos, JoinTell, JoinListen, ring, clients
  <2>2. UNCHANGED peer_list \/ Register(First)
    BY <1>12 DEF Join, JoinAsk, JoinPhotos, JoinNoPhotos, JoinTell, JoinListen, ring
  <2> QED
    BY <1>3, <1>11, <2>1, <2>2, FirstMember
<1>13. ASSUME NEW q \in Peer, JoinRegister(q) \/ Crash(q) PROVE Untolds'
  <2>1. UNCHANGED <<pc, req, cursor>> /\ (UNCHANGED peer_list \/ Register(q))
    BY <1>13 DEF JoinRegister, Crash, ring, clients
  <2> QED
    BY <1>3, <1>11, <2>1
<1>14. CASE UNCHANGED vars
  BY <1>3, <1>14 DEF vars, ring, clients
<1> QED
  BY StepCases, <1>5, <1>6, <1>7, <1>8, <1>9, <1>10, <1>12, <1>13, <1>14

LEMMA OnceStep ==
  ASSUME TypeInv, OnceInv, [Next]_vars
  PROVE  OnceInv'
BY RingsStep, EntriesStep, OutsideStep, UntoldsStep DEF OnceInv

LEMMA OnceHolds == Spec => [](TypeInv /\ OnceInv)
<1>1. TypeInv /\ OnceInv /\ [Next]_vars => TypeInv' /\ OnceInv'
  BY TypeStep, OnceStep
<1> QED
  BY <1>1, TypeInit, OnceInit, PTL DEF Spec
-----------------------------------------------------------------------------
(* Order: threads only go forward.                                           *)

(* A thread that is past its effect on the photo list.                       *)
Past == {"store", "unlink", "lock", "bcast", "done"}

(* Threads go forward: a thread that has had its effect does not have it     *)
(* again, one that begins was not there before, and a request keeps its      *)
(* orders once it was sent.                                                  *)
Forward(r, p) ==
  /\ pc[r][p] \in Past => pc'[r][p] \in Past
  /\ pc'[r][p] = "none" => pc[r][p] = "none"
  /\ pc'[r][p] \in {"insert", "find", "remove"} => pc[r][p] \in {"none", pc'[r][p]}
  /\ pc'[r][p] = "put" => pc[r][p] \in {"find", "put"}

(* The steps that change a list, and the one that gives orders.              *)
LEMMA ListCases ==
  ASSUME [Next]_vars
  PROVE  /\ \/ UNCHANGED photo_list
            \/ \E r \in Request, p \in Peer :
                 AddInsert(r, p) \/ KeywordPut(r, p) \/ DeleteRemove(r, p)
            \/ JoinPhotos
         /\ UNCHANGED clients \/ \E r \in Request, p \in Peer : Issue(r, p)
<1>1. ASSUME NEW r \in Request, NEW p \in Peer, Handle(r, p)
      PROVE  /\ \/ UNCHANGED photo_list
                \/ AddInsert(r, p) \/ KeywordPut(r, p) \/ DeleteRemove(r, p)
             /\ UNCHANGED clients
  BY <1>1 DEF Handle, AddInsert, AddStore, KeywordFind, KeywordPut, DeleteRemove, DeleteUnlink,
     BcastLock, BcastSend, BcastDrop, BcastEnd, gallery
<1>2. ASSUME NEW r \in Request, NEW p \in Peer, Issue(r, p) PROVE UNCHANGED photo_list
  BY <1>2 DEF Issue, gallery
<1>3. ASSUME Join PROVE (UNCHANGED photo_list \/ JoinPhotos) /\ UNCHANGED clients
  BY <1>3 DEF Join, JoinAsk, JoinPhotos, JoinNoPhotos, JoinTell, JoinListen, gallery
<1>4. ASSUME NEW q \in Peer, JoinRegister(q) \/ Crash(q)
      PROVE  UNCHANGED photo_list /\ UNCHANGED clients
  BY <1>4 DEF JoinRegister, Crash, gallery
<1>5. CASE UNCHANGED vars
  BY <1>5 DEF vars, gallery
<1> QED
  BY <1>1, <1>2, <1>3, <1>4, <1>5 DEF Next

LEMMA IssueStage ==
  ASSUME TypeInv, NEW r \in Request, NEW p \in Peer, Issue(r, p)
  PROVE  /\ req'[r].op \in {"add", "keyword", "delete"}
         /\ \A t \in Request : t # r => req'[t] = req[t]
         /\ \A q \in Peer : pc[r][q] = "none"
         /\ pc'[r][p] = Start(req'[r].op)
         /\ \A t \in Request, q \in Peer : t # r \/ q # p => pc'[t][q] = pc[t][q]
<1>1. WalkTypes /\ Threads /\ DataTypes
  BY DEF TypeInv, WalkInv
<1>2. \E o \in {"add", "keyword", "delete"} : \E id, k :
         req' = [req EXCEPT ![r] = [op |-> o, photo |-> id, keyword |-> k, home |-> p]]
  BY DEF Issue
<1>3. PICK o \in {"add", "keyword", "delete"} : \E id, k :
         req' = [req EXCEPT ![r] = [op |-> o, photo |-> id, keyword |-> k, home |-> p]]
  BY <1>2
<1>4. PICK id, k :
         req' = [req EXCEPT ![r] = [op |-> o, photo |-> id, keyword |-> k, home |-> p]]
  BY <1>3
<1>5. req'[r].op = o /\ \A t \in Request : t # r => req'[t] = req[t]
  BY <1>1, <1>4 DEF DataTypes
<1>6. req[r].op = "none" /\ pc' = [pc EXCEPT ![r][p] = Start(req'[r].op)]
  BY DEF Issue, Goto
<1>7. \A q \in Peer : pc[r][q] = "none"
  BY <1>1, <1>6 DEF Threads
<1>8. /\ pc'[r][p] = Start(req'[r].op)
      /\ \A t \in Request, q \in Peer : t # r \/ q # p => pc'[t][q] = pc[t][q]
  BY <1>1, <1>6 DEF WalkTypes
<1> QED
  BY <1>5, <1>7, <1>8

LEMMA GoesForward ==
  ASSUME TypeInv, OnceInv, [Next]_vars
  PROVE  /\ \A r \in Request, p \in Peer : Forward(r, p)
         /\ \A r \in Request : req[r].op # "none" => req'[r] = req[r]
<1>1. WalkTypes /\ Threads /\ DataTypes /\ Kinds
  BY DEF TypeInv, WalkInv
<1>2. ASSUME NEW r \in Request, NEW p \in Peer, NEW s, Goto(r, p, s),
             \/ pc[r][p] = "none" /\ s \in {"insert", "find", "remove"}
             \/ pc[r][p] = "find" /\ s = "put"
             \/ pc[r][p] # "none" /\ s \in Past
      PROVE  \A t \in Request, q \in Peer : Forward(t, q)
  <2>1. /\ pc'[r][p] = s
        /\ \A t \in Request, q \in Peer : t # r \/ q # p => pc'[t][q] = pc[t][q]
    BY <1>1, <1>2 DEF Goto, WalkTypes
  <2> QED
    BY <1>1, <1>2, <2>1 DEF Forward, Past
<1>3. UNCHANGED pc => \A t \in Request, q \in Peer : Forward(t, q)
  BY DEF Forward
<1>4. \A o \in {"add", "keyword", "delete"} : Start(o) \in {"insert", "find", "remove"}
  BY DEF Start
<1>5. ASSUME NEW r \in Request, NEW p \in Peer, Issue(r, p)
      PROVE  /\ \A t \in Request, q \in Peer : Forward(t, q)
             /\ \A t \in Request : req[t].op # "none" => req'[t] = req[t]
  <2>1. /\ req'[r].op \in {"add", "keyword", "delete"} /\ pc[r][p] = "none"
        /\ \A t \in Request : t # r => req'[t] = req[t]
    BY <1>5, IssueStage
  <2>2. req[r].op = "none" /\ Goto(r, p, Start(req'[r].op))
    BY <1>5 DEF Issue
  <2> QED
    BY <1>2, <1>4, <2>1, <2>2
<1>6. ASSUME NEW r \in Request, NEW p \in Peer, Handle(r, p)
      PROVE  \A t \in Request, q \in Peer : Forward(t, q)
  <2>1. After(r, p) \in {"lock", "done"}
    BY DEF After
  <2>2. CASE AddInsert(r, p) \/ AddStore(r, p)
    BY <1>2, <1>3, <2>1, <2>2 DEF AddInsert, AddStore, Past
  <2>3. CASE KeywordFind(r, p) \/ KeywordPut(r, p)
    BY <1>2, <1>3, <2>1, <2>3 DEF KeywordFind, KeywordPut, Past
  <2>4. CASE DeleteRemove(r, p) \/ DeleteUnlink(r, p)
    BY <1>2, <1>3, <2>1, <2>4 DEF DeleteRemove, DeleteUnlink, Past
  <2>5. CASE BcastLock(r, p) \/ BcastEnd(r, p)
    BY <1>2, <2>5 DEF BcastLock, BcastEnd, Past
  <2>6. CASE BcastDrop(r, p)
    BY <1>3, <2>6 DEF BcastDrop
  <2>7. CASE BcastSend(r, p)
    <3> DEFINE q == peer_list[p][cursor[r]]
    <3>1. q \in Peer /\ pc[r][q] = "none"
      BY <2>7, ToldOnce
    <3>2. UNCHANGED pc \/ Goto(r, q, Start(req[r].op))
      BY <2>7 DEF BcastSend
    <3>3. pc[r][p] # "none"
      BY <2>7 DEF BcastSend
    <3>4. req[r].op \in {"add", "keyword", "delete"}
      BY <3>3, StageKind
    <3> HIDE DEF q
    <3> QED
      BY <1>2, <1>3, <1>4, <3>1, <3>2, <3>4
  <2> QED
    BY <1>6, <2>2, <2>3, <2>4, <2>5, <2>6, <2>7 DEF Handle
<1>7. ASSUME NEW q \in Peer, JoinRegister(q) \/ Crash(q) PROVE UNCHANGED pc
  BY <1>7 DEF JoinRegister, Crash
<1>8. ASSUME Join PROVE UNCHANGED pc
  BY <1>8 DEF Join, JoinAsk, JoinPhotos, JoinNoPhotos, JoinTell, JoinListen
<1>9. UNCHANGED vars => UNCHANGED pc
  BY DEF vars
<1>10. \A r \in Request, p \in Peer : Forward(r, p)
  BY <1>3, <1>5, <1>6, <1>7, <1>8, <1>9 DEF Next
<1>11. \A r \in Request : req[r].op # "none" => req'[r] = req[r]
  BY <1>5, ListCases DEF clients
<1> QED
  BY <1>10, <1>11
-----------------------------------------------------------------------------
(* Lists: a photo enters a list at most once.                                *)

(* The nodes of m are nodes of l, in the same order; none was copied.        *)
Thinned(m, l) ==
  \E from \in [1..Len(m) -> 1..Len(l)] :
    /\ \A i, j \in 1..Len(m) : from[i] = from[j] => i = j
    /\ \A i \in 1..Len(m) : m[i] = l[from[i]]

(* The same, but for the keywords of the nodes.                              *)
Fewer(m, l) ==
  \E from \in [1..Len(m) -> 1..Len(l)] :
    /\ \A i, j \in 1..Len(m) : from[i] = from[j] => i = j
    /\ \A i \in 1..Len(m) : m[i].id = l[from[i]].id /\ m[i].node = l[from[i]].node

LEMMA RemoveThins ==
  ASSUME NEW S, NEW l \in Seq(S), NEW id
  PROVE  Thinned(list_remove(l, id), l)
<1> DEFINE m == list_remove(l, id)
<1>1. Len(l) \in Nat
  BY LenProperties
<1>2. CASE ~Holds(l, id)
  <2>1. m = l
    BY <1>2, RemoveNone
  <2> DEFINE from == [i \in 1..Len(m) |-> i]
  <2>2. from \in [1..Len(m) -> 1..Len(l)]
    BY <2>1
  <2> HIDE DEF m
  <2>3. /\ \A i, j \in 1..Len(m) : from[i] = from[j] => i = j
        /\ \A i \in 1..Len(m) : m[i] = l[from[i]]
    BY <2>1
  <2> HIDE DEF from
  <2> QED
    BY <2>2, <2>3 DEF m, Thinned
<1>3. CASE Holds(l, id)
  <2>1. PICK j \in 1..Len(l) :
          /\ l[j].id = id /\ m \in Seq(S) /\ Len(m) = Len(l) - 1
          /\ \A i \in 1..(Len(l) - 1) : m[i] = IF i < j THEN l[i] ELSE l[i + 1]
    BY <1>3, RemoveList
  <2> HIDE DEF m
  <2> DEFINE from == [i \in 1..Len(m) |-> IF i < j THEN i ELSE i + 1]
  <2>2. \A i \in 1..Len(m) : from[i] \in 1..Len(l) /\ m[i] = l[from[i]]
    <3>1. SUFFICES ASSUME NEW i \in 1..Len(m)
                   PROVE  from[i] \in 1..Len(l) /\ m[i] = l[from[i]]
      OBVIOUS
    <3>2. i \in 1..(Len(l) - 1)
      BY <2>1
    <3> QED
      BY <1>1, <2>1, <3>2
  <2>3. \A i, h \in 1..Len(m) : from[i] = from[h] => i = h
    <3>1. j \in Int
      OBVIOUS
    <3> QED
      BY <3>1
  <2>4. from \in [1..Len(m) -> 1..Len(l)]
    BY <2>2
  <2> HIDE DEF from
  <2> QED
    BY <2>2, <2>3, <2>4 DEF m, Thinned
<1> QED
  BY <1>2, <1>3

(* A photo is listed at most once by each of the ways it can enter a list:   *)
(* by its request, or with the photos the joiner asks for.                   *)
Marked(l) ==
  \A i, j \in 1..Len(l) :
    l[i].id = l[j].id /\ (l[i].node = "join" <=> l[j].node = "join") => i = j

(* Only the joiner has nodes it asked for.                                   *)
Plain(l, p) == p # Joiner => \A i \in 1..Len(l) : l[i].node # "join"

(* Only ids that were given out are listed.                                  *)
Given(l) == \A i \in 1..Len(l) : l[i].id <= photo_id

(* A photo on its way to a list is not in it yet, unless the joiner got it   *)
(* with the photos it asked for.                                             *)
Coming(r, p) ==
  req[r].op = "add" /\ pc[r][p] \in {"none", "insert"} =>
    \A i \in 1..Len(photo_list[p]) :
      photo_list[p][i].id = req[r].photo => p = Joiner /\ photo_list[p][i].node = "join"

(* Every new photo has an id of its own.                                     *)
Distinct ==
  \A r, s \in Request :
    req[r].op = "add" /\ req[s].op = "add" /\ req[r].photo = req[s].photo => r = s

ListInv ==
  /\ \A p \in Peer : /\ Marked(photo_list[p])
                     /\ Plain(photo_list[p], p)
                     /\ Given(photo_list[p])
  /\ \A r \in Request, p \in Peer : Coming(r, p)
  /\ Distinct

LEMMA ListInit == Init => ListInv
<1> SUFFICES ASSUME Init PROVE ListInv
  OBVIOUS
<1>1. TypeInv
  BY TypeInit
<1> DEFINE start == [i \in 1..Preloaded |->
                 [id |-> Preloaded + 1 - i, keyword |-> <<>>, node |-> "start"]]
<1>2. \A p \in Peer : photo_list[p] = IF p = Joiner THEN <<>> ELSE start
  BY DEF Init
<1>3. Preloaded \in Nat /\ photo_id = Preloaded /\ \A r \in Request : req[r].op = "none"
  BY ReplicationAssumption DEF Init, NoOp
<1>4. Len(start) = Preloaded
  BY <1>3
<1>5. \A i \in 1..Preloaded :
        /\ start[i].id = Preloaded + 1 - i /\ start[i].id <= Preloaded
        /\ start[i].node = "start"
  BY <1>3
<1>6. \A i, j \in 1..Preloaded : start[i].id = start[j].id => i = j
  BY <1>3
<1> HIDE DEF start
<1>7. Marked(start) /\ Marked(<<>>)
  BY <1>4, <1>5, <1>6 DEF Marked
<1>8. \A p \in Peer : Plain(start, p) /\ Plain(<<>>, p)
  BY <1>4, <1>5 DEF Plain
<1>9. Given(start) /\ Given(<<>>)
  BY <1>3, <1>4, <1>5 DEF Given
<1> QED
  BY <1>2, <1>3, <1>7, <1>8, <1>9 DEF ListInv, Coming, Distinct

(* A list whose nodes are some of the nodes of the list before, but for      *)
(* their keywords.                                                           *)
LEMMA ThinnerList ==
  ASSUME NEW l, NEW m, NEW p, Fewer(m, l), Marked(l), Plain(l, p), Given(l)
  PROVE  Marked(m) /\ Plain(m, p) /\ Given(m)
<1>1. PICK from \in [1..Len(m) -> 1..Len(l)] :
         /\ \A i, j \in 1..Len(m) : from[i] = from[j] => i = j
         /\ \A i \in 1..Len(m) : m[i].id = l[from[i]].id /\ m[i].node = l[from[i]].node
  BY DEF Fewer
<1>2. \A i \in 1..Len(m) : from[i] \in 1..Len(l)
  OBVIOUS
<1>3. Marked(m)
  BY <1>1, <1>2 DEF Marked
<1>4. Plain(m, p)
  BY <1>1, <1>2 DEF Plain
<1>5. Given(m)
  BY <1>1, <1>2 DEF Given
<1> QED
  BY <1>3, <1>4, <1>5
-----------------------------------------------------------------------------
LEMMA ThinStep ==
  ASSUME TypeInv, ListInv, UNCHANGED clients, \A r \in Request, q \in Peer : Forward(r, q),
         NEW p \in Peer, NEW m, photo_list' = [photo_list EXCEPT ![p] = m],
         Fewer(m, photo_list[p])
  PROVE  ListInv'
<1>1. WalkTypes /\ DataTypes
  BY DEF TypeInv, WalkInv
<1>2. photo_list'[p] = m /\ \A q \in Peer : q # p => photo_list'[q] = photo_list[q]
  BY <1>1 DEF DataTypes
<1>3. UNCHANGED <<photo_id, req>>
  BY DEF clients
<1>4. Marked(m) /\ Plain(m, p) /\ Given(m)
  BY ThinnerList DEF ListInv
<1>5. ASSUME NEW q \in Peer
      PROVE  Marked(photo_list'[q]) /\ Plain(photo_list'[q], q) /\ Given(photo_list[q])'
  BY <1>2, <1>3, <1>4 DEF ListInv, Given
<1>6. ASSUME NEW r \in Request, NEW q \in Peer PROVE Coming(r, q)'
  <2>1. SUFFICES ASSUME req[r].op = "add", pc[r][q] \in {"none", "insert"},
                        NEW i \in 1..Len(photo_list'[q]), photo_list'[q][i].id = req[r].photo
                 PROVE  q = Joiner /\ photo_list'[q][i].node = "join"
    BY <1>3, <1>6 DEF Coming, Forward
  <2>2. \E h \in 1..Len(photo_list[q]) :
          /\ photo_list'[q][i].id = photo_list[q][h].id
          /\ photo_list'[q][i].node = photo_list[q][h].node
    <3>1. CASE q = p
      <4>1. PICK from \in [1..Len(m) -> 1..Len(photo_list[p])] :
              \A j \in 1..Len(m) : /\ m[j].id = photo_list[p][from[j]].id
                                   /\ m[j].node = photo_list[p][from[j]].node
        BY DEF Fewer
      <4>2. i \in 1..Len(m) /\ from[i] \in 1..Len(photo_list[p])
        BY <1>2, <3>1, <4>1
      <4> QED
        BY <1>2, <3>1, <4>1, <4>2
    <3>2. CASE q # p
      BY <1>2, <3>2
    <3> QED
      BY <3>1, <3>2
  <2> QED
    BY <2>1, <2>2 DEF ListInv, Coming
<1> QED
  BY <1>3, <1>5, <1>6 DEF ListInv, Distinct

LEMMA ListSame ==
  ASSUME ListInv, UNCHANGED clients, \A r \in Request, q \in Peer : Forward(r, q),
         UNCHANGED photo_list
  PROVE  ListInv'
<1>1. UNCHANGED <<photo_id, req>>
  BY DEF clients
<1>2. ASSUME NEW r \in Request, NEW q \in Peer PROVE Coming(r, q)'
  <2>1. Coming(r, q) /\ Forward(r, q)
    BY DEF ListInv
  <2> QED
    BY <1>1, <2>1 DEF Coming, Forward
<1>3. ASSUME NEW q \in Peer
      PROVE  Marked(photo_list'[q]) /\ Plain(photo_list'[q], q) /\ Given(photo_list[q])'
  BY <1>1 DEF ListInv, Given
<1> QED
  BY <1>1, <1>2, <1>3 DEF ListInv, Distinct

LEMMA IssueList ==
  ASSUME TypeInv, OnceInv, ListInv, NEW r \in Request, NEW p \in Peer, Issue(r, p)
  PROVE  ListInv'
<1>1. WalkTypes /\ DataTypes /\ Orders
  BY DEF TypeInv, WalkInv
<1>2. /\ UNCHANGED photo_list
      /\ photo_id' = photo_id + 1 \/ photo_id' = photo_id
  BY DEF Issue, gallery
<1>3. photo_id \in Nat /\ photo_id' >= photo_id
  <2>1. photo_id \in Nat
    BY <1>1 DEF DataTypes
  <2>2. CASE photo_id' = photo_id + 1
    BY <2>1, <2>2
  <2>3. CASE photo_id' = photo_id
    BY <2>1, <2>3
  <2> QED
    BY <1>2, <2>1, <2>2, <2>3
<1>4. /\ \A t \in Request : t # r => req'[t] = req[t]
      /\ \A q \in Peer : pc[r][q] = "none"
      /\ \A t \in Request, q \in Peer : t # r => pc'[t][q] = pc[t][q]
  BY IssueStage
<1>5. req'[r].op = "add" => req'[r].photo = photo_id + 1
  <2>1. CASE req' = [req EXCEPT ![r] = [op |-> "add", photo |-> photo_id + 1,
                                        keyword |-> "", home |-> p]]
    BY <1>1, <2>1 DEF DataTypes
  <2>2. ASSUME NEW o \in {"keyword", "delete"}, NEW id, NEW k,
               req' = [req EXCEPT ![r] = [op |-> o, photo |-> id, keyword |-> k, home |-> p]]
        PROVE  req'[r].op # "add"
    BY <1>1, <2>2 DEF DataTypes
  <2> QED
    BY <2>1, <2>2 DEF Issue
<1>6. \A q \in Peer : \A i \in 1..Len(photo_list[q]) :
        photo_list[q][i].id <= photo_id /\ photo_list[q][i].id \in Nat
  <2>1. ASSUME NEW q \in Peer, NEW i \in 1..Len(photo_list[q])
        PROVE  photo_list[q][i].id \in Nat
    <3>1. photo_list[q][i] \in Photo
      BY <1>1, ElementOfSeq DEF DataTypes
    <3> QED
      BY <3>1 DEF Photo
  <2> QED
    BY <2>1 DEF ListInv, Given
<1>7. \A q \in Peer : \A i \in 1..Len(photo_list[q]) :
        photo_list[q][i].id <= photo_id' /\ photo_list[q][i].id # photo_id + 1
  <2>1. \A n \in Nat : n <= photo_id => n <= photo_id' /\ n # photo_id + 1
    BY <1>2, <1>3
  <2> QED
    BY <1>6, <2>1
<1>8. \A t \in Request : req[t].op = "add" => req[t].photo # photo_id + 1
  <2>1. \A n \in 1..photo_id : n # photo_id + 1
    BY <1>3
  <2> QED
    BY <1>1, <2>1 DEF Orders
<1>9. ASSUME NEW q \in Peer
      PROVE  Marked(photo_list'[q]) /\ Plain(photo_list'[q], q) /\ Given(photo_list[q])'
  BY <1>2, <1>7 DEF ListInv, Given
<1>10. ASSUME NEW t \in Request, NEW q \in Peer PROVE Coming(t, q)'
  <2>1. CASE t # r
    <3>1. Coming(t, q)
      BY DEF ListInv
    <3> QED
      BY <1>2, <1>4, <2>1, <3>1 DEF Coming
  <2>2. CASE t = r
    BY <1>2, <1>5, <1>7, <2>2 DEF Coming
  <2> QED
    BY <2>1, <2>2
<1>11. Distinct'
  BY <1>4, <1>5, <1>8 DEF ListInv, Distinct
<1> QED
  BY <1>9, <1>10, <1>11 DEF ListInv

LEMMA AddList ==
  ASSUME TypeInv, OnceInv, ListInv, NEW r \in Request, NEW p \in Peer, AddInsert(r, p)
  PROVE  ListInv'
<1>1. WalkTypes /\ DataTypes /\ Kinds
  BY DEF TypeInv, WalkInv
<1> DEFINE l == photo_list[p]
           e == [id |-> req[r].photo, keyword |-> <<>>, node |-> "add"]
           m == list_insert(l, e)
<1>2. /\ UNCHANGED <<photo_id, req>> /\ pc[r][p] = "insert" /\ pc' = [pc EXCEPT ![r][p] = "store"]
      /\ photo_list' = [photo_list EXCEPT ![p] = m]
  BY DEF AddInsert, clients, Goto
<1>3. /\ req[r].op = "add" /\ req[r].photo \in 1..photo_id /\ req[r].photo \in Nat
  BY <1>2, StageKind
<1>4. l \in Seq(Photo) /\ e \in Photo /\ Len(l) \in Nat
  <2>1. l \in Seq(Photo)
    BY <1>1 DEF DataTypes
  <2>2. e \in Photo
    BY <1>3 DEF Photo
  <2> QED
    BY <2>1, <2>2, LenProperties
<1>5. e.id = req[r].photo /\ e.node = "add"
  OBVIOUS
<1> HIDE DEF e
<1> HIDE DEF l
<1>6. /\ m \in Seq(Photo)
      /\ Len(m) = Len(l) + 1
      /\ m[1] = e
      /\ \A i \in 1..Len(l) : m[i + 1] = l[i]
  BY <1>4, InsertList
<1> USE DEF l
<1>7. photo_list'[p] = m /\ \A q \in Peer : q # p => photo_list'[q] = photo_list[q]
  BY <1>1, <1>2 DEF DataTypes
<1>8. pc'[r][p] = "store" /\ \A t \in Request, q \in Peer : t # r \/ q # p => pc'[t][q] = pc[t][q]
  BY <1>1, <1>2 DEF WalkTypes
<1>9. \A i \in 1..Len(l) : l[i].id = req[r].photo => p = Joiner /\ l[i].node = "join"
  BY <1>2, <1>3 DEF ListInv, Coming
<1>10. Marked(l) /\ Plain(l, p) /\ Given(l)
  BY DEF ListInv
<1> HIDE DEF l, m
<1>11. \A i \in 1..Len(m) : i = 1 \/ (i - 1 \in 1..Len(l) /\ m[i] = l[i - 1])
  <2>1. SUFFICES ASSUME NEW i \in 1..Len(m), i # 1
                 PROVE  i - 1 \in 1..Len(l) /\ m[i] = l[i - 1]
    OBVIOUS
  <2>2. i - 1 \in 1..Len(l) /\ (i - 1) + 1 = i
    BY <1>4, <1>6, <2>1
  <2> QED
    BY <1>6, <2>2
<1>12. Marked(m)
  <2>1. SUFFICES ASSUME NEW i \in 1..Len(m), NEW j \in 1..Len(m), m[i].id = m[j].id,
                        m[i].node = "join" <=> m[j].node = "join"
                 PROVE  i = j
    BY DEF Marked
  <2>2. CASE i # 1 /\ j # 1
    <3>1. i - 1 = j - 1
      BY <1>10, <1>11, <2>1, <2>2 DEF Marked
    <3> QED
      BY <3>1
  <2>3. CASE i = 1 /\ j # 1
    BY <1>5, <1>6, <1>9, <1>11, <2>1, <2>3
  <2>4. CASE i # 1 /\ j = 1
    BY <1>5, <1>6, <1>9, <1>11, <2>1, <2>4
  <2> QED
    BY <2>2, <2>3, <2>4
<1>13. Plain(m, p)
  BY <1>5, <1>6, <1>10, <1>11 DEF Plain
<1>14. Given(m)
  <2>1. req[r].photo <= photo_id
    BY <1>3
  <2> QED
    BY <1>5, <1>6, <1>10, <1>11, <2>1 DEF Given
<1>15. ASSUME NEW q \in Peer
       PROVE  Marked(photo_list'[q]) /\ Plain(photo_list'[q], q) /\ Given(photo_list[q])'
  BY <1>2, <1>7, <1>12, <1>13, <1>14 DEF ListInv, Given
<1>16. ASSUME NEW t \in Request, NEW q \in Peer PROVE Coming(t, q)'
  <2>1. Coming(t, q)
    BY DEF ListInv
  <2>2. CASE q # p
    BY <1>2, <1>7, <1>8, <2>1, <2>2 DEF Coming
  <2>3. CASE q = p /\ t = r
    BY <1>8, <2>3 DEF Coming
  <2>4. CASE q = p /\ t # r
    <3>1. SUFFICES ASSUME req[t].op = "add", pc[t][p] \in {"none", "insert"},
                          NEW i \in 1..Len(m), m[i].id = req[t].photo
                   PROVE  p = Joiner /\ m[i].node = "join"
      BY <1>2, <1>7, <1>8, <2>4 DEF Coming
    <3>2. req[t].photo # req[r].photo
      BY <1>3, <2>4, <3>1 DEF ListInv, Distinct
    <3>3. i # 1
      BY <1>5, <1>6, <3>1, <3>2
    <3> QED
      BY <1>11, <2>1, <2>4, <3>1, <3>3 DEF Coming, l
  <2> QED
    BY <2>2, <2>3, <2>4
<1> QED
  BY <1>2, <1>15, <1>16 DEF ListInv, Distinct

LEMMA PutList ==
  ASSUME TypeInv, OnceInv, ListInv, [Next]_vars, NEW r \in Request, NEW p \in Peer, KeywordPut(r, p)
  PROVE  ListInv'
<1>1. WalkTypes /\ DataTypes
  BY DEF TypeInv, WalkInv
<1>2. UNCHANGED clients /\ \A t \in Request, q \in Peer : Forward(t, q)
  BY GoesForward DEF KeywordPut
<1>3. UNCHANGED photo_list \/ \E i \in Node(r, p) : Put(r, p, i)
  BY DEF KeywordPut
<1>4. ASSUME NEW i \in Node(r, p), Put(r, p, i) PROVE ListInv'
  <2> DEFINE l == photo_list[p]
             w == req[r].keyword
             m == [l EXCEPT ![i].keyword = Append(@, w)]
  <2>1. photo_list' = [photo_list EXCEPT ![p] = m]
    BY <1>4 DEF Put
  <2>2. req[r].op = "keyword" /\ w \in Keyword
    BY StageKind DEF KeywordPut, TypeInv, Orders
  <2>3. l \in Seq(Photo) /\ i \in 1..Len(l) /\ Len(l) \in Nat
    BY <1>1, LenProperties DEF DataTypes, Node
  <2>4. /\ m \in Seq(Photo) /\ Len(m) = Len(l)
        /\ \A h \in 1..Len(l) :
             /\ m[h].id = l[h].id /\ m[h].node = l[h].node
             /\ Len(m[h].keyword) =
                  IF h = i THEN Len(l[h].keyword) + 1 ELSE Len(l[h].keyword)
             /\ ToSet(m[h].keyword) =
                  IF h = i THEN ToSet(l[h].keyword) \cup {w} ELSE ToSet(l[h].keyword)
    BY <2>2, <2>3, PutShows
  <2> HIDE DEF m
  <2> DEFINE from == [h \in 1..Len(m) |-> h]
  <2>5. /\ from \in [1..Len(m) -> 1..Len(l)]
        /\ \A h, j \in 1..Len(m) : from[h] = from[j] => h = j
        /\ \A h \in 1..Len(m) : m[h].id = l[from[h]].id /\ m[h].node = l[from[h]].node
    BY <2>4
  <2> HIDE DEF from
  <2>6. Fewer(m, l)
    BY <2>5 DEF Fewer
  <2> QED
    BY <1>2, <2>1, <2>6, ThinStep
<1> QED
  BY <1>2, <1>3, <1>4, ListSame

LEMMA DeleteList ==
  ASSUME TypeInv, OnceInv, ListInv, [Next]_vars, NEW r \in Request, NEW p \in Peer, DeleteRemove(r, p)
  PROVE  ListInv'
<1>1. WalkTypes /\ DataTypes
  BY DEF TypeInv, WalkInv
<1>2. UNCHANGED clients /\ \A t \in Request, q \in Peer : Forward(t, q)
  BY GoesForward DEF DeleteRemove
<1> DEFINE l == photo_list[p]
           m == list_remove(l, req[r].photo)
<1>3. photo_list' = [photo_list EXCEPT ![p] = m]
  BY DEF DeleteRemove
<1>4. l \in Seq(Photo)
  BY <1>1 DEF DataTypes
<1>5. Thinned(m, l)
  BY <1>4, RemoveThins
<1> HIDE DEF m
<1>6. PICK from \in [1..Len(m) -> 1..Len(l)] :
        /\ \A i, j \in 1..Len(m) : from[i] = from[j] => i = j
        /\ \A i \in 1..Len(m) : m[i] = l[from[i]]
  BY <1>5 DEF Thinned
<1>7. Fewer(m, l)
  <2>1. \A i \in 1..Len(m) : m[i].id = l[from[i]].id /\ m[i].node = l[from[i]].node
    BY <1>6
  <2> QED
    BY <1>6, <2>1 DEF Fewer
<1> QED
  BY <1>2, <1>3, <1>7, ThinStep
-----------------------------------------------------------------------------
(* The nodes of m are new nodes for photos of l.                             *)
Copied(m, l) ==
  \E from \in [1..Len(m) -> 1..Len(l)] :
    /\ \A i, j \in 1..Len(m) : from[i] = from[j] => i = j
    /\ \A i \in 1..Len(m) : m[i].id = l[from[i]].id /\ m[i].node = "join"

LEMMA SnapshotCopies ==
  ASSUME NEW l \in Seq(Photo)
  PROVE  Copied([i \in DOMAIN Snapshot(l) |-> [Snapshot(l)[i] EXCEPT !.node = "join"]], l)
<1> DEFINE s == Snapshot(l)
           m == [i \in DOMAIN s |-> [s[i] EXCEPT !.node = "join"]]
           from == [i \in 1..Len(l) |-> Len(l) - i + 1]
<1>1. /\ Len(l) \in Nat
      /\ \A i \in 1..Len(l) : l[i] \in Photo
  BY LenProperties, ElementOfSeq
<1>2. /\ DOMAIN s = 1..Len(l) /\ \A i \in 1..Len(l) : s[i] = l[Len(l) - i + 1]
  BY DEF Snapshot, Reverse
<1>3. \A i \in 1..Len(l) : Len(l) - i + 1 \in 1..Len(l)
  BY <1>1
<1>4. /\ m = [i \in 1..Len(l) |-> [s[i] EXCEPT !.node = "join"]]
      /\ \A i \in 1..Len(l) : [s[i] EXCEPT !.node = "join"] \in Photo
  BY <1>1, <1>2, <1>3 DEF Photo
<1>5. /\ m \in Seq(Photo) /\ Len(m) = Len(l)
  BY <1>1, <1>4
<1>6. \A i \in 1..Len(l) : m[i].id = l[Len(l) - i + 1].id /\ m[i].node = "join"
  BY <1>1, <1>2, <1>3, <1>4 DEF Photo
<1>7. \A i, j \in 1..Len(l) : from[i] = from[j] => i = j
  BY <1>1
<1>8. from \in [1..Len(l) -> 1..Len(l)]
  BY <1>3
<1>9. \A i \in 1..Len(l) : m[i].id = l[from[i]].id /\ m[i].node = "join"
  BY <1>6
<1> HIDE DEF from, m
<1>10. Copied(m, l)
  BY <1>5, <1>7, <1>8, <1>9 DEF Copied
<1> QED
  BY <1>10 DEF m

LEMMA JoinList ==
  ASSUME TypeInv, OnceInv, ListInv, JoinPhotos
  PROVE  ListInv'
<1>1. WalkTypes /\ DataTypes
  BY DEF TypeInv, WalkInv
<1>2. Joiner \in Peer /\ First \in Peer /\ First # Joiner
  BY FirstMember DEF JoinPhotos
<1>3. UNCHANGED <<photo_id, req, pc>>
  BY DEF JoinPhotos, clients
<1> DEFINE l == photo_list[First]
           m == [i \in DOMAIN Snapshot(l) |-> [Snapshot(l)[i] EXCEPT !.node = "join"]]
<1>4. UNCHANGED photo_list \/ photo_list' = [photo_list EXCEPT ![Joiner] = m]
  BY DEF JoinPhotos
<1>5. CASE UNCHANGED photo_list
  BY <1>3, <1>5 DEF ListInv, Given, Coming, Distinct
<1>6. CASE photo_list' = [photo_list EXCEPT ![Joiner] = m]
  <2>1. l \in Seq(Photo)
    BY <1>1, <1>2 DEF DataTypes
  <2>2. Copied(m, l)
    <3> HIDE DEF l
    <3> QED
      BY <2>1, SnapshotCopies
  <2> HIDE DEF m
  <2>3. PICK from \in [1..Len(m) -> 1..Len(l)] :
          /\ \A i, j \in 1..Len(m) : from[i] = from[j] => i = j
          /\ \A i \in 1..Len(m) : m[i].id = l[from[i]].id /\ m[i].node = "join"
    BY <2>2 DEF Copied
  <2>4. Marked(l) /\ Plain(l, First) /\ Given(l)
    BY <1>2 DEF ListInv
  <2> HIDE DEF l
  <2>5. \A i \in 1..Len(m) : from[i] \in 1..Len(l)
    OBVIOUS
  <2>6. Marked(m)
    <3>1. SUFFICES ASSUME NEW i \in 1..Len(m), NEW j \in 1..Len(m), m[i].id = m[j].id
                   PROVE  i = j
      BY DEF Marked
    <3>2. /\ from[i] \in 1..Len(l) /\ from[j] \in 1..Len(l)
          /\ l[from[i]].id = l[from[j]].id
      BY <2>3, <2>5, <3>1
    <3>3. l[from[i]].node # "join" /\ l[from[j]].node # "join"
      BY <1>2, <2>4, <3>2 DEF Plain
    <3>4. from[i] = from[j]
      BY <2>4, <3>2, <3>3 DEF Marked
    <3> QED
      BY <2>3, <3>4
  <2>7. Given(m)
    BY <2>3, <2>4, <2>5 DEF Given
  <2>8. photo_list'[Joiner] = m /\ \A q \in Peer : q # Joiner => photo_list'[q] = photo_list[q]
    BY <1>1, <1>2, <1>6 DEF DataTypes
  <2>9. ASSUME NEW q \in Peer
        PROVE  Marked(photo_list'[q]) /\ Plain(photo_list'[q], q) /\ Given(photo_list[q])'
    BY <1>3, <2>6, <2>7, <2>8 DEF ListInv, Given, Plain
  <2>10. ASSUME NEW r \in Request, NEW q \in Peer PROVE Coming(r, q)'
    <3>1. CASE q = Joiner
      BY <2>3, <2>8, <3>1 DEF Coming
    <3>2. CASE q # Joiner
      BY <1>3, <2>8, <3>2 DEF Coming, ListInv
    <3> QED
      BY <3>1, <3>2
  <2> QED
    BY <1>3, <2>9, <2>10 DEF ListInv, Distinct
<1> QED
  BY <1>4, <1>5, <1>6

LEMMA ListStep ==
  ASSUME TypeInv, OnceInv, ListInv, [Next]_vars
  PROVE  ListInv'
<1>1. CASE \E r \in Request, p \in Peer : Issue(r, p)
  BY <1>1, IssueList
<1>2. CASE UNCHANGED clients /\ UNCHANGED photo_list
  BY <1>2, GoesForward, ListSame
<1> QED
  BY <1>1, <1>2, ListCases, AddList, PutList, DeleteList, JoinList

LEMMA ListHolds == Spec => [](TypeInv /\ OnceInv /\ ListInv)
<1>1. TypeInv /\ OnceInv /\ ListInv /\ [Next]_vars => TypeInv' /\ OnceInv' /\ ListInv'
  BY TypeStep, OnceStep, ListStep
<1> QED
  BY <1>1, TypeInit, OnceInit, ListInit, PTL DEF Spec

(* No peer lists a photo twice if none enters while requests are served; and *)
(* even then only the one that enters can (gateway.c: "unique photo id";     *)
(* peer.c: add_photo).                                                       *)
THEOREM NoDuplicate ==
  Spec => [](/\ \A p \in Peer \ {Joiner} : Single(photo_list[p])
             /\ Joiner = NoPeer => NoDuplicatePhoto)
<1>1. ASSUME ListInv PROVE \A p \in Peer \ {Joiner} : Single(photo_list[p])
  BY <1>1 DEF ListInv, Marked, Plain, Single
<1>2. ASSUME TypeInv, ListInv, Joiner = NoPeer PROVE NoDuplicatePhoto
  <2>1. \A p \in Peer : DOMAIN photo_list[p] = 1..Len(photo_list[p])
    BY <1>2, LenProperties DEF TypeInv, DataTypes
  <2>2. \A p \in Peer : Single(photo_list[p])
    BY <1>1, <1>2, ReplicationAssumption
  <2> QED
    BY <2>1, <2>2 DEF Single, NoDuplicatePhoto
<1>3. TypeInv /\ ListInv => /\ \A p \in Peer \ {Joiner} : Single(photo_list[p])
                            /\ Joiner = NoPeer => NoDuplicatePhoto
  BY <1>1, <1>2
<1> QED
  BY <1>3, ListHolds, PTL
-----------------------------------------------------------------------------
(* Races between the checks of a keyword and its write.                      *)

(* The nodes of other photos stay in the list.                               *)
LEMMA RemoveKeeps ==
  ASSUME NEW S, NEW l \in Seq(S), NEW id, NEW h \in 1..Len(l), l[h].id # id
  PROVE  \E i \in 1..Len(list_remove(l, id)) : list_remove(l, id)[i] = l[h]
<1> DEFINE m == list_remove(l, id)
<1>1. Len(l) \in Nat
  BY LenProperties
<1>2. CASE ~Holds(l, id)
  BY <1>2, RemoveNone
<1>3. CASE Holds(l, id)
  <2>1. PICK j \in 1..Len(l) :
          /\ l[j].id = id /\ m \in Seq(S) /\ Len(m) = Len(l) - 1
          /\ \A i \in 1..(Len(l) - 1) : m[i] = IF i < j THEN l[i] ELSE l[i + 1]
    BY <1>3, RemoveList
  <2> HIDE DEF m
  <2>2. h # j
    BY <2>1
  <2>3. CASE h < j
    <3>1. h \in 1..(Len(l) - 1)
      BY <1>1, <2>3
    <3> QED
      BY <2>1, <2>3, <3>1 DEF m
  <2>4. CASE h > j
    <3>1. h - 1 \in 1..(Len(l) - 1) /\ ~(h - 1 < j) /\ (h - 1) + 1 = h
      BY <1>1, <2>4
    <3> QED
      BY <2>1, <3>1 DEF m
  <2> QED
    BY <1>1, <2>2, <2>3, <2>4
<1> QED
  BY <1>2, <1>3

(* Another request of kind o on the photo of r has had its effect at p.      *)
Rival(r, p, o) ==
  \E s \in Request \ {r} :
    req[s].photo = req[r].photo /\ req[s].op = o /\ pc[s][p] \in Past

(* A keyword that was checked is written where it does no harm, unless there *)
(* was a rival.                                                              *)
Raced(r, p) ==
  /\ MAX_KEYWORDS # 0
  /\ Node(r, p) = {} => Rival(r, p, "delete")
  /\ \A i \in Node(r, p) :
       Len(photo_list[p][i].keyword) >= MAX_KEYWORDS => Rival(r, p, "keyword")

RaceInv == \A r \in Request, p \in Peer : pc[r][p] = "put" => Raced(r, p)

LEMMA RivalStays ==
  ASSUME TypeInv, OnceInv, [Next]_vars, NEW r \in Request, NEW p \in Peer, req[r].op # "none",
         NEW o \in {"delete", "keyword"}, Rival(r, p, o)
  PROVE  Rival(r, p, o)'
<1>1. PICK s \in Request \ {r} :
        req[s].photo = req[r].photo /\ req[s].op = o /\ pc[s][p] \in Past
  BY DEF Rival
<1>2. req'[s] = req[s] /\ req'[r] = req[r] /\ pc'[s][p] \in Past
  BY <1>1, GoesForward DEF Forward
<1> QED
  BY <1>1, <1>2 DEF Rival

(* A thread gets to the write by its checks, and keeps the node it found.    *)
LEMMA PutCases ==
  ASSUME TypeInv, OnceInv, [Next]_vars, NEW r \in Request, NEW p \in Peer, pc'[r][p] = "put"
  PROVE  KeywordFind(r, p) \/ (pc[r][p] = "put" /\ found'[r][p] = found[r][p])
<1>1. WalkTypes /\ DataTypes
  BY DEF TypeInv, WalkInv
<1>2. CASE UNCHANGED <<pc, found>>
  BY <1>2
<1>3. ASSUME NEW s \in Request, NEW q \in Peer, NEW g, g # "put", Goto(s, q, g)
      PROVE  (s # r \/ q # p) /\ pc[r][p] = "put"
  <2>1. pc'[s][q] = g /\ (s # r \/ q # p => pc'[r][p] = pc[r][p])
    BY <1>1, <1>3 DEF Goto, WalkTypes
  <2> QED
    BY <1>3, <2>1
<1>4. ASSUME NEW s \in Request, NEW q \in Peer, NEW g, g # "put", Goto(s, q, g), UNCHANGED found
      PROVE  pc[r][p] = "put" /\ found'[r][p] = found[r][p]
  BY <1>3, <1>4
<1>5. \A o \in {"add", "keyword", "delete"} : Start(o) # "put"
  BY DEF Start
<1>6. ASSUME NEW s \in Request, NEW q \in Peer, Issue(s, q)
      PROVE  pc[r][p] = "put" /\ found'[r][p] = found[r][p]
  BY <1>4, <1>5, <1>6, IssueStage DEF Issue
<1>7. ASSUME NEW s \in Request, NEW q \in Peer, Handle(s, q), ~KeywordFind(r, p)
      PROVE  pc[r][p] = "put" /\ found'[r][p] = found[r][p]
  <2>1. After(s, q) \in {"lock", "done"}
    BY DEF After
  <2>2. CASE AddInsert(s, q) \/ AddStore(s, q)
    BY <1>4, <2>1, <2>2 DEF AddInsert, AddStore
  <2>3. CASE KeywordFind(s, q)
    <3>1. s # r \/ q # p
      BY <1>7, <2>3
    <3>2. \/ Goto(s, q, "done") /\ UNCHANGED found
          \/ Goto(s, q, "put") /\ \E n : found' = [found EXCEPT ![s][q] = n]
      BY <2>3 DEF KeywordFind
    <3>3. pc'[r][p] = pc[r][p]
      BY <1>1, <3>1, <3>2 DEF Goto, WalkTypes
    <3>4. found'[r][p] = found[r][p]
      <4>1. CASE UNCHANGED found
        BY <4>1
      <4>2. CASE \E n : found' = [found EXCEPT ![s][q] = n]
        <5>1. PICK n : found' = [found EXCEPT ![s][q] = n]
          BY <4>2
        <5> QED
          BY <1>1, <3>1, <5>1 DEF DataTypes
      <4> QED
        BY <3>2, <4>1, <4>2
    <3> QED
      BY <3>3, <3>4
  <2>4. CASE KeywordPut(s, q)
    <3>1. \/ UNCHANGED <<pc, found>>
          \/ Goto(s, q, After(s, q)) /\ found' = [found EXCEPT ![s][q] = "none"]
      BY <2>4 DEF KeywordPut
    <3>2. CASE Goto(s, q, After(s, q)) /\ found' = [found EXCEPT ![s][q] = "none"]
      <4>1. (s # r \/ q # p) /\ pc[r][p] = "put"
        BY <1>3, <2>1, <3>2
      <4> QED
        BY <1>1, <3>2, <4>1 DEF DataTypes
    <3> QED
      BY <1>2, <3>1, <3>2
  <2>5. CASE DeleteRemove(s, q) \/ DeleteUnlink(s, q)
    BY <1>4, <2>1, <2>5 DEF DeleteRemove, DeleteUnlink
  <2>6. CASE BcastLock(s, q) \/ BcastEnd(s, q)
    BY <1>4, <2>6 DEF BcastLock, BcastEnd
  <2>7. CASE BcastDrop(s, q)
    BY <1>2, <2>7 DEF BcastDrop
  <2>8. CASE BcastSend(s, q)
    <3> DEFINE k == peer_list[q][cursor[s]]
    <3>1. k \in Peer
      BY <2>8, ToldOnce
    <3>2. UNCHANGED found /\ (UNCHANGED pc \/ Goto(s, k, Start(req[s].op)))
      BY <2>8 DEF BcastSend
    <3>3. req[s].op \in {"add", "keyword", "delete"}
      BY <2>8, StageKind DEF BcastSend
    <3> HIDE DEF k
    <3> QED
      BY <1>2, <1>4, <1>5, <3>1, <3>2, <3>3
  <2> QED
    BY <1>7, <2>2, <2>3, <2>4, <2>5, <2>6, <2>7, <2>8 DEF Handle
<1>8. ASSUME NEW q \in Peer, JoinRegister(q) \/ Crash(q) PROVE UNCHANGED <<pc, found>>
  BY <1>8 DEF JoinRegister, Crash
<1>9. ASSUME Join PROVE UNCHANGED <<pc, found>>
  BY <1>9 DEF Join, JoinAsk, JoinPhotos, JoinNoPhotos, JoinTell, JoinListen
<1>10. UNCHANGED vars => UNCHANGED <<pc, found>>
  BY DEF vars
<1> QED
  BY <1>2, <1>6, <1>7, <1>8, <1>9, <1>10 DEF Next

(* A step that leaves the list of peer p alone.                              *)
LEMMA RacedStays ==
  ASSUME TypeInv, OnceInv, [Next]_vars, NEW r \in Request, NEW p \in Peer, Raced(r, p),
         pc[r][p] = "put", found'[r][p] = found[r][p], photo_list'[p] = photo_list[p]
  PROVE  Raced(r, p)'
<1>1. req[r].op # "none"
  BY StageKind
<1>2. req'[r] = req[r]
  BY <1>1, GoesForward
<1>3. Node(r, p)' = Node(r, p)
  BY <1>2 DEF Node
<1>4. ASSUME NEW o \in {"delete", "keyword"}, Rival(r, p, o) PROVE Rival(r, p, o)'
  BY <1>1, <1>4, RivalStays
<1> QED
  BY <1>3, <1>4 DEF Raced

LEMMA FindRaced ==
  ASSUME TypeInv, OnceInv, ListInv, NEW r \in Request, NEW p \in Peer, KeywordFind(r, p),
         pc'[r][p] = "put"
  PROVE  Raced(r, p)'
<1>1. WalkTypes /\ DataTypes
  BY DEF TypeInv, WalkInv
<1> DEFINE l == photo_list[p]
<1>2. Addable(r, p) /\ found' = [found EXCEPT ![r][p] = Match(r, p).node]
  BY <1>1 DEF KeywordFind, Goto, WalkTypes
<1>3. UNCHANGED <<photo_list, req>>
  BY DEF KeywordFind, gallery, clients
<1>4. PICK j \in 1..Len(l) :
        /\ Match(r, p) = l[j] /\ l[j].id = req[r].photo /\ l[j] \in Photo
  BY <1>2, MatchPhoto DEF Addable
<1>5. found'[r][p] = l[j].node
  BY <1>1, <1>2, <1>4 DEF DataTypes
<1>6. l \in Seq(Photo) /\ DOMAIN l = 1..Len(l) /\ Marked(l)
  BY <1>1, LenProperties DEF DataTypes, ListInv
<1>7. Node(r, p)' = {i \in 1..Len(l) : l[i].id = l[j].id /\ l[i].node = l[j].node}
  BY <1>3, <1>4, <1>5, <1>6 DEF Node
<1>8. j \in Node(r, p)' /\ \A i \in Node(r, p)' : i = j
  <2>1. j \in Node(r, p)'
    BY <1>7
  <2>2. ASSUME NEW i \in 1..Len(l), l[i].id = l[j].id, l[i].node = l[j].node PROVE i = j
    BY <1>6, <2>2 DEF Marked
  <2> QED
    BY <1>7, <2>1, <2>2
<1>9. Len(l[j].keyword) < MAX_KEYWORDS /\ Len(l[j].keyword) \in Nat
  <2>1. l[j].keyword \in Seq(Keyword)
    BY <1>4 DEF Photo
  <2> QED
    BY <1>2, <1>4, <2>1, LenProperties DEF Addable
<1>10. MAX_KEYWORDS # 0 /\ ~(Len(l[j].keyword) >= MAX_KEYWORDS)
  BY <1>9, ReplicationAssumption
<1> QED
  BY <1>3, <1>8, <1>10 DEF Raced
-----------------------------------------------------------------------------
(* The other requests that change the list of p while r is between its       *)
(* checks and its write.                                                     *)
LEMMA AddRaced ==
  ASSUME TypeInv, OnceInv, [Next]_vars, NEW r \in Request, NEW p \in Peer, Raced(r, p),
         pc[r][p] = "put", found'[r][p] = found[r][p], NEW s \in Request, AddInsert(s, p)
  PROVE  Raced(r, p)'
<1>1. WalkTypes /\ DataTypes
  BY DEF TypeInv, WalkInv
<1> DEFINE l == photo_list[p]
           e == [id |-> req[s].photo, keyword |-> <<>>, node |-> "add"]
           m == list_insert(l, e)
<1>2. req[r].op # "none" /\ req[s].photo \in Nat
  BY StageKind DEF AddInsert
<1>3. req'[r] = req[r]
  BY <1>2, GoesForward
<1>4. photo_list'[p] = m
  BY <1>1 DEF AddInsert, DataTypes
<1>5. l \in Seq(Photo) /\ Len(l) \in Nat
  BY <1>1, LenProperties DEF DataTypes
<1>6. e \in Photo /\ Len(e.keyword) = 0
  <2>1. e \in Photo
    BY <1>2 DEF Photo
  <2>2. e.keyword = <<>>
    OBVIOUS
  <2> QED
    BY <2>1, <2>2
<1> HIDE DEF e, l
<1>7. /\ m \in Seq(Photo)
      /\ Len(m) = Len(l) + 1
      /\ m[1] = e
      /\ \A i \in 1..Len(l) : m[i + 1] = l[i]
  BY <1>5, <1>6, InsertList
<1> HIDE DEF m
<1>8. DOMAIN m = 1..Len(m) /\ DOMAIN l = 1..Len(l)
  BY <1>5, <1>7, LenProperties
<1>9. Node(r, p)' = {i \in 1..Len(m) : m[i].id = req[r].photo /\ m[i].node = found[r][p]}
  BY <1>3, <1>4, <1>8 DEF Node
<1>10. Node(r, p) = {i \in 1..Len(l) : l[i].id = req[r].photo /\ l[i].node = found[r][p]}
  BY <1>8 DEF Node, l
<1>11. ASSUME NEW o \in {"delete", "keyword"}, Rival(r, p, o) PROVE Rival(r, p, o)'
  BY <1>2, <1>11, RivalStays
<1>12. Node(r, p)' = {} => Node(r, p) = {}
  <2>1. \A i \in 1..Len(l) : i + 1 \in 1..Len(m)
    BY <1>5, <1>7
  <2> QED
    BY <1>7, <1>9, <1>10, <2>1
<1>13. ASSUME NEW i \in Node(r, p)', Len(m[i].keyword) >= MAX_KEYWORDS
       PROVE  Rival(r, p, "keyword")
  <2>1. i # 1
    BY <1>6, <1>7, <1>13, ReplicationAssumption DEF Raced
  <2>2. i \in 1..Len(m) /\ i - 1 \in 1..Len(l) /\ (i - 1) + 1 = i
    <3>1. i \in 1..Len(m)
      BY <1>9
    <3> QED
      BY <1>5, <1>7, <2>1, <3>1
  <2>3. m[i] = l[i - 1]
    BY <1>7, <2>2
  <2>4. i - 1 \in Node(r, p)
    BY <1>9, <1>10, <2>2, <2>3
  <2> QED
    BY <1>13, <2>3, <2>4 DEF Raced, l
<1> QED
  BY <1>4, <1>11, <1>12, <1>13 DEF Raced

LEMMA PutRaced ==
  ASSUME TypeInv, OnceInv, [Next]_vars, NEW r \in Request, NEW p \in Peer, Raced(r, p),
         pc[r][p] = "put", pc'[r][p] = "put", found'[r][p] = found[r][p],
         NEW s \in Request, KeywordPut(s, p)
  PROVE  Raced(r, p)'
<1>1. WalkTypes /\ DataTypes
  BY DEF TypeInv, WalkInv
<1>2. UNCHANGED photo_list \/ \E i \in Node(s, p) : Put(s, p, i) /\ Goto(s, p, After(s, p))
  BY DEF KeywordPut
<1>3. ASSUME NEW i \in Node(s, p), Put(s, p, i), Goto(s, p, After(s, p)) PROVE Raced(r, p)'
  <2> DEFINE l == photo_list[p]
             w == req[s].keyword
             m == [l EXCEPT ![i].keyword = Append(@, w)]
  <2>1. photo_list'[p] = m
    <3>1. photo_list' = [photo_list EXCEPT ![p] = m]
      BY <1>3 DEF Put
    <3> QED
      BY <1>1, <3>1 DEF DataTypes
  <2>2. req[s].op = "keyword" /\ w \in Keyword /\ req[r].op # "none"
    BY StageKind DEF KeywordPut, TypeInv, Orders
  <2>3. w \in Keyword
    BY <2>2
  <2>4. l \in Seq(Photo) /\ i \in 1..Len(l) /\ Len(l) \in Nat
    BY <1>1, LenProperties DEF DataTypes, Node
  <2>5. DOMAIN l = 1..Len(l) /\ l[i].id = req[s].photo
    BY <2>4, LenProperties DEF Node
  <2>6. /\ m \in Seq(Photo) /\ Len(m) = Len(l)
        /\ \A h \in 1..Len(l) :
             /\ m[h].id = l[h].id /\ m[h].node = l[h].node
             /\ Len(m[h].keyword) =
                  IF h = i THEN Len(l[h].keyword) + 1 ELSE Len(l[h].keyword)
             /\ ToSet(m[h].keyword) =
                  IF h = i THEN ToSet(l[h].keyword) \cup {w} ELSE ToSet(l[h].keyword)
    BY <2>3, <2>4, PutShows
  <2> HIDE DEF m
  <2>7. req'[r] = req[r] /\ req'[s] = req[s]
    BY <2>2, GoesForward
  <2>8. DOMAIN m = 1..Len(l)
    BY <2>4, <2>6, LenProperties
  <2>9. Node(r, p)' = Node(r, p)
    <3>1. Node(r, p)' = {h \in 1..Len(l) : m[h].id = req[r].photo /\ m[h].node = found[r][p]}
      BY <2>1, <2>7, <2>8 DEF Node
    <3>2. Node(r, p) = {h \in 1..Len(l) : l[h].id = req[r].photo /\ l[h].node = found[r][p]}
      BY <2>4, <2>5 DEF Node
    <3> QED
      BY <2>6, <3>1, <3>2
  <2>10. ASSUME NEW o \in {"delete", "keyword"}, Rival(r, p, o) PROVE Rival(r, p, o)'
    BY <2>2, <2>10, RivalStays
  <2>11. s # r /\ pc'[s][p] \in Past
    <3>1. pc'[s][p] = After(s, p)
      BY <1>1, <1>3 DEF Goto, WalkTypes
    <3> QED
      BY <3>1 DEF After, Past
  <2>12. ASSUME NEW h \in Node(r, p), Len(m[h].keyword) >= MAX_KEYWORDS
         PROVE  Rival(r, p, "keyword")'
    <3>1. h \in 1..Len(l) /\ l[h].id = req[r].photo
      BY <2>4, <2>5 DEF Node
    <3>2. CASE h = i
      BY <2>2, <2>5, <2>7, <2>11, <3>1, <3>2 DEF Rival
    <3>3. CASE h # i
      <4>1. Len(l[h].keyword) >= MAX_KEYWORDS
        BY <2>6, <2>12, <3>1, <3>3
      <4> QED
        BY <2>10, <4>1 DEF Raced
    <3> QED
      BY <3>2, <3>3
  <2> QED
    BY <2>1, <2>9, <2>10, <2>12 DEF Raced
<1> QED
  BY <1>2, <1>3, RacedStays

LEMMA DeleteRaced ==
  ASSUME TypeInv, OnceInv, [Next]_vars, NEW r \in Request, NEW p \in Peer, Raced(r, p),
         pc[r][p] = "put", found'[r][p] = found[r][p], NEW s \in Request, DeleteRemove(s, p)
  PROVE  Raced(r, p)'
<1>1. WalkTypes /\ DataTypes
  BY DEF TypeInv, WalkInv
<1> DEFINE l == photo_list[p]
           m == list_remove(l, req[s].photo)
<1>2. photo_list'[p] = m
  BY <1>1 DEF DeleteRemove, DataTypes
<1>3. req[s].op = "delete" /\ req[r].op # "none" /\ s # r
  BY StageKind DEF DeleteRemove
<1>4. req'[r] = req[r] /\ req'[s] = req[s]
  BY <1>3, GoesForward
<1>5. l \in Seq(Photo) /\ m \in Seq(Photo) /\ DOMAIN l = 1..Len(l) /\ DOMAIN m = 1..Len(m)
  <2>1. l \in Seq(Photo)
    BY <1>1 DEF DataTypes
  <2>2. m \in Seq(Photo)
    BY <2>1, RemoveType
  <2> HIDE DEF m
  <2> QED
    BY <2>1, <2>2, LenProperties
<1>6. Thinned(m, l)
  BY <1>5, RemoveThins
<1>7. \A h \in 1..Len(l) : l[h].id # req[s].photo => \E i \in 1..Len(m) : m[i] = l[h]
  BY <1>5, RemoveKeeps
<1>8. ~Holds(l, req[s].photo) => m = l
  BY RemoveNone
<1>9. Holds(l, req[s].photo) => pc'[s][p] = "unlink"
  BY <1>1 DEF DeleteRemove, Goto, WalkTypes
<1> HIDE DEF m
<1>10. Node(r, p)' = {i \in 1..Len(m) : m[i].id = req[r].photo /\ m[i].node = found[r][p]}
  BY <1>2, <1>4, <1>5 DEF Node
<1>11. Node(r, p) = {i \in 1..Len(l) : l[i].id = req[r].photo /\ l[i].node = found[r][p]}
  BY <1>5 DEF Node
<1>12. ASSUME NEW o \in {"delete", "keyword"}, Rival(r, p, o) PROVE Rival(r, p, o)'
  BY <1>3, <1>12, RivalStays
<1>13. Node(r, p)' = {} => Rival(r, p, "delete")'
  <2>1. CASE ~Holds(l, req[s].photo)
    BY <1>8, <1>10, <1>11, <1>12, <2>1 DEF Raced
  <2>2. CASE Holds(l, req[s].photo) /\ req[s].photo = req[r].photo
    BY <1>3, <1>4, <1>9, <2>2 DEF Rival, Past
  <2>3. CASE req[s].photo # req[r].photo
    <3>1. Node(r, p)' = {} => Node(r, p) = {}
      BY <1>7, <1>10, <1>11, <2>3
    <3> QED
      BY <1>12, <3>1 DEF Raced
  <2> QED
    BY <2>1, <2>2, <2>3
<1>14. ASSUME NEW i \in Node(r, p)', Len(m[i].keyword) >= MAX_KEYWORDS
       PROVE  Rival(r, p, "keyword")
  <2>1. PICK from \in [1..Len(m) -> 1..Len(l)] : \A h \in 1..Len(m) : m[h] = l[from[h]]
    BY <1>6 DEF Thinned
  <2>2. i \in 1..Len(m)
    BY <1>10
  <2>3. from[i] \in 1..Len(l) /\ m[i] = l[from[i]]
    BY <2>1, <2>2
  <2>4. from[i] \in Node(r, p)
    BY <1>10, <1>11, <2>3
  <2> QED
    BY <1>14, <2>3, <2>4 DEF Raced
<1> QED
  BY <1>2, <1>12, <1>13, <1>14 DEF Raced

LEMMA RaceInit == Init => RaceInv
BY DEF Init, RaceInv

LEMMA RaceStep ==
  ASSUME TypeInv, OnceInv, ListInv, RaceInv, [Next]_vars
  PROVE  RaceInv'
<1> SUFFICES ASSUME NEW r \in Request, NEW p \in Peer, pc'[r][p] = "put"
             PROVE  Raced(r, p)'
  BY DEF RaceInv
<1>1. CASE KeywordFind(r, p)
  BY <1>1, FindRaced
<1>2. ASSUME pc[r][p] = "put", found'[r][p] = found[r][p] PROVE Raced(r, p)'
  <2>1. Raced(r, p)
    BY <1>2 DEF RaceInv
  <2>2. CASE photo_list'[p] = photo_list[p]
    BY <1>2, <2>1, <2>2, RacedStays
  <2>3. ASSUME NEW s \in Request, NEW q \in Peer, q # p,
               AddInsert(s, q) \/ KeywordPut(s, q) \/ DeleteRemove(s, q)
        PROVE  photo_list'[p] = photo_list[p]
    BY <2>3 DEF TypeInv, DataTypes, AddInsert, KeywordPut, DeleteRemove, Put
  <2>4. CASE JoinPhotos
    <3>1. Joiner \in Peer /\ status[Joiner] = "joining"
      BY <2>4, FirstMember DEF JoinPhotos
    <3>2. p # Joiner
      BY <1>2, <3>1 DEF OnceInv, Outside
    <3> QED
      BY <2>2, <2>4, <3>2 DEF JoinPhotos, TypeInv, DataTypes
  <2> QED
    BY <1>2, <2>1, <2>2, <2>3, <2>4, ListCases, AddRaced, PutRaced, DeleteRaced
<1> QED
  BY <1>1, <1>2, PutCases

LEMMA RaceHolds == Spec => [](TypeInv /\ OnceInv /\ ListInv /\ RaceInv)
<1>1. TypeInv /\ OnceInv /\ ListInv /\ RaceInv /\ [Next]_vars =>
        TypeInv' /\ OnceInv' /\ ListInv' /\ RaceInv'
  BY TypeStep, OnceStep, ListStep, RaceStep
<1> QED
  BY <1>1, TypeInit, OnceInit, ListInit, RaceInit, PTL DEF Spec

(* A keyword thread corrupts the memory of its peer only after another       *)
(* request on the same photo came between its checks and its write, and one  *)
(* of the right kind (peer.c: add_keyword).                                  *)
THEOREM FaultsRaced == Spec => FaultNeedsRace
<1> DEFINE Race(r, p) ==
      KeywordPut(r, p) /\ status'[p] \in {"freed", "overrun"} =>
        \E s \in Request \ {r} :
          /\ req[s].photo = req[r].photo
          /\ req[s].op = IF status'[p] = "freed" THEN "delete" ELSE "keyword"
          /\ pc[s][p] \notin {"none", "remove", "find", "put"}
<1>1. ASSUME TypeInv, RaceInv, NEW r \in Request, NEW p \in Peer PROVE Race(r, p)
  <2>1. SUFFICES ASSUME KeywordPut(r, p), status'[p] \in {"freed", "overrun"}
                 PROVE  \E o \in {"delete", "keyword"} :
                          o = (IF status'[p] = "freed" THEN "delete" ELSE "keyword")
                          /\ Rival(r, p, o)
    BY DEF Rival, Past
  <2>2. Raced(r, p) /\ Up(p) /\ StateTypes /\ DataTypes
    BY <1>1, <2>1 DEF RaceInv, KeywordPut, TypeInv
  <2>3. CASE Node(r, p) = {} /\ Fault(p, "freed")
    BY <2>2, <2>3 DEF Fault, StateTypes, Raced
  <2>4. ASSUME NEW i \in Node(r, p), ~(Len(photo_list[p][i].keyword) < MAX_KEYWORDS),
               Fault(p, "overrun")
        PROVE  status'[p] = "overrun" /\ Rival(r, p, "keyword")
    <3>1. photo_list[p] \in Seq(Photo) /\ i \in 1..Len(photo_list[p])
      BY <2>2, LenProperties DEF DataTypes, Node
    <3>2. Len(photo_list[p][i].keyword) \in Nat
      BY <3>1, ElementOfSeq, LenProperties DEF Photo
    <3>3. Len(photo_list[p][i].keyword) >= MAX_KEYWORDS
      BY <2>4, <3>2, ReplicationAssumption
    <3> QED
      BY <2>2, <2>4, <3>3 DEF Fault, StateTypes, Raced
  <2>5. CASE UNCHANGED status
    BY <2>1, <2>2, <2>5 DEF Up
  <2> QED
    BY <2>1, <2>3, <2>4, <2>5 DEF KeywordPut
<1>2. TypeInv /\ RaceInv /\ [Next]_vars =>
        [\A r \in Request, p \in Peer : Race(r, p)]_vars
  BY <1>1
<1> HIDE DEF Race
<1>3. Spec => [][\A r \in Request, p \in Peer : Race(r, p)]_vars
  BY <1>2, RaceHolds, PTL DEF Spec
<1> QED
  BY <1>3 DEF FaultNeedsRace, Race
-----------------------------------------------------------------------------
(* The joiner, where nothing is deleted.                                     *)

(* What the steps make of the ids that are listed.                           *)
LEMMA AddIds ==
  ASSUME TypeInv, NEW r \in Request, NEW p \in Peer, AddInsert(r, p)
  PROVE  /\ Ids(photo_list'[p]) = Ids(photo_list[p]) \cup {req[r].photo}
         /\ \A q \in Peer : q # p => photo_list'[q] = photo_list[q]
         /\ pc'[r][p] = "store" /\ req'[r] = req[r]
<1>1. WalkTypes /\ DataTypes
  BY DEF TypeInv, WalkInv
<1> DEFINE l == photo_list[p]
           e == [id |-> req[r].photo, keyword |-> <<>>, node |-> "add"]
<1>2. /\ photo_list'[p] = list_insert(l, e)
      /\ \A q \in Peer : q # p => photo_list'[q] = photo_list[q]
  BY <1>1 DEF AddInsert, DataTypes
<1>3. pc'[r][p] = "store" /\ req'[r] = req[r]
  BY <1>1 DEF AddInsert, Goto, WalkTypes, clients
<1>4. req[r].photo \in Nat
  BY StageKind DEF AddInsert
<1>5. e \in Photo
  BY <1>4 DEF Photo
<1>6. e.keyword = <<>> /\ e.id = req[r].photo
  OBVIOUS
<1>7. l \in Seq(Photo)
  BY <1>1 DEF DataTypes
<1> HIDE DEF e, l
<1>8. Ids(list_insert(l, e)) = Ids(l) \cup {e.id}
  BY <1>5, <1>6, <1>7, InsertShows
<1> QED
  BY <1>2, <1>3, <1>6, <1>8 DEF l

LEMMA PutIds ==
  ASSUME TypeInv, NEW r \in Request, NEW p \in Peer, KeywordPut(r, p), NEW q \in Peer
  PROVE  Ids(photo_list'[q]) = Ids(photo_list[q])
<1>1. WalkTypes /\ DataTypes
  BY DEF TypeInv, WalkInv
<1>2. UNCHANGED photo_list \/ \E i \in Node(r, p) : Put(r, p, i)
  BY DEF KeywordPut
<1>3. ASSUME NEW i \in Node(r, p), Put(r, p, i)
      PROVE  Ids(photo_list'[q]) = Ids(photo_list[q])
  <2> DEFINE l == photo_list[p]
             w == req[r].keyword
             m == [l EXCEPT ![i].keyword = Append(@, w)]
  <2>1. photo_list' = [photo_list EXCEPT ![p] = m]
    BY <1>3 DEF Put
  <2>2. w \in Keyword
    BY StageKind DEF KeywordPut, TypeInv, Orders
  <2>3. l \in Seq(Photo) /\ i \in 1..Len(l) /\ Len(l) \in Nat
    BY <1>1, LenProperties DEF DataTypes, Node
  <2>4. /\ m \in Seq(Photo) /\ Len(m) = Len(l)
        /\ \A h \in 1..Len(l) :
             /\ m[h].id = l[h].id /\ m[h].node = l[h].node
             /\ Len(m[h].keyword) =
                  IF h = i THEN Len(l[h].keyword) + 1 ELSE Len(l[h].keyword)
             /\ ToSet(m[h].keyword) =
                  IF h = i THEN ToSet(l[h].keyword) \cup {w} ELSE ToSet(l[h].keyword)
    BY <2>2, <2>3, PutShows
  <2> HIDE DEF m
  <2>5. Ids(m) = Ids(l)
    BY <2>4 DEF Ids
  <2>6. photo_list'[p] = m /\ (q # p => photo_list'[q] = photo_list[q])
    BY <1>1, <2>1 DEF DataTypes
  <2> QED
    BY <2>5, <2>6
<1> QED
  BY <1>2, <1>3

LEMMA JoinIds ==
  ASSUME TypeInv, JoinPhotos, Ids(photo_list[First]) \subseteq files[First]
  PROVE  /\ Ids(photo_list'[Joiner]) = Ids(photo_list[First])
         /\ files'[Joiner] = Ids(photo_list[First])
         /\ \A q \in Peer : q # Joiner => photo_list'[q] = photo_list[q] /\ files'[q] = files[q]
<1>1. WalkTypes /\ DataTypes
  BY DEF TypeInv, WalkInv
<1>2. Joiner \in Peer /\ First \in Peer
  BY FirstMember DEF JoinPhotos
<1> DEFINE l == photo_list[First]
           m == [i \in DOMAIN Snapshot(l) |-> [Snapshot(l)[i] EXCEPT !.node = "join"]]
<1>3. /\ photo_list' = [photo_list EXCEPT ![Joiner] = m]
      /\ files' = [files EXCEPT ![Joiner] = Ids(Snapshot(l))]
  BY DEF JoinPhotos
<1>4. l \in Seq(Photo)
  BY <1>1, <1>2 DEF DataTypes
<1>5. Ids(m) = Ids(l) /\ Ids(Snapshot(l)) = Ids(l)
  <2> HIDE DEF l
  <2> QED
    BY <1>4, SnapshotPhotos
<1> HIDE DEF m
<1> QED
  BY <1>1, <1>2, <1>3, <1>5 DEF DataTypes

(* A photo without a file at the peer that lists it is just being stored.    *)
Filed(p) ==
  \A id \in Ids(photo_list[p]) :
    id \in files[p] \/ \E r \in Request : pc[r][p] = "store" /\ req[r].photo = id

(* Where nothing is deleted: every member has the photos of the start, the   *)
(* joiner has them once its first member, still in service, has sent them,   *)
(* and it listens no earlier.                                                *)
OldInv ==
  /\ \A r \in Request : req[r].op # "delete"
  /\ \A p \in Peer : p # Joiner => 1..Preloaded \subseteq Ids(photo_list[p])
  /\ Joiner # NoPeer =>
       /\ entering[First] = "known" /\ Up(First) =>
            1..Preloaded \subseteq Ids(photo_list[Joiner])
       /\ Up(Joiner) => entering[First] = "known"
  /\ \A p \in Peer : Filed(p)

(* The list every member starts with.                                        *)
StartList == [i \in 1..Preloaded |->
                [id |-> Preloaded + 1 - i, keyword |-> <<>>, node |-> "start"]]

LEMMA Starting ==
  /\ Len(StartList) = Preloaded
  /\ Ids(StartList) = 1..Preloaded
  /\ \A i \in 1..Preloaded : StartList[i].keyword = <<>>
<1>1. Preloaded \in Nat
  BY ReplicationAssumption
<1>2. Len(StartList) = Preloaded
  BY <1>1 DEF StartList
<1>3. \A i \in 1..Preloaded : /\ StartList[i].id = Preloaded + 1 - i
                              /\ StartList[i].keyword = <<>>
  BY DEF StartList
<1>4. Ids(StartList) = 1..Preloaded
  <2>1. Ids(StartList) \subseteq 1..Preloaded
    BY <1>1, <1>2, <1>3 DEF Ids
  <2>2. 1..Preloaded \subseteq Ids(StartList)
    <3>1. SUFFICES ASSUME NEW n \in 1..Preloaded PROVE n \in Ids(StartList)
      OBVIOUS
    <3>2. Preloaded + 1 - n \in 1..Preloaded /\ Preloaded + 1 - (Preloaded + 1 - n) = n
      BY <1>1
    <3> QED
      BY <1>2, <1>3, <3>2 DEF Ids
  <2> QED
    BY <2>1, <2>2
<1> QED
  BY <1>2, <1>3, <1>4

LEMMA OldInit == Init => OldInv
<1> SUFFICES ASSUME Init PROVE OldInv
  OBVIOUS
<1>1. /\ \A p \in Peer : photo_list[p] = IF p = Joiner THEN <<>> ELSE StartList
      /\ \A p \in Peer : files[p] = IF p = Joiner THEN {} ELSE 1..Preloaded
      /\ \A p \in Peer : entering[p] = "unknown"
      /\ \A p \in Peer : status[p] = IF p = Joiner THEN "outside" ELSE "up"
      /\ \A r \in Request : req[r].op = "none"
  BY DEF Init, NoOp, StartList
<1>2. Ids(StartList) = 1..Preloaded
  BY Starting
<1>3. Ids(<<>>) = {}
  BY DEF Ids
<1>4. Joiner # NoPeer => Joiner \in Peer /\ ~Up(Joiner)
  BY <1>1, FirstMember DEF Up
<1>5. entering[First] # "known"
  BY <1>1, FirstMember
<1>6. \A p \in Peer : Filed(p)
  BY <1>1, <1>2, <1>3 DEF Filed
<1> QED
  BY <1>1, <1>2, <1>4, <1>5, <1>6 DEF OldInv

(* Who touches the files, and how a photo is stored.                         *)
LEMMA FileCases ==
  ASSUME TypeInv, OnceInv, [Next]_vars
  PROVE  /\ \/ UNCHANGED files
            \/ \E r \in Request, p \in Peer : AddStore(r, p) \/ DeleteUnlink(r, p)
            \/ JoinPhotos
         /\ \A r \in Request, p \in Peer :
              pc[r][p] = "store" => pc'[r][p] = "store" \/ AddStore(r, p)
<1>1. WalkTypes /\ DataTypes
  BY DEF TypeInv, WalkInv
<1>2. ASSUME NEW s \in Request, NEW q \in Peer, NEW g, Goto(s, q, g), pc[s][q] # "store"
      PROVE  \A r \in Request, p \in Peer : pc[r][p] = "store" => pc'[r][p] = "store"
  <2>1. \A r \in Request, p \in Peer : s # r \/ q # p => pc'[r][p] = pc[r][p]
    BY <1>1, <1>2 DEF Goto, WalkTypes
  <2> QED
    BY <1>2, <2>1
<1>3. ASSUME NEW s \in Request, NEW q \in Peer, AddStore(s, q)
      PROVE  \A r \in Request, p \in Peer :
               pc[r][p] = "store" => pc'[r][p] = "store" \/ AddStore(r, p)
  <2>1. \A r \in Request, p \in Peer : s # r \/ q # p => pc'[r][p] = pc[r][p]
    BY <1>1, <1>3 DEF AddStore, Goto, WalkTypes
  <2> QED
    BY <1>3, <2>1
<1>4. ASSUME NEW s \in Request, NEW q \in Peer, Issue(s, q)
      PROVE  /\ UNCHANGED files
             /\ \E g : Goto(s, q, g) /\ pc[s][q] # "store"
  BY <1>4, IssueStage DEF Issue, gallery
<1>5. ASSUME NEW s \in Request, NEW q \in Peer, Handle(s, q), ~AddStore(s, q)
      PROVE  /\ UNCHANGED files \/ DeleteUnlink(s, q)
             /\ UNCHANGED pc \/ \E k \in Peer : \E g : Goto(s, k, g) /\ pc[s][k] # "store"
  <2>1. CASE AddInsert(s, q) \/ KeywordFind(s, q)
    BY <2>1 DEF AddInsert, KeywordFind, gallery
  <2>2. CASE KeywordPut(s, q) \/ DeleteRemove(s, q)
    BY <2>2 DEF KeywordPut, DeleteRemove
  <2>3. CASE DeleteUnlink(s, q)
    BY <2>3 DEF DeleteUnlink
  <2>4. CASE BcastLock(s, q) \/ BcastEnd(s, q) \/ BcastDrop(s, q)
    BY <2>4 DEF BcastLock, BcastEnd, BcastDrop, gallery
  <2>5. CASE BcastSend(s, q)
    <3> DEFINE k == peer_list[q][cursor[s]]
    <3>1. k \in Peer /\ pc[s][k] = "none"
      BY <2>5, ToldOnce
    <3>2. UNCHANGED files /\ (UNCHANGED pc \/ Goto(s, k, Start(req[s].op)))
      BY <2>5 DEF BcastSend, gallery
    <3> HIDE DEF k
    <3> QED
      BY <3>1, <3>2
  <2> QED
    BY <1>5, <2>1, <2>2, <2>3, <2>4, <2>5 DEF Handle
<1>6. ASSUME NEW q \in Peer, JoinRegister(q) \/ Crash(q) PROVE UNCHANGED <<pc, files>>
  BY <1>6 DEF JoinRegister, Crash, gallery
<1>7. ASSUME Join PROVE UNCHANGED pc /\ (UNCHANGED files \/ JoinPhotos)
  BY <1>7 DEF Join, JoinAsk, JoinPhotos, JoinNoPhotos, JoinTell, JoinListen, gallery
<1>8. UNCHANGED vars => UNCHANGED <<pc, files>>
  BY DEF vars, gallery
<1> QED
  BY <1>2, <1>3, <1>4, <1>5, <1>6, <1>7, <1>8 DEF Next
-----------------------------------------------------------------------------
(* Without deletions no peer loses a photo it lists, except that the joiner  *)
(* begins its list.                                                          *)
LEMMA ListsGrow ==
  ASSUME TypeInv, OldInv, [Next]_vars, NEW p \in Peer, p # Joiner \/ ~JoinPhotos
  PROVE  Ids(photo_list[p]) \subseteq Ids(photo_list'[p])
<1>1. ASSUME NEW r \in Request, NEW q \in Peer, AddInsert(r, q)
      PROVE  Ids(photo_list[p]) \subseteq Ids(photo_list'[p])
  BY <1>1, AddIds
<1>2. ASSUME NEW r \in Request, NEW q \in Peer, KeywordPut(r, q)
      PROVE  Ids(photo_list[p]) \subseteq Ids(photo_list'[p])
  BY <1>2, PutIds
<1>3. ASSUME NEW r \in Request, NEW q \in Peer PROVE ~DeleteRemove(r, q)
  BY StageKind DEF DeleteRemove, OldInv
<1>4. CASE JoinPhotos
  BY <1>4 DEF JoinPhotos, TypeInv, DataTypes
<1> QED
  BY <1>1, <1>2, <1>3, <1>4, ListCases

LEMMA FiledStep ==
  ASSUME TypeInv, OnceInv, OldInv, [Next]_vars, NEW p \in Peer
  PROVE  Filed(p)'
<1>1. WalkTypes /\ DataTypes /\ \A r \in Request, q \in Peer : ~DeleteUnlink(r, q)
  BY StageKind DEF DeleteUnlink, OldInv, TypeInv, WalkInv
<1>2. Filed(p)
  BY DEF OldInv
<1>3. CASE p = Joiner /\ JoinPhotos /\ Ids(photo_list[First]) \subseteq files[First]
  <2>1. Ids(photo_list'[p]) = files'[p]
    BY <1>3, JoinIds
  <2> QED
    BY <2>1 DEF Filed
<1>4. CASE p # Joiner \/ ~JoinPhotos \/ UNCHANGED gallery
  <2>1. SUFFICES ASSUME NEW id \in Ids(photo_list'[p])
                 PROVE  id \in files'[p] \/ \E r \in Request : pc'[r][p] = "store" /\ req'[r].photo = id
    BY DEF Filed
  <2>2. files[p] \subseteq files'[p]
    <3>1. ASSUME NEW r \in Request, NEW q \in Peer, AddStore(r, q) PROVE files[p] \subseteq files'[p]
      BY <1>1, <3>1 DEF AddStore, DataTypes
    <3>2. CASE JoinPhotos
      BY <1>1, <1>4, <3>2 DEF JoinPhotos, gallery, DataTypes
    <3> QED
      BY <1>1, <3>1, <3>2, FileCases
  <2>3. ASSUME NEW r \in Request, pc[r][p] = "store"
        PROVE  req[r].photo \in files'[p]
               \/ (pc'[r][p] = "store" /\ req'[r].photo = req[r].photo)
    <3>1. req[r].op # "none"
      BY <2>3, StageKind
    <3>2. req'[r] = req[r]
      BY <3>1, GoesForward
    <3>3. CASE AddStore(r, p)
      BY <1>1, <3>3 DEF AddStore, DataTypes
    <3> QED
      BY <2>3, <3>2, <3>3, FileCases
  <2>4. CASE id \in Ids(photo_list[p])
    BY <1>2, <2>2, <2>3, <2>4 DEF Filed
  <2>5. CASE id \notin Ids(photo_list[p])
    <3>1. ASSUME NEW r \in Request, NEW q \in Peer, AddInsert(r, q)
          PROVE  pc'[r][p] = "store" /\ req'[r].photo = id
      BY <2>1, <2>5, <3>1, AddIds
    <3>2. \A r \in Request, q \in Peer : ~KeywordPut(r, q)
      BY <2>1, <2>5, PutIds
    <3>3. \A r \in Request, q \in Peer : ~DeleteRemove(r, q)
      BY StageKind DEF DeleteRemove, OldInv
    <3>4. ~JoinPhotos
      BY <1>1, <1>4, <2>1, <2>5 DEF JoinPhotos, gallery, DataTypes
    <3>5. ~UNCHANGED photo_list
      BY <2>1, <2>5
    <3> QED
      BY <3>1, <3>2, <3>3, <3>4, <3>5, ListCases
  <2> QED
    BY <2>4, <2>5
<1>5. JoinPhotos /\ ~(Ids(photo_list[First]) \subseteq files[First]) => UNCHANGED gallery
  BY DEF JoinPhotos, gallery
<1> QED
  BY <1>3, <1>4, <1>5

(* How the state of the first member and of the joiner can change.           *)
LEMMA FirstCases ==
  ASSUME TypeInv, OnceInv, OldInv, [Next]_vars, Joiner # NoPeer
  PROVE  /\ Up(First)' => Up(First)
         /\ entering'[First] = "known" =>
              \/ entering[First] = "known" /\ ~JoinPhotos
              \/ ~Up(First)
              \/ JoinPhotos /\ Ids(photo_list[First]) \subseteq files[First]
         /\ Up(Joiner)' => entering'[First] = "known"
<1>1. StateTypes /\ Entries /\ WalkTypes
  BY DEF TypeInv, OnceInv, WalkInv
<1>2. First \in Peer /\ Joiner \in Peer /\ First # Joiner
  BY FirstMember
<1>3. Up(Joiner) => entering[First] = "known"
  BY DEF OldInv
<1> DEFINE Goal == /\ Up(First)' => Up(First)
                   /\ entering'[First] = "known" =>
                        \/ entering[First] = "known" /\ ~JoinPhotos
                        \/ ~Up(First)
                        \/ JoinPhotos /\ Ids(photo_list[First]) \subseteq files[First]
                   /\ Up(Joiner)' => entering'[First] = "known"
<1>4. ASSUME ~JoinPhotos, entering'[First] = entering[First],
             \/ UNCHANGED status
             \/ \E p \in Peer, f \in {"freed", "overrun", "nofile", "crashed", "exited"} :
                  status' = [status EXCEPT ![p] = f]
      PROVE  Goal
  BY <1>1, <1>2, <1>3, <1>4 DEF StateTypes, Up
<1>5. JoinPhotos => entering[First] = "asked" /\ status[Joiner] = "joining"
  BY DEF JoinPhotos
<1>6. ASSUME NEW r \in Request, NEW p \in Peer,
             \/ Issue(r, p) \/ Local(r, p) \/ BcastLock(r, p) \/ BcastSend(r, p)
             \/ BcastDrop(r, p) \/ BcastEnd(r, p)
      PROVE  /\ UNCHANGED entering
             /\ UNCHANGED status \/ \E f \in {"freed", "overrun", "nofile"} :
                                     status' = [status EXCEPT ![p] = f]
  BY <1>6 DEF Issue, Local, BcastLock, BcastSend, BcastDrop, BcastEnd, members, Fault
<1>7. ASSUME NEW q \in Peer, Crash(q)
      PROVE  UNCHANGED entering /\ status' = [status EXCEPT ![q] = "crashed"]
  BY <1>7 DEF Crash, Fault
<1>8. UNCHANGED vars => UNCHANGED <<entering, status>>
  BY DEF vars, members
<1>9. ASSUME NEW q \in Peer, JoinRegister(q)
      PROVE  UNCHANGED status /\ entering'[First] = entering[First]
  <2>1. q # First
    BY <1>1, <1>9 DEF JoinRegister, Entries, Entered
  <2> QED
    BY <1>1, <1>2, <1>9, <2>1 DEF JoinRegister, StateTypes
<1>10. CASE JoinAsk
  <2>1. /\ status[Joiner] = "outside"
        /\ \/ /\ status' = [status EXCEPT ![Joiner] = "joining"]
              /\ entering' = [entering EXCEPT ![First] = "asked"]
           \/ status' = [status EXCEPT ![Joiner] = "exited"] /\ UNCHANGED entering
    BY <1>10 DEF JoinAsk, Fault
  <2> QED
    BY <1>1, <1>2, <1>4, <1>5, <2>1 DEF StateTypes, Up
<1>11. CASE JoinPhotos
  <2>1. /\ entering[First] = "asked" /\ Up(First) /\ status[Joiner] = "joining"
        /\ \/ /\ Ids(photo_list[First]) \subseteq files[First]
              /\ entering' = [entering EXCEPT ![First] = "known"] /\ UNCHANGED status
           \/ status' = [status EXCEPT ![First] = "nofile"] /\ UNCHANGED entering
    BY <1>11 DEF JoinPhotos, Fault
  <2> QED
    BY <1>1, <1>2, <1>11, <2>1 DEF StateTypes, Up
<1>12. CASE JoinNoPhotos
  <2>1. /\ entering[First] = "asked" /\ ~Up(First) /\ status[Joiner] = "joining"
        /\ \/ entering' = [entering EXCEPT ![First] = "known"] /\ UNCHANGED status
           \/ status' = [status EXCEPT ![Joiner] = "exited"] /\ UNCHANGED entering
    BY <1>12 DEF JoinNoPhotos, Fault
  <2> QED
    BY <1>1, <1>2, <2>1 DEF StateTypes, Up
<1>13. CASE JoinTell
  <2>1. /\ entering[First] = "known"
        /\ \/ entering' = [entering EXCEPT ![Members[NextTold]] = "told"] /\ UNCHANGED status
           \/ status' = [status EXCEPT ![Joiner] = "exited"] /\ UNCHANGED entering
    BY <1>13 DEF JoinTell, Fault
  <2>2. Members[NextTold] # First
    BY <1>13, NextToldUnknown, FirstMember DEF JoinTell
  <2>3. entering'[First] = entering[First]
    BY <1>1, <1>2, <2>1, <2>2 DEF StateTypes
  <2> QED
    BY <1>4, <1>5, <2>1, <2>3, <1>2
<1>14. CASE JoinListen
  <2>1. /\ entering[First] = "known" /\ UNCHANGED entering
        /\ status' = [status EXCEPT ![Joiner] = "up"]
    BY <1>14 DEF JoinListen
  <2> QED
    BY <1>1, <1>2, <1>5, <2>1 DEF StateTypes, Up
<1>15. Goal
  <2>1. CASE JoinPhotos
    BY <1>11, <2>1
  <2>2. CASE ~JoinPhotos
    <3>1. CASE Join
      BY <1>10, <1>12, <1>13, <1>14, <2>2, <3>1 DEF Join
    <3>2. ASSUME NEW r \in Request, NEW p \in Peer,
                 \/ Issue(r, p) \/ Local(r, p) \/ BcastLock(r, p) \/ BcastSend(r, p)
                 \/ BcastDrop(r, p) \/ BcastEnd(r, p)
          PROVE  Goal
      <4> HIDE DEF Goal
      <4> QED
        BY <1>4, <1>6, <2>2, <3>2
    <3>3. ASSUME NEW q \in Peer, JoinRegister(q) \/ Crash(q) PROVE Goal
      <4> HIDE DEF Goal
      <4> QED
        BY <1>4, <1>7, <1>9, <2>2, <3>3
    <3>4. CASE UNCHANGED vars
      BY <1>4, <1>8, <2>2, <3>4
    <3> HIDE DEF Goal
    <3> QED
      BY <3>1, <3>2, <3>3, <3>4, StepCases
  <2> QED
    BY <2>1, <2>2
<1> QED
  BY <1>15

LEMMA OldStep ==
  ASSUME TypeInv, OnceInv, OldInv, [Next]_vars, "delete" \notin Op
  PROVE  OldInv'
<1>1. \A r \in Request : req'[r].op # "delete"
  <2>1. ASSUME NEW r \in Request, NEW p \in Peer, Issue(r, p)
        PROVE  \A t \in Request : req'[t].op # "delete"
    <3>1. \E o \in Op \cup {"add"} : \E id, k :
            req' = [req EXCEPT ![r] = [op |-> o, photo |-> id, keyword |-> k, home |-> p]]
      BY <2>1 DEF Issue
    <3>2. PICK o \in Op \cup {"add"} : \E id, k :
            req' = [req EXCEPT ![r] = [op |-> o, photo |-> id, keyword |-> k, home |-> p]]
      BY <3>1
    <3>3. PICK id, k :
            req' = [req EXCEPT ![r] = [op |-> o, photo |-> id, keyword |-> k, home |-> p]]
      BY <3>2
    <3>4. req'[r].op = o /\ \A t \in Request : t # r => req'[t] = req[t]
      BY <3>3 DEF TypeInv, DataTypes
    <3> QED
      BY <3>4 DEF OldInv
  <2> QED
    BY <2>1, ListCases DEF clients, OldInv
<1>2. \A p \in Peer : p # Joiner => 1..Preloaded \subseteq Ids(photo_list'[p])
  BY ListsGrow DEF OldInv
<1>3. ASSUME Joiner # NoPeer
      PROVE  /\ entering'[First] = "known" /\ Up(First)' =>
                  1..Preloaded \subseteq Ids(photo_list'[Joiner])
             /\ Up(Joiner)' => entering'[First] = "known"
  <2>1. Joiner \in Peer /\ First \in Peer /\ First # Joiner
    BY <1>3, FirstMember
  <2>2. CASE JoinPhotos /\ Ids(photo_list[First]) \subseteq files[First]
    BY <1>3, <2>1, <2>2, JoinIds, FirstCases DEF OldInv
  <2>3. CASE ~JoinPhotos
    BY <1>3, <2>1, <2>3, ListsGrow, FirstCases DEF OldInv
  <2>4. CASE JoinPhotos /\ ~(Ids(photo_list[First]) \subseteq files[First])
    BY <1>3, <2>1, <2>4, FirstCases DEF JoinPhotos
  <2> QED
    BY <2>2, <2>3, <2>4
<1>4. \A p \in Peer : Filed(p)'
  BY FiledStep
<1> QED
  BY <1>1, <1>2, <1>3, <1>4 DEF OldInv

(* Where clients only add photos and keywords, a peer that enters while they *)
(* do has, once it is in service, every photo of the start, if the member    *)
(* that sent them has not failed (peer.c: main, send_all_photos).            *)
THEOREM JoinerComplete == ASSUME "delete" \notin Op PROVE Spec => []JoinerHasOld
<1>1. TypeInv /\ OnceInv /\ OldInv /\ [Next]_vars => TypeInv' /\ OnceInv' /\ OldInv'
  BY TypeStep, OnceStep, OldStep
<1>2. OldInv => JoinerHasOld
  <2>1. SUFFICES ASSUME OldInv, NEW p \in Peer, p = Joiner, Up(p), Up(First)
                 PROVE  /\ 1..Preloaded \subseteq Ids(photo_list[p])
                        /\ Ids(photo_list[p]) \ files[p] \subseteq
                             {req[r].photo : r \in {r \in Request : pc[r][p] = "store"}}
    BY DEF JoinerHasOld
  <2>2. Joiner # NoPeer
    BY <2>1, ReplicationAssumption
  <2>3. Filed(p)
    BY <2>1 DEF OldInv
  <2>4. Ids(photo_list[p]) \ files[p] \subseteq
          {req[r].photo : r \in {r \in Request : pc[r][p] = "store"}}
    BY <2>3 DEF Filed
  <2> QED
    BY <2>1, <2>2, <2>4 DEF OldInv
<1> QED
  BY <1>1, <1>2, TypeInit, OnceInit, OldInit, PTL DEF Spec
-----------------------------------------------------------------------------
(* Spreading: how a request reaches the peers.                               *)

(* A thread moves by a step of its own, or begins: with its request, or when *)
(* the home of the request tells its peer.                                   *)
Own(s, p) ==
  \/ AddInsert(s, p) \/ AddStore(s, p)
  \/ KeywordFind(s, p) \/ KeywordPut(s, p)
  \/ DeleteRemove(s, p) \/ DeleteUnlink(s, p)
  \/ BcastLock(s, p) \/ BcastEnd(s, p)

Told(s, p) ==
  /\ pc[s][p] = "none" /\ p # req[s].home /\ req[s].home \in Peer
  /\ pc'[s][p] = Start(req[s].op) /\ pc'[s][req[s].home] = "bcast"

LEMMA MoveCases ==
  ASSUME TypeInv, OnceInv, [Next]_vars, NEW s \in Request, NEW p \in Peer
  PROVE  pc'[s][p] = pc[s][p] \/ Issue(s, p) \/ Own(s, p) \/ Told(s, p)
<1>1. WalkTypes
  BY DEF TypeInv, WalkInv
<1>2. ASSUME NEW r \in Request, NEW q \in Peer, NEW g, Goto(r, q, g), r # s \/ q # p
      PROVE  pc'[s][p] = pc[s][p]
  BY <1>1, <1>2 DEF Goto, WalkTypes
<1>3. ASSUME NEW r \in Request, NEW q \in Peer, Issue(r, q)
      PROVE  pc'[s][p] = pc[s][p] \/ Issue(s, p)
  BY <1>2, <1>3 DEF Issue
<1>4. ASSUME NEW r \in Request, NEW q \in Peer, BcastSend(r, q)
      PROVE  pc'[s][p] = pc[s][p] \/ Told(s, p)
  <2> DEFINE k == peer_list[q][cursor[r]]
  <2>1. k \in Peer /\ k # q /\ pc[r][k] = "none" /\ q = req[r].home
    BY <1>4, ToldOnce
  <2>2. UNCHANGED pc \/ Goto(r, k, Start(req[r].op))
    BY <1>4 DEF BcastSend
  <2>3. pc[r][q] = "bcast"
    BY <1>4 DEF BcastSend
  <2> HIDE DEF k
  <2>4. CASE Goto(r, k, Start(req[r].op)) /\ r = s /\ k = p
    <3>1. pc'[s][p] = Start(req[s].op) /\ pc'[s][q] = "bcast"
      BY <1>1, <2>1, <2>3, <2>4 DEF Goto, WalkTypes
    <3> QED
      BY <2>1, <2>4, <3>1 DEF Told
  <2> QED
    BY <1>2, <2>1, <2>2, <2>4
<1>5. ASSUME NEW r \in Request, NEW q \in Peer, Own(r, q)
      PROVE  pc'[s][p] = pc[s][p] \/ Own(s, p)
  <2>1. UNCHANGED pc \/ \E g : Goto(r, q, g)
    <3>1. CASE AddInsert(r, q) \/ AddStore(r, q) \/ DeleteRemove(r, q) \/ DeleteUnlink(r, q)
      BY <3>1 DEF AddInsert, AddStore, DeleteRemove, DeleteUnlink
    <3>2. CASE KeywordFind(r, q) \/ KeywordPut(r, q) \/ BcastLock(r, q) \/ BcastEnd(r, q)
      BY <3>2 DEF KeywordFind, KeywordPut, BcastLock, BcastEnd
    <3> QED
      BY <1>5, <3>1, <3>2 DEF Own
  <2> QED
    BY <1>2, <1>5, <2>1
<1>6. ASSUME NEW r \in Request, NEW q \in Peer, BcastDrop(r, q) PROVE UNCHANGED pc
  BY <1>6 DEF BcastDrop
<1>7. ASSUME NEW q \in Peer, JoinRegister(q) \/ Crash(q) PROVE UNCHANGED pc
  BY <1>7 DEF JoinRegister, Crash
<1>8. ASSUME Join PROVE UNCHANGED pc
  BY <1>8 DEF Join, JoinAsk, JoinPhotos, JoinNoPhotos, JoinTell, JoinListen
<1>9. UNCHANGED vars => UNCHANGED pc
  BY DEF vars
<1>10. ASSUME NEW r \in Request, NEW q \in Peer, Handle(r, q)
       PROVE  Own(r, q) \/ BcastSend(r, q) \/ BcastDrop(r, q)
  BY <1>10 DEF Handle, Own
<1> QED
  BY <1>3, <1>4, <1>5, <1>6, <1>7, <1>8, <1>9, <1>10 DEF Next

(* What a thread of its own step came from, and where it goes.               *)
LEMMA OwnStages ==
  ASSUME TypeInv, NEW s \in Request, NEW p \in Peer, Own(s, p)
  PROVE  \/ AddInsert(s, p) /\ pc[s][p] = "insert" /\ pc'[s][p] = "store"
         \/ AddStore(s, p) /\ pc[s][p] = "store" /\ pc'[s][p] = After(s, p)
         \/ KeywordFind(s, p) /\ pc[s][p] = "find" /\ pc'[s][p] = "put" /\ Addable(s, p)
         \/ KeywordFind(s, p) /\ pc[s][p] = "find" /\ pc'[s][p] = "done" /\ ~Addable(s, p)
         \/ KeywordPut(s, p) /\ pc[s][p] = "put" /\ pc'[s][p] \in {"put", After(s, p)}
         \/ DeleteRemove(s, p) /\ pc[s][p] = "remove" /\ pc'[s][p] \in {"unlink", "done"}
         \/ DeleteUnlink(s, p) /\ pc[s][p] = "unlink" /\ pc'[s][p] = After(s, p)
         \/ BcastLock(s, p) /\ pc[s][p] = "lock" /\ pc'[s][p] = "bcast"
         \/ BcastEnd(s, p) /\ pc[s][p] = "bcast" /\ pc'[s][p] = "done"
<1>1. WalkTypes
  BY DEF TypeInv, WalkInv
<1>2. ASSUME NEW g, Goto(s, p, g) PROVE pc'[s][p] = g
  BY <1>1, <1>2 DEF Goto, WalkTypes
<1>3. CASE AddInsert(s, p) \/ AddStore(s, p)
  BY <1>2, <1>3 DEF AddInsert, AddStore
<1>4. CASE KeywordFind(s, p)
  BY <1>2, <1>4 DEF KeywordFind
<1>5. CASE KeywordPut(s, p)
  BY <1>2, <1>5 DEF KeywordPut
<1>6. CASE DeleteRemove(s, p) \/ DeleteUnlink(s, p)
  BY <1>2, <1>6 DEF DeleteRemove, DeleteUnlink
<1>7. CASE BcastLock(s, p) \/ BcastEnd(s, p)
  BY <1>2, <1>7 DEF BcastLock, BcastEnd
<1> QED
  BY <1>3, <1>4, <1>5, <1>6, <1>7 DEF Own

(* Without a joiner no peer comes into service and no ring grows.            *)
LEMMA NobodyJoins ==
  ASSUME Joiner = NoPeer, TypeInv, OnceInv, [Next]_vars
  PROVE  /\ ~Join /\ \A q \in Peer : ~JoinRegister(q)
         /\ \A q \in Peer : Up(q)' => Up(q)
<1>1. StateTypes /\ Entries
  BY DEF TypeInv, OnceInv
<1>2. ~Join
  BY DEF Join, JoinAsk, JoinPhotos, JoinNoPhotos, JoinTell, JoinListen
<1>3. \A q \in Peer : ~JoinRegister(q)
  BY <1>1 DEF JoinRegister, Entries, Entered
<1>4. ASSUME NEW p \in Peer, NEW f, f # "up", Fault(p, f) PROVE \A q \in Peer : Up(q)' => Up(q)
  BY <1>1, <1>4 DEF Fault, StateTypes, Up
<1>5. UNCHANGED status => \A q \in Peer : Up(q)' => Up(q)
  BY DEF Up
<1>6. ASSUME NEW r \in Request, NEW p \in Peer,
             \/ Issue(r, p) \/ Local(r, p) \/ BcastLock(r, p) \/ BcastSend(r, p)
             \/ BcastDrop(r, p) \/ BcastEnd(r, p)
      PROVE  UNCHANGED status \/ \E f \in {"freed", "overrun", "nofile"} : Fault(p, f)
  BY <1>6 DEF Issue, Local, BcastLock, BcastSend, BcastDrop, BcastEnd, members
<1>7. ASSUME NEW q \in Peer, Crash(q) PROVE Fault(q, "crashed")
  BY <1>7 DEF Crash
<1>8. UNCHANGED vars => UNCHANGED status
  BY DEF vars, members
<1> QED
  BY <1>2, <1>3, <1>4, <1>5, <1>6, <1>7, <1>8, StepCases
-----------------------------------------------------------------------------
(* A closed gallery: nobody enters, keywords and deletions name photos of    *)
(* the start, and no array can fill up.                                      *)
Closed ==
  /\ Joiner = NoPeer /\ Target \subseteq 1..Preloaded
  /\ IsFiniteSet(Request) /\ Cardinality(Request) <= MAX_KEYWORDS

(* Every peer in service is in the ring of every other.                      *)
Reach == \A p, q \in Peer : p # q /\ Up(q) => q \in ToSet(peer_list[p])

(* A request that had an effect at its home has reached every peer in        *)
(* service, or its home still has to tell them.                              *)
Spread(s) ==
  \/ pc[s][req[s].home] \in {"store", "unlink", "lock", "bcast"}
  \/ \A q \in Peer : Up(q) => pc[s][q] # "none"

Spreads ==
  \A s \in Request : req[s].op # "none" =>
    /\ req[s].op = "add" /\ pc[s][req[s].home] # "insert" => Spread(s)
    /\ \A q \in Peer : q # req[s].home /\ pc[s][q] # "none" => Spread(s)

(* New photos are behind those of the start, other requests name the latter. *)
Names ==
  /\ photo_id >= Preloaded
  /\ \A s \in Request :
       /\ req[s].op \in {"keyword", "delete"} => req[s].photo <= Preloaded
       /\ req[s].op = "add" => req[s].photo > Preloaded

SpreadInv == Reach /\ Spreads /\ Names

LEMMA SpreadInit == Closed /\ Init => SpreadInv
<1> SUFFICES ASSUME Closed, Init PROVE SpreadInv
  OBVIOUS
<1>1. Reach
  <2>1. SUFFICES ASSUME NEW p \in Peer, NEW q \in Peer, p # q
                 PROVE  q \in ToSet(RingOf(p))
    BY DEF Init, Reach
  <2>2. Members \in Seq(Peer) /\ q \in ToSet(Members)
    BY ReplicationAssumption DEF Closed
  <2>3. ToSet(Members) \ {p} \subseteq ToSet(ring_remove(Members, p))
    BY <2>2, RingRemoveSet
  <2> QED
    BY <2>1, <2>2, <2>3 DEF RingOf
<1>2. Preloaded \in Nat /\ photo_id = Preloaded /\ \A s \in Request : req[s].op = "none"
  BY ReplicationAssumption DEF Init, NoOp
<1>3. photo_id >= Preloaded
  BY <1>2
<1> QED
  BY <1>1, <1>2, <1>3 DEF SpreadInv, Spreads, Names

LEMMA ReachStep ==
  ASSUME Closed, TypeInv, OnceInv, SpreadInv, [Next]_vars
  PROVE  Reach'
<1>1. WalkTypes /\ Reach
  BY DEF TypeInv, WalkInv, SpreadInv
<1>2. \A q \in Peer : Up(q)' => Up(q)
  BY NobodyJoins DEF Closed
<1>3. CASE UNCHANGED peer_list
  BY <1>1, <1>2, <1>3 DEF Reach
<1>4. ASSUME NEW r \in Request, NEW p \in Peer, BcastDrop(r, p) PROVE Reach'
  <2> DEFINE k == peer_list[p][cursor[r]]
  <2>1. /\ ~Up(k) /\ peer_list' = [peer_list EXCEPT ![p] = ring_remove(@, k)]
    BY <1>4 DEF BcastDrop, Drop
  <2>2. peer_list[p] \in Seq(Peer)
    BY <1>1 DEF WalkTypes
  <2> HIDE DEF k
  <2>3. ToSet(peer_list[p]) \ {k} \subseteq ToSet(ring_remove(peer_list[p], k))
    BY <2>2, RingRemoveSet
  <2>4. /\ peer_list'[p] = ring_remove(peer_list[p], k)
        /\ \A q \in Peer : q # p => peer_list'[q] = peer_list[q]
    BY <1>1, <2>1 DEF WalkTypes
  <2> QED
    BY <1>1, <1>2, <2>1, <2>3, <2>4 DEF Reach
<1>5. ASSUME NEW r \in Request, NEW p \in Peer,
             \/ Issue(r, p) \/ Local(r, p) \/ BcastLock(r, p) \/ BcastSend(r, p)
             \/ BcastEnd(r, p)
      PROVE  UNCHANGED peer_list
  BY <1>5 DEF Issue, Local, BcastLock, BcastSend, BcastEnd, ring
<1>6. ASSUME NEW q \in Peer, Crash(q) PROVE UNCHANGED peer_list
  BY <1>6 DEF Crash, ring
<1>7. UNCHANGED vars => UNCHANGED peer_list
  BY DEF vars, ring
<1>8. ~Join /\ \A q \in Peer : ~JoinRegister(q)
  BY NobodyJoins DEF Closed
<1> QED
  BY <1>3, <1>4, <1>5, <1>6, <1>7, <1>8, StepCases

(* The end of a walk: everybody in service was told.                         *)
LEMMA EndTold ==
  ASSUME TypeInv, OnceInv, SpreadInv, NEW s \in Request, NEW p \in Peer, BcastEnd(s, p)
  PROVE  \A q \in Peer : Up(q) => pc[s][q] # "none"
<1>1. WalkTypes /\ Walks /\ pc[s][p] = "bcast" /\ ~Tell(s, p)
  BY DEF TypeInv, WalkInv, BcastEnd
<1>2. Len(peer_list[p]) \in Nat /\ cursor[s] \in Nat
  BY <1>1, RingPeers DEF WalkTypes
<1>3. \A i \in 1..Len(peer_list[p]) : i < cursor[s]
  BY <1>1, <1>2 DEF Tell
<1>4. \A i \in 1..Len(peer_list[p]) : pc[s][peer_list[p][i]] # "none"
  BY <1>1, <1>3 DEF Walks, Walk
<1>5. DOMAIN peer_list[p] = 1..Len(peer_list[p])
  BY <1>1, LenProperties DEF WalkTypes
<1>6. SUFFICES ASSUME NEW q \in Peer, Up(q), q # p PROVE pc[s][q] # "none"
  BY <1>1
<1>7. q \in ToSet(peer_list[p])
  BY <1>6 DEF SpreadInv, Reach
<1> QED
  BY <1>4, <1>5, <1>7 DEF ToSet

LEMMA SpreadStays ==
  ASSUME Closed, TypeInv, OnceInv, SpreadInv, [Next]_vars, NEW s \in Request,
         req[s].op # "none", Spread(s)
  PROVE  Spread(s)'
<1>1. req'[s] = req[s] /\ req[s].home \in Peer
  BY GoesForward DEF TypeInv, Orders
<1>2. \A q \in Peer : pc[s][q] # "none" => pc'[s][q] # "none"
  BY GoesForward DEF Forward
<1>3. \A q \in Peer : Up(q)' => Up(q)
  BY NobodyJoins DEF Closed
<1>4. CASE \A q \in Peer : Up(q) => pc[s][q] # "none"
  BY <1>2, <1>3, <1>4 DEF Spread
<1>5. CASE pc[s][req[s].home] \in {"store", "unlink", "lock", "bcast"}
  <2> DEFINE h == req[s].home
  <2>1. CASE pc'[s][h] = pc[s][h]
    BY <1>1, <1>5, <2>1 DEF Spread
  <2>2. CASE BcastEnd(s, h)
    BY <1>1, <1>4, <2>2, EndTold
  <2>3. ~Issue(s, h) /\ ~Told(s, h)
    BY <1>5 DEF Issue, Told
  <2>4. CASE Own(s, h) /\ ~BcastEnd(s, h)
    <3>1. After(s, h) = "lock"
      BY DEF After
    <3>2. pc'[s][h] \in {"lock", "bcast"}
      BY <1>1, <1>5, <2>4, <3>1, OwnStages
    <3> QED
      BY <1>1, <3>2 DEF Spread
  <2> QED
    BY <1>1, <2>1, <2>2, <2>3, <2>4, MoveCases
<1> QED
  BY <1>4, <1>5 DEF Spread

LEMMA NamesStep ==
  ASSUME Closed, TypeInv, OnceInv, SpreadInv, [Next]_vars
  PROVE  Names'
<1>1. DataTypes /\ Names
  BY DEF TypeInv, SpreadInv
<1>2. CASE UNCHANGED clients
  BY <1>1, <1>2 DEF Names, clients
<1>3. ASSUME NEW r \in Request, NEW p \in Peer, Issue(r, p) PROVE Names'
  <2>1. photo_id \in Nat /\ Preloaded \in Nat
    BY <1>1, ReplicationAssumption DEF DataTypes
  <2>2. CASE /\ photo_id' = photo_id + 1
             /\ req' = [req EXCEPT ![r] = [op |-> "add", photo |-> photo_id + 1,
                                           keyword |-> "", home |-> p]]
    <3>1. photo_id' = photo_id + 1
      BY <2>2
    <3>2. photo_id >= Preloaded
      BY <1>1 DEF Names
    <3>3. photo_id' >= Preloaded /\ photo_id + 1 > Preloaded
      BY <2>1, <3>1, <3>2
    <3>4. /\ req'[r].op = "add" /\ req'[r].photo = photo_id + 1
          /\ \A t \in Request : t # r => req'[t] = req[t]
      BY <1>1, <2>2 DEF DataTypes
    <3> QED
      BY <1>1, <3>3, <3>4 DEF Names
  <2>3. ASSUME NEW o \in {"keyword", "delete"}, NEW id \in Target, NEW k,
               req' = [req EXCEPT ![r] = [op |-> o, photo |-> id, keyword |-> k, home |-> p]],
               UNCHANGED photo_id
        PROVE  Names'
    <3>1. /\ req'[r].op = o /\ req'[r].photo = id
          /\ \A t \in Request : t # r => req'[t] = req[t]
      BY <1>1, <2>3 DEF DataTypes
    <3>2. id <= Preloaded
      BY <2>1 DEF Closed
    <3> QED
      BY <1>1, <2>3, <3>1, <3>2 DEF Names
  <2> QED
    BY <1>3, <2>2, <2>3 DEF Issue
<1> QED
  BY <1>2, <1>3, ListCases

LEMMA SpreadsStep ==
  ASSUME Closed, TypeInv, OnceInv, SpreadInv, [Next]_vars
  PROVE  Spreads'
<1>1. SUFFICES ASSUME NEW s \in Request, req'[s].op # "none"
               PROVE  /\ req'[s].op = "add" /\ pc'[s][req'[s].home] # "insert" => Spread(s)'
                      /\ \A q \in Peer : q # req'[s].home /\ pc'[s][q] # "none" => Spread(s)'
  BY DEF Spreads
<1>2. CASE req[s].op # "none"
  <2> DEFINE h == req[s].home
  <2>1. req'[s] = req[s] /\ h \in Peer
    BY <1>2, GoesForward DEF TypeInv, Orders
  <2>2. Spread(s) => Spread(s)'
    BY <1>2, SpreadStays
  <2>3. ASSUME req[s].op = "add", pc'[s][h] # "insert" PROVE Spread(s)'
    <3>1. CASE pc[s][h] # "insert"
      BY <1>2, <2>2, <2>3, <3>1 DEF SpreadInv, Spreads
    <3>2. CASE pc[s][h] = "insert"
      <4>1. ~Issue(s, h) /\ ~Told(s, h)
        BY <1>2, <3>2 DEF Issue, Told
      <4>2. pc'[s][h] = "store"
        BY <2>1, <2>3, <3>2, <4>1, MoveCases, OwnStages
      <4> QED
        BY <2>1, <4>2 DEF Spread
    <3> QED
      BY <3>1, <3>2
  <2>4. ASSUME NEW q \in Peer, q # h, pc'[s][q] # "none" PROVE Spread(s)'
    <3>1. CASE pc[s][q] # "none"
      BY <1>2, <2>2, <2>4, <3>1 DEF SpreadInv, Spreads
    <3>2. CASE pc[s][q] = "none"
      <4>1. ~Issue(s, q) /\ ~Own(s, q)
        <5>1. ~Issue(s, q)
          BY <1>2 DEF Issue
        <5>2. ~Own(s, q)
          BY <3>2, OwnStages
        <5> QED
          BY <5>1, <5>2
      <4>2. Told(s, q)
        BY <2>4, <3>2, <4>1, MoveCases
      <4> QED
        BY <2>1, <4>2 DEF Told, Spread
    <3> QED
      BY <3>1, <3>2
  <2> QED
    BY <2>1, <2>3, <2>4
<1>3. CASE req[s].op = "none"
  <2>1. PICK r \in Request, p \in Peer : Issue(r, p)
    BY <1>1, <1>3, ListCases DEF clients
  <2>2. r = s /\ req'[s].home = p
    <3>1. r = s
      BY <1>1, <1>3, <2>1, IssueStage
    <3>2. PICK o, id, k :
            req' = [req EXCEPT ![r] = [op |-> o, photo |-> id, keyword |-> k, home |-> p]]
      BY <2>1 DEF Issue
    <3>3. req'[r] = [op |-> o, photo |-> id, keyword |-> k, home |-> p]
      BY <3>2 DEF TypeInv, DataTypes
    <3> QED
      BY <3>1, <3>3
  <2>3. /\ pc'[s][p] = Start(req'[s].op)
        /\ \A q \in Peer : q # p => pc'[s][q] = "none"
    BY <2>1, <2>2, IssueStage
  <2>4. req'[s].op = "add" => pc'[s][p] = "insert"
    BY <2>3 DEF Start
  <2> QED
    BY <2>2, <2>3, <2>4
<1> QED
  BY <1>2, <1>3

LEMMA SpreadStep ==
  ASSUME Closed, TypeInv, OnceInv, SpreadInv, [Next]_vars
  PROVE  SpreadInv'
BY ReachStep, SpreadsStep, NamesStep DEF SpreadInv
-----------------------------------------------------------------------------
(* Spreading: what the requests make of a list.                              *)

(* What an addition, a deletion and a keyword w make of a list l: which      *)
(* photos are listed afterwards, and which keywords they have.               *)
Gains(m, l, id) ==
  /\ Ids(m) = Ids(l) \cup {id}
  /\ \A d, k : Tagged(m, d, k) <=> Tagged(l, d, k)
Loses(m, l, id) ==
  /\ Ids(m) = Ids(l) \ {id}
  /\ \A d, k : Tagged(m, d, k) <=> d # id /\ Tagged(l, d, k)
Marks(m, l, id, w) ==
  /\ id \in Ids(l) /\ Ids(m) = Ids(l)
  /\ \A d, k : Tagged(m, d, k) <=> Tagged(l, d, k) \/ (d = id /\ k = w)

(* No keyword array of list l is longer than n.                              *)
Within(l, n) == \A i \in 1..Len(l) : Len(l[i].keyword) <= n

(* m is list l with node e before it.                                        *)
Preceded(m, l, e) ==
  /\ m \in Seq(Photo)
  /\ Len(m) = Len(l) + 1
  /\ m[1] = e
  /\ \A i \in 1..Len(l) : m[i + 1] = l[i]

LEMMA InsertPrecedes ==
  ASSUME NEW l \in Seq(Photo), NEW e \in Photo
  PROVE  Preceded(list_insert(l, e), l, e)
BY InsertList DEF Preceded

LEMMA AddGains ==
  ASSUME TypeInv, NEW r \in Request, NEW p \in Peer, AddInsert(r, p)
  PROVE  /\ Gains(photo_list'[p], photo_list[p], req[r].photo)
         /\ \A n \in Nat : Within(photo_list[p], n) => Within(photo_list'[p], n)
         /\ \A q \in Peer : q # p => photo_list'[q] = photo_list[q]
         /\ req[r].op = "add" /\ pc'[r][p] = "store"
<1>1. WalkTypes /\ DataTypes
  BY DEF TypeInv, WalkInv
<1> DEFINE l == photo_list[p]
           e == [id |-> req[r].photo, keyword |-> <<>>, node |-> "add"]
           m == list_insert(l, e)
<1>2. photo_list'[p] = m /\ \A q \in Peer : q # p => photo_list'[q] = photo_list[q]
  BY <1>1 DEF AddInsert, DataTypes
<1>3. pc'[r][p] = "store" /\ req[r].op = "add" /\ req[r].photo \in Nat
  BY <1>1, StageKind DEF AddInsert, Goto, WalkTypes
<1>4. e \in Photo
  BY <1>3 DEF Photo
<1>5. e.keyword = <<>> /\ e.id = req[r].photo /\ Len(e.keyword) = 0
  BY LenProperties
<1>6. l \in Seq(Photo)
  BY <1>1 DEF DataTypes
<1>7. Len(l) \in Nat
  BY <1>6, LenProperties
<1>8. l \in Seq(Photo) /\ e \in Photo /\ Len(l) \in Nat
  BY <1>4, <1>6, <1>7
<1> HIDE DEF e, l
<1>9. /\ Ids(m) = Ids(l) \cup {e.id}
      /\ \A d, k : Tagged(m, d, k) <=> Tagged(l, d, k)
  BY <1>4, <1>5, <1>6, InsertShows
<1>10. Gains(m, l, req[r].photo)
  BY <1>5, <1>9 DEF Gains
<1>11. Preceded(m, l, e)
  BY <1>8, InsertPrecedes
<1> HIDE DEF m
<1>12. /\ Len(m) = Len(l) + 1
      /\ m[1] = e
      /\ \A i \in 1..Len(l) : m[i + 1] = l[i]
  BY <1>11 DEF Preceded
<1>13. ASSUME NEW n \in Nat, Within(l, n) PROVE Within(m, n)
  <2>1. SUFFICES ASSUME NEW i \in 1..Len(m) PROVE Len(m[i].keyword) <= n
    BY DEF Within
  <2>2. CASE i = 1
    BY <1>5, <1>12, <2>2
  <2>3. CASE i # 1
    <3>1. i - 1 \in 1..Len(l) /\ (i - 1) + 1 = i
      BY <1>12, <1>7, <2>1, <2>3
    <3>2. m[i] = l[i - 1]
      BY <1>12, <3>1
    <3> QED
      BY <1>13, <3>1, <3>2 DEF Within
  <2> QED
    BY <2>2, <2>3
<1> QED
  BY <1>2, <1>3, <1>10, <1>13 DEF l

LEMMA DeleteLoses ==
  ASSUME TypeInv, NEW r \in Request, NEW p \in Peer, DeleteRemove(r, p),
         Single(photo_list[p])
  PROVE  /\ Loses(photo_list'[p], photo_list[p], req[r].photo)
         /\ \A n \in Nat : Within(photo_list[p], n) => Within(photo_list'[p], n)
         /\ \A q \in Peer : q # p => photo_list'[q] = photo_list[q]
         /\ req[r].op = "delete"
         /\ pc'[r][p] = IF req[r].photo \in Ids(photo_list[p]) THEN "unlink" ELSE "done"
<1>1. WalkTypes /\ DataTypes
  BY DEF TypeInv, WalkInv
<1> DEFINE l == photo_list[p]
           id == req[r].photo
           m == list_remove(l, id)
<1>2. photo_list'[p] = m /\ \A q \in Peer : q # p => photo_list'[q] = photo_list[q]
  BY <1>1 DEF DeleteRemove, DataTypes
<1>3. req[r].op = "delete"
  BY StageKind DEF DeleteRemove
<1>4. Holds(l, id) <=> id \in Ids(l)
  BY DEF Holds, Ids
<1>5. pc'[r][p] = IF id \in Ids(l) THEN "unlink" ELSE "done"
  BY <1>1, <1>4 DEF DeleteRemove, Goto, WalkTypes
<1>6. l \in Seq(Photo) /\ Single(l)
  BY <1>1 DEF DataTypes
<1> HIDE DEF l, id
<1>7. /\ Ids(m) = Ids(l) \ {id}
      /\ \A d, k : Tagged(m, d, k) <=> d # id /\ Tagged(l, d, k)
      /\ \A i \in 1..Len(m) : \E h \in 1..Len(l) : m[i] = l[h]
  BY <1>6, RemoveShows
<1>8. Loses(m, l, id)
  BY <1>7 DEF Loses
<1>9. \A n \in Nat : Within(l, n) => Within(m, n)
  BY <1>7 DEF Within
<1> QED
  BY <1>2, <1>3, <1>5, <1>8, <1>9 DEF l, id

LEMMA PutMarks ==
  ASSUME TypeInv, NEW r \in Request, NEW p \in Peer, KeywordPut(r, p)
  PROVE  /\ req[r].op = "keyword"
         /\ \A q \in Peer : q # p => photo_list'[q] = photo_list[q]
         /\ \/ UNCHANGED <<photo_list, pc>>
            \/ /\ pc'[r][p] = After(r, p)
               /\ Marks(photo_list'[p], photo_list[p], req[r].photo, req[r].keyword)
               /\ \A n \in Nat :
                    Within(photo_list[p], n) => Within(photo_list'[p], n + 1)
<1>1. WalkTypes /\ DataTypes
  BY DEF TypeInv, WalkInv
<1>2. req[r].op = "keyword" /\ req[r].keyword \in Keyword
  BY StageKind DEF KeywordPut, TypeInv, Orders
<1>3. \/ UNCHANGED <<photo_list, pc>>
      \/ \E i \in Node(r, p) : Put(r, p, i) /\ Goto(r, p, After(r, p))
  BY DEF KeywordPut
<1>4. ASSUME NEW i \in Node(r, p), Put(r, p, i), Goto(r, p, After(r, p))
      PROVE  /\ \A q \in Peer : q # p => photo_list'[q] = photo_list[q]
             /\ pc'[r][p] = After(r, p)
             /\ Marks(photo_list'[p], photo_list[p], req[r].photo, req[r].keyword)
             /\ \A n \in Nat : Within(photo_list[p], n) => Within(photo_list'[p], n + 1)
  <2> DEFINE l == photo_list[p]
             w == req[r].keyword
             id == req[r].photo
             m == [l EXCEPT ![i].keyword = Append(@, w)]
  <2>1. photo_list' = [photo_list EXCEPT ![p] = m]
    BY <1>4 DEF Put
  <2>2. w \in Keyword
    BY <1>2
  <2>3. l \in Seq(Photo) /\ i \in 1..Len(l) /\ Len(l) \in Nat /\ l[i].id = id
    BY <1>1, LenProperties DEF DataTypes, Node
  <2>4. /\ m \in Seq(Photo) /\ Len(m) = Len(l)
        /\ \A h \in 1..Len(l) :
             /\ m[h].id = l[h].id /\ m[h].node = l[h].node
             /\ Len(m[h].keyword) =
                  IF h = i THEN Len(l[h].keyword) + 1 ELSE Len(l[h].keyword)
             /\ ToSet(m[h].keyword) =
                  IF h = i THEN ToSet(l[h].keyword) \cup {w} ELSE ToSet(l[h].keyword)
    BY <2>2, <2>3, PutShows
  <2> HIDE DEF m
  <2>5. photo_list'[p] = m /\ \A q \in Peer : q # p => photo_list'[q] = photo_list[q]
    BY <1>1, <2>1 DEF DataTypes
  <2>6. pc'[r][p] = After(r, p)
    BY <1>1, <1>4 DEF Goto, WalkTypes
  <2>7. \A h \in 1..Len(l) : l[h] \in Photo /\ Len(l[h].keyword) \in Nat
    <3>1. \A h \in 1..Len(l) : l[h] \in Photo
      BY <2>3, ElementOfSeq
    <3> QED
      BY <3>1, LenProperties DEF Photo
  <2> HIDE DEF l, w, id
  <2>8. id \in Ids(l) /\ Ids(m) = Ids(l)
    BY <2>3, <2>4 DEF Ids
  <2>9. ASSUME NEW d, NEW k PROVE Tagged(m, d, k) <=> Tagged(l, d, k) \/ (d = id /\ k = w)
    <3>1. ASSUME Tagged(m, d, k) PROVE Tagged(l, d, k) \/ (d = id /\ k = w)
      <4>1. PICK h \in 1..Len(l) : m[h].id = d /\ k \in ToSet(m[h].keyword)
        BY <2>4, <3>1 DEF Tagged
      <4>2. l[h].id = d
        BY <2>4, <4>1
      <4>3. CASE h = i /\ k = w
        BY <2>3, <4>2, <4>3
      <4>4. CASE ~(h = i /\ k = w)
        <5>1. k \in ToSet(l[h].keyword)
          BY <2>4, <4>1, <4>4
        <5> QED
          BY <4>2, <5>1 DEF Tagged
      <4> QED
        BY <4>3, <4>4
    <3>2. ASSUME Tagged(l, d, k) PROVE Tagged(m, d, k)
      <4>1. PICK h \in 1..Len(l) : l[h].id = d /\ k \in ToSet(l[h].keyword)
        BY <3>2 DEF Tagged
      <4>2. m[h].id = d /\ k \in ToSet(m[h].keyword)
        BY <2>4, <4>1
      <4> QED
        BY <2>4, <4>2 DEF Tagged
    <3>3. ASSUME d = id, k = w PROVE Tagged(m, d, k)
      <4>1. m[i].id = d /\ k \in ToSet(m[i].keyword)
        BY <2>3, <2>4, <3>3
      <4> QED
        BY <2>3, <2>4, <4>1 DEF Tagged
    <3> QED
      BY <3>1, <3>2, <3>3
  <2>10. Marks(m, l, id, w)
    BY <2>8, <2>9 DEF Marks
  <2>11. ASSUME NEW n \in Nat, Within(l, n) PROVE Within(m, n + 1)
    <3>1. SUFFICES ASSUME NEW h \in 1..Len(l) PROVE Len(m[h].keyword) <= n + 1
      BY <2>4 DEF Within
    <3>2. Len(l[h].keyword) <= n /\ Len(l[h].keyword) \in Nat
      BY <2>7, <2>11 DEF Within
    <3>3. Len(m[h].keyword) = Len(l[h].keyword) + 1 \/ Len(m[h].keyword) = Len(l[h].keyword)
      BY <2>4
    <3> QED
      BY <3>2, <3>3
  <2> QED
    BY <2>5, <2>6, <2>10, <2>11 DEF l, w, id
<1>5. UNCHANGED photo_list => \A q \in Peer : q # p => photo_list'[q] = photo_list[q]
  OBVIOUS
<1> QED
  BY <1>2, <1>3, <1>4, <1>5
-----------------------------------------------------------------------------
(* The list of a peer changes by the threads of that peer alone.             *)
LEMMA ListEffect ==
  ASSUME Joiner = NoPeer, TypeInv, OnceInv, [Next]_vars, NEW p \in Peer
  PROVE  \/ photo_list'[p] = photo_list[p]
         \/ \E r \in Request : AddInsert(r, p)
         \/ \E r \in Request : KeywordPut(r, p)
         \/ \E r \in Request : DeleteRemove(r, p)
<1>1. WalkTypes /\ DataTypes
  BY DEF TypeInv, WalkInv
<1>2. ~JoinPhotos
  BY NobodyJoins DEF Join
<1>3. ASSUME NEW r \in Request, NEW q \in Peer, AddInsert(r, q), q # p
      PROVE  photo_list'[p] = photo_list[p]
  BY <1>1, <1>3 DEF AddInsert, DataTypes
<1>4. ASSUME NEW r \in Request, NEW q \in Peer, DeleteRemove(r, q), q # p
      PROVE  photo_list'[p] = photo_list[p]
  BY <1>1, <1>4 DEF DeleteRemove, DataTypes
<1>5. ASSUME NEW r \in Request, NEW q \in Peer, KeywordPut(r, q), q # p
      PROVE  photo_list'[p] = photo_list[p]
  BY <1>5, PutMarks
<1> QED
  BY <1>2, <1>3, <1>4, <1>5, ListCases

(* How a thread gets past its effect.                                        *)
LEMMA PastCases ==
  ASSUME TypeInv, OnceInv, [Next]_vars, NEW s \in Request, NEW p \in Peer,
         pc'[s][p] \in Past
  PROVE  /\ req[s].op # "none" /\ req'[s] = req[s]
         /\ \/ pc[s][p] \in Past
            \/ AddInsert(s, p) /\ req[s].op = "add"
            \/ KeywordFind(s, p) /\ ~Addable(s, p) /\ req[s].op = "keyword"
            \/ KeywordPut(s, p) /\ req[s].op = "keyword"
            \/ DeleteRemove(s, p) /\ req[s].op = "delete"
<1>1. ~Issue(s, p)
  <2>1. SUFFICES ASSUME Issue(s, p) PROVE FALSE
    OBVIOUS
  <2>2. req'[s].op \in {"add", "keyword", "delete"} /\ pc'[s][p] = Start(req'[s].op)
    BY <2>1, IssueStage
  <2> QED
    BY <2>2 DEF Start, Past
<1>2. ~Told(s, p)
  <2>1. SUFFICES ASSUME Told(s, p) PROVE FALSE
    OBVIOUS
  <2>2. req[s].home # NoPeer
    BY <2>1, ReplicationAssumption DEF Told
  <2>3. req[s].op # "none"
    <3>1. req[s].op = "none" => req[s] = NoOp
      BY DEF TypeInv, Orders
    <3>2. NoOp.home = NoPeer
      BY DEF NoOp
    <3> QED
      BY <2>2, <3>1, <3>2
  <2>4. req[s].op \in {"none", "add", "keyword", "delete"}
    BY DEF TypeInv, DataTypes
  <2>5. pc'[s][p] = Start(req[s].op)
    BY <2>1 DEF Told
  <2> QED
    BY <2>3, <2>4, <2>5 DEF Start, Past
<1>3. \/ pc[s][p] \in Past
      \/ AddInsert(s, p) /\ pc[s][p] = "insert"
      \/ KeywordFind(s, p) /\ ~Addable(s, p) /\ pc[s][p] = "find"
      \/ KeywordPut(s, p) /\ pc[s][p] = "put"
      \/ DeleteRemove(s, p) /\ pc[s][p] = "remove"
  <2>1. CASE pc'[s][p] = pc[s][p]
    BY <2>1
  <2>2. CASE Own(s, p)
    BY <2>2, OwnStages DEF Past
  <2> QED
    BY <1>1, <1>2, <2>1, <2>2, MoveCases
<1>4. pc[s][p] # "none"
  BY <1>3 DEF Past
<1>5. req[s].op # "none" /\ req'[s] = req[s]
  BY <1>4, StageKind, GoesForward
<1> QED
  BY <1>3, <1>5, StageKind

(* A deletion or a keyword that has an effect somewhere spreads.             *)
LEMMA EffectSpreads ==
  ASSUME Closed, TypeInv, OnceInv, SpreadInv, [Next]_vars,
         NEW r \in Request, NEW p \in Peer, pc[r][p] \in {"put", "remove"},
         pc'[r][p] \in {"unlink", "lock"} \/ p # req[r].home
  PROVE  Spread(r)' /\ req'[r] = req[r]
<1>1. req[r].op # "none" /\ req'[r] = req[r]
  BY StageKind, GoesForward
<1>2. CASE p # req[r].home
  BY <1>1, <1>2, SpreadStays DEF SpreadInv, Spreads
<1>3. CASE p = req[r].home
  BY <1>1, <1>3 DEF Spread
<1> QED
  BY <1>1, <1>2, <1>3

LEMMA SingleLists ==
  ASSUME Joiner = NoPeer, TypeInv, ListInv, NEW p \in Peer
  PROVE  Single(photo_list[p])
BY ReplicationAssumption DEF ListInv, Marked, Plain, Single

(* The threads behind a change of what is listed, and of what is tagged.     *)
LEMMA IdsChange ==
  ASSUME Closed, TypeInv, OnceInv, ListInv, SpreadInv, [Next]_vars,
         NEW p \in Peer, NEW id
  PROVE  /\ id \in Ids(photo_list'[p]) /\ id \notin Ids(photo_list[p]) =>
              \E r \in Request : /\ req[r].op = "add" /\ req[r].photo = id
                                 /\ req'[r] = req[r] /\ pc'[r][p] = "store"
         /\ id \in Ids(photo_list[p]) /\ id \notin Ids(photo_list'[p]) =>
              \E r \in Request : /\ req[r].op = "delete" /\ req[r].photo = id
                                 /\ req'[r] = req[r]
                                 /\ pc'[r][p] = "unlink" /\ Spread(r)'
<1>1. Joiner = NoPeer /\ Single(photo_list[p])
  BY SingleLists DEF Closed
<1>2. CASE photo_list'[p] = photo_list[p]
  BY <1>2
<1>3. ASSUME NEW r \in Request, AddInsert(r, p)
      PROVE  /\ Ids(photo_list'[p]) = Ids(photo_list[p]) \cup {req[r].photo}
             /\ req[r].op = "add" /\ req'[r] = req[r] /\ pc'[r][p] = "store"
  <2>1. Gains(photo_list'[p], photo_list[p], req[r].photo)
    BY <1>3, AddGains
  <2>2. req[r].op = "add" /\ pc'[r][p] = "store"
    BY <1>3, AddGains
  <2>3. req'[r] = req[r]
    BY <1>3 DEF AddInsert, clients
  <2> QED
    BY <2>1, <2>2, <2>3 DEF Gains
<1>4. ASSUME NEW r \in Request, KeywordPut(r, p)
      PROVE  Ids(photo_list'[p]) = Ids(photo_list[p])
  BY <1>4, PutIds
<1>5. ASSUME NEW r \in Request, DeleteRemove(r, p)
      PROVE  /\ Ids(photo_list'[p]) = Ids(photo_list[p]) \ {req[r].photo}
             /\ req[r].op = "delete"
             /\ req[r].photo \in Ids(photo_list[p]) =>
                  pc'[r][p] = "unlink" /\ Spread(r)' /\ req'[r] = req[r]
  <2>1. Loses(photo_list'[p], photo_list[p], req[r].photo)
    BY <1>1, <1>5, DeleteLoses
  <2>2. /\ req[r].op = "delete"
        /\ pc'[r][p] = IF req[r].photo \in Ids(photo_list[p]) THEN "unlink" ELSE "done"
    BY <1>1, <1>5, DeleteLoses
  <2>3. pc[r][p] = "remove"
    BY <1>5 DEF DeleteRemove
  <2>4. pc'[r][p] = "unlink" => Spread(r)' /\ req'[r] = req[r]
    BY <2>3, EffectSpreads
  <2> QED
    BY <2>1, <2>2, <2>4 DEF Loses
<1> QED
  BY <1>1, <1>2, <1>3, <1>4, <1>5, ListEffect

LEMMA TagsChange ==
  ASSUME Closed, TypeInv, OnceInv, ListInv, SpreadInv, [Next]_vars,
         NEW p \in Peer, NEW id, NEW k
  PROVE  /\ Tagged(photo_list'[p], id, k) /\ ~Tagged(photo_list[p], id, k) =>
              \E r \in Request : /\ req[r].op = "keyword" /\ req[r].photo = id
                                 /\ req[r].keyword = k /\ req'[r] = req[r] /\ Spread(r)'
         /\ Tagged(photo_list[p], id, k) /\ id \in Ids(photo_list'[p]) =>
              Tagged(photo_list'[p], id, k)
<1>1. Joiner = NoPeer /\ Single(photo_list[p])
  BY SingleLists DEF Closed
<1>2. CASE photo_list'[p] = photo_list[p]
  BY <1>2
<1>3. ASSUME NEW r \in Request, AddInsert(r, p)
      PROVE  Tagged(photo_list'[p], id, k) <=> Tagged(photo_list[p], id, k)
  <2>1. Gains(photo_list'[p], photo_list[p], req[r].photo)
    BY <1>3, AddGains
  <2> QED
    BY <2>1 DEF Gains
<1>4. ASSUME NEW r \in Request, KeywordPut(r, p)
      PROVE  \/ UNCHANGED photo_list
             \/ /\ req[r].op = "keyword" /\ req'[r] = req[r] /\ Spread(r)'
                /\ Tagged(photo_list'[p], id, k) <=>
                     Tagged(photo_list[p], id, k) \/ (id = req[r].photo /\ k = req[r].keyword)
  <2>1. req[r].op = "keyword" /\ pc[r][p] = "put"
    BY <1>4, PutMarks DEF KeywordPut
  <2>2. \/ UNCHANGED photo_list
        \/ /\ pc'[r][p] = After(r, p)
           /\ Marks(photo_list'[p], photo_list[p], req[r].photo, req[r].keyword)
    BY <1>4, PutMarks
  <2>3. pc'[r][p] = After(r, p) => Spread(r)' /\ req'[r] = req[r]
    BY <2>1, EffectSpreads DEF After
  <2> QED
    BY <2>1, <2>2, <2>3 DEF Marks
<1>5. ASSUME NEW r \in Request, DeleteRemove(r, p)
      PROVE  /\ Ids(photo_list'[p]) = Ids(photo_list[p]) \ {req[r].photo}
             /\ Tagged(photo_list'[p], id, k) <=>
                  id # req[r].photo /\ Tagged(photo_list[p], id, k)
  <2>1. Loses(photo_list'[p], photo_list[p], req[r].photo)
    BY <1>1, <1>5, DeleteLoses
  <2> QED
    BY <2>1 DEF Loses
<1> QED
  BY <1>1, <1>2, <1>3, <1>4, <1>5, ListEffect
-----------------------------------------------------------------------------
(* Spreading: what a peer lists.                                             *)

(* A photo of the start is missing only after a deletion that spreads, and   *)
(* no peer lists what it was told to delete.                                 *)
Gone(p) ==
  /\ \A id \in 1..Preloaded : id \notin Ids(photo_list[p]) =>
       \E s \in Request : req[s].op = "delete" /\ req[s].photo = id /\ Spread(s)
  /\ \A s \in Request : req[s].op = "delete" /\ pc[s][p] \in Past =>
       req[s].photo \notin Ids(photo_list[p])

(* A peer lists every photo it was told to add, and no others but those of   *)
(* the start.                                                                *)
Added(p) ==
  /\ \A s \in Request : req[s].op = "add" /\ pc[s][p] \in Past =>
       req[s].photo \in Ids(photo_list[p])
  /\ \A id \in Ids(photo_list[p]) :
       id \in 1..Preloaded \/ \E s \in Request : req[s].op = "add" /\ req[s].photo = id

LEMMA GoneStep ==
  ASSUME Closed, TypeInv, OnceInv, ListInv, SpreadInv, [Next]_vars,
         NEW p \in Peer, Gone(p)
  PROVE  Gone(p)'
<1>1. ASSUME NEW id \in 1..Preloaded, id \notin Ids(photo_list'[p])
      PROVE  \E s \in Request : req'[s].op = "delete" /\ req'[s].photo = id /\ Spread(s)'
  <2>1. CASE id \in Ids(photo_list[p])
    <3>1. PICK s \in Request : /\ req[s].op = "delete" /\ req[s].photo = id
                               /\ req'[s] = req[s] /\ Spread(s)'
      BY <1>1, <2>1, IdsChange
    <3> QED
      BY <3>1
  <2>2. CASE id \notin Ids(photo_list[p])
    <3>1. PICK s \in Request : req[s].op = "delete" /\ req[s].photo = id /\ Spread(s)
      BY <2>2 DEF Gone
    <3>2. req'[s] = req[s] /\ Spread(s)'
      BY <3>1, SpreadStays, GoesForward
    <3> QED
      BY <3>1, <3>2
  <2> QED
    BY <2>1, <2>2
<1>2. ASSUME NEW s \in Request, req'[s].op = "delete", pc'[s][p] \in Past
      PROVE  req'[s].photo \notin Ids(photo_list'[p])
  <2>1. req'[s] = req[s] /\ req[s].op = "delete"
    BY <1>2, PastCases
  <2>2. pc[s][p] \in Past \/ DeleteRemove(s, p)
    BY <1>2, <2>1, PastCases
  <2>3. CASE pc[s][p] \in Past
    <3>1. req[s].photo \notin Ids(photo_list[p])
      BY <2>1, <2>3 DEF Gone
    <3>2. SUFFICES ASSUME req[s].photo \in Ids(photo_list'[p]) PROVE FALSE
      BY <2>1
    <3>3. PICK r \in Request : req[r].op = "add" /\ req[r].photo = req[s].photo
      BY <3>1, <3>2, IdsChange
    <3>4. req[s].photo \in Nat /\ Preloaded \in Nat
      <4>1. req[s].photo \in Nat
        BY <2>3, StageKind DEF Past
      <4> QED
        BY <4>1, ReplicationAssumption
    <3>5. req[s].photo <= Preloaded /\ req[s].photo > Preloaded
      BY <2>1, <3>3 DEF SpreadInv, Names
    <3> QED
      BY <3>4, <3>5
  <2>4. CASE DeleteRemove(s, p)
    <3>1. Single(photo_list[p])
      BY SingleLists DEF Closed
    <3>2. Loses(photo_list'[p], photo_list[p], req[s].photo)
      BY <2>4, <3>1, DeleteLoses
    <3> QED
      BY <2>1, <3>2 DEF Loses
  <2> QED
    BY <2>2, <2>3, <2>4
<1> QED
  BY <1>1, <1>2 DEF Gone

LEMMA AddedStep ==
  ASSUME Closed, TypeInv, OnceInv, ListInv, SpreadInv, [Next]_vars,
         NEW p \in Peer, Added(p)
  PROVE  Added(p)'
<1>1. ASSUME NEW s \in Request, req'[s].op = "add", pc'[s][p] \in Past
      PROVE  req'[s].photo \in Ids(photo_list'[p])
  <2>1. req'[s] = req[s] /\ req[s].op = "add"
    BY <1>1, PastCases
  <2>2. pc[s][p] \in Past \/ AddInsert(s, p)
    BY <1>1, <2>1, PastCases
  <2>3. CASE pc[s][p] \in Past
    <3>1. req[s].photo \in Ids(photo_list[p])
      BY <2>1, <2>3 DEF Added
    <3>2. SUFFICES ASSUME req[s].photo \notin Ids(photo_list'[p]) PROVE FALSE
      BY <2>1
    <3>3. PICK r \in Request : req[r].op = "delete" /\ req[r].photo = req[s].photo
      BY <3>1, <3>2, IdsChange
    <3>4. req[s].photo \in Nat /\ Preloaded \in Nat
      <4>1. req[s].photo \in Nat
        BY <2>3, StageKind DEF Past
      <4> QED
        BY <4>1, ReplicationAssumption
    <3>5. req[s].photo <= Preloaded /\ req[s].photo > Preloaded
      BY <2>1, <3>3 DEF SpreadInv, Names
    <3> QED
      BY <3>4, <3>5
  <2>4. CASE AddInsert(s, p)
    <3>1. Gains(photo_list'[p], photo_list[p], req[s].photo)
      BY <2>4, AddGains
    <3> QED
      BY <2>1, <3>1 DEF Gains
  <2> QED
    BY <2>2, <2>3, <2>4
<1>2. ASSUME NEW id \in Ids(photo_list'[p])
      PROVE  \/ id \in 1..Preloaded
             \/ \E s \in Request : req'[s].op = "add" /\ req'[s].photo = id
  <2>1. CASE id \notin Ids(photo_list[p])
    BY <2>1, IdsChange
  <2>2. CASE id \in Ids(photo_list[p]) /\ id \notin 1..Preloaded
    <3>1. PICK s \in Request : req[s].op = "add" /\ req[s].photo = id
      BY <2>2 DEF Added
    <3>2. req'[s] = req[s]
      BY <3>1, GoesForward
    <3> QED
      BY <3>1, <3>2
  <2> QED
    BY <2>1, <2>2
<1> QED
  BY <1>1, <1>2 DEF Added
-----------------------------------------------------------------------------
(* A keyword that is listed spreads, and a peer that was told to write one   *)
(* has it, unless it does not list the photo.                                *)
Tags(p) ==
  /\ \A id, k : Tagged(photo_list[p], id, k) =>
       \E s \in Request : /\ req[s].op = "keyword" /\ req[s].photo = id
                          /\ req[s].keyword = k /\ Spread(s)
  /\ \A s \in Request : req[s].op = "keyword" /\ pc[s][p] \in Past =>
       \/ req[s].photo \notin Ids(photo_list[p])
       \/ Tagged(photo_list[p], req[s].photo, req[s].keyword)

(* The requests that have had their effect at peer p; no array of p has more *)
(* keywords than that.                                                       *)
PastAt(p) == {s \in Request : pc[s][p] \in Past}

Room(p) == Within(photo_list[p], Cardinality(PastAt(p)))

(* So the checks of add_keyword refuse what is there already, and no more.   *)
LEMMA Refused ==
  ASSUME Closed, TypeInv, NEW p \in Peer, Room(p), NEW s \in Request,
         pc[s][p] = "find", ~Addable(s, p)
  PROVE  \/ req[s].photo \notin Ids(photo_list[p])
         \/ Tagged(photo_list[p], req[s].photo, req[s].keyword)
<1>1. SUFFICES ASSUME req[s].photo \in Ids(photo_list[p])
               PROVE  Tagged(photo_list[p], req[s].photo, req[s].keyword)
  OBVIOUS
<1>2. Holds(photo_list[p], req[s].photo)
  BY <1>1 DEF Ids, Holds
<1>3. PICK j \in 1..Len(photo_list[p]) :
        /\ Match(s, p) = photo_list[p][j]
        /\ photo_list[p][j].id = req[s].photo
        /\ photo_list[p][j] \in Photo
  BY <1>2, MatchPhoto
<1> DEFINE w == photo_list[p][j].keyword
<1>4. w \in Seq(Keyword) /\ Len(w) \in Nat /\ Len(w) <= Cardinality(PastAt(p))
  <2>1. w \in Seq(Keyword)
    BY <1>3 DEF Photo
  <2>2. Len(w) \in Nat
    BY <2>1, LenProperties
  <2> QED
    BY <2>1, <2>2 DEF Room, Within
<1>5. Cardinality(PastAt(p)) < MAX_KEYWORDS
  <2>1. PastAt(p) \in SUBSET (Request \ {s})
    BY DEF PastAt, Past
  <2>2. IsFiniteSet(Request) /\ Cardinality(Request) \in Nat
    BY FS_CardinalityType DEF Closed
  <2>3. /\ IsFiniteSet(Request \ {s})
        /\ Cardinality(Request \ {s}) = Cardinality(Request) - 1
    BY <2>2, FS_RemoveElement
  <2>4. IsFiniteSet(PastAt(p)) /\ Cardinality(PastAt(p)) <= Cardinality(Request \ {s})
    BY <2>1, <2>3, FS_Subset
  <2>5. Cardinality(PastAt(p)) \in Nat
    BY <2>4, FS_CardinalityType
  <2>6. Cardinality(Request) <= MAX_KEYWORDS /\ MAX_KEYWORDS \in Nat
    BY ReplicationAssumption DEF Closed
  <2> HIDE DEF PastAt
  <2> QED
    BY <2>2, <2>3, <2>4, <2>5, <2>6
<1>6. IsFiniteSet(PastAt(p)) /\ Cardinality(PastAt(p)) \in Nat
  <2>1. PastAt(p) \in SUBSET Request
    BY DEF PastAt
  <2> QED
    BY <2>1, FS_Subset, FS_CardinalityType DEF Closed
<1>7. Len(w) < MAX_KEYWORDS
  BY <1>4, <1>5, <1>6, ReplicationAssumption
<1>8. search_keyword(Match(s, p), req[s].keyword)
  BY <1>2, <1>3, <1>7 DEF Addable
<1>9. \E i \in 1..Len(w) : w[i] = req[s].keyword
  BY <1>3, <1>8 DEF search_keyword
<1>10. req[s].keyword \in ToSet(w)
  BY <1>4, <1>9 DEF ToSet
<1> QED
  BY <1>3, <1>10 DEF Tagged

LEMMA TagsStep ==
  ASSUME Closed, TypeInv, OnceInv, ListInv, SpreadInv, [Next]_vars,
         NEW p \in Peer, Tags(p), Room(p)
  PROVE  Tags(p)'
<1>1. ASSUME NEW id, NEW k, Tagged(photo_list'[p], id, k)
      PROVE  \E s \in Request : /\ req'[s].op = "keyword" /\ req'[s].photo = id
                                /\ req'[s].keyword = k /\ Spread(s)'
  <2>1. CASE Tagged(photo_list[p], id, k)
    <3>1. PICK s \in Request : /\ req[s].op = "keyword" /\ req[s].photo = id
                               /\ req[s].keyword = k /\ Spread(s)
      BY <2>1 DEF Tags
    <3>2. req'[s] = req[s] /\ Spread(s)'
      BY <3>1, SpreadStays, GoesForward
    <3> QED
      BY <3>1, <3>2
  <2>2. CASE ~Tagged(photo_list[p], id, k)
    <3>1. PICK s \in Request : /\ req[s].op = "keyword" /\ req[s].photo = id
                               /\ req[s].keyword = k /\ req'[s] = req[s] /\ Spread(s)'
      BY <1>1, <2>2, TagsChange
    <3> QED
      BY <3>1
  <2> QED
    BY <2>1, <2>2
<1>2. ASSUME NEW s \in Request, req'[s].op = "keyword", pc'[s][p] \in Past
      PROVE  \/ req'[s].photo \notin Ids(photo_list'[p])
             \/ Tagged(photo_list'[p], req'[s].photo, req'[s].keyword)
  <2>1. req'[s] = req[s] /\ req[s].op = "keyword"
    BY <1>2, PastCases
  <2>2. \/ pc[s][p] \in Past
        \/ KeywordFind(s, p) /\ ~Addable(s, p)
        \/ KeywordPut(s, p)
    BY <1>2, <2>1, PastCases
  <2>3. CASE \/ req[s].photo \notin Ids(photo_list[p])
             \/ Tagged(photo_list[p], req[s].photo, req[s].keyword)
    <3>1. SUFFICES ASSUME req[s].photo \in Ids(photo_list'[p])
                   PROVE  Tagged(photo_list'[p], req[s].photo, req[s].keyword)
      BY <2>1
    <3>2. CASE Tagged(photo_list[p], req[s].photo, req[s].keyword)
      BY <3>1, <3>2, TagsChange
    <3>3. CASE req[s].photo \notin Ids(photo_list[p])
      <4>1. PICK r \in Request : req[r].op = "add" /\ req[r].photo = req[s].photo
        BY <3>1, <3>3, IdsChange
      <4>2. req[s].photo <= Preloaded /\ req[s].photo > Preloaded
        BY <2>1, <4>1 DEF SpreadInv, Names
      <4>3. req[s].photo \in Nat
        <5>1. pc[s][p] # "none"
          BY <2>2 DEF Past, KeywordFind, KeywordPut
        <5> QED
          BY <5>1, StageKind
      <4>4. Preloaded \in Nat
        BY ReplicationAssumption
      <4> QED
        BY <4>2, <4>3, <4>4
    <3> QED
      BY <2>3, <3>2, <3>3
  <2>4. CASE pc[s][p] \in Past
    BY <2>1, <2>3, <2>4 DEF Tags
  <2>5. CASE KeywordFind(s, p) /\ ~Addable(s, p)
    <3>1. pc[s][p] = "find"
      BY <2>5 DEF KeywordFind
    <3> QED
      BY <2>3, <2>5, <3>1, Refused
  <2>6. CASE KeywordPut(s, p)
    <3>1. pc[s][p] = "put" /\ pc'[s][p] # "put"
      BY <1>2, <2>6 DEF KeywordPut, Past
    <3>2. ~UNCHANGED pc
      BY <3>1
    <3>3. Marks(photo_list'[p], photo_list[p], req[s].photo, req[s].keyword)
      BY <2>6, <3>2, PutMarks
    <3> QED
      BY <2>1, <3>3 DEF Marks
  <2> QED
    BY <2>2, <2>4, <2>5, <2>6
<1> QED
  BY <1>1, <1>2 DEF Tags

LEMMA RoomStep ==
  ASSUME Closed, TypeInv, OnceInv, ListInv, [Next]_vars,
         NEW p \in Peer, Room(p)
  PROVE  Room(p)'
<1> DEFINE n == Cardinality(PastAt(p))
           m == Cardinality({s \in Request : pc'[s][p] \in Past})
<1>1. IsFiniteSet(Request)
  BY DEF Closed
<1>2. PastAt(p) \in SUBSET {s \in Request : pc'[s][p] \in Past}
  BY GoesForward DEF PastAt, Forward
<1>3. {s \in Request : pc'[s][p] \in Past} \in SUBSET Request
  OBVIOUS
<1>4. IsFiniteSet({s \in Request : pc'[s][p] \in Past}) /\ m \in Nat
  BY <1>1, <1>3, FS_Subset, FS_CardinalityType
<1>5. IsFiniteSet(PastAt(p)) /\ n \in Nat /\ n <= m
  BY <1>2, <1>4, FS_Subset, FS_CardinalityType
<1>6. ASSUME NEW l, NEW i \in Nat, NEW j \in Nat, i <= j, Within(l, i),
             \A h \in 1..Len(l) : Len(l[h].keyword) \in Nat
      PROVE  Within(l, j)
  BY <1>6 DEF Within
<1>7. \A h \in 1..Len(photo_list'[p]) : Len(photo_list'[p][h].keyword) \in Nat
  <2>1. photo_list' \in [Peer -> Seq(Photo)]
    BY TypeStep DEF TypeInv, DataTypes
  <2>2. \A h \in 1..Len(photo_list'[p]) : photo_list'[p][h] \in Photo
    BY <2>1, ElementOfSeq
  <2> QED
    BY <2>2, LenProperties DEF Photo
<1>8. CASE Within(photo_list'[p], n)
  <2>1. Within(photo_list'[p], m)
    BY <1>4, <1>5, <1>6, <1>7, <1>8
  <2> QED
    BY <2>1 DEF Room, PastAt
<1>9. ASSUME NEW r \in Request, KeywordPut(r, p), ~UNCHANGED photo_list PROVE Room(p)'
  <2>1. pc[r][p] = "put" /\ req[r].op = "keyword"
    BY <1>9, PutMarks DEF KeywordPut
  <2>2. pc'[r][p] = After(r, p) /\ Within(photo_list'[p], n + 1)
    BY <1>5, <1>9, PutMarks DEF Room
  <2>3. r \notin PastAt(p)
    BY <2>1 DEF PastAt, Past
  <2>4. pc'[r][p] \in Past
    BY <2>2 DEF After, Past
  <2>5. IsFiniteSet(PastAt(p) \cup {r}) /\ Cardinality(PastAt(p) \cup {r}) = n + 1
    BY <1>5, <2>3, FS_AddElement
  <2>6. PastAt(p) \cup {r} \in SUBSET {s \in Request : pc'[s][p] \in Past}
    BY <1>2, <2>4
  <2>7. n + 1 <= m
    BY <1>4, <2>5, <2>6, FS_Subset
  <2>8. Within(photo_list'[p], m)
    BY <1>4, <1>5, <1>6, <1>7, <2>2, <2>7
  <2> QED
    BY <2>8 DEF Room, PastAt
<1>10. ASSUME NEW r \in Request, AddInsert(r, p) PROVE Room(p)'
  BY <1>5, <1>8, <1>10, AddGains DEF Room
<1>11. ASSUME NEW r \in Request, DeleteRemove(r, p) PROVE Room(p)'
  <2>1. Single(photo_list[p])
    BY SingleLists DEF Closed
  <2> QED
    BY <1>5, <1>8, <1>11, <2>1, DeleteLoses DEF Room
<1>12. CASE photo_list'[p] = photo_list[p]
  BY <1>8, <1>12 DEF Room
<1>13. Joiner = NoPeer
  BY DEF Closed
<1> QED
  BY <1>9, <1>10, <1>11, <1>12, <1>13, ListEffect
-----------------------------------------------------------------------------
(* A peer lists a photo without its file, or has the file of a photo it does *)
(* not list, only while a thread is between the two.                         *)
Unlinked(p) ==
  \A id \in files[p] : id \notin Ids(photo_list[p]) =>
    \E r \in Request : pc[r][p] = "unlink" /\ req[r].photo = id

CopyInv(p) == Gone(p) /\ Added(p) /\ Tags(p) /\ Room(p) /\ Filed(p) /\ Unlinked(p)

ConvInv == \A p \in Peer : CopyInv(p)

LEMMA ConvInit == Closed /\ Init => ConvInv
<1> SUFFICES ASSUME Closed, Init, NEW p \in Peer PROVE CopyInv(p)
  BY DEF ConvInv
<1>1. Joiner \notin Peer
  BY ReplicationAssumption DEF Closed
<1>2. photo_list[p] = StartList /\ files[p] = 1..Preloaded
  BY <1>1 DEF Init, StartList
<1>3. \A r \in Request : pc[r][p] = "none"
  BY DEF Init
<1>4. /\ Len(StartList) = Preloaded
      /\ Ids(StartList) = 1..Preloaded
      /\ \A i \in 1..Preloaded : StartList[i].keyword = <<>>
  BY Starting
<1>5. Gone(p) /\ Added(p)
  BY <1>2, <1>3, <1>4 DEF Gone, Added, Past
<1>6. Filed(p) /\ Unlinked(p)
  BY <1>2, <1>4 DEF Filed, Unlinked
<1>7. \A id, k : ~Tagged(photo_list[p], id, k)
  <2>1. ToSet(<<>>) = {}
    BY DEF ToSet
  <2> QED
    BY <1>2, <1>4, <2>1 DEF Tagged
<1>8. Tags(p)
  BY <1>3, <1>7 DEF Tags, Past
<1>9. Room(p)
  <2>1. PastAt(p) = {}
    BY <1>3 DEF PastAt, Past
  <2>2. Cardinality(PastAt(p)) = 0
    BY <2>1, FS_EmptySet
  <2>3. Len(<<>>) = 0
    BY LenProperties
  <2> QED
    BY <1>2, <1>4, <2>2, <2>3 DEF Room, Within
<1> QED
  BY <1>5, <1>6, <1>8, <1>9 DEF CopyInv

(* What the two steps that touch a file make of it.                          *)
LEMMA FilesEffect ==
  ASSUME Joiner = NoPeer, TypeInv, OnceInv, [Next]_vars, NEW p \in Peer
  PROVE  \/ files'[p] = files[p]
         \/ \E r \in Request : /\ AddStore(r, p) /\ req[r].op = "add"
                               /\ files'[p] = files[p] \cup {req[r].photo}
         \/ \E r \in Request : /\ DeleteUnlink(r, p) /\ req[r].op = "delete"
                               /\ files'[p] = files[p] \ {req[r].photo}
<1>1. DataTypes
  BY DEF TypeInv
<1>2. ~JoinPhotos
  BY NobodyJoins DEF Join
<1>3. ASSUME NEW r \in Request, NEW q \in Peer, AddStore(r, q)
      PROVE  /\ q # p => files'[p] = files[p]
             /\ q = p => files'[p] = files[p] \cup {req[r].photo}
             /\ req[r].op = "add"
  BY <1>1, <1>3, StageKind DEF AddStore, DataTypes
<1>4. ASSUME NEW r \in Request, NEW q \in Peer, DeleteUnlink(r, q)
      PROVE  /\ q # p => files'[p] = files[p]
             /\ q = p => files'[p] = files[p] \ {req[r].photo}
             /\ req[r].op = "delete"
  BY <1>1, <1>4, StageKind DEF DeleteUnlink, DataTypes
<1> QED
  BY <1>2, <1>3, <1>4, FileCases

LEMMA FilesStep ==
  ASSUME Closed, TypeInv, OnceInv, ListInv, SpreadInv, [Next]_vars,
         NEW p \in Peer, CopyInv(p)
  PROVE  Filed(p)' /\ Unlinked(p)'
<1>1. WalkTypes /\ Joiner = NoPeer
  BY DEF TypeInv, WalkInv, Closed
<1>2. ASSUME NEW r \in Request, pc[r][p] \in {"store", "unlink"}
      PROVE  req'[r] = req[r] /\ pc[r][p] \in Past
  BY <1>2, StageKind, GoesForward DEF Past
<1>3. ASSUME NEW r \in Request, pc[r][p] = "unlink", pc'[r][p] # "unlink"
      PROVE  DeleteUnlink(r, p)
  <2>1. ~Issue(r, p) /\ ~Told(r, p)
    BY <1>3, IssueStage DEF Told
  <2>2. Own(r, p)
    BY <1>3, <2>1, MoveCases
  <2> QED
    BY <1>3, <2>2, OwnStages
<1>4. ASSUME NEW id, id \in Ids(photo_list'[p]), id \notin files'[p]
      PROVE  \E r \in Request : pc'[r][p] = "store" /\ req'[r].photo = id
  <2>1. CASE id \notin Ids(photo_list[p])
    BY <1>4, <2>1, IdsChange
  <2>2. CASE id \in Ids(photo_list[p]) /\ id \in files[p]
    <3>1. PICK r \in Request : /\ DeleteUnlink(r, p) /\ req[r].op = "delete"
                               /\ id = req[r].photo
      BY <1>1, <1>4, <2>2, FilesEffect
    <3>2. pc[r][p] = "unlink"
      BY <3>1 DEF DeleteUnlink
    <3> QED
      BY <1>2, <2>2, <3>1, <3>2 DEF CopyInv, Gone
  <2>3. CASE id \in Ids(photo_list[p]) /\ id \notin files[p]
    <3>1. PICK r \in Request : pc[r][p] = "store" /\ req[r].photo = id
      BY <2>3 DEF CopyInv, Filed
    <3>2. req'[r] = req[r]
      BY <1>2, <3>1
    <3>3. CASE pc'[r][p] = "store"
      BY <3>1, <3>2, <3>3
    <3>4. CASE AddStore(r, p)
      <4>1. files'[p] = files[p] \cup {req[r].photo}
        BY <3>4 DEF AddStore, TypeInv, DataTypes
      <4> QED
        BY <1>4, <3>1, <4>1
    <3> QED
      BY <3>1, <3>3, <3>4, FileCases
  <2> QED
    BY <2>1, <2>2, <2>3
<1>5. ASSUME NEW id, id \in files'[p], id \notin Ids(photo_list'[p])
      PROVE  \E r \in Request : pc'[r][p] = "unlink" /\ req'[r].photo = id
  <2>1. CASE id \in Ids(photo_list[p])
    BY <1>5, <2>1, IdsChange
  <2>2. CASE id \notin Ids(photo_list[p]) /\ id \notin files[p]
    <3>1. PICK r \in Request : /\ AddStore(r, p) /\ req[r].op = "add"
                               /\ id = req[r].photo
      BY <1>1, <1>5, <2>2, FilesEffect
    <3>2. pc[r][p] = "store"
      BY <3>1 DEF AddStore
    <3> QED
      BY <1>2, <2>2, <3>1, <3>2 DEF CopyInv, Added
  <2>3. CASE id \notin Ids(photo_list[p]) /\ id \in files[p]
    <3>1. PICK r \in Request : pc[r][p] = "unlink" /\ req[r].photo = id
      BY <2>3 DEF CopyInv, Unlinked
    <3>2. req'[r] = req[r]
      BY <1>2, <3>1
    <3>3. CASE pc'[r][p] = "unlink"
      BY <3>1, <3>2, <3>3
    <3>4. CASE DeleteUnlink(r, p)
      <4>1. files'[p] = files[p] \ {req[r].photo}
        BY <3>4 DEF DeleteUnlink, TypeInv, DataTypes
      <4> QED
        BY <1>5, <3>1, <4>1
    <3> QED
      BY <1>3, <3>1, <3>3, <3>4
  <2> QED
    BY <2>1, <2>2, <2>3
<1> QED
  BY <1>4, <1>5 DEF Filed, Unlinked

LEMMA ConvStep ==
  ASSUME Closed, TypeInv, OnceInv, ListInv, SpreadInv, ConvInv, [Next]_vars
  PROVE  ConvInv'
<1> SUFFICES ASSUME NEW p \in Peer PROVE CopyInv(p)'
  BY DEF ConvInv
<1>1. CopyInv(p)
  BY DEF ConvInv
<1>2. Gone(p)' /\ Added(p)'
  BY <1>1, GoneStep, AddedStep DEF CopyInv
<1>3. Tags(p)' /\ Room(p)'
  BY <1>1, TagsStep, RoomStep DEF CopyInv
<1>4. Filed(p)' /\ Unlinked(p)'
  BY <1>1, FilesStep
<1> QED
  BY <1>2, <1>3, <1>4 DEF CopyInv
-----------------------------------------------------------------------------
(* Spreading: the replicas agree.                                            *)

(* What a list shows: its photos, each with its keywords.                    *)
View(l) == {[id |-> d, keyword |-> {k \in Keyword : Tagged(l, d, k)}] : d \in Ids(l)}

LEMMA Viewing ==
  ASSUME NEW l \in Seq(Photo), Single(l)
  PROVE  {[id |-> e.id, keyword |-> ToSet(e.keyword)] : e \in ToSet(l)} = View(l)
<1> DEFINE kw(d) == {k \in Keyword : Tagged(l, d, k)}
<1>1. \A i \in 1..Len(l) : l[i] \in Photo
  BY ElementOfSeq
<1>2. ToSet(l) = {l[i] : i \in 1..Len(l)}
  BY LenProperties DEF ToSet
<1>3. ASSUME NEW i \in 1..Len(l) PROVE kw(l[i].id) = ToSet(l[i].keyword)
  <2>1. ToSet(l[i].keyword) \subseteq Keyword
    <3>1. l[i].keyword \in Seq(Keyword)
      BY <1>1 DEF Photo
    <3> QED
      BY <3>1, ElementOfSeq, LenProperties DEF ToSet
  <2>2. ASSUME NEW k, k \in ToSet(l[i].keyword) PROVE k \in kw(l[i].id)
    BY <2>1, <2>2 DEF Tagged
  <2>3. ASSUME NEW k, k \in kw(l[i].id) PROVE k \in ToSet(l[i].keyword)
    <3>1. PICK j \in 1..Len(l) : l[j].id = l[i].id /\ k \in ToSet(l[j].keyword)
      BY <2>3 DEF Tagged
    <3>2. i = j
      BY <3>1 DEF Single
    <3> QED
      BY <3>1, <3>2
  <2> QED
    BY <2>2, <2>3
<1> HIDE DEF kw
<1>4. ASSUME NEW e \in ToSet(l)
      PROVE  /\ e.id \in Ids(l)
             /\ [id |-> e.id, keyword |-> ToSet(e.keyword)] = [id |-> e.id, keyword |-> kw(e.id)]
  BY <1>2, <1>3 DEF Ids
<1>5. ASSUME NEW d \in Ids(l)
      PROVE  \E e \in ToSet(l) :
               [id |-> d, keyword |-> kw(d)] = [id |-> e.id, keyword |-> ToSet(e.keyword)]
  <2>1. PICK i \in 1..Len(l) : l[i].id = d
    BY DEF Ids
  <2>2. l[i] \in ToSet(l) /\ kw(d) = ToSet(l[i].keyword)
    BY <1>2, <1>3, <2>1
  <2> QED
    BY <2>1, <2>2
<1>6. {[id |-> e.id, keyword |-> ToSet(e.keyword)] : e \in ToSet(l)}
        = {[id |-> d, keyword |-> kw(d)] : d \in Ids(l)}
  <2>1. {[id |-> e.id, keyword |-> ToSet(e.keyword)] : e \in ToSet(l)}
          \subseteq {[id |-> d, keyword |-> kw(d)] : d \in Ids(l)}
    BY <1>4
  <2>2. {[id |-> d, keyword |-> kw(d)] : d \in Ids(l)}
          \subseteq {[id |-> e.id, keyword |-> ToSet(e.keyword)] : e \in ToSet(l)}
    <3>1. SUFFICES ASSUME NEW d \in Ids(l)
                   PROVE  [id |-> d, keyword |-> kw(d)] \in
                            {[id |-> e.id, keyword |-> ToSet(e.keyword)] : e \in ToSet(l)}
      OBVIOUS
    <3>2. PICK e \in ToSet(l) :
            [id |-> d, keyword |-> kw(d)] = [id |-> e.id, keyword |-> ToSet(e.keyword)]
      BY <1>5
    <3> QED
      BY <3>2
  <2> QED
    BY <2>1, <2>2
<1> QED
  BY <1>6 DEF kw, View

LEMMA Showing ==
  ASSUME TypeInv, NEW p \in Peer, Single(photo_list[p])
  PROVE  Shown(p) = View(photo_list[p])
<1>1. photo_list[p] \in Seq(Photo)
  BY DEF TypeInv, DataTypes
<1> QED
  BY <1>1, Viewing DEF Shown

(* Once nothing is under way a request that spreads has reached the peers in *)
(* service, and is finished there.                                           *)
LEMMA Reached ==
  ASSUME TypeInv, Settled, NEW s \in Request, req[s].op # "none", Spread(s),
         NEW q \in Peer, Up(q)
  PROVE  pc[s][q] \in Past
<1>1. pc[s][req[s].home] = "done"
  BY DEF Settled
<1>2. pc[s][q] # "none"
  BY <1>1 DEF Spread
<1> QED
  BY <1>2 DEF Settled, Past

LEMMA SameIds ==
  ASSUME TypeInv, SpreadInv, ConvInv, Settled,
         NEW p \in Peer, NEW q \in Peer, Up(p), Up(q)
  PROVE  Ids(photo_list[p]) \subseteq Ids(photo_list[q])
<1> SUFFICES ASSUME NEW id \in Ids(photo_list[p]), id \notin Ids(photo_list[q]) PROVE FALSE
  OBVIOUS
<1>1. /\ Gone(p) /\ Added(p) /\ Gone(q) /\ Added(q)
  BY DEF ConvInv, CopyInv
<1>2. CASE id \in 1..Preloaded
  <2>1. PICK s \in Request : req[s].op = "delete" /\ req[s].photo = id /\ Spread(s)
    BY <1>1, <1>2 DEF Gone
  <2>2. pc[s][p] \in Past
    BY <2>1, Reached
  <2> QED
    BY <1>1, <2>1, <2>2 DEF Gone
<1>3. CASE \E s \in Request : req[s].op = "add" /\ req[s].photo = id
  <2>1. PICK s \in Request : req[s].op = "add" /\ req[s].photo = id
    BY <1>3
  <2>2. pc[s][req[s].home] # "insert"
    BY <2>1 DEF Settled
  <2>3. Spread(s)
    BY <2>1, <2>2 DEF SpreadInv, Spreads
  <2>4. pc[s][q] \in Past
    BY <2>1, <2>3, Reached
  <2> QED
    BY <1>1, <2>1, <2>4 DEF Added
<1> QED
  BY <1>1, <1>2, <1>3 DEF Added

LEMMA SameTags ==
  ASSUME TypeInv, SpreadInv, ConvInv, Settled,
         NEW p \in Peer, NEW q \in Peer, Up(p), Up(q),
         NEW id \in Ids(photo_list[q]), NEW k, Tagged(photo_list[p], id, k)
  PROVE  Tagged(photo_list[q], id, k)
<1>1. Tags(p) /\ Tags(q)
  BY DEF ConvInv, CopyInv
<1>2. PICK s \in Request : /\ req[s].op = "keyword" /\ req[s].photo = id
                           /\ req[s].keyword = k /\ Spread(s)
  BY <1>1 DEF Tags
<1>3. pc[s][q] \in Past
  BY <1>2, Reached
<1> QED
  BY <1>1, <1>2, <1>3 DEF Tags

LEMMA Converges ==
  ASSUME Closed, TypeInv, ListInv, SpreadInv, ConvInv
  PROVE  Convergence
<1> SUFFICES ASSUME Settled, NEW p \in Peer, NEW q \in Peer, Up(p), Up(q)
             PROVE  Shown(p) = Shown(q) /\ files[p] = Ids(photo_list[p])
  BY DEF Convergence
<1>1. Single(photo_list[p]) /\ Single(photo_list[q])
  BY SingleLists DEF Closed
<1>2. Ids(photo_list[p]) = Ids(photo_list[q])
  BY SameIds
<1>3. \A id \in Ids(photo_list[p]) : \A k :
        Tagged(photo_list[p], id, k) <=> Tagged(photo_list[q], id, k)
  BY <1>2, SameTags
<1>4. Shown(p) = Shown(q)
  BY <1>1, <1>2, <1>3, Showing DEF View
<1>5. \A r \in Request : pc[r][p] \notin {"store", "unlink"}
  BY DEF Settled
<1>6. files[p] = Ids(photo_list[p])
  <2>1. Filed(p) /\ Unlinked(p)
    BY DEF ConvInv, CopyInv
  <2>2. \A id \in Ids(photo_list[p]) : id \in files[p]
    BY <1>5, <2>1 DEF Filed
  <2>3. \A id \in files[p] : id \in Ids(photo_list[p])
    BY <1>5, <2>1 DEF Unlinked
  <2> QED
    BY <2>2, <2>3
<1> QED
  BY <1>4, <1>6

(* The replicas agree once nothing is under way, for any peers, requests and *)
(* crashes, provided nobody enters, keywords and deletions name photos of    *)
(* the start, and no array of keywords can fill up.                          *)
THEOREM ReplicasAgree == ASSUME Closed PROVE Spec => []Convergence
<1> DEFINE Inv == TypeInv /\ OnceInv /\ ListInv /\ SpreadInv /\ ConvInv
<1>1. Init => Inv
  BY TypeInit, OnceInit, ListInit, SpreadInit, ConvInit
<1>2. Inv /\ [Next]_vars => Inv'
  <2> SUFFICES ASSUME Inv, [Next]_vars PROVE Inv'
    OBVIOUS
  <2>1. TypeInv' /\ OnceInv' /\ ListInv'
    BY TypeStep, OnceStep, ListStep
  <2>2. SpreadInv' /\ ConvInv'
    BY SpreadStep, ConvStep
  <2> QED
    BY <2>1, <2>2
<1>3. Inv => Convergence
  BY Converges
<1> QED
  BY <1>1, <1>2, <1>3, PTL DEF Spec
-----------------------------------------------------------------------------
(* The gallery: every step is one of Gallery, or none.                       *)

(* What the abstract gallery sees.                                           *)
stages == [r \in Request |-> [p \in Peer |-> Stage(pc[r][p])]]
shows  == [p \in Peer |-> Shown(p)]

(* Ids are given out one per request.                                        *)
Asked == {r \in Request : req[r].op # "none"}
Counted == photo_id <= Preloaded + Cardinality(Asked)

(* What the three effects make of what a list shows.                         *)
LEMMA GainsView ==
  ASSUME NEW l, NEW m, NEW id, Gains(m, l, id), id \notin Ids(l)
  PROVE  View(m) = View(l) \cup {[id |-> id, keyword |-> {}]}
<1> DEFINE kw(n, d) == {k \in Keyword : Tagged(n, d, k)}
<1>1. \A d : kw(m, d) = kw(l, d)
  BY DEF Gains
<1>2. kw(l, id) = {}
  BY DEF Tagged, Ids
<1>3. Ids(m) = Ids(l) \cup {id}
  BY DEF Gains
<1>4. /\ View(m) = {[id |-> d, keyword |-> kw(m, d)] : d \in Ids(m)}
      /\ View(l) = {[id |-> d, keyword |-> kw(l, d)] : d \in Ids(l)}
  BY DEF View
<1> HIDE DEF kw
<1>5. View(m) = {[id |-> d, keyword |-> kw(l, d)] : d \in Ids(l) \cup {id}}
  BY <1>1, <1>3, <1>4
<1> QED
  BY <1>2, <1>4, <1>5

LEMMA LosesView ==
  ASSUME NEW l, NEW m, NEW id, Loses(m, l, id)
  PROVE  View(m) = {e \in View(l) : e.id # id}
<1> DEFINE kw(n, d) == {k \in Keyword : Tagged(n, d, k)}
<1>1. \A d \in Ids(m) : kw(m, d) = kw(l, d)
  BY DEF Loses
<1>2. Ids(m) = Ids(l) \ {id}
  BY DEF Loses
<1>3. /\ View(m) = {[id |-> d, keyword |-> kw(m, d)] : d \in Ids(m)}
      /\ View(l) = {[id |-> d, keyword |-> kw(l, d)] : d \in Ids(l)}
  BY DEF View
<1> HIDE DEF kw
<1>4. View(m) = {[id |-> d, keyword |-> kw(l, d)] : d \in Ids(l) \ {id}}
  BY <1>1, <1>2, <1>3
<1> QED
  BY <1>3, <1>4

LEMMA MarksView ==
  ASSUME NEW l, NEW m, NEW id, NEW w \in Keyword, Marks(m, l, id, w)
  PROVE  View(m) = {Abstract!Tagged(e, id, w) : e \in View(l)}
<1> DEFINE kw(n, d) == {k \in Keyword : Tagged(n, d, k)}
           show(n, d) == [id |-> d, keyword |-> kw(n, d)]
<1>1. \A d : kw(m, d) = IF d = id THEN kw(l, d) \cup {w} ELSE kw(l, d)
  BY DEF Marks
<1>2. Ids(m) = Ids(l)
  BY DEF Marks
<1>3. View(m) = {show(m, d) : d \in Ids(m)} /\ View(l) = {show(l, d) : d \in Ids(l)}
  BY DEF View
<1>4. \A d : Abstract!Tagged(show(l, d), id, w) = show(m, d)
  <2> SUFFICES ASSUME NEW d PROVE Abstract!Tagged(show(l, d), id, w) = show(m, d)
    OBVIOUS
  <2>1. CASE d = id
    <3>1. kw(m, d) = kw(l, d) \cup {w}
      BY <1>1, <2>1
    <3> HIDE DEF kw
    <3> QED
      BY <2>1, <3>1 DEF Abstract!Tagged
  <2>2. CASE d # id
    <3>1. kw(m, d) = kw(l, d)
      BY <1>1, <2>2
    <3> HIDE DEF kw
    <3> QED
      BY <2>2, <3>1 DEF Abstract!Tagged
  <2> QED
    BY <2>1, <2>2
<1> HIDE DEF kw, show
<1> QED
  BY <1>2, <1>3, <1>4

(* The steps of the abstract gallery, in terms of what it sees.              *)
LEMMA Asks ==
  ASSUME NEW r \in Request, NEW p \in Peer, NEW id \in 1..(Preloaded + Cardinality(Request)),
         req[r] = NoOp,
         \/ /\ \A q \in Peer : \A e \in shows[q] : e.id # id
            /\ \A t \in Request : req[t].photo # id
            /\ req' = [req EXCEPT ![r] =
                 [op |-> "add", photo |-> id, keyword |-> "", home |-> p]]
         \/ req' = [req EXCEPT ![r] =
              [op |-> "delete", photo |-> id, keyword |-> "", home |-> p]]
         \/ \E k \in Keyword : req' = [req EXCEPT ![r] =
              [op |-> "keyword", photo |-> id, keyword |-> k, home |-> p]],
         stages' = [stages EXCEPT ![r][p] = "told"], UNCHANGED shows
  PROVE  Abstract!Ask(r, p, id)
BY DEF Abstract!Ask, Abstract!Fresh, Abstract!NotIssued, NoOp, stages, shows

LEMMA Applies ==
  ASSUME NEW r \in Request, NEW p \in Peer, stages[r][p] = "told",
         stages' = [stages EXCEPT ![r][p] = "done"], UNCHANGED req,
         NEW s, s \in Abstract!Effect(req[r], shows[p]), shows' = [shows EXCEPT ![p] = s]
  PROVE  Abstract!Apply(r, p)
BY DEF Abstract!Apply, stages, shows

LEMMA Tells ==
  ASSUME NEW r \in Request, NEW p \in Peer, stages[r][p] = "none",
         stages' = [stages EXCEPT ![r][p] = "told"], UNCHANGED <<req, shows>>,
         req[r].home # NoPeer, stages[r][req[r].home] = "done"
  PROVE  Abstract!Tell(r, p)
BY DEF Abstract!Tell, stages, shows

LEMMA Stutters ==
  ASSUME UNCHANGED <<req, stages, shows>> PROVE UNCHANGED Abstract!vars
BY DEF Abstract!vars, stages, shows
-----------------------------------------------------------------------------
(* A thread that moves changes one stage, or none.                           *)
LEMMA StagesStep ==
  ASSUME WalkTypes, NEW r \in Request, NEW p \in Peer, NEW g, Goto(r, p, g)
  PROVE  /\ stages' = [stages EXCEPT ![r][p] = Stage(g)]
         /\ Stage(g) = stages[r][p] => UNCHANGED stages
<1>1. pc' = [pc EXCEPT ![r][p] = g] /\ pc \in [Request -> [Peer -> Stages]]
  BY DEF Goto, WalkTypes
<1>2. stages' = [t \in Request |-> [q \in Peer |->
                  IF t = r /\ q = p THEN Stage(g) ELSE Stage(pc[t][q])]]
  BY <1>1 DEF stages
<1>3. stages' = [stages EXCEPT ![r][p] = Stage(g)]
  BY <1>2 DEF stages
<1>4. Stage(g) = stages[r][p] => UNCHANGED stages
  BY <1>2 DEF stages
<1> QED
  BY <1>3, <1>4

(* A peer shows something else only if its list changes.                     *)
LEMMA ShowsSame ==
  ASSUME UNCHANGED photo_list PROVE UNCHANGED shows
BY DEF shows, Shown

LEMMA ShowsStep ==
  ASSUME Joiner = NoPeer, TypeInv, ListInv, TypeInv', ListInv', NEW p \in Peer,
         \A q \in Peer : q # p => photo_list'[q] = photo_list[q]
  PROVE  /\ shows[p] = View(photo_list[p])
         /\ shows' = [shows EXCEPT ![p] = View(photo_list'[p])]
<1>1. shows[p] = View(photo_list[p])
  BY SingleLists, Showing DEF shows
<1>2. Shown(p)' = View(photo_list'[p])
  <2>1. Single(photo_list'[p])
    BY ReplicationAssumption DEF ListInv, Marked, Plain, Single
  <2>2. photo_list'[p] \in Seq(Photo)
    BY DEF TypeInv, DataTypes
  <2> QED
    BY <2>1, <2>2, Viewing DEF Shown
<1>3. \A q \in Peer : q # p => Shown(q)' = Shown(q)
  BY DEF Shown
<1>4. shows' = [q \in Peer |-> IF q = p THEN View(photo_list'[p]) ELSE Shown(q)]
  BY <1>2, <1>3 DEF shows
<1> QED
  BY <1>1, <1>4 DEF shows
-----------------------------------------------------------------------------
LEMMA CountedInit == IsFiniteSet(Request) /\ Init => Counted
<1> SUFFICES ASSUME Init PROVE Counted
  OBVIOUS
<1>1. Asked = {}
  BY DEF Init, Asked, NoOp
<1>2. Cardinality(Asked) = 0
  BY <1>1, FS_EmptySet
<1> QED
  BY <1>2, ReplicationAssumption DEF Counted, Init

LEMMA Asking ==
  ASSUME IsFiniteSet(Request)
  PROVE  /\ IsFiniteSet(Asked) /\ Cardinality(Asked) \in Nat
         /\ \A r \in Request : r \notin Asked => Cardinality(Asked) < Cardinality(Request)
<1>1. Asked \in SUBSET Request
  BY DEF Asked
<1>2. IsFiniteSet(Asked) /\ Cardinality(Asked) \in Nat
  BY <1>1, FS_Subset, FS_CardinalityType
<1>3. ASSUME NEW r \in Request, r \notin Asked PROVE Cardinality(Asked) < Cardinality(Request)
  <2>1. Cardinality(Asked \cup {r}) = Cardinality(Asked) + 1
    BY <1>2, <1>3, FS_AddElement
  <2>2. Asked \cup {r} \in SUBSET Request
    BY <1>1
  <2>3. Cardinality(Asked \cup {r}) <= Cardinality(Request) /\ Cardinality(Request) \in Nat
    BY <2>2, FS_Subset, FS_CardinalityType
  <2> QED
    BY <1>2, <2>1, <2>3
<1> QED
  BY <1>2, <1>3

LEMMA CountedStep ==
  ASSUME IsFiniteSet(Request), TypeInv, OnceInv, Counted, [Next]_vars
  PROVE  Counted'
<1>1. CASE UNCHANGED clients
  BY <1>1 DEF Counted, Asked, clients
<1>2. ASSUME NEW r \in Request, NEW p \in Peer, Issue(r, p) PROVE Counted'
  <2> DEFINE more == {t \in Request : req'[t].op # "none"}
  <2>1. r \notin Asked /\ (photo_id' = photo_id \/ photo_id' = photo_id + 1)
    BY <1>2 DEF Issue, Asked
  <2>2. more = Asked \cup {r}
    BY <1>2, IssueStage DEF Asked
  <2>3. Cardinality(more) = Cardinality(Asked) + 1 /\ Cardinality(Asked) \in Nat
    BY <2>1, <2>2, Asking, FS_AddElement
  <2>4. photo_id \in Nat /\ Preloaded \in Nat
    BY ReplicationAssumption DEF TypeInv, DataTypes
  <2>5. photo_id <= Preloaded + Cardinality(Asked)
    BY DEF Counted
  <2> HIDE DEF more
  <2>6. photo_id' <= Preloaded + Cardinality(more)
    BY <2>1, <2>3, <2>4, <2>5
  <2> QED
    BY <2>6 DEF Counted, Asked, more
<1> QED
  BY <1>1, <1>2, ListCases

(* What holds along the steps that are mapped to the abstract gallery.       *)
MapInv == TypeInv /\ OnceInv /\ ListInv /\ Counted

LEMMA MapIssue ==
  ASSUME Joiner = NoPeer, IsFiniteSet(Request), MapInv,
         NEW r \in Request, NEW p \in Peer, Issue(r, p)
  PROVE  \E id \in 1..(Preloaded + Cardinality(Request)) : Abstract!Ask(r, p, id)
<1> DEFINE top == Preloaded + Cardinality(Request)
<1>1. WalkTypes /\ DataTypes /\ req[r] = NoOp
  BY DEF MapInv, TypeInv, WalkInv, Orders, Issue
<1>2. photo_id \in Nat /\ photo_id < top
  <2>1. r \notin Asked
    BY DEF Asked, Issue
  <2>2. Cardinality(Asked) \in Nat /\ Cardinality(Asked) < Cardinality(Request)
    BY <2>1, Asking
  <2>3. Cardinality(Request) \in Nat
    BY FS_CardinalityType
  <2>4. photo_id \in Nat /\ photo_id <= Preloaded + Cardinality(Asked) /\ Preloaded \in Nat
    BY <1>1, ReplicationAssumption DEF MapInv, Counted, DataTypes
  <2> QED
    BY <2>2, <2>3, <2>4
<1>3. top \in Nat
  BY FS_CardinalityType, ReplicationAssumption
<1>4. UNCHANGED shows
  BY ShowsSame DEF Issue, gallery
<1>5. stages' = [stages EXCEPT ![r][p] = "told"]
  <2>1. Goto(r, p, Start(req'[r].op)) /\ req'[r].op \in {"add", "keyword", "delete"}
    BY IssueStage DEF Issue, MapInv
  <2>2. Stage(Start(req'[r].op)) = "told"
    BY <2>1 DEF Start, Stage
  <2> QED
    BY <1>1, <2>1, <2>2, StagesStep
<1>6. CASE req' = [req EXCEPT ![r] = [op |-> "add", photo |-> photo_id + 1,
                                     keyword |-> "", home |-> p]]
  <2> DEFINE id == photo_id + 1
  <2>1. id \in 1..top
    BY <1>2, <1>3
  <2>2. \A q \in Peer : \A e \in shows[q] : e.id # id
    <3>1. SUFFICES ASSUME NEW q \in Peer, NEW e \in shows[q], e.id = id PROVE FALSE
      OBVIOUS
    <3>2. PICK n \in ToSet(photo_list[q]) : e.id = n.id
      BY <3>1 DEF shows, Shown
    <3>3. photo_list[q] \in Seq(Photo)
      BY <1>1 DEF DataTypes
    <3>4. PICK i \in 1..Len(photo_list[q]) : n = photo_list[q][i]
      BY <3>2, <3>3, LenProperties DEF ToSet
    <3>5. Given(photo_list[q])
      BY DEF MapInv, ListInv
    <3>6. id <= photo_id
      BY <3>1, <3>2, <3>4, <3>5 DEF Given
    <3> QED
      BY <1>2, <3>6
  <2>3. \A t \in Request : req[t].photo # id
    <3>1. \A t \in Request : req[t].photo \in 0..photo_id
      BY <1>1 DEF DataTypes
    <3> QED
      BY <1>2, <3>1
  <2>4. req' = [req EXCEPT ![r] = [op |-> "add", photo |-> id, keyword |-> "", home |-> p]]
    BY <1>6
  <2> HIDE DEF id, top
  <2>5. Abstract!Ask(r, p, id)
    BY <1>1, <1>4, <1>5, <2>1, <2>2, <2>3, <2>4, Asks DEF top
  <2> QED
    BY <2>1, <2>5 DEF top
<1>7. ASSUME NEW o \in {"keyword", "delete"}, NEW id \in 1..photo_id, NEW k \in Keyword,
             req' = [req EXCEPT ![r] = [op |-> o, photo |-> id,
                       keyword |-> IF o = "keyword" THEN k ELSE "", home |-> p]]
      PROVE  \E i \in 1..top : Abstract!Ask(r, p, i)
  <2>1. id \in 1..top
    BY <1>2, <1>3
  <2>2. \/ req' = [req EXCEPT ![r] = [op |-> "delete", photo |-> id, keyword |-> "", home |-> p]]
        \/ req' = [req EXCEPT ![r] = [op |-> "keyword", photo |-> id, keyword |-> k, home |-> p]]
    BY <1>7
  <2>3. Abstract!Ask(r, p, id)
    BY <1>1, <1>4, <1>5, <2>1, <2>2, Asks
  <2> QED
    BY <2>1, <2>3
<1> QED
  BY <1>6, <1>7 DEF Issue

LEMMA MapAdd ==
  ASSUME Joiner = NoPeer, MapInv, MapInv', NEW r \in Request, NEW p \in Peer, AddInsert(r, p)
  PROVE  Abstract!Apply(r, p)
<1> DEFINE l == photo_list[p]
           m == photo_list'[p]
           id == req[r].photo
<1>1. WalkTypes /\ pc[r][p] = "insert" /\ Goto(r, p, "store") /\ UNCHANGED req
  BY DEF MapInv, TypeInv, WalkInv, AddInsert, clients
<1>2. /\ stages[r][p] = "told"
      /\ stages' = [stages EXCEPT ![r][p] = "done"]
  <2>1. Stage("store") = "done" /\ Stage("insert") = "told"
    BY DEF Stage
  <2>2. stages' = [stages EXCEPT ![r][p] = "done"]
    BY <1>1, <2>1, StagesStep
  <2> QED
    BY <1>1, <2>1, <2>2 DEF stages
<1>3. Gains(m, l, id) /\ req[r].op = "add" /\ \A q \in Peer : q # p => photo_list'[q] = photo_list[q]
  BY AddGains DEF MapInv
<1>4. id \notin Ids(l)
  <2>1. Coming(r, p) /\ p # Joiner
    BY ReplicationAssumption DEF MapInv, ListInv
  <2> QED
    BY <1>1, <1>3, <2>1 DEF Coming, Ids
<1>5. View(m) = View(l) \cup {[id |-> id, keyword |-> {}]}
  BY <1>3, <1>4, GainsView
<1>6. shows[p] = View(l) /\ shows' = [shows EXCEPT ![p] = View(m)]
  BY <1>3, ShowsStep DEF MapInv
<1> HIDE DEF l, m
<1>7. View(m) \in Abstract!Effect(req[r], shows[p])
  BY <1>3, <1>5, <1>6 DEF Abstract!Effect
<1> QED
  BY <1>1, <1>2, <1>6, <1>7, Applies

LEMMA MapDelete ==
  ASSUME Joiner = NoPeer, MapInv, MapInv', NEW r \in Request, NEW p \in Peer, DeleteRemove(r, p)
  PROVE  Abstract!Apply(r, p)
<1> DEFINE l == photo_list[p]
           m == photo_list'[p]
           id == req[r].photo
<1>1. /\ WalkTypes /\ pc[r][p] = "remove" /\ UNCHANGED req
      /\ \E g \in {"unlink", "done"} : Goto(r, p, g)
  BY DEF MapInv, TypeInv, WalkInv, DeleteRemove, clients
<1>2. /\ stages[r][p] = "told"
      /\ stages' = [stages EXCEPT ![r][p] = "done"]
  <2>1. PICK g \in {"unlink", "done"} : Goto(r, p, g)
    BY <1>1
  <2>2. Stage(g) = "done"
    BY DEF Stage
  <2>3. stages' = [stages EXCEPT ![r][p] = "done"]
    BY <1>1, <2>1, <2>2, StagesStep
  <2> QED
    BY <1>1, <2>3 DEF stages, Stage
<1>3. Single(l)
  BY SingleLists DEF MapInv
<1>4. /\ Loses(m, l, id) /\ req[r].op = "delete"
      /\ \A q \in Peer : q # p => photo_list'[q] = photo_list[q]
  BY <1>3, DeleteLoses DEF MapInv
<1>5. View(m) = {e \in View(l) : e.id # id}
  BY <1>4, LosesView
<1>6. shows[p] = View(l) /\ shows' = [shows EXCEPT ![p] = View(m)]
  BY <1>4, ShowsStep DEF MapInv
<1> HIDE DEF l, m
<1>7. View(m) \in Abstract!Effect(req[r], shows[p])
  BY <1>4, <1>5, <1>6 DEF Abstract!Effect
<1> QED
  BY <1>1, <1>2, <1>6, <1>7, Applies

(* A keyword that is written takes effect; one that is refused takes effect  *)
(* without changing anything; one that fails does not take effect.           *)
LEMMA MapPut ==
  ASSUME Joiner = NoPeer, MapInv, MapInv', NEW r \in Request, NEW p \in Peer, KeywordPut(r, p)
  PROVE  Abstract!Apply(r, p) \/ UNCHANGED <<req, stages, shows>>
<1> DEFINE l == photo_list[p]
           m == photo_list'[p]
           id == req[r].photo
           w == req[r].keyword
<1>1. WalkTypes /\ pc[r][p] = "put" /\ UNCHANGED req
  BY DEF MapInv, TypeInv, WalkInv, KeywordPut, clients
<1>2. /\ req[r].op = "keyword" /\ w \in Keyword
      /\ \A q \in Peer : q # p => photo_list'[q] = photo_list[q]
  BY PutMarks DEF MapInv, TypeInv, Orders
<1>3. CASE UNCHANGED <<photo_list, pc>>
  BY <1>1, <1>3, ShowsSame DEF stages
<1>4. CASE ~UNCHANGED <<photo_list, pc>>
  <2>1. Marks(m, l, id, w)
    BY <1>4, PutMarks DEF MapInv
  <2>2. Goto(r, p, After(r, p)) /\ After(r, p) \in {"lock", "done"}
    BY <1>4 DEF KeywordPut, After
  <2>3. /\ stages[r][p] = "told"
        /\ stages' = [stages EXCEPT ![r][p] = "done"]
    BY <1>1, <2>2, StagesStep DEF stages, Stage
  <2>4. View(m) = {Abstract!Tagged(e, id, w) : e \in View(l)}
    BY <1>2, <2>1, MarksView
  <2>5. shows[p] = View(l) /\ shows' = [shows EXCEPT ![p] = View(m)]
    BY <1>2, ShowsStep DEF MapInv
  <2> HIDE DEF l, m
  <2>6. View(m) \in Abstract!Effect(req[r], shows[p])
    BY <1>2, <2>4, <2>5 DEF Abstract!Effect
  <2> QED
    BY <1>1, <2>3, <2>5, <2>6, Applies
<1> QED
  BY <1>3, <1>4

LEMMA MapFind ==
  ASSUME MapInv, NEW r \in Request, NEW p \in Peer, KeywordFind(r, p)
  PROVE  Abstract!Apply(r, p) \/ UNCHANGED <<req, stages, shows>>
<1>1. /\ WalkTypes /\ pc[r][p] = "find" /\ UNCHANGED req
      /\ Goto(r, p, "put") \/ Goto(r, p, "done")
  BY DEF MapInv, TypeInv, WalkInv, KeywordFind, clients
<1>2. stages[r][p] = "told" /\ UNCHANGED shows
  BY <1>1, ShowsSame DEF stages, Stage, KeywordFind, gallery
<1>3. CASE Goto(r, p, "put")
  BY <1>1, <1>2, <1>3, StagesStep DEF Stage
<1>4. CASE Goto(r, p, "done")
  <2>1. stages' = [stages EXCEPT ![r][p] = "done"]
    BY <1>1, <1>4, StagesStep DEF Stage
  <2>2. req[r].op = "keyword"
    BY <1>1, StageKind DEF MapInv
  <2>3. shows[p] \in Abstract!Effect(req[r], shows[p])
    BY <2>2 DEF Abstract!Effect
  <2>4. shows' = [shows EXCEPT ![p] = shows[p]]
    BY <1>2 DEF shows
  <2> QED
    BY <1>1, <1>2, <2>1, <2>3, <2>4, Applies
<1> QED
  BY <1>1, <1>3, <1>4

LEMMA MapSend ==
  ASSUME MapInv, NEW r \in Request, NEW p \in Peer, BcastSend(r, p)
  PROVE  \/ \E q \in Peer : Abstract!Tell(r, q)
         \/ UNCHANGED <<req, stages, shows>>
<1> DEFINE q == peer_list[p][cursor[r]]
<1>1. /\ WalkTypes /\ pc[r][p] = "bcast" /\ UNCHANGED <<req, photo_list>>
      /\ UNCHANGED pc \/ Goto(r, q, Start(req[r].op))
  BY DEF MapInv, TypeInv, WalkInv, BcastSend, clients, gallery
<1>2. q \in Peer /\ pc[r][q] = "none" /\ p = req[r].home
  BY ToldOnce DEF MapInv
<1>3. UNCHANGED shows
  BY <1>1, ShowsSame
<1> HIDE DEF q
<1>4. CASE UNCHANGED pc
  BY <1>1, <1>3, <1>4 DEF stages
<1>5. CASE Goto(r, q, Start(req[r].op))
  <2>1. req[r].op \in {"add", "keyword", "delete"}
    BY <1>1, StageKind DEF MapInv
  <2>2. stages' = [stages EXCEPT ![r][q] = "told"]
    BY <1>1, <1>2, <1>5, <2>1, StagesStep DEF Start, Stage
  <2>3. stages[r][q] = "none" /\ stages[r][req[r].home] = "done" /\ req[r].home # NoPeer
    BY <1>1, <1>2, ReplicationAssumption DEF stages, Stage
  <2>4. Abstract!Tell(r, q)
    BY <1>1, <1>2, <1>3, <2>2, <2>3, Tells
  <2> QED
    BY <1>2, <2>4
<1> QED
  BY <1>1, <1>4, <1>5

(* The other steps of a thread are behind its effect.                        *)
LEMMA MapRest ==
  ASSUME MapInv, NEW r \in Request, NEW p \in Peer,
         \/ AddStore(r, p) \/ DeleteUnlink(r, p)
         \/ BcastLock(r, p) \/ BcastDrop(r, p) \/ BcastEnd(r, p)
  PROVE  UNCHANGED <<req, stages, shows>>
<1>1. WalkTypes
  BY DEF MapInv, TypeInv, WalkInv
<1>2. CASE AddStore(r, p) \/ DeleteUnlink(r, p)
  <2>1. /\ pc[r][p] \in {"store", "unlink"} /\ UNCHANGED <<req, photo_list>>
        /\ \E g \in {"lock", "done"} : Goto(r, p, g)
    BY <1>2 DEF AddStore, DeleteUnlink, After, clients
  <2> QED
    BY <1>1, <2>1, StagesStep, ShowsSame DEF stages, Stage
<1>3. CASE BcastLock(r, p) \/ BcastEnd(r, p)
  <2>1. /\ pc[r][p] \in {"lock", "bcast"} /\ UNCHANGED <<req, photo_list>>
        /\ \E g \in {"bcast", "done"} : Goto(r, p, g)
    BY <1>3 DEF BcastLock, BcastEnd, clients, gallery
  <2> QED
    BY <1>1, <2>1, StagesStep, ShowsSame DEF stages, Stage
<1>4. CASE BcastDrop(r, p)
  BY <1>4, ShowsSame DEF BcastDrop, clients, gallery, stages
<1> QED
  BY <1>2, <1>3, <1>4

LEMMA MapStep ==
  ASSUME Joiner = NoPeer, IsFiniteSet(Request), MapInv, MapInv', [Next]_vars
  PROVE  [Abstract!Next]_(Abstract!vars)
<1> SUFFICES ASSUME ~UNCHANGED Abstract!vars PROVE Abstract!Next
  OBVIOUS
<1>1. ~UNCHANGED <<req, stages, shows>>
  BY Stutters
<1>2. ASSUME NEW r \in Request, NEW p \in Peer, Issue(r, p) PROVE Abstract!Next
  BY <1>2, MapIssue DEF Abstract!Next
<1>3. ASSUME NEW r \in Request, NEW p \in Peer, Handle(r, p) PROVE Abstract!Next
  <2>1. \/ Abstract!Apply(r, p)
        \/ \E q \in Peer : Abstract!Tell(r, q)
    BY <1>1, <1>3, MapAdd, MapDelete, MapPut, MapFind, MapSend, MapRest DEF Handle
  <2> QED
    BY <2>1 DEF Abstract!Next
<1>4. ~Join /\ \A q \in Peer : ~JoinRegister(q)
  BY NobodyJoins DEF MapInv
<1>5. ASSUME NEW q \in Peer PROVE ~Crash(q)
  BY <1>1, ShowsSame DEF Crash, gallery, clients, stages
<1>6. ~UNCHANGED vars
  BY <1>1, ShowsSame DEF vars, gallery, clients, stages
<1> QED
  BY <1>2, <1>3, <1>4, <1>5, <1>6 DEF Next

LEMMA MapInit == ASSUME Joiner = NoPeer, Init PROVE Abstract!Init
<1>1. req = [r \in Request |-> NoOp]
  BY DEF Init
<1>2. stages = [r \in Request |-> [p \in Peer |-> "none"]]
  BY DEF Init, stages, Stage
<1>3. shows = [p \in Peer |-> {[id |-> i, keyword |-> {}] : i \in 1..Preloaded}]
  <2>1. \A p \in Peer : shows[p] = View(StartList)
    <3>1. \A p \in Peer : photo_list[p] = StartList
      BY ReplicationAssumption DEF Init, StartList
    <3>2. TypeInv /\ ListInv
      BY TypeInit, ListInit
    <3> QED
      BY <3>1, <3>2, SingleLists, Showing DEF shows
  <2>2. \A id, k : ~Tagged(StartList, id, k)
    <3>1. ToSet(<<>>) = {}
      BY DEF ToSet
    <3> QED
      BY <3>1, Starting DEF Tagged
  <2>3. View(StartList) = {[id |-> i, keyword |-> {}] : i \in 1..Preloaded}
    BY <2>2, Starting DEF View
  <2> QED
    BY <2>1, <2>3 DEF shows
<1> QED
  BY <1>1, <1>2, <1>3 DEF Abstract!Init, Abstract!NotIssued, NoOp, stages, shows

(* Without a joiner, and for finitely many requests, the peers implement the *)
(* abstract gallery, for any number of peers, photos and crashes: a request  *)
(* takes effect at its home, then at the peers it is told to, at each of     *)
(* them in one step and at most once (peer.c: add_photo, add_keyword,        *)
(* delete_photo, broadcastPeersAndNotify).                                   *)
THEOREM GalleryImplemented ==
  ASSUME Joiner = NoPeer, IsFiniteSet(Request) PROVE Spec => ImplementsGallery
<1>1. Init => MapInv
  BY TypeInit, OnceInit, ListInit, CountedInit DEF MapInv
<1>2. MapInv /\ [Next]_vars => MapInv'
  BY TypeStep, OnceStep, ListStep, CountedStep DEF MapInv
<1>3. MapInv /\ MapInv' /\ [Next]_vars => [Abstract!Next]_(Abstract!vars)
  BY MapStep
<1>4. Init => Abstract!Init
  BY MapInit
<1> QED
  BY <1>1, <1>2, <1>3, <1>4, PTL DEF Spec, ImplementsGallery, Abstract!Spec
=============================================================================
