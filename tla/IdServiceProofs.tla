-------------------------- MODULE IdServiceProofs ---------------------------
(***************************************************************************)
(* Proofs about IdService, for any number of peers and threads, any number *)
(* of ids, and any datagrams that are lost or overtake each other.         *)
(***************************************************************************)
EXTENDS IdService, RingProofs

Id == 0..(IdModulus - 1)

(* Until the counter wraps, the ids under way and those of the photos are    *)
(* all different, and none is ahead of the counter.                          *)
IdsApart ==
  served < IdModulus =>
    /\ photo_id = served
    /\ \A p \in Peer : \A i \in 1..Len(answers[p]) :
         answers[p][i] <= served /\ photos[answers[p][i]] = 0
    /\ \A p, q \in Peer : \A i \in 1..Len(answers[p]), j \in 1..Len(answers[q]) :
         answers[p][i] = answers[q][j] => p = q /\ i = j
    /\ \A id \in Id : photos[id] <= 1 /\ (photos[id] > 0 => id <= served)

IdInv == TypeOK /\ NoZeroId /\ IdsApart
-----------------------------------------------------------------------------
(* The counter stays an id, and counts until it wraps.                       *)
LEMMA NextIdProperties ==
  ASSUME photo_id \in Id
  PROVE  /\ NextId(photo_id) \in Id
         /\ photo_id + 1 < IdModulus => NextId(photo_id) = photo_id + 1
BY IdServiceAssumption DEF NextId, Id

LEMMA IdTypes ==
  /\ IdModulus \in Nat /\ IdModulus > 1 /\ 0 \in Id
  /\ \A id \in Id : id \in Nat /\ id < IdModulus
BY IdServiceAssumption DEF Id

LEMMA IdInit == Init => IdInv
<1> SUFFICES ASSUME Init PROVE IdInv
  OBVIOUS
<1>1. \A p \in Peer : RingOf(p) \in Seq(Peer)
  BY IdServiceAssumption, RingRemoveType DEF RingOf
<1>2. <<>> \in Seq(Id) /\ Len(<<>>) = 0
  OBVIOUS
<1>3. TypeOK
  BY <1>1, <1>2, IdServiceAssumption, IdTypes DEF Init, TypeOK, Id
<1>4. NoZeroId
  BY IdTypes DEF Init, NoZeroId, Id
<1>5. IdsApart
  BY <1>2, IdTypes DEF Init, IdsApart, Id
<1> QED
  BY <1>3, <1>4, <1>5 DEF IdInv

(* The gateway's answer is ahead of every id given out before.               *)
LEMMA ServeKeeps ==
  ASSUME IdInv, NEW p \in Peer, Serve(p)
  PROVE  IdInv'
<1> USE DEF IdInv
<1>1. /\ served \in Nat /\ served < MaxServed /\ served' = served + 1
      /\ MaxServed \in Nat /\ photo_id \in Id /\ photo_id' = NextId(photo_id)
      /\ photos' = photos /\ answers \in [Peer -> Seq(Id)]
      /\ photos \in [Id -> Nat]
  BY IdServiceAssumption DEF TypeOK, Serve, Id
<1>2. /\ photo_id' \in Id
      /\ photo_id + 1 < IdModulus => photo_id' = photo_id + 1
  BY <1>1, NextIdProperties
<1>3. \A q \in Peer : /\ answers[q] \in Seq(Id)
                      /\ Len(answers[q]) \in Nat
                      /\ \A i \in 1..Len(answers[q]) : answers[q][i] \in Id
  BY <1>1, LenProperties, ElementOfSeq
<1>r. requests' \in [Peer -> Nat] /\ served' \in 0..MaxServed
  <2>1. requests[p] - 1 \in Nat
    BY DEF TypeOK, Serve
  <2> QED
    BY <1>1, <2>1 DEF TypeOK, Serve
<1>u. UNCHANGED <<status, th, photos, toTell, walker, gaveup>>
  BY DEF Serve, shutdown
<1>4. CASE ~Runs(p)
  <2>1. answers' = answers
    BY <1>4 DEF Serve
  <2>2. TypeOK'
    BY <1>1, <1>2, <1>r, <1>u, <2>1 DEF TypeOK, Id
  <2>3. IdsApart'
    BY <1>1, <1>2, <1>3, <2>1, IdTypes DEF IdsApart
  <2> QED
    BY <2>2, <2>3, <1>1 DEF NoZeroId
<1>5. CASE Runs(p)
  <2> DEFINE new == Append(answers[p], photo_id')
  <2>1. answers' = [answers EXCEPT ![p] = new]
    BY <1>5 DEF Serve
  <2>2. /\ new \in Seq(Id) /\ Len(new) = Len(answers[p]) + 1
        /\ \A i \in 1..Len(answers[p]) : new[i] = answers[p][i]
        /\ new[Len(answers[p]) + 1] = photo_id'
    BY <1>2, <1>3, AppendProperties
  <2> HIDE DEF new
  <2>3. answers' \in [Peer -> Seq(Id)] /\ answers'[p] = new
        /\ \A q \in Peer : q # p => answers'[q] = answers[q]
    BY <1>1, <2>1, <2>2
  <2>4. TypeOK'
    BY <1>1, <1>2, <1>r, <1>u, <2>3 DEF TypeOK, Id
  <2>5. IdsApart'
    <3>1. SUFFICES ASSUME served' < IdModulus
                   PROVE  IdsApart'
      BY DEF IdsApart
    <3>2. photo_id' = served' /\ photo_id = served /\ served < IdModulus
      BY <1>1, <1>2, <3>1, IdTypes DEF IdsApart
    <3>3. ASSUME NEW q \in Peer, NEW i \in 1..Len(answers'[q])
          PROVE  \/ answers'[q][i] = served' /\ q = p /\ i = Len(answers[p]) + 1
                 \/ answers'[q][i] = answers[q][i] /\ i \in 1..Len(answers[q])
      BY <1>3, <2>2, <2>3, <3>2, <3>3
    <3>4. \A q \in Peer : \A i \in 1..Len(answers[q]) :
            answers[q][i] <= served /\ photos[answers[q][i]] = 0
      BY <3>2 DEF IdsApart
    <3>5. served' \in Id /\ photos[served'] = 0 /\ ~(served' <= served)
      <4>1. served' \in Id /\ ~(served' <= served)
        BY <1>1, <1>2, <3>2, IdTypes
      <4>2. photos[served'] \in Nat /\ ~(photos[served'] > 0)
        BY <4>1, <1>1, <3>2 DEF IdsApart
      <4> QED
        BY <4>1, <4>2
    <3>6. ASSUME NEW q \in Peer, NEW i \in 1..Len(answers'[q])
          PROVE  answers'[q][i] <= served' /\ photos'[answers'[q][i]] = 0
      <4>1. CASE answers'[q][i] = served'
        BY <1>1, <3>5, <4>1
      <4>2. CASE answers'[q][i] = answers[q][i] /\ i \in 1..Len(answers[q])
        <5>1. answers[q][i] \in Nat
          BY <1>3, <4>2, IdTypes
        <5> QED
          BY <1>1, <3>4, <4>2, <5>1
      <4> QED
        BY <3>3, <4>1, <4>2
    <3>7. ASSUME NEW q \in Peer, NEW r \in Peer,
                 NEW i \in 1..Len(answers'[q]), NEW j \in 1..Len(answers'[r]),
                 answers'[q][i] = answers'[r][j]
          PROVE  q = r /\ i = j
      <4>1. /\ \/ answers'[q][i] = served' /\ q = p /\ i = Len(answers[p]) + 1
               \/ answers'[q][i] = answers[q][i] /\ i \in 1..Len(answers[q])
            /\ \/ answers'[r][j] = served' /\ r = p /\ j = Len(answers[p]) + 1
               \/ answers'[r][j] = answers[r][j] /\ j \in 1..Len(answers[r])
        BY <3>3
      <4>2. CASE /\ answers'[q][i] = answers[q][i] /\ i \in 1..Len(answers[q])
                 /\ answers'[r][j] = answers[r][j] /\ j \in 1..Len(answers[r])
        <5>1. answers[q][i] = answers[r][j]
          BY <3>7, <4>2
        <5>2. \A p1, p2 \in Peer : \A m \in 1..Len(answers[p1]), n \in 1..Len(answers[p2]) :
                answers[p1][m] = answers[p2][n] => p1 = p2 /\ m = n
          BY <3>2 DEF IdsApart
        <5> QED
          BY <4>2, <5>1, <5>2
      <4>3. CASE answers'[q][i] = served' /\ q = p /\ i = Len(answers[p]) + 1
        BY <3>4, <3>5, <3>7, <4>1, <4>3
      <4>4. CASE answers'[r][j] = served' /\ r = p /\ j = Len(answers[p]) + 1
        BY <3>4, <3>5, <3>7, <4>1, <4>4
      <4> QED
        BY <4>1, <4>2, <4>3, <4>4
    <3>8. \A id \in Id : photos'[id] <= 1 /\ (photos'[id] > 0 => id <= served')
      BY <1>1, <3>2, IdTypes DEF IdsApart
    <3> QED
      BY <3>1, <3>2, <3>6, <3>7, <3>8 DEF IdsApart
  <2> QED
    BY <1>1, <2>4, <2>5 DEF NoZeroId
<1> QED
  BY <1>4, <1>5

(* The id taken leaves the socket and belongs to one photo.                  *)
LEMMA RecvIdKeeps ==
  ASSUME IdInv, NEW p \in Peer, NEW t \in Thread, RecvId(p, t)
  PROVE  IdInv'
<1> USE DEF IdInv
<1>1. PICK k \in 1..Len(answers[p]) :
        /\ answers' = [answers EXCEPT ![p] = RemoveAt(answers[p], k)]
        /\ photos' = IF answers[p][k] # 0
                     THEN [photos EXCEPT ![answers[p][k]] = @ + 1]
                     ELSE photos
  BY DEF RecvId, Rest, Usable
<1>2. /\ UNCHANGED <<photo_id, served, requests, status, toTell, walker, gaveup>>
      /\ th' = [th EXCEPT ![p][t] = "idle"]
  BY DEF RecvId, Goto, shutdown
<1>3. /\ served \in Nat /\ answers \in [Peer -> Seq(Id)] /\ photos \in [Id -> Nat]
      /\ \A q \in Peer : /\ answers[q] \in Seq(Id) /\ Len(answers[q]) \in Nat
                         /\ \A i \in 1..Len(answers[q]) : answers[q][i] \in Id
  <2>1. served \in Nat /\ answers \in [Peer -> Seq(Id)] /\ photos \in [Id -> Nat]
    BY IdServiceAssumption DEF TypeOK, Id
  <2> QED
    BY <2>1, LenProperties, ElementOfSeq
<1> DEFINE rest == RemoveAt(answers[p], k)
           id == answers[p][k]
<1>4. /\ rest \in Seq(Id) /\ Len(rest) = Len(answers[p]) - 1
      /\ \A i \in 1..(Len(answers[p]) - 1) :
           rest[i] = IF i < k THEN answers[p][i] ELSE answers[p][i + 1]
  BY <1>3, RemoveAtProperties
<1>5. id \in Id
  BY <1>3
<1>6. answers' \in [Peer -> Seq(Id)] /\ answers'[p] = rest
      /\ \A q \in Peer : q # p => answers'[q] = answers[q]
  BY <1>1, <1>3, <1>4
<1>7. /\ photos' \in [Id -> Nat]
      /\ \A x \in Id : x # id => photos'[x] = photos[x]
      /\ photos'[id] \in {photos[id], photos[id] + 1}
      /\ photos'[0] = photos[0]
  BY <1>1, <1>3, <1>5, IdTypes
<1> HIDE DEF rest, id
<1>8. TypeOK'
  <2>1. th' \in [Peer -> [Thread -> {"idle", "wait", "gaveup"}]]
    BY <1>2 DEF TypeOK
  <2> QED
    BY <1>2, <1>6, <1>7, <2>1 DEF TypeOK, Id
<1>9. NoZeroId'
  BY <1>7 DEF NoZeroId
<1>10. IdsApart'
  <2>1. SUFFICES ASSUME served < IdModulus
                 PROVE  IdsApart'
    BY <1>2 DEF IdsApart
  <2>2. /\ photo_id = served
        /\ \A q \in Peer : \A i \in 1..Len(answers[q]) :
             answers[q][i] <= served /\ photos[answers[q][i]] = 0
        /\ \A q, r \in Peer : \A i \in 1..Len(answers[q]), j \in 1..Len(answers[r]) :
             answers[q][i] = answers[r][j] => q = r /\ i = j
        /\ \A x \in Id : photos[x] <= 1 /\ (photos[x] > 0 => x <= served)
    BY <2>1 DEF IdsApart
  <2> DEFINE was(q, i) == IF q = p /\ ~(i < k) THEN i + 1 ELSE i
  <2>3. ASSUME NEW q \in Peer, NEW i \in 1..Len(answers'[q])
        PROVE  /\ was(q, i) \in 1..Len(answers[q])
               /\ answers'[q][i] = answers[q][was(q, i)]
               /\ q = p => was(q, i) # k
    <3>1. CASE q = p
      <4>1. i \in 1..(Len(answers[p]) - 1) /\ Len(answers[p]) \in Nat
        BY <1>3, <1>4, <1>6, <3>1
      <4> QED
        BY <1>4, <1>6, <3>1, <4>1
    <3>2. CASE q # p
      BY <1>6, <3>2
    <3> QED
      BY <3>1, <3>2
  <2>4. ASSUME NEW q \in Peer, NEW i \in 1..Len(answers'[q])
        PROVE  answers'[q][i] \in Id /\ answers'[q][i] # id
    <3>1. /\ was(q, i) \in 1..Len(answers[q])
          /\ answers'[q][i] = answers[q][was(q, i)]
          /\ q = p => was(q, i) # k
      BY <2>3
    <3> HIDE DEF was
    <3>2. answers[q][was(q, i)] \in Id
      BY <1>3, <3>1
    <3>3. answers[q][was(q, i)] = answers[p][k] => q = p /\ was(q, i) = k
      BY <2>2, <3>1
    <3> QED
      BY <3>1, <3>2, <3>3 DEF id
  <2>5. ASSUME NEW q \in Peer, NEW i \in 1..Len(answers'[q])
        PROVE  answers'[q][i] <= served' /\ photos'[answers'[q][i]] = 0
    <3> HIDE DEF was
    <3>1. was(q, i) \in 1..Len(answers[q]) /\ answers'[q][i] = answers[q][was(q, i)]
      BY <2>3
    <3>2. answers'[q][i] <= served /\ photos[answers'[q][i]] = 0
      BY <2>2, <3>1
    <3>3. photos'[answers'[q][i]] = photos[answers'[q][i]]
      BY <1>7, <2>4
    <3> QED
      BY <1>2, <3>2, <3>3
  <2>6. ASSUME NEW q \in Peer, NEW r \in Peer,
               NEW i \in 1..Len(answers'[q]), NEW j \in 1..Len(answers'[r]),
               answers'[q][i] = answers'[r][j]
        PROVE  q = r /\ i = j
    <3>1. /\ was(q, i) \in 1..Len(answers[q]) /\ was(r, j) \in 1..Len(answers[r])
          /\ answers[q][was(q, i)] = answers[r][was(r, j)]
      BY <2>3, <2>6
    <3>2. q = r /\ was(q, i) = was(r, j)
      BY <2>2, <3>1
    <3> QED
      BY <3>2
  <2>7. \A x \in Id : photos'[x] <= 1 /\ (photos'[x] > 0 => x <= served')
    <3>1. photos[id] = 0 /\ id <= served
      BY <2>2 DEF id
    <3> QED
      BY <1>2, <1>3, <1>5, <1>7, <2>2, <3>1
  <2> QED
    BY <1>2, <2>2, <2>5, <2>6, <2>7 DEF IdsApart
<1> QED
  BY <1>8, <1>9, <1>10

(* A process that ends loses what its socket held.                           *)
LEMMA KillServerKeeps ==
  ASSUME IdInv, NEW p \in Peer, KillServer(p)
  PROVE  IdInv'
<1> USE DEF IdInv
<1>1. /\ answers \in [Peer -> Seq(Id)] /\ <<>> \in Seq(Id) /\ <<>> \in Seq(Peer)
      /\ answers' = [answers EXCEPT ![p] = <<>>]
      /\ UNCHANGED <<photo_id, served, requests, photos, gaveup>>
  BY DEF TypeOK, KillServer, Id
<1>2. /\ answers' \in [Peer -> Seq(Id)]
      /\ \A q \in Peer : \A i \in 1..Len(answers'[q]) :
           i \in 1..Len(answers[q]) /\ answers'[q][i] = answers[q][i]
  <2>1. \A q \in Peer : answers'[q] = answers[q] \/ answers'[q] = <<>>
    BY <1>1
  <2> QED
    BY <1>1, <2>1
<1>3. TypeOK'
  BY <1>1, <1>2 DEF TypeOK, KillServer, Id
<1>4. IdsApart'
  <2>1. SUFFICES ASSUME served < IdModulus
                 PROVE  IdsApart'
    BY <1>1 DEF IdsApart
  <2> QED
    BY <1>1, <1>2, <2>1 DEF IdsApart
<1> QED
  BY <1>1, <1>3, <1>4 DEF NoZeroId

(* The other steps do not touch ids.                                         *)
LEMMA OthersKeep ==
  ASSUME IdInv, TypeOK', UNCHANGED <<photo_id, served, answers, photos>>
  PROVE  IdInv'
BY DEF IdInv, NoZeroId, IdsApart

LEMMA IdStep == IdInv /\ [Next]_vars => IdInv'
<1> SUFFICES ASSUME IdInv, [Next]_vars PROVE IdInv'
  OBVIOUS
<1>1. ASSUME NEW p \in Peer, NEW t \in Thread, Ask(p, t)
      PROVE  IdInv'
  <2>1. requests[p] + 1 \in Nat
    BY DEF IdInv, TypeOK
  <2>2. TypeOK' /\ UNCHANGED <<photo_id, served, answers, photos>>
    BY <1>1, <2>1 DEF IdInv, TypeOK, Ask, Goto, shutdown
  <2> QED
    BY <2>2, OthersKeep
<1>2. ASSUME NEW p \in Peer, NEW t \in Thread, TimeOut(p, t)
      PROVE  IdInv'
  <2>1. TypeOK' /\ UNCHANGED <<photo_id, served, answers, photos>>
    BY <1>2 DEF IdInv, TypeOK, TimeOut, Goto, network
  <2> QED
    BY <2>1, OthersKeep
<1>3. ASSUME NEW p \in Peer, NEW t \in Thread, BcastLock(p, t)
      PROVE  IdInv'
  <2>1. TypeOK' /\ UNCHANGED <<photo_id, served, answers, photos>>
    BY <1>3 DEF IdInv, TypeOK, BcastLock, network
  <2> QED
    BY <2>1, OthersKeep
<1>4. ASSUME NEW p \in Peer, NEW t \in Thread, Tell(p, t)
      PROVE  IdInv'
  <2>1. Tail(toTell[p]) \in Seq(Peer)
    BY <1>4, HeadTailProperties DEF IdInv, TypeOK, Tell
  <2>2. TypeOK' /\ UNCHANGED <<photo_id, served, answers, photos>>
    BY <1>4, <2>1 DEF IdInv, TypeOK, Tell, network
  <2> QED
    BY <2>2, OthersKeep
<1>5. CASE UNCHANGED vars
  BY <1>5, OthersKeep DEF IdInv, TypeOK, vars, network, shutdown
<1> QED
  BY <1>1, <1>2, <1>3, <1>4, <1>5, ServeKeeps, RecvIdKeeps, KillServerKeeps
     DEF Next, ThreadStep

LEMMA IdHolds == Spec => []IdInv
BY IdInit, IdStep, PTL DEF Spec
-----------------------------------------------------------------------------
(* Every variable keeps its type (gateway.c: photo_id stays a uint32_t).     *)
THEOREM TypeCorrect == Spec => []TypeOK
BY IdHolds, PTL DEF IdInv

(* Until the counter wraps no id names two photos, for any number of peers   *)
(* and threads and any loss, delay and reordering of datagrams (peer.c:      *)
(* add_photo).                                                               *)
THEOREM UniqueCorrect == Spec => []UniqueIds
<1>1. IdInv => UniqueIds
  <2>1. ASSUME IdInv PROVE DOMAIN photos = Id
    BY <2>1 DEF IdInv, TypeOK, Id
  <2> QED
    BY <2>1 DEF IdInv, IdsApart, UniqueIds
<1> QED
  BY <1>1, IdHolds, PTL

(* No photo gets the id 0, however often the counter wraps (peer.c:          *)
(* add_photo, "if(id == 0)").                                                *)
THEOREM NonZeroCorrect == Spec => []NoZeroId
BY IdHolds, PTL DEF IdInv
=============================================================================
