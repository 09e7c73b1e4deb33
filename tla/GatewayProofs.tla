--------------------------- MODULE GatewayProofs ----------------------------
(***************************************************************************)
(* Proofs about the gateway, for any number of peers, any set of datagrams *)
(* and any outcome of the probes.  The inductive invariant GatewayInv ties *)
(* the lock to the program counters of the two threads (LockHolder), which *)
(* keeps the ring still while a walk is under way; with that, the cursor   *)
(* stays inside the ring although the walk itself removes nodes            *)
(* (CursorInRing), and what lies behind it has been probed (ListChecked).  *)
(***************************************************************************)
EXTENDS Gateway, RingProofs

(* The parts of a message are of their types.                               *)
LEMMA MessageParts ==
  ASSUME NEW d \in Datagram
  PROVE  d.from \in Peer /\ d.type \in {"join", "exit", "id", "loss"}
BY GatewayAssumption DEF Message

(* The counter stays a 32-bit value.                                        *)
LEMMA NextIdType ==
  ASSUME photo_id \in 0..(IdModulus - 1)
  PROVE  NextId(photo_id) \in 0..(IdModulus - 1)
BY GatewayAssumption DEF NextId

LEMMA TypeStep == TypeOK /\ CursorInRing /\ [Next]_vars => TypeOK'
<1>. SUFFICES ASSUME TypeOK, CursorInRing, [Next]_vars PROVE TypeOK'
  OBVIOUS
<1>. USE DEF TypeOK, history, peerVars, clientVars
<1>1. ASSUME NEW d \in Datagram, PeerRecv(d) PROVE TypeOK'
  BY <1>1, NextIdType DEF PeerRecv
<1>2. CASE AddPeer
  <2>1. buff.from \in Peer
    BY MessageParts
  <2>2. ring_append(peer_list, buff.from) \in Seq(Peer)
    BY <2>1, AppendProperties DEF ring_append
  <2>. QED
    BY <1>2, <2>2 DEF AddPeer
<1>3. CASE CheckBegin
  BY <1>3 DEF CheckBegin
<1>4. ASSUME NEW r \in Probes, CheckProbe(r) PROVE TypeOK'
  <2>1. ring_remove(peer_list, peer_list[aux]) \in Seq(Peer)
    BY RingRemoveType
  <2>2. peer_list[aux] \in Peer
    BY <1>4, ElementOfSeq DEF CheckProbe, CursorInRing
  <2>. QED
    BY <1>4, <2>1, <2>2 DEF CheckProbe, CheckDrop
<1>5. CASE SendPeerList
  BY <1>5 DEF SendPeerList
<1>6. CASE PrintPeers
  BY <1>6 DEF PrintPeers
<1>7. CASE RemovePeer
  <2>1. ring_remove(peer_list, Gone) \in Seq(Peer)
    BY RingRemoveType
  <2>. QED
    BY <1>7, <2>1 DEF RemovePeer
<1>8. CASE BcastBegin
  BY <1>8 DEF BcastBegin
<1>9. ASSUME NEW r \in Probes, BcastProbe(r) PROVE TypeOK'
  <2>1. peer_list[aux] \in Peer
    BY <1>9, ElementOfSeq DEF BcastProbe, CursorInRing
  <2>. QED
    BY <1>9, <2>1 DEF BcastProbe, BcastAdvance
<1>10. CASE BcastSkip
  BY <1>10 DEF BcastSkip
<1>11. CASE ClientRecv
  BY <1>11 DEF ClientRecv
<1>12. CASE ClientTest
  BY <1>12 DEF ClientTest
<1>13. CASE ClientRotate
  BY <1>13, RingNext DEF ClientRotate, ClientLock
<1>14. ASSUME NEW r \in Probes, ClientProbe(r) PROVE TypeOK'
  <2>1. Head(peer_list) \in Peer
    BY <1>14, HeadTailProperties DEF ClientProbe, CursorInRing
  <2>. QED
    BY <1>14, <2>1 DEF ClientProbe
<1>15. CASE ClientReply
  BY <1>15 DEF ClientReply
<1>16. CASE Interrupt
  BY <1>16 DEF Interrupt
<1>17. CASE UNCHANGED vars
  BY <1>17 DEF vars
<1>. QED
  BY <1>1, <1>2, <1>3, <1>4, <1>5, <1>6, <1>7, <1>8, <1>9, <1>10, <1>11,
     <1>12, <1>13, <1>14, <1>15, <1>16, <1>17
     DEF Next, PeerThread, ClientThread

(* The lock changes hands only where a thread enters or leaves one of its   *)
(* critical sections.                                                       *)
LEMMA LockStep == LockHolder /\ [Next]_vars => LockHolder'
<1>. SUFFICES ASSUME LockHolder, [Next]_vars PROVE LockHolder'
  OBVIOUS
<1>. USE DEF LockHolder, history, peerVars, clientVars
<1>1. ASSUME NEW d \in Datagram, PeerRecv(d) PROVE LockHolder'
  BY <1>1 DEF PeerRecv
<1>2. CASE AddPeer
  BY <1>2 DEF AddPeer
<1>3. CASE CheckBegin
  BY <1>3 DEF CheckBegin
<1>4. ASSUME NEW r \in Probes, CheckProbe(r) PROVE LockHolder'
  BY <1>4 DEF CheckProbe
<1>5. CASE SendPeerList
  BY <1>5 DEF SendPeerList
<1>6. CASE PrintPeers
  BY <1>6 DEF PrintPeers
<1>7. CASE RemovePeer
  BY <1>7 DEF RemovePeer
<1>8. CASE BcastBegin
  BY <1>8 DEF BcastBegin
<1>9. ASSUME NEW r \in Probes, BcastProbe(r) PROVE LockHolder'
  BY <1>9 DEF BcastProbe, BcastAdvance
<1>10. CASE BcastSkip
  BY <1>10 DEF BcastSkip
<1>11. CASE ClientRecv
  BY <1>11 DEF ClientRecv
<1>12. CASE ClientTest
  BY <1>12 DEF ClientTest
<1>13. CASE ClientRotate
  BY <1>13 DEF ClientRotate, ClientLock
<1>14. ASSUME NEW r \in Probes, ClientProbe(r) PROVE LockHolder'
  BY <1>14 DEF ClientProbe
<1>15. CASE ClientReply
  BY <1>15 DEF ClientReply
<1>16. CASE Interrupt
  BY <1>16 DEF Interrupt
<1>17. CASE UNCHANGED vars
  BY <1>17 DEF vars
<1>. QED
  BY <1>1, <1>2, <1>3, <1>4, <1>5, <1>6, <1>7, <1>8, <1>9, <1>10, <1>11,
     <1>12, <1>13, <1>14, <1>15, <1>16, <1>17
     DEF Next, PeerThread, ClientThread

(* A turn of the registration's walk.  When the node under the cursor is    *)
(* removed, the ring is one shorter, but the cursor was not on its last     *)
(* node; every node now behind the cursor was behind it before, or has the  *)
(* removed key and was therefore behind it too, at its first position.      *)
LEMMA CheckProbeStep ==
  ASSUME TypeOK, CursorInRing, ListChecked,
         NEW r \in Probes, CheckProbe(r)
  PROVE  CursorInRing' /\ ListChecked'
<1>1. /\ gw = "up" /\ peer_pc = "check"
      /\ aux \in 1..Len(peer_list) /\ aux # Len(peer_list)
      /\ Len(peer_list) \in Nat
      /\ peer_list \in Seq(Peer)
      /\ peer_pc' = "check" /\ client_pc' = client_pc
      /\ \A i \in 1..Len(peer_list) : i < aux => peer_list[i] \in reached
  BY LenProperties DEF CheckProbe, CursorInRing, ListChecked, TypeOK, AtLast,
                       clientVars
<1>2. aux \in Nat \ {0} /\ aux < Len(peer_list)
  BY <1>1
<1>3. CASE /\ aux' = aux + 1
           /\ reached' = reached \cup {peer_list[aux]}
           /\ UNCHANGED peer_list
  <2>1. aux + 1 \in 1..Len(peer_list) /\ peer_list # <<>>
    BY <1>1, <1>2
  <2>2. ASSUME NEW i \in 1..Len(peer_list), i < aux + 1
        PROVE  peer_list[i] \in reached'
    BY <1>1, <1>3, <2>2
  <2>. QED
    BY <1>1, <1>3, <2>1, <2>2 DEF CursorInRing, ListChecked
<1>4. CASE CheckDrop /\ UNCHANGED reached
  <2>1. PICK j \in 1..Len(peer_list) :
          /\ peer_list[j] = peer_list[aux]
          /\ \A i \in 1..Len(peer_list) : i < j => peer_list[i] # peer_list[aux]
          /\ Len(peer_list') = Len(peer_list) - 1
          /\ \A i \in 1..(Len(peer_list) - 1) : peer_list'[i] =
               IF i < j THEN peer_list[i] ELSE peer_list[i + 1]
    <3>1. peer_list' = ring_remove(peer_list, peer_list[aux])
      BY <1>4 DEF CheckDrop
    <3>. DEFINE k == peer_list[aux]
    <3>2. /\ peer_list' = ring_remove(peer_list, k)
          /\ peer_list \in Seq(Peer)
          /\ \E i \in 1..Len(peer_list) : peer_list[i] = k
      BY <1>1, <3>1
    <3>. HIDE DEF k
    <3>3. \E j \in 1..Len(peer_list) :
            /\ peer_list[j] = k
            /\ \A i \in 1..Len(peer_list) : i < j => peer_list[i] # k
            /\ Len(peer_list') = Len(peer_list) - 1
            /\ \A i \in 1..(Len(peer_list) - 1) : peer_list'[i] =
                 IF i < j THEN peer_list[i] ELSE peer_list[i + 1]
      BY <3>2, RingRemoveKey
    <3>. QED
      BY <3>3 DEF k
  <2>2. aux' = aux /\ reached' = reached
    BY <1>4 DEF CheckDrop
  <2>3. aux' \in 1..Len(peer_list') /\ peer_list' # <<>>
    BY <1>1, <1>2, <2>1, <2>2
  <2>4. ASSUME NEW i \in 1..(Len(peer_list) - 1), i < aux
        PROVE  peer_list'[i] \in reached
    <3>1. CASE i < j
      BY <1>1, <2>1, <2>4, <3>1
    <3>2. CASE ~(i < j) /\ i + 1 = aux
      BY <1>1, <2>1, <2>4, <3>2
    <3>3. CASE ~(i < j) /\ i + 1 # aux
      <4>1. i + 1 \in 1..Len(peer_list) /\ i + 1 < aux
        BY <1>1, <1>2, <2>4, <3>3
      <4>. QED
        BY <1>1, <2>1, <3>3, <4>1
    <3>. QED
      BY <3>1, <3>2, <3>3
  <2>. QED
    BY <1>1, <2>1, <2>2, <2>3, <2>4 DEF CursorInRing, ListChecked
<1>5. CASE gw' = "exited"
  BY <1>5 DEF CursorInRing, ListChecked
<1>. QED
  BY <1>3, <1>4, <1>5 DEF CheckProbe, history

(* A turn of the broadcast's walk: the cursor stops on the last node.       *)
LEMMA BcastProbeStep ==
  ASSUME TypeOK, CursorInRing, NEW r \in Probes, BcastProbe(r)
  PROVE  CursorInRing' /\ ListChecked'
<1>1. /\ gw = "up" /\ peer_pc = "bcast"
      /\ aux \in 1..Len(peer_list)
      /\ Len(peer_list) \in Nat
      /\ UNCHANGED <<peer_list, client_pc>>
      /\ client_pc = "probe" => peer_list # <<>>
  BY LenProperties DEF BcastProbe, CursorInRing, TypeOK, clientVars
<1>2. CASE BcastAdvance
  BY <1>1, <1>2 DEF BcastAdvance, CursorInRing, ListChecked, AtLast
<1>3. CASE gw' = "exited"
  BY <1>3 DEF CursorInRing, ListChecked
<1>. QED
  BY <1>2, <1>3 DEF BcastProbe

LEMMA WalkStep ==
  TypeOK /\ LockHolder /\ CursorInRing /\ ListChecked /\ [Next]_vars
    => CursorInRing' /\ ListChecked'
<1>. SUFFICES ASSUME TypeOK, LockHolder, CursorInRing, ListChecked, [Next]_vars
              PROVE  CursorInRing' /\ ListChecked'
  OBVIOUS
<1>. USE DEF CursorInRing, ListChecked, history, peerVars, clientVars
<1>1. ASSUME NEW d \in Datagram, PeerRecv(d)
      PROVE  CursorInRing' /\ ListChecked'
  BY <1>1 DEF PeerRecv
<1>2. CASE AddPeer
  <2>1. ring_append(peer_list, buff.from) # <<>>
    BY MessageParts, AppendProperties DEF ring_append, TypeOK
  <2>. QED
    BY <1>2, <2>1 DEF AddPeer
<1>3. CASE CheckBegin
  <2>1. peer_list # <<>> => 1 \in 1..Len(peer_list)
    BY EmptySeq DEF TypeOK
  <2>2. Len(peer_list) \in Nat
    BY LenProperties DEF TypeOK
  <2>. QED
    BY <1>3, <2>1, <2>2 DEF CheckBegin
<1>5. CASE SendPeerList
  BY <1>5 DEF SendPeerList
<1>6. CASE PrintPeers
  BY <1>6 DEF PrintPeers
<1>7. CASE RemovePeer
  BY <1>7 DEF RemovePeer, LockHolder
<1>8. CASE BcastBegin
  <2>1. peer_list # <<>> => 1 \in 1..Len(peer_list)
    BY EmptySeq DEF TypeOK
  <2>. QED
    BY <1>8, <2>1 DEF BcastBegin
<1>10. CASE BcastSkip
  BY <1>10 DEF BcastSkip
<1>11. CASE ClientRecv
  BY <1>11 DEF ClientRecv
<1>12. CASE ClientTest
  BY <1>12 DEF ClientTest
<1>13. CASE ClientRotate
  <2>1. peer_list # <<>> => ring_next(peer_list) # <<>>
    BY RingNext, EmptySeq DEF TypeOK
  <2>. QED
    BY <1>13, <2>1 DEF ClientRotate, ClientLock, LockHolder
<1>14. ASSUME NEW r \in Probes, ClientProbe(r)
       PROVE  CursorInRing' /\ ListChecked'
  BY <1>14 DEF ClientProbe
<1>15. CASE ClientReply
  BY <1>15 DEF ClientReply
<1>16. CASE Interrupt
  BY <1>16 DEF Interrupt
<1>17. CASE UNCHANGED vars
  BY <1>17 DEF vars
<1>. QED
  BY <1>1, <1>2, <1>3, <1>5, <1>6, <1>7, <1>8, <1>10, <1>11, <1>12, <1>13,
     <1>14, <1>15, <1>16, <1>17, CheckProbeStep, BcastProbeStep
     DEF Next, PeerThread, ClientThread
-----------------------------------------------------------------------------
(* The inductive invariant.                                                 *)
GatewayInv == TypeOK /\ LockHolder /\ CursorInRing /\ ListChecked

LEMMA InvInit == Init => GatewayInv
<1>. SUFFICES ASSUME Init PROVE GatewayInv
  OBVIOUS
<1>1. TypeOK
  <2>1. photo_id \in 0..(IdModulus - 1)
    BY GatewayAssumption DEF Init
  <2>. QED
    BY <2>1, EmptySeq DEF Init, TypeOK
<1>2. LockHolder /\ CursorInRing /\ ListChecked
  BY DEF Init, LockHolder, CursorInRing, ListChecked
<1>. QED
  BY <1>1, <1>2 DEF GatewayInv

LEMMA InvStep == GatewayInv /\ [Next]_vars => GatewayInv'
BY TypeStep, LockStep, WalkStep DEF GatewayInv

LEMMA InvHolds == Spec => []GatewayInv
BY InvInit, InvStep, PTL DEF Spec

(* Every variable of the gateway keeps its type in every behaviour.         *)
THEOREM TypeCorrect == Spec => []TypeOK
<1>1. GatewayInv => TypeOK
  BY DEF GatewayInv
<1>. QED
  BY <1>1, InvHolds, PTL

(* The lock is held by a thread exactly while that thread is inside one of  *)
(* its critical sections.                                                   *)
THEOREM LockCorrect == Spec => []LockHolder
<1>1. GatewayInv => LockHolder
  BY DEF GatewayInv
<1>. QED
  BY <1>1, InvHolds, PTL

(* No walk of the gateway leaves the ring or meets an empty one.            *)
THEOREM CursorCorrect == Spec => []CursorInRing
<1>1. GatewayInv => CursorInRing
  BY DEF GatewayInv
<1>. QED
  BY <1>1, InvHolds, PTL

(* All but the last entry of the list sent to a new peer accepted a         *)
(* connection during the walk that precedes.                                *)
THEOREM CheckedCorrect == Spec => []ListChecked
<1>1. GatewayInv => ListChecked
  BY DEF GatewayInv
<1>. QED
  BY <1>1, InvHolds, PTL
-----------------------------------------------------------------------------
(* A step that keeps the ring as it is loses nobody.                        *)
LEMMA NothingLost == UNCHANGED peer_list => Lost = {}
BY DEF Lost

LEMMA LossStep ==
  GatewayInv /\ [Next]_vars =>
    Lost \subseteq CASE peer_pc = "check"  -> unreached'
                     [] peer_pc = "remove" -> {Gone}
                     [] OTHER              -> {}
<1>. DEFINE Allowed == CASE peer_pc = "check"  -> unreached'
                         [] peer_pc = "remove" -> {Gone}
                         [] OTHER              -> {}
<1>. SUFFICES ASSUME GatewayInv, [Next]_vars PROVE Lost \subseteq Allowed
  OBVIOUS
<1>1. CASE UNCHANGED peer_list
  BY <1>1, NothingLost
<1>2. CASE AddPeer
  <2>1. /\ Len(peer_list) \in Nat
        /\ DOMAIN peer_list = 1..Len(peer_list)
        /\ peer_list' = Append(peer_list, buff.from)
        /\ peer_list' \in Seq(Peer)
        /\ Len(peer_list') = Len(peer_list) + 1
        /\ \A i \in 1..Len(peer_list) : peer_list'[i] = peer_list[i]
    BY <1>2, MessageParts, AppendProperties, LenProperties
       DEF AddPeer, ring_append, GatewayInv, TypeOK
  <2>2. DOMAIN peer_list' = 1..(Len(peer_list) + 1)
    BY <2>1, LenProperties
  <2>3. \A i \in 1..Len(peer_list) : i \in 1..(Len(peer_list) + 1)
    BY <2>1
  <2>4. \A i \in DOMAIN peer_list :
          i \in DOMAIN peer_list' /\ peer_list'[i] = peer_list[i]
    BY <2>1, <2>2, <2>3
  <2>. QED
    BY <2>4 DEF Lost, ToSet
<1>3. CASE RemovePeer
  <2>1. peer_pc = "remove" /\ peer_list' = ring_remove(peer_list, Gone)
    BY <1>3 DEF RemovePeer
  <2>2. Lost \subseteq {Gone}
    BY <2>1, RingRemoveLoses DEF Lost, GatewayInv, TypeOK
  <2>. QED
    BY <2>1, <2>2
<1>4. ASSUME NEW r \in Probes, CheckProbe(r), ~ UNCHANGED peer_list
      PROVE  Lost \subseteq Allowed
  <2>1. /\ peer_pc = "check"
        /\ peer_list' = ring_remove(peer_list, peer_list[aux])
        /\ unreached' = unreached \cup {peer_list[aux]}
    BY <1>4 DEF CheckProbe, CheckDrop
  <2>2. Lost \subseteq {peer_list[aux]}
    BY <2>1, RingRemoveLoses DEF Lost, GatewayInv, TypeOK
  <2>. QED
    BY <2>1, <2>2
<1>5. ASSUME ClientRotate, ~ UNCHANGED peer_list PROVE Lost \subseteq Allowed
  <2>1. peer_list # <<>> /\ peer_list' = ring_next(peer_list)
    BY <1>5 DEF ClientRotate
  <2>2. Lost = {}
    BY <2>1, RingNext DEF Lost, GatewayInv, TypeOK
  <2>. QED
    BY <2>2
<1>. HIDE DEF Allowed
<1>. QED
  BY <1>1, <1>2, <1>3, <1>4, <1>5
     DEF Next, PeerThread, ClientThread, PeerRecv, CheckBegin, SendPeerList,
         PrintPeers, BcastBegin, BcastProbe, BcastSkip, ClientRecv, ClientTest,
         ClientProbe, ClientReply, Interrupt, vars, peerVars

(* A peer leaves the list only if it refused a connection in the walk under *)
(* way or if the datagram being served names it, whatever the two threads   *)
(* interleave.                                                              *)
THEOREM LossCorrect == Spec => RemovedOnlyIfGone
<1>1. GatewayInv /\ [Next]_vars =>
        [Lost \subseteq CASE peer_pc = "check"  -> unreached'
                          [] peer_pc = "remove" -> {Gone}
                          [] OTHER              -> {}]_vars
  BY LossStep
<1>. QED
  BY <1>1, InvHolds, PTL DEF Spec, RemovedOnlyIfGone
-----------------------------------------------------------------------------
(* The walk of the broadcast of an exit: no peer is then excluded.           *)

(* Behind the cursor of such a broadcast, every peer has been probed in it.  *)
BcastWalked ==
  (gw = "up" /\ peer_pc = "bcast" /\ buff.type = "exit") =>
    \A i \in 1..Len(peer_list) :
      i < aux => peer_list[i] \in reached \cup unreached

LEMMA NobodyExcluded ==
  ASSUME TypeOK, CursorInRing, gw = "up", peer_pc = "bcast", buff.type = "exit"
  PROVE  peer_list[aux] # Excluded
<1>1. Excluded = NoPeer
  BY DEF Excluded
<1>2. peer_list[aux] \in Peer
  BY ElementOfSeq DEF TypeOK, CursorInRing
<1>. QED
  BY <1>1, <1>2, GatewayAssumption

LEMMA BcastProbeWalked ==
  ASSUME TypeOK, CursorInRing, BcastWalked, buff.type = "exit",
         NEW r \in Probes, BcastProbe(r)
  PROVE  /\ BcastWalked'
         /\ peer_pc' # "bcast" => ToSet(peer_list) \subseteq reached' \cup unreached'
<1>1. /\ gw = "up" /\ peer_pc = "bcast"
      /\ aux \in 1..Len(peer_list)
      /\ UNCHANGED <<peer_list, buff>>
      /\ \A i \in 1..Len(peer_list) :
           i < aux => peer_list[i] \in reached \cup unreached
  BY DEF BcastProbe, CursorInRing, BcastWalked
<1>2. Len(peer_list) \in Nat /\ DOMAIN peer_list = 1..Len(peer_list)
  BY LenProperties DEF TypeOK
<1>3. CASE gw' = "exited" /\ UNCHANGED peer_pc
  BY <1>1, <1>3 DEF BcastWalked
<1>4. CASE /\ BcastAdvance
           /\ reached' \cup unreached' = reached \cup unreached \cup {peer_list[aux]}
  <2>1. \A i \in 1..Len(peer_list) :
          i < aux + 1 => peer_list[i] \in reached' \cup unreached'
    <3>1. SUFFICES ASSUME NEW i \in 1..Len(peer_list), i < aux + 1
                   PROVE  peer_list[i] \in reached' \cup unreached'
      OBVIOUS
    <3>2. i < aux \/ i = aux
      BY <1>1, <3>1
    <3>. QED
      BY <1>1, <1>4, <3>2
  <2>2. CASE AtLast
    <3>1. \A i \in 1..Len(peer_list) : i < aux + 1
      BY <1>2, <2>2 DEF AtLast
    <3>. QED
      BY <1>2, <1>4, <2>1, <2>2, <3>1 DEF BcastAdvance, BcastWalked, ToSet
  <2>3. CASE ~AtLast
    BY <1>1, <1>4, <2>1, <2>3 DEF BcastAdvance, BcastWalked
  <2>. QED
    BY <2>2, <2>3
<1>. QED
  BY <1>3, <1>4 DEF BcastProbe

LEMMA BcastStep ==
  ASSUME GatewayInv, BcastWalked, [Next]_vars
  PROVE  /\ BcastWalked'
         /\ (peer_pc = "bcast" /\ peer_pc' # "bcast" /\ buff.type = "exit") =>
              ToSet(peer_list) \subseteq reached' \cup unreached'
<1>. DEFINE Complete ==
       (peer_pc = "bcast" /\ peer_pc' # "bcast" /\ buff.type = "exit") =>
         ToSet(peer_list) \subseteq reached' \cup unreached'
<1>. SUFFICES BcastWalked' /\ Complete
  OBVIOUS
<1>. USE DEF BcastWalked, history, peerVars, clientVars
<1>1. ASSUME NEW r \in Probes, BcastProbe(r)
      PROVE  BcastWalked' /\ Complete
  <2>1. CASE buff.type = "exit"
    BY <1>1, <2>1, BcastProbeWalked DEF GatewayInv
  <2>2. CASE buff.type # "exit"
    BY <1>1, <2>2 DEF BcastProbe
  <2>. QED
    BY <2>1, <2>2
<1>2. CASE peer_pc # "bcast" /\ peer_pc' # "bcast"
  BY <1>2
<1>3. CASE BcastBegin
  <2>1. \A i \in 1..Len(peer_list) : ~(i < 1)
    BY LenProperties DEF GatewayInv, TypeOK
  <2>. QED
    BY <1>3, <2>1 DEF BcastBegin
<1>4. CASE BcastSkip
  <2>1. buff.type # "exit" /\ UNCHANGED buff
    BY <1>4, NobodyExcluded DEF BcastSkip, GatewayInv
  <2>. QED
    BY <2>1
<1>5. CASE ClientRotate
  BY <1>5 DEF ClientRotate, ClientLock, GatewayInv, LockHolder
<1>6. CASE /\ UNCHANGED <<peer_list, peer_pc, aux, buff, reached, unreached>>
           /\ gw' = "up" => gw = "up"
  BY <1>6
<1>7. ASSUME NEW r \in Probes, ClientProbe(r)
      PROVE  /\ UNCHANGED <<peer_list, peer_pc, aux, buff, reached, unreached>>
             /\ gw' = "up" => gw = "up"
  BY <1>7 DEF ClientProbe
<1>8. ClientRecv \/ ClientTest \/ ClientReply \/ Interrupt \/ UNCHANGED vars =>
        /\ UNCHANGED <<peer_list, peer_pc, aux, buff, reached, unreached>>
        /\ gw' = "up" => gw = "up"
  BY DEF ClientRecv, ClientTest, ClientReply, Interrupt, vars
<1>9. ASSUME NEW d \in Datagram, PeerRecv(d)
      PROVE  peer_pc # "bcast" /\ peer_pc' # "bcast"
  BY <1>9 DEF PeerRecv
<1>10. ASSUME NEW r \in Probes, CheckProbe(r)
       PROVE  peer_pc # "bcast" /\ peer_pc' # "bcast"
  BY <1>10 DEF CheckProbe
<1>11. AddPeer \/ CheckBegin \/ SendPeerList \/ PrintPeers \/ RemovePeer =>
         peer_pc # "bcast" /\ peer_pc' # "bcast"
  BY DEF AddPeer, CheckBegin, SendPeerList, PrintPeers, RemovePeer
<1>. QED
  BY <1>1, <1>2, <1>3, <1>4, <1>5, <1>6, <1>7, <1>8, <1>9, <1>10, <1>11
     DEF Next, PeerThread, ClientThread

(* Every broadcast of an exit probes every peer that is listed when it is    *)
(* over, for rings of any length, although loss reports, registrations and   *)
(* clients come in between.                                                  *)
THEOREM BroadcastCorrect == Spec => BroadcastComplete
<1>1. Init => BcastWalked
  BY DEF Init, BcastWalked
<1>2. GatewayInv /\ BcastWalked /\ [Next]_vars => BcastWalked'
  BY BcastStep
<1>3. GatewayInv /\ BcastWalked /\ [Next]_vars =>
        [(peer_pc = "bcast" /\ peer_pc' # "bcast" /\ buff.type = "exit") =>
           ToSet(peer_list) \subseteq reached' \cup unreached']_vars
  BY BcastStep
<1>. QED
  BY <1>1, <1>2, <1>3, InvHolds, PTL DEF Spec, BroadcastComplete
=============================================================================
