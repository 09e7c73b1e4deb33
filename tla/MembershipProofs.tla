-------------------------- MODULE MembershipProofs --------------------------
(***************************************************************************)
(* Who knows of whom in Membership, for any peers and any number of them   *)
(* that leave.  ListInv ties what is said of a peer to its state: nobody   *)
(* speaks of one that has not started (OutFresh), only of one that has     *)
(* ended, or was probed too early, is it said that it has gone (Reports),  *)
(* and the gateway has every other in its list from its answer on          *)
(* (InList).  KnowInv adds what two peers know of each other: the later of *)
(* two that enter has the earlier in its list (Pairs), its own node at the *)
(* root (Own), and has told those it left behind (Notified).  RootInv adds *)
(* what keeps a peer's own node at its root: a peer registers once, and is *)
(* spoken of only then (FirstTime), none is twice in the gateway's list    *)
(* (Once) or told of itself (Addressed), and those that a new peer has yet *)
(* to tell do not know of it (Strangers).                                  *)
(***************************************************************************)
EXTENDS Membership, RingProofs

GwStages == {"recv", "added", "check", "removed", "tell", "stuck"}
Stages == {"out", "asking", "entering", "waiting", "up", "down"}
Datagrams == [type : {"join", "exit", "loss"}, from : Peer, who : Peer]
Messages == [type : {"ask", "register", "delete"}, from : Peer \cup {NoPeer},
             to : Peer, who : Peer]

(* The types, with the cursor of the gateway's thread inside its list ...    *)
GwTypes ==
  /\ gw_list \in Seq(Peer)
  /\ gw \in [pc : GwStages, who : Peer \cup {NoPeer}, exc : Peer \cup {NoPeer}, pos : Nat]
  /\ gw.pos <= Len(gw_list) + 1
  /\ gw.pc \in {"added", "check", "removed", "tell"} => gw.who \in Peer
  /\ gw.pc = "added" => gw.pos = 1 /\ gw_list # <<>>
  /\ gw.pc = "removed" => gw.pos = 1
  /\ gw.pc \in {"check", "tell"} => gw.pos \in 1..Len(gw_list)

(* ... that of a peer inside its ring or just behind it, and beyond its own  *)
(* node if it enters; only peers that ask have an answer ...                 *)
PeerTypes(p) ==
  /\ cursor[p] <= Len(ring[p]) + 1
  /\ status[p] \in {"entering", "waiting"} => cursor[p] >= 2
  /\ answer[p] # <<>> => status[p] = "asking"

(* ... and the rest.                                                         *)
CommonTypes ==
  /\ inbox \subseteq Datagrams /\ msgs \subseteq Messages
  /\ status \in [Peer -> Stages]
  /\ answer \in [Peer -> Seq(Peer)] /\ ring \in [Peer -> Seq(Peer)]
  /\ cursor \in [Peer -> Nat]
  /\ ends \in 0..MaxEnds /\ hasty \subseteq Peer

TypeInv == GwTypes /\ CommonTypes /\ \A p \in Peer : PeerTypes(p)
-----------------------------------------------------------------------------
(* The own node moves to the root.                                           *)
LEMMA OwnRootProperties ==
  ASSUME NEW l \in Seq(Peer), l # <<>>
  PROVE  /\ OwnRoot(l) \in Seq(Peer) /\ OwnRoot(l) # <<>>
         /\ Len(OwnRoot(l)) = Len(l)
         /\ ToSet(OwnRoot(l)) = ToSet(l)
         /\ Head(OwnRoot(l)) = Last(l)
         /\ OwnRoot(l)[1] = l[Len(l)]
         /\ \A i \in 2..Len(l) : OwnRoot(l)[i] = l[i - 1]
<1>1. Len(l) \in Nat \ {0} /\ DOMAIN l = 1..Len(l)
  BY EmptySeq, LenProperties
<1>2. Last(l) \in Peer /\ Last(l) = l[Len(l)]
  BY <1>1, ElementOfSeq DEF Last
<1>3. /\ Front(l) \in Seq(Peer) /\ Len(Front(l)) = Len(l) - 1
      /\ \A i \in 1..(Len(l) - 1) : Front(l)[i] = l[i]
  <2>1. \A i \in 1..(Len(l) - 1) : l[i] \in Peer
    BY <1>1, ElementOfSeq
  <2>2. 1 \in Int /\ Len(l) - 1 \in Int
    BY <1>1
  <2> QED
    BY <1>1, <2>1, <2>2, SubSeqProperties DEF Front
<1>4. <<Last(l)>> \in Seq(Peer) /\ Len(<<Last(l)>>) = 1 /\ <<Last(l)>>[1] = Last(l)
  BY <1>2
<1>5. /\ OwnRoot(l) \in Seq(Peer) /\ Len(OwnRoot(l)) = Len(l)
      /\ OwnRoot(l)[1] = l[Len(l)]
      /\ \A i \in 2..Len(l) : OwnRoot(l)[i] = l[i - 1]
  <2>1. /\ OwnRoot(l) \in Seq(Peer) /\ Len(OwnRoot(l)) = 1 + (Len(l) - 1)
        /\ \A i \in 1..(1 + (Len(l) - 1)) :
             OwnRoot(l)[i] = IF i <= 1 THEN <<Last(l)>>[i] ELSE Front(l)[i - 1]
    BY <1>3, <1>4, ConcatProperties DEF OwnRoot
  <2>2. OwnRoot(l)[1] = l[Len(l)]
    BY <1>1, <1>2, <1>4, <2>1
  <2>3. ASSUME NEW i \in 2..Len(l) PROVE OwnRoot(l)[i] = l[i - 1]
    <3>1. i \in 1..(1 + (Len(l) - 1)) /\ ~(i <= 1) /\ i - 1 \in 1..(Len(l) - 1)
      BY <1>1
    <3> QED
      BY <1>3, <2>1, <3>1
  <2> QED
    BY <1>1, <2>1, <2>2, <2>3
<1>6. OwnRoot(l) # <<>> /\ DOMAIN OwnRoot(l) = 1..Len(l)
  BY <1>1, <1>5, EmptySeq, LenProperties
<1>7. Head(OwnRoot(l)) = Last(l)
  BY <1>2, <1>5, <1>6, HeadTailProperties
<1>8. \A i \in 1..Len(l) : \E j \in 1..Len(l) : OwnRoot(l)[i] = l[j]
  <2>1. \A i \in 1..Len(l) : i = 1 \/ (i \in 2..Len(l) /\ i - 1 \in 1..Len(l))
    BY <1>1
  <2> QED
    BY <1>1, <1>5, <2>1
<1>9. \A j \in 1..Len(l) : \E i \in 1..Len(l) : l[j] = OwnRoot(l)[i]
  <2>1. ASSUME NEW j \in 1..Len(l), j # Len(l)
        PROVE  j + 1 \in 2..Len(l) /\ j + 1 \in 1..Len(l) /\ (j + 1) - 1 = j
    <3>1. Len(l) \in Nat /\ j \in Nat /\ 1 <= j /\ j <= Len(l)
      BY <1>1
    <3> QED
      BY <2>1, <3>1
  <2>2. ASSUME NEW j \in 1..Len(l) PROVE \E i \in 1..Len(l) : l[j] = OwnRoot(l)[i]
    <3>1. CASE j = Len(l)
      BY <1>1, <1>5, <3>1
    <3>2. CASE j # Len(l)
      BY <1>5, <2>1, <3>2
    <3> QED
      BY <3>1, <3>2
  <2> QED
    BY <2>2
<1>10. ToSet(OwnRoot(l)) = ToSet(l)
  <2> DEFINE o == OwnRoot(l)
  <2>1. /\ DOMAIN o = DOMAIN l
        /\ \A i \in DOMAIN l : \E j \in DOMAIN l : o[i] = l[j]
        /\ \A j \in DOMAIN l : \E i \in DOMAIN l : l[j] = o[i]
    BY <1>1, <1>6, <1>8, <1>9
  <2> HIDE DEF o
  <2>2. ToSet(o) \subseteq ToSet(l) /\ ToSet(l) \subseteq ToSet(o)
    BY <2>1 DEF ToSet
  <2> QED
    BY <2>2 DEF o
<1> QED
  BY <1>5, <1>6, <1>7, <1>10

(* An element of a list of peers.                                            *)
LEMMA InRing ==
  ASSUME NEW S, NEW r \in Seq(S)
  PROVE  /\ Len(r) \in Nat /\ (r # <<>> <=> Len(r) >= 1)
         /\ \A i \in 1..Len(r) : r[i] \in S /\ r[i] \in ToSet(r)
         /\ \A x \in ToSet(r) : \E i \in 1..Len(r) : r[i] = x
         /\ r # <<>> => Head(r) = r[1] /\ Last(r) = r[Len(r)]
<1>1. Len(r) \in Nat /\ DOMAIN r = 1..Len(r) /\ Len(<<>>) = 0
  BY LenProperties, EmptySeq
<1>2. r # <<>> => Len(r) >= 1 /\ Head(r) = r[1] /\ Last(r) = r[Len(r)]
  BY EmptySeq, HeadTailProperties DEF Last
<1>3. /\ \A i \in 1..Len(r) : r[i] \in S /\ r[i] \in ToSet(r)
      /\ \A x \in ToSet(r) : \E i \in 1..Len(r) : r[i] = x
  BY <1>1, ElementOfSeq DEF ToSet
<1> QED
  BY <1>1, <1>2, <1>3

(* The ring without the key that stands at the cursor is shorter by one.     *)
LEMMA DropOne ==
  ASSUME NEW S, NEW r \in Seq(S), NEW c \in 1..Len(r)
  PROVE  Len(ring_remove(r, r[c])) = Len(r) - 1
BY RingRemoveKey
-----------------------------------------------------------------------------
LEMMA TypeInit == Init => TypeInv
<1> SUFFICES ASSUME Init PROVE TypeInv
  OBVIOUS
<1>1. /\ <<Founder>> \in Seq(Peer) /\ Len(<<Founder>>) = 1 /\ <<>> \in Seq(Peer)
      /\ Len(<<>>) = 0
  BY MembershipAssumption, EmptySeq
<1>2. GwTypes
  BY <1>1 DEF Init, Idle, GwTypes, GwStages
<1>3. CommonTypes
  BY <1>1, MembershipAssumption DEF Init, CommonTypes, Stages
<1>4. \A p \in Peer : PeerTypes(p)
  BY <1>1 DEF Init, PeerTypes
<1> QED
  BY <1>2, <1>3, <1>4 DEF TypeInv

(* The gateway's thread and its list.                                        *)
LEMMA GwTypesStep ==
  ASSUME TypeInv, Next
  PROVE  GwTypes'
<1> USE DEF GwStages
<1>1. /\ gw_list \in Seq(Peer) /\ Len(gw_list) \in Nat
      /\ \A k : ring_remove(gw_list, k) \in Seq(Peer)
  BY InRing, RingRemoveType DEF TypeInv, GwTypes
<1>2. Idle \in [pc : GwStages, who : Peer \cup {NoPeer}, exc : Peer \cup {NoPeer}, pos : Nat]
  BY DEF Idle
<1>3. gw \in [pc : GwStages, who : Peer \cup {NoPeer}, exc : Peer \cup {NoPeer}, pos : Nat]
  BY DEF TypeInv, GwTypes
<1>4. ASSUME NEW m \in inbox, GwRecv(m) PROVE GwTypes'
  <2>1. m \in Datagrams /\ m.who \in Peer /\ m.from \in Peer
    BY DEF TypeInv, CommonTypes, Datagrams
  <2>2. CASE m.type = "join"
    <3>1. gw_list' = ring_append(gw_list, m.who)
      BY <1>4, <2>2 DEF GwRecv
    <3>2. gw_list' \in Seq(Peer) /\ gw_list' # <<>> /\ Len(gw_list') = Len(gw_list) + 1
      BY <1>1, <2>1, <3>1, RingAppend
    <3>3. gw' = [pc |-> "added", who |-> m.who, pos |-> 1, exc |-> NoPeer]
      BY <1>4, <2>2 DEF GwRecv
    <3> QED
      BY <1>1, <2>1, <3>2, <3>3 DEF GwTypes
  <2>3. CASE m.type # "join"
    <3>1. gw_list' \in Seq(Peer) /\ Len(gw_list') \in Nat
      BY <1>1, <1>4, <2>3, InRing DEF GwRecv
    <3>2. gw' = [pc |-> "removed", who |-> m.who, pos |-> 1,
                 exc |-> IF m.type = "loss" THEN m.from ELSE NoPeer]
      BY <1>4, <2>3 DEF GwRecv, Leaver
    <3> QED
      BY <2>1, <3>1, <3>2 DEF GwTypes
  <2> QED
    BY <2>2, <2>3
<1>5. ASSUME CheckTurn PROVE GwTypes'
  <2>1. gw.pos \in 1..Len(gw_list) /\ gw.pos < Len(gw_list) /\ gw.who \in Peer
    BY <1>1, <1>5 DEF CheckTurn, TypeInv, GwTypes
  <2>2. CASE gw' = [gw EXCEPT !.pc = "check", !.pos = @ + 1] /\ UNCHANGED gw_list
    <3>1. gw'.pc = "check" /\ gw'.pos = gw.pos + 1 /\ gw'.who = gw.who
      BY <1>3, <2>2
    <3>2. gw.pos + 1 \in Nat /\ gw.pos + 1 \in 1..Len(gw_list)
      BY <1>1, <2>1, <2>2
    <3>3. gw' \in [pc : GwStages, who : Peer \cup {NoPeer}, exc : Peer \cup {NoPeer}, pos : Nat]
      BY <1>3, <2>2, <3>2
    <3> QED
      BY <1>1, <2>1, <2>2, <3>1, <3>2, <3>3 DEF GwTypes
  <2>3. CASE /\ gw' = [gw EXCEPT !.pc = "check"]
             /\ gw_list' = ring_remove(gw_list, gw_list[gw.pos])
    <3>1. gw'.pc = "check" /\ gw'.pos = gw.pos /\ gw'.who = gw.who
      BY <1>3, <2>3
    <3>2. Len(gw_list') = Len(gw_list) - 1 /\ gw_list' \in Seq(Peer)
      BY <1>1, <2>1, <2>3, DropOne
    <3> QED
      BY <1>1, <1>3, <2>1, <2>3, <3>1, <3>2 DEF GwTypes
  <2> QED
    BY <1>5, <2>2, <2>3 DEF CheckTurn
<1>6. ASSUME SendPeerList \/ TellNobody PROVE GwTypes'
  BY <1>1, <1>2, <1>6 DEF SendPeerList, TellNobody, GwTypes, Idle
<1>7. ASSUME TellTurn PROVE GwTypes'
  <2>1. UNCHANGED gw_list
    BY <1>7 DEF TellTurn
  <2>2. gw.pos \in 1..Len(gw_list) /\ gw.who \in Peer
    BY <1>1, <1>7, InRing DEF TellTurn, TypeInv, GwTypes
  <2>3. CASE gw' = Idle
    BY <1>1, <1>2, <2>1, <2>3 DEF GwTypes, Idle
  <2>4. CASE gw' = [gw EXCEPT !.pc = "stuck"]
    BY <1>1, <1>3, <2>1, <2>2, <2>4 DEF GwTypes
  <2>5. CASE gw' = [gw EXCEPT !.pc = "tell", !.pos = @ + 1] /\ gw.pos # Len(gw_list)
    <3>1. gw'.pc = "tell" /\ gw'.pos = gw.pos + 1 /\ gw'.who = gw.who
      BY <1>3, <2>5
    <3>2. gw.pos + 1 \in Nat /\ gw.pos + 1 \in 1..Len(gw_list)
      BY <1>1, <2>1, <2>2, <2>5
    <3>3. gw' \in [pc : GwStages, who : Peer \cup {NoPeer}, exc : Peer \cup {NoPeer}, pos : Nat]
      BY <1>3, <2>5, <3>2
    <3> QED
      BY <1>1, <2>1, <2>2, <3>1, <3>2, <3>3 DEF GwTypes
  <2> QED
    BY <1>7, <2>3, <2>4, <2>5 DEF TellTurn
<1>8. ASSUME ServeClient PROVE GwTypes'
  <2>1. gw_list' \in Seq(Peer) /\ Len(gw_list') = Len(gw_list) /\ gw_list' # <<>>
    <3>1. gw_list # <<>> /\ gw_list' = ring_next(gw_list)
      BY <1>8 DEF ServeClient
    <3>2. gw_list' \in Seq(Peer) /\ Len(gw_list') = Len(gw_list)
      BY <1>1, <3>1, RingNext
    <3> QED
      BY <1>1, <3>1, <3>2, InRing
  <2>2. CASE UNCHANGED gw
    BY <1>1, <1>3, <2>1, <2>2 DEF TypeInv, GwTypes
  <2>3. CASE gw' = [gw EXCEPT !.pc = "stuck"]
    BY <1>1, <1>3, <2>1, <2>3 DEF TypeInv, GwTypes
  <2> QED
    BY <1>8, <2>2, <2>3 DEF ServeClient
<1>9. ASSUME UNCHANGED gateway PROVE GwTypes'
  BY <1>9 DEF TypeInv, GwTypes, gateway
<1>10. ASSUME NEW p \in Peer, Enter(p) \/ Serve(p) \/ Exit(p) PROVE UNCHANGED gateway
  BY <1>10 DEF Enter, Start, GiveUp, RecvList, Tell, TellFails, NoPhotos, Listen, Serve,
     WalkBegin, WalkTurn, WalkEnd, Exit
<1>11. ASSUME NEW m \in msgs, Handle(m) \/ HandleFails(m) PROVE UNCHANGED gateway
  BY <1>11 DEF Handle, HandleFails
<1> QED
  BY <1>4, <1>5, <1>6, <1>7, <1>8, <1>9, <1>10, <1>11 DEF Next, GwStep

(* The end of a peer.                                                        *)
LEMMA EndEffect ==
  ASSUME CommonTypes, NEW p \in Peer, End(p)
  PROVE  /\ status' \in [Peer -> Stages] /\ answer' \in [Peer -> Seq(Peer)]
         /\ ring' \in [Peer -> Seq(Peer)] /\ cursor' \in [Peer -> Nat]
         /\ msgs' \subseteq msgs /\ \A m \in msgs : m.to # p => m \in msgs'
         /\ status'[p] = "down" /\ answer'[p] = <<>> /\ ring'[p] = <<>> /\ cursor'[p] = 0
         /\ \A q \in Peer : q # p => /\ status'[q] = status[q] /\ answer'[q] = answer[q]
                                     /\ ring'[q] = ring[q] /\ cursor'[q] = cursor[q]
<1>1. <<>> \in Seq(Peer)
  BY EmptySeq
<1> QED
  BY <1>1 DEF CommonTypes, End, Stages

(* A refused probe only adds to hasty.                                       *)
LEMMA RefusedEffect ==
  ASSUME CommonTypes, NEW q \in Peer, Refused(q)
  PROVE  /\ hasty' \subseteq Peer /\ hasty \subseteq hasty' /\ hasty' \subseteq hasty \cup {q}
         /\ q \in hasty' \/ status[q] \in {"out", "down"}
BY DEF CommonTypes, Refused, Up, Stages

(* The node at a cursor that has not come round.                             *)
LEMMA AtCursor ==
  ASSUME TypeInv, NEW p \in Peer, ~Over(p), cursor[p] > 0
  PROVE  /\ cursor[p] \in 1..Len(ring[p]) /\ ring[p][cursor[p]] \in Peer
         /\ ring[p][cursor[p]] \in ToSet(ring[p]) /\ ring[p] # <<>>
         /\ Head(ring[p]) \in Peer /\ Head(ring[p]) \in ToSet(ring[p])
<1>1. ring[p] \in Seq(Peer) /\ cursor[p] \in Nat
  BY DEF TypeInv, CommonTypes
<1>2. Len(ring[p]) \in Nat
  BY <1>1, InRing
<1>3. cursor[p] \in 1..Len(ring[p]) /\ 1 \in 1..Len(ring[p])
  BY <1>1, <1>2 DEF Over
<1> QED
  BY <1>1, <1>3, InRing

LEMMA CommonTypesStep ==
  ASSUME TypeInv, Next
  PROVE  CommonTypes'
<1> USE DEF Stages
<1>1. CommonTypes /\ GwTypes /\ NoPeer \notin Peer
  BY MembershipAssumption DEF TypeInv
<1>2. ASSUME NEW m \in inbox, GwRecv(m) PROVE CommonTypes'
  BY <1>1, <1>2 DEF GwRecv, CommonTypes
<1>3. ASSUME CheckTurn PROVE CommonTypes'
  <2>1. gw_list[gw.pos] \in Peer
    <3>1. gw.pos \in 1..Len(gw_list) /\ gw_list \in Seq(Peer)
      BY <1>1, <1>3, InRing DEF CheckTurn, GwTypes
    <3> QED
      BY <3>1, InRing
  <2>2. hasty' \subseteq Peer
    BY <1>1, <1>3, <2>1, RefusedEffect DEF CheckTurn, CommonTypes
  <2> QED
    BY <1>1, <1>3, <2>2 DEF CheckTurn, CommonTypes
<1>4. ASSUME SendPeerList PROVE CommonTypes'
  <2>1. answer' \in [Peer -> Seq(Peer)]
    BY <1>1, <1>4 DEF SendPeerList, CommonTypes, GwTypes
  <2> QED
    BY <1>1, <1>4, <2>1 DEF SendPeerList, CommonTypes
<1>5. ASSUME TellTurn PROVE CommonTypes'
  <2>1. gw_list[gw.pos] \in Peer /\ gw.who \in Peer
    <3>1. gw.pos \in 1..Len(gw_list) /\ gw_list \in Seq(Peer) /\ gw.who \in Peer
      BY <1>1, <1>5, InRing DEF TellTurn, GwTypes
    <3> QED
      BY <3>1, InRing
  <2>2. hasty' \subseteq Peer
    BY <1>1, <1>5, <2>1, RefusedEffect DEF TellTurn, CommonTypes
  <2>3. msgs' \subseteq Messages
    <3>1. Message("delete", NoPeer, gw_list[gw.pos], gw.who) \in Messages
      BY <2>1 DEF Message, Messages
    <3> QED
      BY <1>1, <1>5, <3>1 DEF TellTurn, CommonTypes
  <2> QED
    BY <1>1, <1>5, <2>2, <2>3 DEF TellTurn, CommonTypes
<1>6. ASSUME TellNobody PROVE CommonTypes'
  BY <1>1, <1>6 DEF TellNobody, CommonTypes
<1>7. ASSUME ServeClient PROVE CommonTypes'
  <2>1. Head(gw_list') \in Peer
    <3>1. gw_list \in Seq(Peer) /\ gw_list # <<>> /\ gw_list' = ring_next(gw_list)
      BY <1>1, <1>7 DEF ServeClient, GwTypes
    <3>2. gw_list' \in Seq(Peer) /\ gw_list' # <<>>
      BY <3>1, RingNext, InRing
    <3>3. 1 \in 1..Len(gw_list') /\ Head(gw_list') = gw_list'[1]
      BY <3>2, InRing
    <3> QED
      BY <3>2, <3>3, InRing
  <2>2. hasty' \subseteq Peer
    BY <1>1, <1>7, <2>1, RefusedEffect DEF ServeClient, CommonTypes
  <2> QED
    BY <1>1, <1>7, <2>2 DEF ServeClient, CommonTypes
<1>8. ASSUME NEW p \in Peer, Start(p) PROVE CommonTypes'
  <2>1. Datagram("join", p, p) \in Datagrams
    BY DEF Datagram, Datagrams
  <2> QED
    BY <1>1, <1>8, <2>1 DEF Start, CommonTypes
<1>9. ASSUME NEW p \in Peer, GiveUp(p) PROVE CommonTypes'
  BY <1>1, <1>9, EndEffect DEF GiveUp, CommonTypes
<1>10. ASSUME NEW p \in Peer, RecvList(p) PROVE CommonTypes'
  <2>1. OwnRoot(answer[p]) \in Seq(Peer) /\ <<>> \in Seq(Peer)
    BY <1>1, <1>10, OwnRootProperties, EmptySeq DEF RecvList, CommonTypes
  <2> QED
    BY <1>1, <1>10, <2>1 DEF RecvList, CommonTypes
<1>11. ASSUME NEW p \in Peer, Tell(p) PROVE CommonTypes'
  <2> DEFINE type == IF cursor[p] = 2 THEN "ask" ELSE "register"
  <2>1. cursor[p] > 0 /\ ~Over(p) /\ status[p] = "entering" /\ cursor[p] \in Nat
    BY <1>1, <1>11 DEF Tell, TypeInv, PeerTypes, CommonTypes
  <2>2. Message(type, p, ring[p][cursor[p]], Head(ring[p])) \in Messages
    BY <2>1, AtCursor DEF Message, Messages
  <2>3. status' \in [Peer -> Stages] /\ cursor' \in [Peer -> Nat]
    BY <1>1, <1>11, <2>1 DEF Tell, CommonTypes
  <2> QED
    BY <1>1, <1>11, <2>2, <2>3 DEF Tell, CommonTypes
<1>12. ASSUME NEW p \in Peer, TellFails(p) PROVE CommonTypes'
  <2>1. ring[p][cursor[p]] \in Peer
    <3>1. cursor[p] > 0
      BY <1>1, <1>12 DEF TellFails, TypeInv, PeerTypes, CommonTypes
    <3> QED
      BY <1>12, <3>1, AtCursor DEF TellFails
  <2>2. hasty' \subseteq Peer
    BY <1>1, <1>12, <2>1, RefusedEffect DEF TellFails
  <2> QED
    BY <1>1, <1>12, <2>2, EndEffect DEF TellFails, CommonTypes
<1>13. ASSUME NEW p \in Peer, NoPhotos(p) PROVE CommonTypes'
  <2>1. CASE End(p)
    BY <1>1, <1>13, <2>1, EndEffect DEF NoPhotos, CommonTypes
  <2>2. CASE ~End(p)
    BY <1>1, <1>13, <2>2 DEF NoPhotos, CommonTypes
  <2> QED
    BY <2>1, <2>2
<1>14. ASSUME NEW p \in Peer, Listen(p) PROVE CommonTypes'
  BY <1>1, <1>14 DEF Listen, CommonTypes
<1>15. ASSUME NEW m \in msgs, Handle(m) PROVE CommonTypes'
  <2>1. m \in Messages /\ m.to \in Peer /\ m.who \in Peer
    BY <1>1 DEF CommonTypes, Messages
  <2>2. ring' \in [Peer -> Seq(Peer)]
    <3>1. ring[m.to] \in Seq(Peer)
      BY <1>1, <2>1 DEF CommonTypes
    <3>2. /\ delete_peer(ring[m.to], m.who) \in Seq(Peer)
          /\ register_peer(ring[m.to], m.who) \in Seq(Peer)
      BY <2>1, <3>1, RingRemoveType, RingAppend DEF delete_peer, register_peer
    <3> QED
      BY <1>1, <1>15, <2>1, <3>2 DEF Handle, CommonTypes
  <2>3. status' \in [Peer -> Stages]
    BY <1>1, <1>15 DEF Handle, CommonTypes
  <2> QED
    BY <1>1, <1>15, <2>2, <2>3 DEF Handle, CommonTypes
<1>16. ASSUME NEW m \in msgs, HandleFails(m) PROVE CommonTypes'
  <2>1. m.to \in Peer
    BY <1>1 DEF CommonTypes, Messages
  <2> QED
    BY <1>1, <1>16, <2>1, EndEffect DEF HandleFails, CommonTypes
<1>17. ASSUME NEW p \in Peer, WalkBegin(p) \/ WalkEnd(p) PROVE CommonTypes'
  <2>1. cursor' = [cursor EXCEPT ![p] = 2] \/ cursor' = [cursor EXCEPT ![p] = 0]
    BY <1>17 DEF WalkBegin, WalkEnd
  <2>2. UNCHANGED <<inbox, status, answer, ring, msgs, ends, hasty>>
    BY <1>17 DEF WalkBegin, WalkEnd
  <2>3. cursor' \in [Peer -> Nat]
    <3>1. cursor \in [Peer -> Nat]
      BY <1>1 DEF CommonTypes
    <3>2. CASE cursor' = [cursor EXCEPT ![p] = 2]
      BY <3>1, <3>2
    <3>3. CASE cursor' = [cursor EXCEPT ![p] = 0]
      BY <3>1, <3>3
    <3> QED
      BY <2>1, <3>2, <3>3
  <2> QED
    BY <1>1, <2>2, <2>3 DEF CommonTypes
<1>18. ASSUME NEW p \in Peer, WalkTurn(p) PROVE CommonTypes'
  <2> DEFINE q == ring[p][cursor[p]]
  <2>1. q \in Peer /\ cursor[p] \in Nat /\ ring[p] \in Seq(Peer)
    BY <1>1, <1>18, AtCursor DEF WalkTurn, CommonTypes
  <2>2. Datagram("loss", p, q) \in Datagrams
    BY <2>1 DEF Datagram, Datagrams
  <2> HIDE DEF q
  <2>3. CASE Up(q)
    <3>1. /\ cursor' = [cursor EXCEPT ![p] = cursor[p] + 1]
          /\ UNCHANGED <<inbox, status, answer, ring, msgs, ends, hasty>>
      BY <1>18, <2>3 DEF WalkTurn, Refused, q
    <3>2. cursor' \in [Peer -> Nat]
      BY <1>1, <2>1, <3>1 DEF CommonTypes
    <3> QED
      BY <1>1, <3>1, <3>2 DEF CommonTypes
  <2>4. CASE ~Up(q)
    <3>1. Refused(q) /\ Drop(p) /\ inbox' = inbox \cup {Datagram("loss", p, q)}
      BY <1>18, <2>4 DEF WalkTurn, q
    <3>2. ring_remove(ring[p], q) \in Seq(Peer)
      BY <2>1, RingRemoveType
    <3>3. ring' \in [Peer -> Seq(Peer)] /\ cursor' = cursor
      BY <1>1, <3>1, <3>2 DEF Drop, CommonTypes, q
    <3>4. hasty' \subseteq Peer
      BY <1>1, <2>1, <3>1, RefusedEffect
    <3> QED
      BY <1>1, <1>18, <2>2, <3>1, <3>3, <3>4 DEF WalkTurn, CommonTypes
  <2> QED
    BY <2>3, <2>4
<1>19. ASSUME NEW p \in Peer, Exit(p) PROVE CommonTypes'
  <2>1. Datagram("exit", p, p) \in Datagrams
    BY DEF Datagram, Datagrams
  <2>2. ends' \in 0..MaxEnds
    BY <1>1, <1>19, MembershipAssumption DEF Exit, CommonTypes
  <2> QED
    BY <1>1, <1>19, <2>1, <2>2, EndEffect DEF Exit, CommonTypes
<1> QED
  BY <1>2, <1>3, <1>4, <1>5, <1>6, <1>7, <1>8, <1>9, <1>10, <1>11, <1>12, <1>13, <1>14,
     <1>15, <1>16, <1>17, <1>18, <1>19 DEF Next, GwStep, Enter, Serve

LEMMA PeerTypesStep ==
  ASSUME TypeInv, Next, NEW r \in Peer
  PROVE  PeerTypes(r)'
<1>1. /\ CommonTypes /\ GwTypes /\ PeerTypes(r)
      /\ ring[r] \in Seq(Peer) /\ cursor[r] \in Nat /\ Len(ring[r]) \in Nat
      /\ Len(<<>>) = 0
  BY InRing, EmptySeq DEF TypeInv, CommonTypes
<1>2. ASSUME UNCHANGED <<status, ring, cursor, answer>> PROVE PeerTypes(r)'
  BY <1>1, <1>2 DEF PeerTypes
<1>3. ASSUME NEW p \in Peer, End(p) PROVE PeerTypes(r)'
  <2>1. CASE r = p
    BY <1>1, <1>3, <2>1, EndEffect DEF PeerTypes
  <2>2. CASE r # p
    BY <1>1, <1>3, <2>2, EndEffect DEF PeerTypes
  <2> QED
    BY <2>1, <2>2
<1>4. ASSUME SendPeerList PROVE PeerTypes(r)'
  BY <1>1, <1>4 DEF SendPeerList, CommonTypes, PeerTypes
<1>5. ASSUME NEW p \in Peer, Start(p) PROVE PeerTypes(r)'
  BY <1>1, <1>5 DEF Start, CommonTypes, PeerTypes
<1>6. ASSUME NEW p \in Peer, RecvList(p) PROVE PeerTypes(r)'
  <2>1. /\ Len(OwnRoot(answer[p])) \in Nat /\ Len(OwnRoot(answer[p])) >= 1
    BY <1>1, <1>6, OwnRootProperties, InRing DEF RecvList, CommonTypes
  <2>2. CASE r = p
    <3>1. status'[r] = "entering" /\ cursor'[r] = 2 /\ answer'[r] = <<>>
          /\ ring'[r] = OwnRoot(answer[p])
      BY <1>1, <1>6, <2>2 DEF RecvList, CommonTypes
    <3> QED
      BY <2>1, <2>2, <3>1 DEF PeerTypes
  <2>3. CASE r # p
    BY <1>1, <1>6, <2>3 DEF RecvList, CommonTypes, PeerTypes
  <2> QED
    BY <2>2, <2>3
<1>7. ASSUME NEW p \in Peer, Tell(p) PROVE PeerTypes(r)'
  <2>1. CASE r = p
    <3>1. /\ cursor'[r] = cursor[r] + 1 /\ ring'[r] = ring[r] /\ answer'[r] = answer[r]
          /\ status[r] = "entering" /\ cursor[r] <= Len(ring[r])
      BY <1>1, <1>7, <2>1 DEF Tell, CommonTypes, Over
    <3> QED
      BY <1>1, <3>1 DEF PeerTypes
  <2>2. CASE r # p
    BY <1>1, <1>7, <2>2 DEF Tell, CommonTypes, PeerTypes
  <2> QED
    BY <2>1, <2>2
<1>8. ASSUME NEW p \in Peer, NoPhotos(p), ~End(p) PROVE PeerTypes(r)'
  BY <1>1, <1>8 DEF NoPhotos, CommonTypes, PeerTypes
<1>9. ASSUME NEW p \in Peer, Listen(p) PROVE PeerTypes(r)'
  BY <1>1, <1>9 DEF Listen, CommonTypes, PeerTypes
<1>10. ASSUME NEW m \in msgs, Handle(m) PROVE PeerTypes(r)'
  <2>1. m.to \in Peer /\ cursor[m.to] = 0 /\ Up(m.to)
    BY <1>1, <1>10 DEF Handle, CommonTypes, Messages
  <2>2. /\ cursor' = cursor /\ answer' = answer
        /\ \A q \in Peer : q # m.to => ring'[q] = ring[q]
        /\ ring' \in [Peer -> Seq(Peer)]
    BY <1>1, <1>10, CommonTypesStep DEF Handle, CommonTypes
  <2>3. status'[r] = status[r] \/ (status[r] = "waiting" /\ status'[r] = "entering")
    BY <1>1, <1>10 DEF Handle, Awaits, CommonTypes
  <2>4. Len(ring'[r]) \in Nat
    BY <2>2, InRing
  <2> QED
    BY <1>1, <2>1, <2>2, <2>3, <2>4 DEF PeerTypes, Up
<1>11. ASSUME NEW p \in Peer, WalkBegin(p) PROVE PeerTypes(r)'
  <2>1. CASE r = p
    <3>1. cursor'[r] = 2 /\ Len(ring[r]) > 1 /\ UNCHANGED <<ring, status, answer>>
      BY <1>1, <1>11, <2>1 DEF WalkBegin, CommonTypes
    <3> QED
      BY <1>1, <3>1 DEF PeerTypes
  <2>2. CASE r # p
    BY <1>1, <1>11, <2>2 DEF WalkBegin, CommonTypes, PeerTypes
  <2> QED
    BY <2>1, <2>2
<1>12. ASSUME NEW p \in Peer, WalkEnd(p) PROVE PeerTypes(r)'
  BY <1>1, <1>12 DEF WalkEnd, CommonTypes, PeerTypes, Up
<1>13. ASSUME NEW p \in Peer, WalkTurn(p) PROVE PeerTypes(r)'
  <2>1. status' = status /\ answer' = answer /\ Up(p)
    BY <1>13 DEF WalkTurn
  <2>2. CASE r # p
    BY <1>1, <1>13, <2>1, <2>2 DEF WalkTurn, Drop, CommonTypes, PeerTypes
  <2>3. CASE r = p
    <3>1. cursor[r] \in 1..Len(ring[r])
      BY <1>13, <2>3, AtCursor DEF WalkTurn
    <3>2. CASE cursor' = [cursor EXCEPT ![p] = cursor[p] + 1] /\ ring' = ring
      BY <1>1, <2>1, <2>3, <3>1, <3>2 DEF CommonTypes, PeerTypes, Up
    <3>3. CASE Drop(p)
      <4>1. cursor'[r] = cursor[r] /\ ring'[r] = ring_remove(ring[r], ring[r][cursor[r]])
        BY <1>1, <2>3, <3>3 DEF Drop, CommonTypes
      <4>2. Len(ring'[r]) = Len(ring[r]) - 1
        BY <1>1, <3>1, <4>1, DropOne
      <4> QED
        BY <1>1, <2>1, <2>3, <3>1, <4>1, <4>2 DEF PeerTypes, Up
    <3> QED
      BY <1>13, <3>2, <3>3 DEF WalkTurn
  <2> QED
    BY <2>2, <2>3
<1>14. ASSUME GwStep \/ ServeClient \/ \E m \in inbox : GwRecv(m) PROVE PeerTypes(r)'
  BY <1>2, <1>4, <1>14 DEF GwStep, CheckTurn, TellTurn, TellNobody, ServeClient, GwRecv
<1>15. ASSUME NEW m \in msgs, Handle(m) \/ HandleFails(m) PROVE PeerTypes(r)'
  <2>1. m.to \in Peer
    BY <1>1 DEF CommonTypes, Messages
  <2> QED
    BY <1>3, <1>10, <1>15, <2>1 DEF HandleFails
<1>16. ASSUME NEW p \in Peer, Enter(p) \/ Serve(p) \/ Exit(p) PROVE PeerTypes(r)'
  BY <1>3, <1>5, <1>6, <1>7, <1>8, <1>9, <1>11, <1>12, <1>13, <1>16
     DEF Enter, Serve, Exit, GiveUp, TellFails
<1> QED
  BY <1>14, <1>15, <1>16 DEF Next

LEMMA TypeStep == TypeInv /\ [Next]_vars => TypeInv'
<1>1. ASSUME TypeInv, Next PROVE TypeInv'
  BY <1>1, GwTypesStep, CommonTypesStep, PeerTypesStep DEF TypeInv
<1>2. ASSUME TypeInv, UNCHANGED vars PROVE TypeInv'
  BY <1>2 DEF TypeInv, GwTypes, CommonTypes, PeerTypes, vars, gateway
<1> QED
  BY <1>1, <1>2

LEMMA TypeHolds == Spec => []TypeInv
BY TypeInit, TypeStep, PTL DEF Spec

(* TypeOK is an invariant: no walk of the gateway or of a peer leaves its    *)
(* list, whatever is removed from it.                                        *)
THEOREM TypeCorrect == Spec => []TypeOK
<1>1. TypeInv => TypeOK
  <2> SUFFICES ASSUME TypeInv PROVE TypeOK
    OBVIOUS
  <2>1. Len(gw_list) \in Nat /\ \A p \in Peer : Len(ring[p]) \in Nat
    BY InRing DEF TypeInv, GwTypes, CommonTypes
  <2>2. gw \in [pc : GwStages, who : Peer \cup {NoPeer}, exc : Peer \cup {NoPeer},
                pos : 0..Len(gw_list) + 1]
    BY <2>1 DEF TypeInv, GwTypes
  <2>3. \A p \in Peer : /\ answer[p] \in Seq(Peer) /\ ring[p] \in Seq(Peer)
                        /\ cursor[p] \in 0..Len(ring[p]) + 1
    BY <2>1 DEF TypeInv, CommonTypes, PeerTypes
  <2>4. gw_list \in Seq(Peer) /\ CommonTypes
    BY DEF TypeInv, GwTypes
  <2> QED
    BY <2>2, <2>3, <2>4 DEF CommonTypes, TypeOK, GwStages, Stages, Datagrams, Messages
<1> QED
  BY <1>1, TypeHolds, PTL
-----------------------------------------------------------------------------
(* Nobody speaks of a peer before it starts.                                 *)
FreshGw(p) == p \notin ToSet(gw_list) /\ gw.who # p
FreshNet(p) == (\A m \in inbox : m.who # p) /\ (\A m \in msgs : m.who # p)
FreshRings(p) == \A r \in Peer : p \notin ToSet(answer[r]) /\ p \notin ToSet(ring[r])
OutFresh ==
  \A p \in Peer : status[p] = "out" => FreshGw(p) /\ FreshNet(p) /\ FreshRings(p)

(* A peer that is no longer owed a place in anybody's list.                  *)
Excused(p) == status[p] = "down" \/ p \in hasty

(* Only of such a peer is it said that it has gone.                          *)
Reports ==
  /\ \A m \in inbox : m.type # "join" => Excused(m.who)
  /\ \A m \in msgs : m.type = "delete" => Excused(m.who)
  /\ gw.pc \in {"removed", "tell"} => Excused(gw.who)

(* What a step may do to a peer.                                             *)
Ends(p) == status'[p] = "down" /\ answer'[p] = <<>> /\ ring'[p] = <<>>
GetsPhotos(p) ==
  /\ status[p] = "waiting" /\ status'[p] = "entering"
  /\ answer'[p] = answer[p] /\ ring'[p] = ring[p] /\ cursor'[p] = cursor[p]
Remains(p) ==
  /\ status'[p] = status[p]
  /\ \/ answer'[p] = answer[p]
     \/ SendPeerList /\ p = gw.who /\ status[p] = "asking" /\ answer'[p] = gw_list
  /\ status[p] # "up" => ring'[p] = ring[p] /\ cursor'[p] = cursor[p]

LEMMA PeerSteps ==
  ASSUME TypeInv, Next, NEW p \in Peer
  PROVE  Ends(p) \/ Start(p) \/ RecvList(p) \/ Tell(p) \/ Listen(p) \/ GetsPhotos(p) \/ Remains(p)
<1>1. CommonTypes
  BY DEF TypeInv
<1>2. UNCHANGED <<status, answer, ring, cursor>> => Remains(p)
  BY DEF Remains
<1>3. ASSUME NEW q \in Peer, End(q) PROVE Ends(p) \/ Remains(p)
  BY <1>1, <1>3, EndEffect DEF Ends, Remains
<1>4. CASE GwStep \/ ServeClient \/ \E m \in inbox : GwRecv(m)
  <2>1. CASE SendPeerList
    BY <1>1, <2>1 DEF SendPeerList, Remains, CommonTypes
  <2> QED
    BY <1>2, <1>4, <2>1 DEF GwStep, CheckTurn, TellTurn, TellNobody, ServeClient, GwRecv
<1>5. ASSUME NEW m \in msgs, Handle(m) PROVE GetsPhotos(p) \/ Remains(p)
  <2>1. m.to \in Peer /\ status[m.to] = "up"
    BY <1>1, <1>5 DEF CommonTypes, Messages, Handle, Up
  <2>2. ring'[p] = ring[p] \/ p = m.to
    BY <1>1, <1>5 DEF Handle, CommonTypes
  <2>3. status'[p] = status[p] \/ (status[p] = "waiting" /\ status'[p] = "entering")
    BY <1>1, <1>5 DEF Handle, Awaits, CommonTypes
  <2>4. UNCHANGED <<answer, cursor>>
    BY <1>5 DEF Handle
  <2> QED
    BY <2>1, <2>2, <2>3, <2>4 DEF GetsPhotos, Remains
<1>6. ASSUME NEW m \in msgs, HandleFails(m) PROVE Ends(p) \/ Remains(p)
  <2>1. m.to \in Peer
    BY <1>1 DEF CommonTypes, Messages
  <2> QED
    BY <1>3, <1>6, <2>1 DEF HandleFails
<1>7. ASSUME NEW q \in Peer, Start(q) \/ RecvList(q) \/ Tell(q) \/ Listen(q), p # q
      PROVE  Remains(p)
  BY <1>1, <1>7 DEF Start, RecvList, Tell, Listen, Remains, CommonTypes
<1>8. ASSUME NEW q \in Peer, GiveUp(q) \/ TellFails(q) \/ Exit(q)
      PROVE  Ends(p) \/ Remains(p)
  BY <1>3, <1>8 DEF GiveUp, TellFails, Exit
<1>9. ASSUME NEW q \in Peer, NoPhotos(q) PROVE Ends(p) \/ GetsPhotos(p) \/ Remains(p)
  BY <1>1, <1>3, <1>9 DEF NoPhotos, GetsPhotos, Remains, CommonTypes
<1>10. ASSUME NEW q \in Peer, Serve(q) PROVE Remains(p)
  <2>1. UNCHANGED <<status, answer>> /\ status[q] = "up"
    BY <1>10 DEF Serve, WalkBegin, WalkTurn, WalkEnd, Up
  <2>2. p # q => ring'[p] = ring[p] /\ cursor'[p] = cursor[p]
    BY <1>1, <1>10 DEF Serve, WalkBegin, WalkTurn, WalkEnd, Drop, CommonTypes
  <2> QED
    BY <2>1, <2>2 DEF Remains
<1> QED
  BY <1>4, <1>5, <1>6, <1>7, <1>8, <1>9, <1>10 DEF Next, Enter

(* What hasty records stays recorded.                                        *)
LEMMA HastyGrows ==
  ASSUME TypeInv, Next
  PROVE  hasty \subseteq hasty'
BY DEF Next, GwStep, CheckTurn, SendPeerList, TellTurn, TellNobody, ServeClient, GwRecv,
   Handle, HandleFails, Enter, Start, GiveUp, RecvList, Tell, TellFails, NoPhotos, Listen,
   Serve, WalkBegin, WalkTurn, WalkEnd, Exit, Refused

(* A peer starts once and ends once.                                         *)
LEMMA OneLife ==
  ASSUME TypeInv, Next, NEW p \in Peer
  PROVE  /\ status'[p] = "out" => status[p] = "out"
         /\ status[p] = "down" => status'[p] = "down"
         /\ Excused(p) => Excused(p)'
<1>1. p \in DOMAIN status /\ status \in [Peer -> Stages]
  BY DEF TypeInv, CommonTypes
<1>2. /\ status'[p] = "out" => status[p] = "out"
      /\ status[p] = "down" => status'[p] = "down"
  BY <1>1, PeerSteps DEF Ends, Start, RecvList, Tell, Listen, GetsPhotos, Remains
<1> QED
  BY <1>2, HastyGrows DEF Excused

LEMMA OutFreshStep ==
  ASSUME TypeInv, OutFresh, Next
  PROVE  OutFresh'
<1> SUFFICES ASSUME NEW p \in Peer, status'[p] = "out"
             PROVE  FreshGw(p)' /\ FreshNet(p)' /\ FreshRings(p)'
  BY DEF OutFresh
<1>1. /\ CommonTypes /\ GwTypes /\ status[p] = "out"
      /\ FreshGw(p) /\ FreshNet(p) /\ FreshRings(p)
      /\ NoPeer # p /\ ToSet(<<>>) = {}
  BY OneLife, MembershipAssumption DEF TypeInv, OutFresh, ToSet
<1>2. UNCHANGED <<gw_list, gw>> => FreshGw(p)'
  BY <1>1 DEF FreshGw
<1>3. inbox' \subseteq inbox /\ msgs' \subseteq msgs => FreshNet(p)'
  BY <1>1 DEF FreshNet
<1>4. UNCHANGED <<answer, ring>> => FreshRings(p)'
  BY <1>1 DEF FreshRings
<1>5. ASSUME NEW q \in Peer, End(q)
      PROVE  FreshRings(p)' /\ (inbox' \subseteq inbox => FreshNet(p)')
  BY <1>1, <1>3, <1>5, EndEffect DEF FreshRings
<1>6. ASSUME NEW m \in inbox, GwRecv(m)
      PROVE  FreshGw(p)' /\ FreshNet(p)' /\ FreshRings(p)'
  <2>1. m.who \in Peer /\ m.who # p /\ gw_list \in Seq(Peer)
    BY <1>1 DEF FreshNet, CommonTypes, Datagrams, GwTypes
  <2>2. p \notin ToSet(gw_list')
    <3>1. p \notin ToSet(ring_append(gw_list, m.who))
      BY <1>1, <2>1, RingAppendSet DEF FreshGw
    <3>2. p \notin ToSet(ring_remove(gw_list, m.who))
      BY <1>1, <2>1, RingRemoveSet DEF FreshGw
    <3> QED
      BY <1>6, <3>1, <3>2 DEF GwRecv, Leaver
  <2>3. gw'.who = m.who
    BY <1>6 DEF GwRecv, Leaver
  <2> QED
    BY <1>3, <1>4, <1>6, <2>1, <2>2, <2>3 DEF GwRecv, FreshGw
<1>7. ASSUME CheckTurn PROVE FreshGw(p)' /\ FreshNet(p)' /\ FreshRings(p)'
  <2>1. gw_list \in Seq(Peer) /\ gw'.who = gw.who
    BY <1>1, <1>7 DEF CheckTurn, GwTypes
  <2>2. p \notin ToSet(gw_list')
    BY <1>1, <1>7, <2>1, RingRemoveSet DEF CheckTurn, FreshGw
  <2> QED
    BY <1>1, <1>3, <1>4, <1>7, <2>1, <2>2 DEF CheckTurn, FreshGw
<1>8. ASSUME SendPeerList PROVE FreshGw(p)' /\ FreshNet(p)' /\ FreshRings(p)'
  <2>1. FreshRings(p)'
    BY <1>1, <1>8 DEF SendPeerList, FreshRings, FreshGw, CommonTypes
  <2> QED
    BY <1>1, <1>3, <1>8, <2>1 DEF SendPeerList, FreshGw, Idle
<1>9. ASSUME TellTurn PROVE FreshGw(p)' /\ FreshNet(p)' /\ FreshRings(p)'
  <2>1. gw'.who \in {gw.who, NoPeer}
    <3>1. \/ gw' = Idle \/ gw' = [gw EXCEPT !.pc = "stuck"]
          \/ gw' = [gw EXCEPT !.pc = "tell", !.pos = @ + 1]
      BY <1>9 DEF TellTurn
    <3>2. gw \in [pc : GwStages, who : Peer \cup {NoPeer}, exc : Peer \cup {NoPeer}, pos : Nat]
      BY <1>1 DEF GwTypes
    <3>3. CASE gw' = Idle
      BY <3>3 DEF Idle
    <3>4. CASE gw' = [gw EXCEPT !.pc = "stuck"]
      BY <3>2, <3>4
    <3>5. CASE gw' = [gw EXCEPT !.pc = "tell", !.pos = @ + 1]
      BY <3>2, <3>5
    <3> QED
      BY <3>1, <3>3, <3>4, <3>5
  <2>2. FreshNet(p)'
    BY <1>1, <1>9 DEF TellTurn, FreshNet, FreshGw, Message
  <2> QED
    BY <1>1, <1>4, <1>9, <2>1, <2>2 DEF TellTurn, FreshGw
<1>10. ASSUME TellNobody PROVE FreshGw(p)' /\ FreshNet(p)' /\ FreshRings(p)'
  BY <1>1, <1>3, <1>4, <1>10 DEF TellNobody, FreshGw, Idle
<1>11. ASSUME ServeClient PROVE FreshGw(p)' /\ FreshNet(p)' /\ FreshRings(p)'
  <2>1. gw_list \in Seq(Peer) /\ gw'.who = gw.who
    BY <1>1, <1>11 DEF ServeClient, GwTypes
  <2>2. p \notin ToSet(gw_list')
    BY <1>1, <1>11, <2>1, RingNext DEF ServeClient, FreshGw
  <2> QED
    BY <1>1, <1>3, <1>4, <1>11, <2>1, <2>2 DEF ServeClient, FreshGw
<1>12. ASSUME NEW m \in msgs, Handle(m)
       PROVE  FreshGw(p)' /\ FreshNet(p)' /\ FreshRings(p)'
  <2>1. m.to \in Peer /\ m.who \in Peer /\ m.who # p /\ ring[m.to] \in Seq(Peer)
    BY <1>1 DEF CommonTypes, Messages, FreshNet
  <2>2. /\ p \notin ToSet(delete_peer(ring[m.to], m.who))
        /\ p \notin ToSet(register_peer(ring[m.to], m.who))
    <3>1. p \notin ToSet(ring_append(ring[m.to], m.who))
      BY <1>1, <2>1, RingAppendSet DEF FreshRings
    <3>2. p \notin ToSet(ring_remove(ring[m.to], m.who))
      BY <1>1, <2>1, RingRemoveSet DEF FreshRings
    <3> QED
      BY <3>1, <3>2 DEF delete_peer, register_peer
  <2>3. FreshRings(p)'
    BY <1>1, <1>12, <2>1, <2>2 DEF Handle, FreshRings, CommonTypes
  <2> QED
    BY <1>2, <1>3, <1>12, <2>3 DEF Handle, gateway
<1>13. ASSUME NEW m \in msgs, HandleFails(m)
       PROVE  FreshGw(p)' /\ FreshNet(p)' /\ FreshRings(p)'
  <2>1. m.to \in Peer
    BY <1>1 DEF CommonTypes, Messages
  <2> QED
    BY <1>2, <1>5, <1>13, <2>1 DEF HandleFails, gateway
<1>14. ASSUME NEW q \in Peer, Start(q)
       PROVE  FreshGw(p)' /\ FreshNet(p)' /\ FreshRings(p)'
  <2>1. q # p
    BY <1>1, <1>14 DEF Start, CommonTypes
  <2>2. FreshNet(p)'
    BY <1>1, <1>14, <2>1 DEF Start, FreshNet, Datagram
  <2> QED
    BY <1>2, <1>4, <1>14, <2>2 DEF Start, gateway
<1>15. ASSUME NEW q \in Peer, GiveUp(q) \/ TellFails(q)
       PROVE  FreshGw(p)' /\ FreshNet(p)' /\ FreshRings(p)'
  BY <1>2, <1>5, <1>15 DEF GiveUp, TellFails, gateway
<1>16. ASSUME NEW q \in Peer, RecvList(q)
       PROVE  FreshGw(p)' /\ FreshNet(p)' /\ FreshRings(p)'
  <2>1. p \notin ToSet(OwnRoot(answer[q]))
    BY <1>1, <1>16, OwnRootProperties DEF RecvList, CommonTypes, FreshRings
  <2>2. FreshRings(p)'
    BY <1>1, <1>16, <2>1 DEF RecvList, FreshRings, CommonTypes
  <2> QED
    BY <1>2, <1>3, <1>16, <2>2 DEF RecvList, gateway
<1>17. ASSUME NEW q \in Peer, Tell(q)
       PROVE  FreshGw(p)' /\ FreshNet(p)' /\ FreshRings(p)'
  <2>1. cursor[q] > 0 /\ ~Over(q)
    BY <1>1, <1>17 DEF Tell, TypeInv, PeerTypes, CommonTypes
  <2>2. Head(ring[q]) # p
    BY <1>1, <2>1, AtCursor DEF FreshRings
  <2>3. FreshNet(p)'
    BY <1>1, <1>17, <2>2 DEF Tell, FreshNet, Message
  <2> QED
    BY <1>2, <1>4, <1>17, <2>3 DEF Tell, gateway
<1>18. ASSUME NEW q \in Peer, NoPhotos(q)
       PROVE  FreshGw(p)' /\ FreshNet(p)' /\ FreshRings(p)'
  BY <1>2, <1>3, <1>4, <1>5, <1>18 DEF NoPhotos, gateway
<1>19. ASSUME NEW q \in Peer, Listen(q) \/ WalkBegin(q) \/ WalkEnd(q)
       PROVE  FreshGw(p)' /\ FreshNet(p)' /\ FreshRings(p)'
  BY <1>2, <1>3, <1>4, <1>19 DEF Listen, WalkBegin, WalkEnd, gateway
<1>20. ASSUME NEW q \in Peer, WalkTurn(q)
       PROVE  FreshGw(p)' /\ FreshNet(p)' /\ FreshRings(p)'
  <2>1. /\ ring[q] \in Seq(Peer) /\ ring[q][cursor[q]] # p
    BY <1>1, <1>20, AtCursor DEF WalkTurn, CommonTypes, FreshRings
  <2>2. FreshNet(p)'
    BY <1>1, <1>20, <2>1 DEF WalkTurn, FreshNet, Datagram
  <2>3. FreshRings(p)'
    <3>1. p \notin ToSet(ring_remove(ring[q], ring[q][cursor[q]]))
      BY <1>1, <2>1, RingRemoveSet DEF FreshRings
    <3> QED
      BY <1>1, <1>20, <3>1 DEF WalkTurn, Drop, FreshRings, CommonTypes
  <2> QED
    BY <1>2, <1>20, <2>2, <2>3 DEF WalkTurn, gateway
<1>21. ASSUME NEW q \in Peer, Exit(q)
       PROVE  FreshGw(p)' /\ FreshNet(p)' /\ FreshRings(p)'
  <2>1. q # p /\ msgs' \subseteq msgs
    BY <1>1, <1>21, EndEffect DEF Exit
  <2>2. FreshNet(p)'
    BY <1>1, <1>21, <2>1 DEF Exit, FreshNet, Datagram
  <2> QED
    BY <1>2, <1>5, <1>21, <2>2 DEF Exit, gateway
<1> QED
  BY <1>6, <1>7, <1>8, <1>9, <1>10, <1>11, <1>12, <1>13, <1>14, <1>15, <1>16, <1>17,
     <1>18, <1>19, <1>20, <1>21 DEF Next, GwStep, Enter, Serve

LEMMA ReportsStep ==
  ASSUME TypeInv, OutFresh, Reports, Next
  PROVE  Reports'
<1>1. CommonTypes /\ GwTypes
  BY DEF TypeInv
<1>2. \A p \in Peer : Excused(p) => Excused(p)'
  BY OneLife
<1>3. \A m \in inbox : m.who \in Peer /\ (m.type # "join" => Excused(m.who)')
  BY <1>1, <1>2 DEF CommonTypes, Datagrams, Reports
<1>4. \A m \in msgs : m.who \in Peer /\ (m.type = "delete" => Excused(m.who)')
  BY <1>1, <1>2 DEF CommonTypes, Messages, Reports
<1>5. ASSUME gw.pc \in {"removed", "tell"}
      PROVE  gw.who \in Peer /\ \A p \in Peer : p = gw.who => Excused(p)'
  BY <1>1, <1>2, <1>5 DEF GwTypes, Reports
<1>6. ASSUME inbox' \subseteq inbox, msgs' \subseteq msgs, UNCHANGED gateway PROVE Reports'
  BY <1>3, <1>4, <1>5, <1>6 DEF Reports, gateway
<1>7. ASSUME NEW p \in Peer, End(p) PROVE msgs' \subseteq msgs
  BY <1>7 DEF End
<1>8. ASSUME NEW m \in inbox, GwRecv(m) PROVE Reports'
  <2>1. UNCHANGED msgs /\ inbox' \subseteq inbox
    BY <1>8 DEF GwRecv
  <2>2. gw'.pc \in {"removed", "tell"} => gw'.who = m.who /\ m.type # "join"
    BY <1>8 DEF GwRecv, Leaver
  <2> QED
    BY <1>3, <1>4, <2>1, <2>2 DEF Reports
<1>9. ASSUME GwStep \/ ServeClient PROVE Reports'
  <2>1. UNCHANGED inbox
    BY <1>9 DEF GwStep, CheckTurn, SendPeerList, TellTurn, TellNobody, ServeClient
  <2>2. gw \in [pc : GwStages, who : Peer \cup {NoPeer}, exc : Peer \cup {NoPeer}, pos : Nat]
    BY <1>1 DEF GwTypes
  <2>3. gw'.pc \in {"removed", "tell"} => gw.pc \in {"removed", "tell"} /\ gw'.who = gw.who
    <3>1. CASE CheckTurn \/ ServeClient
      BY <2>2, <3>1 DEF CheckTurn, ServeClient
    <3>2. CASE SendPeerList \/ TellNobody
      BY <3>2 DEF SendPeerList, TellNobody, Idle
    <3>3. CASE TellTurn
      <4>1. \/ gw' = Idle \/ gw' = [gw EXCEPT !.pc = "stuck"]
            \/ gw' = [gw EXCEPT !.pc = "tell", !.pos = @ + 1] /\ gw.pc \in {"removed", "tell"}
        BY <3>3 DEF TellTurn
      <4>2. CASE gw' = Idle
        BY <4>2 DEF Idle
      <4>3. CASE gw' = [gw EXCEPT !.pc = "stuck"]
        BY <2>2, <4>3
      <4>4. CASE gw' = [gw EXCEPT !.pc = "tell", !.pos = @ + 1] /\ gw.pc \in {"removed", "tell"}
        BY <2>2, <4>4
      <4> QED
        BY <4>1, <4>2, <4>3, <4>4
    <3> QED
      BY <1>9, <3>1, <3>2, <3>3 DEF GwStep
  <2>4. \A m \in msgs' : m \in msgs \/ (m.who = gw.who /\ gw.pc \in {"removed", "tell"})
    BY <1>9 DEF GwStep, CheckTurn, SendPeerList, TellTurn, TellNobody, ServeClient, Message
  <2> QED
    BY <1>3, <1>4, <1>5, <2>1, <2>3, <2>4 DEF Reports
<1>10. ASSUME NEW m \in msgs, Handle(m) \/ HandleFails(m) PROVE Reports'
  <2>1. m.to \in Peer
    BY <1>1 DEF CommonTypes, Messages
  <2> QED
    BY <1>6, <1>7, <1>10, <2>1 DEF Handle, HandleFails
<1>11. ASSUME NEW p \in Peer, Start(p) PROVE Reports'
  BY <1>3, <1>4, <1>5, <1>11 DEF Start, Datagram, Reports, gateway
<1>12. ASSUME NEW p \in Peer, Tell(p) PROVE Reports'
  <2>1. \A m \in msgs' : m \in msgs \/ m.type # "delete"
    BY <1>12 DEF Tell, Message
  <2> QED
    BY <1>3, <1>4, <1>5, <1>12, <2>1 DEF Tell, Reports, gateway
<1>13. ASSUME NEW p \in Peer,
              GiveUp(p) \/ RecvList(p) \/ TellFails(p) \/ NoPhotos(p) \/ Listen(p)
       PROVE  Reports'
  BY <1>6, <1>7, <1>13 DEF GiveUp, RecvList, TellFails, NoPhotos, Listen
<1>14. ASSUME NEW p \in Peer, WalkBegin(p) \/ WalkEnd(p) PROVE Reports'
  BY <1>6, <1>14 DEF WalkBegin, WalkEnd
<1>15. ASSUME NEW p \in Peer, WalkTurn(p) PROVE Reports'
  <2>1. PICK q \in Peer : q = ring[p][cursor[p]] /\ q \in ToSet(ring[p])
    BY <1>15, AtCursor DEF WalkTurn
  <2>2. CASE Up(q)
    BY <1>6, <1>15, <2>1, <2>2 DEF WalkTurn, Refused
  <2>3. CASE ~Up(q)
    <3>1. /\ Refused(q) /\ inbox' = inbox \cup {Datagram("loss", p, q)}
          /\ UNCHANGED <<status, msgs, gateway>>
      BY <1>15, <2>1, <2>3 DEF WalkTurn
    <3>2. status[q] # "out"
      BY <2>1 DEF OutFresh, FreshRings
    <3>3. q \in hasty' \/ status[q] = "down"
      BY <1>1, <3>1, <3>2, RefusedEffect
    <3>4. Excused(q)'
      BY <3>1, <3>3 DEF Excused
    <3> QED
      BY <1>3, <1>4, <1>5, <3>1, <3>4 DEF Reports, Datagram, gateway
  <2> QED
    BY <2>2, <2>3
<1>16. ASSUME NEW p \in Peer, Exit(p) PROVE Reports'
  <2>1. Excused(p)' /\ msgs' \subseteq msgs
    BY <1>1, <1>16, EndEffect DEF Exit, Excused
  <2> QED
    BY <1>3, <1>4, <1>5, <1>16, <2>1 DEF Exit, Reports, Datagram, gateway
<1> QED
  BY <1>8, <1>9, <1>10, <1>11, <1>12, <1>13, <1>14, <1>15, <1>16 DEF Next, Enter, Serve
-----------------------------------------------------------------------------
(* A peer that has the gateway's list, or is about to have it.               *)
Registered(p) ==
  p \notin hasty /\ (status[p] \in {"entering", "waiting", "up"} \/ answer[p] # <<>>)

(* The gateway has every such peer in its list, and its walk has the new     *)
(* peer before it.                                                           *)
InList ==
  /\ \A p \in Peer : Registered(p) => p \in ToSet(gw_list)
  /\ gw.pc \in {"added", "check"} /\ status[gw.who] = "asking" /\ gw.who \notin hasty
     => \E i \in gw.pos..Len(gw_list) : gw_list[i] = gw.who

(* A peer is registered by the answer of the gateway.                        *)
LEMMA Registering ==
  ASSUME TypeInv, Next, NEW p \in Peer, Registered(p)'
  PROVE  \/ Registered(p)
         \/ /\ SendPeerList /\ p = gw.who /\ status[p] = "asking" /\ status'[p] = "asking"
            /\ p \notin hasty /\ answer'[p] = gw_list
<1>1. /\ p \notin hasty /\ status \in [Peer -> Stages]
      /\ status'[p] \in {"entering", "waiting", "up"} \/ answer'[p] # <<>>
  BY HastyGrows DEF Registered, TypeInv, CommonTypes
<1>2. status'[p] # "down" \/ answer'[p] # <<>>
  BY <1>1
<1>3. CASE Start(p)
  BY <1>1, <1>3 DEF Start, Registered
<1>4. CASE RecvList(p) \/ Tell(p) \/ Listen(p) \/ GetsPhotos(p)
  BY <1>1, <1>4 DEF RecvList, Tell, Listen, GetsPhotos, Registered
<1>5. CASE Remains(p)
  BY <1>1, <1>5 DEF Remains, Registered
<1>6. ~Ends(p)
  BY <1>1, <1>2 DEF Ends
<1> QED
  BY <1>3, <1>4, <1>5, <1>6, PeerSteps

LEMMA InListStep ==
  ASSUME TypeInv, OutFresh, Reports, InList, Next
  PROVE  InList'
<1>1. /\ CommonTypes /\ GwTypes /\ gw_list \in Seq(Peer) /\ Len(gw_list) \in Nat
      /\ hasty \subseteq hasty'
  BY HastyGrows, InRing DEF TypeInv, GwTypes
<1>2. \A p \in Peer : Registered(p) => ~Excused(p)
  BY <1>1 DEF TypeInv, CommonTypes, PeerTypes, Registered, Excused
<1> DEFINE New(p) == gw.pc \in {"added", "check"} /\ gw.who = p /\ status[p] = "asking"
                     /\ p \notin hasty
           Ahead(p) == \E i \in gw.pos..Len(gw_list) : gw_list[i] = p
<1>3. \A p \in Peer : New(p) => Ahead(p)
  BY DEF InList
<1>4. SUFFICES /\ \A p \in Peer : Registered(p)' => p \in ToSet(gw_list')
               /\ \A p \in Peer : New(p)' => Ahead(p)'
  BY GwTypesStep DEF InList, GwTypes
<1> HIDE DEF New, Ahead
<1>5. \A p \in Peer : Registered(p)' => p \in ToSet(gw_list)
  <2> SUFFICES ASSUME NEW p \in Peer, Registered(p)' PROVE p \in ToSet(gw_list)
    OBVIOUS
  <2>1. CASE Registered(p)
    BY <2>1 DEF InList
  <2>2. CASE SendPeerList /\ p = gw.who /\ status[p] = "asking" /\ p \notin hasty
    <3>1. New(p) /\ gw.pos \in Nat /\ gw.pos >= 1
      BY <1>1, <2>2 DEF New, SendPeerList, GwTypes
    <3>2. PICK i \in gw.pos..Len(gw_list) : gw_list[i] = p
      BY <1>3, <3>1 DEF Ahead
    <3>3. i \in 1..Len(gw_list)
      BY <1>1, <3>1
    <3> QED
      BY <1>1, <3>2, <3>3, InRing
  <2> QED
    BY <2>1, <2>2, Registering
<1>6. ASSUME NEW p \in Peer, New(p)', UNCHANGED gw PROVE New(p)
  <2>1. status'[p] = "asking" /\ p \notin hasty /\ gw.who = p
    BY <1>1, <1>6 DEF New
  <2>2. status[p] # "out"
    BY <2>1 DEF OutFresh, FreshGw
  <2>3. status[p] = "asking"
    BY <1>1, <2>1, <2>2, PeerSteps DEF CommonTypes, Ends, Start, RecvList, Tell, Listen,
       GetsPhotos, Remains
  <2> QED
    BY <1>6, <2>1, <2>3 DEF New
<1>7. ASSUME UNCHANGED gateway
      PROVE  /\ \A p \in Peer : Registered(p)' => p \in ToSet(gw_list')
             /\ \A p \in Peer : New(p)' => Ahead(p)'
  BY <1>3, <1>5, <1>6, <1>7 DEF gateway, Ahead
<1>8. ASSUME NEW m \in inbox, GwRecv(m)
      PROVE  /\ \A p \in Peer : Registered(p)' => p \in ToSet(gw_list')
             /\ \A p \in Peer : New(p)' => Ahead(p)'
  <2>1. m.who \in Peer
    BY <1>1 DEF CommonTypes, Datagrams
  <2>2. CASE m.type = "join"
    <3>1. /\ gw_list' = ring_append(gw_list, m.who)
          /\ gw' = [pc |-> "added", who |-> m.who, pos |-> 1, exc |-> NoPeer]
      BY <1>8, <2>2 DEF GwRecv
    <3>2. \A p \in Peer : Registered(p)' => p \in ToSet(gw_list')
      BY <1>1, <1>5, <2>1, <3>1, RingAppendSet
    <3>3. Len(gw_list') = Len(gw_list) + 1 /\ gw_list'[Len(gw_list) + 1] = m.who
      BY <1>1, <2>1, <3>1, RingAppend
    <3>4. gw'.who = m.who /\ gw'.pos = 1 /\ Len(gw_list) + 1 \in gw'.pos..Len(gw_list')
      BY <1>1, <3>1, <3>3
    <3>5. \A p \in Peer : New(p)' => Ahead(p)'
      BY <3>3, <3>4 DEF New, Ahead
    <3> QED
      BY <3>2, <3>5
  <2>3. CASE m.type # "join"
    <3>1. /\ gw_list' = ring_remove(gw_list, m.who) /\ gw'.pc = "removed"
          /\ Excused(m.who) /\ UNCHANGED <<status, answer, hasty>>
      BY <1>8, <2>3 DEF GwRecv, Leaver, Reports
    <3>2. \A p \in Peer : Registered(p)' => p # m.who
      BY <1>2, <3>1 DEF Registered
    <3>3. \A p \in Peer : Registered(p)' => p \in ToSet(gw_list')
      BY <1>1, <1>5, <3>1, <3>2, RingRemoveSet
    <3> QED
      BY <3>1, <3>3 DEF New
  <2> QED
    BY <2>2, <2>3
<1>9. ASSUME CheckTurn
      PROVE  /\ \A p \in Peer : Registered(p)' => p \in ToSet(gw_list')
             /\ \A p \in Peer : New(p)' => Ahead(p)'
  <2>1. /\ gw.pos \in 1..Len(gw_list) /\ gw.pos < Len(gw_list) /\ gw.pc \in {"added", "check"}
        /\ UNCHANGED <<status, answer>>
    BY <1>1, <1>9 DEF CheckTurn, GwTypes
  <2>2. PICK q \in Peer : q = gw_list[gw.pos]
    BY <1>1, <2>1, InRing
  <2>3. gw \in [pc : GwStages, who : Peer \cup {NoPeer}, exc : Peer \cup {NoPeer}, pos : Nat]
    BY <1>1 DEF GwTypes
  <2>4. \A p \in Peer : gw'.who = gw.who /\ (New(p)' => New(p))
    BY <1>1, <1>9, <2>1, <2>3 DEF CheckTurn, New
  <2>5. CASE Up(q) /\ gw' = [gw EXCEPT !.pc = "check", !.pos = @ + 1] /\ UNCHANGED gw_list
    <3>1. gw'.pos = gw.pos + 1
      BY <2>3, <2>5
    <3>2. ASSUME NEW p \in Peer, New(p)' PROVE Ahead(p)'
      <4>1. New(p) /\ p # q
        BY <2>4, <2>5, <3>2 DEF New, Up
      <4>2. PICK i \in gw.pos..Len(gw_list) : gw_list[i] = p
        BY <1>3, <4>1 DEF Ahead
      <4>3. i \in (gw.pos + 1)..Len(gw_list)
        BY <1>1, <2>1, <2>2, <4>1, <4>2
      <4> QED
        BY <2>5, <3>1, <4>2, <4>3 DEF Ahead
    <3> QED
      BY <1>5, <2>5, <3>2
  <2>6. CASE /\ Refused(q) /\ gw' = [gw EXCEPT !.pc = "check"]
             /\ gw_list' = ring_remove(gw_list, q)
    <3>1. gw'.pos = gw.pos
      BY <2>3, <2>6
    <3>2. q \in hasty' \/ status[q] \in {"out", "down"}
      BY <1>1, <2>6, RefusedEffect
    <3>3. \A p \in Peer : Registered(p)' => p # q
      BY <2>1, <3>2 DEF Registered, TypeInv, PeerTypes
    <3>4. \A p \in Peer : Registered(p)' => p \in ToSet(gw_list')
      BY <1>1, <1>5, <2>6, <3>3, RingRemoveSet
    <3>5. ASSUME NEW p \in Peer, New(p)' PROVE Ahead(p)'
      <4>1. New(p) /\ p # q
        <5>1. p \notin hasty' /\ status[p] = "asking"
          BY <2>1, <3>5 DEF New
        <5> QED
          BY <2>4, <3>2, <3>5, <5>1
      <4>2. PICK i \in gw.pos..Len(gw_list) : gw_list[i] = p
        BY <1>3, <4>1 DEF Ahead
      <4>3. PICK j \in 1..Len(gw_list) :
              /\ \A h \in 1..Len(gw_list) : h < j => gw_list[h] # q
              /\ Len(gw_list') = Len(gw_list) - 1
              /\ \A h \in 1..(Len(gw_list) - 1) :
                   gw_list'[h] = IF h < j THEN gw_list[h] ELSE gw_list[h + 1]
        <5>1. \E h \in 1..Len(gw_list) : gw_list[h] = q
          BY <2>1, <2>2
        <5> QED
          BY <1>1, <2>6, <5>1, RingRemoveKey
      <4>4. j <= gw.pos
        BY <1>1, <2>1, <2>2, <4>3
      <4>5. i # gw.pos
        BY <2>2, <4>1, <4>2
      <4>6. /\ i - 1 \in gw.pos..Len(gw_list') /\ i - 1 \in 1..(Len(gw_list) - 1)
            /\ ~(i - 1 < j) /\ (i - 1) + 1 = i
        BY <1>1, <2>1, <4>2, <4>3, <4>4, <4>5
      <4>7. gw_list'[i - 1] = p
        BY <4>2, <4>3, <4>6
      <4> QED
        BY <3>1, <4>6, <4>7 DEF Ahead
    <3> QED
      BY <3>4, <3>5
  <2> QED
    BY <1>9, <2>2, <2>5, <2>6 DEF CheckTurn
<1>10. ASSUME SendPeerList \/ TellNobody
       PROVE  /\ \A p \in Peer : Registered(p)' => p \in ToSet(gw_list')
              /\ \A p \in Peer : New(p)' => Ahead(p)'
  BY <1>5, <1>10 DEF SendPeerList, TellNobody, Idle, New
<1>11. ASSUME TellTurn
       PROVE  /\ \A p \in Peer : Registered(p)' => p \in ToSet(gw_list')
              /\ \A p \in Peer : New(p)' => Ahead(p)'
  <2>1. gw \in [pc : GwStages, who : Peer \cup {NoPeer}, exc : Peer \cup {NoPeer}, pos : Nat]
    BY <1>1 DEF GwTypes
  <2>2. /\ UNCHANGED gw_list
        /\ \/ gw' = Idle \/ gw' = [gw EXCEPT !.pc = "stuck"]
           \/ gw' = [gw EXCEPT !.pc = "tell", !.pos = @ + 1]
    BY <1>11 DEF TellTurn
  <2>3. gw'.pc \notin {"added", "check"}
    <3>1. CASE gw' = Idle
      BY <3>1 DEF Idle
    <3>2. CASE gw' = [gw EXCEPT !.pc = "stuck"]
      BY <2>1, <3>2
    <3>3. CASE gw' = [gw EXCEPT !.pc = "tell", !.pos = @ + 1]
      BY <2>1, <3>3
    <3> QED
      BY <2>2, <3>1, <3>2, <3>3
  <2> QED
    BY <1>5, <2>2, <2>3 DEF New
<1>12. ASSUME ServeClient
       PROVE  /\ \A p \in Peer : Registered(p)' => p \in ToSet(gw_list')
              /\ \A p \in Peer : New(p)' => Ahead(p)'
  <2>1. gw_list # <<>> /\ gw_list' = ring_next(gw_list) /\ gw.pc \in {"recv", "added", "removed"}
    BY <1>12 DEF ServeClient
  <2>2. /\ gw_list' \in Seq(Peer) /\ Len(gw_list') = Len(gw_list)
        /\ ToSet(gw_list') = ToSet(gw_list)
    BY <1>1, <2>1, RingNext
  <2>3. ASSUME NEW p \in Peer, New(p)' PROVE Ahead(p)'
    <3>1. UNCHANGED gw
      <4>1. gw \in [pc : GwStages, who : Peer \cup {NoPeer}, exc : Peer \cup {NoPeer}, pos : Nat]
        BY <1>1 DEF GwTypes
      <4>2. gw' # [gw EXCEPT !.pc = "stuck"]
        BY <2>3, <4>1 DEF New
      <4> QED
        BY <1>12, <4>2 DEF ServeClient
    <3>2. New(p)
      BY <1>6, <2>3, <3>1
    <3>3. gw.pos = 1
      BY <1>1, <2>1, <3>2 DEF New, GwTypes
    <3>4. PICK i \in 1..Len(gw_list) : gw_list[i] = p
      BY <1>3, <3>2, <3>3 DEF Ahead
    <3>5. p \in ToSet(gw_list')
      BY <1>1, <2>2, <3>4, InRing
    <3>6. \E h \in 1..Len(gw_list') : gw_list'[h] = p
      BY <2>2, <3>5, InRing
    <3> QED
      BY <3>1, <3>3, <3>6 DEF Ahead
  <2> QED
    BY <1>5, <2>2, <2>3
<1>13. ASSUME NEW p \in Peer, Enter(p) \/ Serve(p) \/ Exit(p) PROVE UNCHANGED gateway
  BY <1>13 DEF Enter, Start, GiveUp, RecvList, Tell, TellFails, NoPhotos, Listen, Serve,
     WalkBegin, WalkTurn, WalkEnd, Exit
<1>14. ASSUME NEW m \in msgs, Handle(m) \/ HandleFails(m) PROVE UNCHANGED gateway
  BY <1>14 DEF Handle, HandleFails
<1> QED
  BY <1>7, <1>8, <1>9, <1>10, <1>11, <1>12, <1>13, <1>14 DEF Next, GwStep
-----------------------------------------------------------------------------
ListInv == TypeInv /\ OutFresh /\ Reports /\ InList

LEMMA ListInit == Init => ListInv
<1> SUFFICES ASSUME Init PROVE ListInv
  OBVIOUS
<1>1. TypeInv
  BY TypeInit
<1>2. ToSet(<<>>) = {} /\ ToSet(<<Founder>>) = {Founder}
  BY DEF ToSet
<1>3. OutFresh
  BY <1>2, MembershipAssumption DEF Init, Idle, OutFresh, FreshGw, FreshNet, FreshRings
<1>4. Reports
  BY DEF Init, Idle, Reports
<1>5. InList
  BY <1>2 DEF Init, Idle, InList, Registered
<1> QED
  BY <1>1, <1>3, <1>4, <1>5 DEF ListInv

LEMMA ListStep == ListInv /\ [Next]_vars => ListInv'
<1>1. ASSUME ListInv, Next PROVE ListInv'
  BY <1>1, TypeStep, OutFreshStep, ReportsStep, InListStep DEF ListInv
<1>2. ASSUME ListInv, UNCHANGED vars PROVE ListInv'
  <2>1. TypeInv'
    BY <1>2, TypeStep DEF ListInv
  <2>2. OutFresh'
    BY <1>2 DEF ListInv, OutFresh, FreshGw, FreshNet, FreshRings, vars, gateway
  <2>3. Reports'
    BY <1>2 DEF ListInv, Reports, Excused, vars, gateway
  <2>4. InList'
    BY <1>2 DEF ListInv, InList, Registered, vars, gateway
  <2> QED
    BY <2>1, <2>2, <2>3, <2>4 DEF ListInv
<1> QED
  BY <1>1, <1>2

LEMMA ListHolds == Spec => []ListInv
BY ListInit, ListStep, PTL DEF Spec

(* Listed is an invariant: whatever datagrams are lost, late or overtaken,   *)
(* a peer in service is in the gateway's list, unless it was probed before   *)
(* it listened.                                                              *)
THEOREM ListedCorrect == Spec => []Listed
<1>1. ListInv => Listed
  BY DEF ListInv, InList, Registered, Listed, Up
<1> QED
  BY <1>1, ListHolds, PTL
-----------------------------------------------------------------------------
(* The list that a peer holds before it listens.                             *)
Lst(p) == IF status[p] = "asking" THEN ToSet(answer[p]) ELSE ToSet(ring[p])

(* The own node of a new peer is the last of its answer, then its root.      *)
Own ==
  \A p \in Peer \ hasty :
    /\ answer[p] # <<>> => Last(answer[p]) = p
    /\ status[p] \in {"entering", "waiting"} => Head(ring[p]) = p

(* Everybody that a new peer has left behind has listened, and still knows   *)
(* of it.                                                                    *)
Behind(p, x) == status[x] \in {"up", "down"} /\ (Up(x) /\ p \notin hasty => Knows(x, p))
Notified ==
  \A p \in Peer : status[p] \in {"entering", "waiting"} =>
    \A i \in 2..(cursor[p] - 1) : Behind(p, ring[p][i])

(* Of two peers in the gateway's list one at least has the other in its own  *)
(* list; those in service know each other.                                   *)
Pair(p, q) ==
  IF Up(p) THEN Up(q) => Knows(p, q)
  ELSE IF Up(q) THEN q \in Lst(p)
  ELSE q \in Lst(p) \/ p \in Lst(q)
Pairs == \A p, q \in Peer : p # q /\ Registered(p) /\ Registered(q) => Pair(p, q)

LEMMA OwnStep ==
  ASSUME ListInv, Own, Next
  PROVE  Own'
<1> SUFFICES ASSUME NEW p \in Peer, p \notin hasty'
             PROVE  /\ answer'[p] # <<>> => Last(answer'[p]) = p
                    /\ status'[p] \in {"entering", "waiting"} => Head(ring'[p]) = p
  BY DEF Own
<1>1. /\ TypeInv /\ CommonTypes /\ GwTypes /\ PeerTypes(p) /\ InList /\ p \notin hasty
      /\ answer[p] # <<>> => Last(answer[p]) = p
      /\ status[p] \in {"entering", "waiting"} => Head(ring[p]) = p
  BY HastyGrows DEF ListInv, TypeInv, Own
<1>2. CASE Ends(p)
  BY <1>2 DEF Ends
<1>3. CASE Start(p)
  BY <1>1, <1>3 DEF Start, CommonTypes, PeerTypes
<1>4. CASE RecvList(p)
  <2>1. /\ answer[p] # <<>> /\ answer[p] \in Seq(Peer) /\ answer'[p] = <<>>
        /\ ring'[p] = OwnRoot(answer[p])
    BY <1>1, <1>4 DEF RecvList, CommonTypes
  <2> QED
    BY <1>1, <2>1, OwnRootProperties
<1>5. CASE Tell(p)
  BY <1>1, <1>5 DEF Tell
<1>6. CASE Listen(p)
  BY <1>1, <1>6 DEF Listen, CommonTypes
<1>7. CASE GetsPhotos(p)
  BY <1>1, <1>7 DEF GetsPhotos
<1>8. CASE Remains(p)
  <2>1. status'[p] \in {"entering", "waiting"} => Head(ring'[p]) = p
    BY <1>1, <1>8 DEF Remains
  <2>2. CASE answer'[p] = answer[p]
    BY <1>1, <2>1, <2>2
  <2>3. CASE SendPeerList /\ p = gw.who /\ status[p] = "asking" /\ answer'[p] = gw_list
    <3>1. /\ gw.pc \in {"added", "check"} /\ gw.pos >= Len(gw_list)
          /\ gw.pos \in Nat /\ gw.pos >= 1 /\ gw_list \in Seq(Peer) /\ Len(gw_list) \in Nat
      BY <1>1, <2>3, InRing DEF SendPeerList, GwTypes
    <3>2. PICK i \in gw.pos..Len(gw_list) : gw_list[i] = p
      BY <1>1, <2>3, <3>1 DEF InList
    <3>3. i = Len(gw_list)
      BY <3>1, <3>2
    <3> QED
      BY <2>1, <2>3, <3>2, <3>3 DEF Last
  <2> QED
    BY <1>8, <2>2, <2>3 DEF Remains
<1> QED
  BY <1>1, <1>2, <1>3, <1>4, <1>5, <1>6, <1>7, <1>8, PeerSteps

(* A peer in service forgets no other that is in service or on its way.      *)
LEMMA KnowsStays ==
  ASSUME ListInv, Next, NEW x \in Peer, NEW p \in Peer, Up(x), Up(x)', Knows(x, p),
         ~Excused(p)'
  PROVE  Knows(x, p)'
<1>1. /\ TypeInv /\ CommonTypes /\ OutFresh /\ Reports /\ ring[x] \in Seq(Peer)
      /\ ~Excused(p) /\ status[x] = "up" /\ status'[x] = "up"
  BY OneLife DEF ListInv, TypeInv, CommonTypes, Up
<1>2. ASSUME ToSet(ring[x]) \subseteq ToSet(ring'[x]), \A m \in msgs : m.to = x => m \in msgs'
      PROVE  Knows(x, p)'
  BY <1>2 DEF Knows, Told
<1>3. ASSUME NEW q \in Peer, End(q) PROVE Knows(x, p)'
  <2>1. q # x
    BY <1>1, <1>3, EndEffect
  <2> QED
    BY <1>1, <1>2, <1>3, <2>1, EndEffect
<1>4. CASE GwStep \/ ServeClient \/ \E m \in inbox : GwRecv(m)
  <2>1. UNCHANGED ring /\ msgs \subseteq msgs'
    BY <1>4 DEF GwStep, CheckTurn, SendPeerList, TellTurn, TellNobody, ServeClient, GwRecv
  <2> QED
    BY <1>2, <2>1
<1>5. ASSUME NEW m \in msgs, Handle(m) PROVE Knows(x, p)'
  <2>1. /\ m \in Messages /\ m.to \in Peer /\ m.who \in Peer
        /\ m.type = "delete" => m.who # p
    BY <1>1 DEF CommonTypes, Messages, Reports
  <2>2. msgs' = msgs \ {m}
    BY <1>5 DEF Handle
  <2>3. CASE m.to # x
    <3>1. ring'[x] = ring[x]
      BY <1>1, <1>5, <2>3 DEF Handle, CommonTypes
    <3> QED
      BY <1>2, <2>2, <2>3, <3>1
  <2>4. CASE m.to = x /\ m.type = "delete"
    <3>1. ring'[x] = ring_remove(ring[x], m.who)
      BY <1>1, <1>5, <2>1, <2>4 DEF Handle, CommonTypes, delete_peer
    <3>2. CASE p \in ToSet(ring[x])
      BY <1>1, <2>1, <2>4, <3>1, <3>2, RingRemoveSet DEF Knows
    <3>3. CASE Told(x, p)
      BY <2>2, <2>4, <3>3 DEF Told, Knows
    <3> QED
      BY <3>2, <3>3 DEF Knows
  <2>5. CASE m.to = x /\ m.type # "delete"
    <3>1. ring'[x] = ring_append(ring[x], m.who)
      BY <1>1, <1>5, <2>1, <2>5 DEF Handle, CommonTypes, register_peer
    <3>2. \A y : y \in ToSet(ring'[x]) <=> y \in ToSet(ring[x]) \/ y = m.who
      <4>1. ToSet(ring'[x]) = ToSet(ring[x]) \cup {m.who}
        BY <1>1, <2>1, <3>1, RingAppendSet
      <4> QED
        BY <4>1
    <3>3. CASE p \in ToSet(ring[x])
      BY <3>2, <3>3 DEF Knows
    <3>4. CASE Told(x, p)
      BY <2>2, <3>2, <3>4 DEF Told, Knows
    <3> QED
      BY <3>3, <3>4 DEF Knows
  <2> QED
    BY <2>3, <2>4, <2>5
<1>6. ASSUME NEW m \in msgs, HandleFails(m) PROVE Knows(x, p)'
  <2>1. m.to \in Peer
    BY <1>1 DEF CommonTypes, Messages
  <2> QED
    BY <1>3, <1>6, <2>1 DEF HandleFails
<1>7. ASSUME NEW q \in Peer, GiveUp(q) \/ TellFails(q) \/ Exit(q) PROVE Knows(x, p)'
  BY <1>3, <1>7 DEF GiveUp, TellFails, Exit
<1>8. ASSUME NEW q \in Peer, RecvList(q) PROVE Knows(x, p)'
  <2>1. ring'[x] = ring[x] /\ UNCHANGED msgs
    BY <1>1, <1>8 DEF RecvList, CommonTypes
  <2> QED
    BY <1>2, <2>1
<1>9. ASSUME NEW q \in Peer, Start(q) \/ Tell(q) \/ Listen(q) \/ WalkBegin(q) \/ WalkEnd(q)
      PROVE  Knows(x, p)'
  <2>1. UNCHANGED ring /\ msgs \subseteq msgs'
    BY <1>9 DEF Start, Tell, Listen, WalkBegin, WalkEnd
  <2> QED
    BY <1>2, <2>1
<1>10. ASSUME NEW q \in Peer, NoPhotos(q) PROVE Knows(x, p)'
  <2>1. End(q) \/ UNCHANGED <<ring, msgs>>
    BY <1>10 DEF NoPhotos
  <2> QED
    BY <1>2, <1>3, <2>1
<1>11. ASSUME NEW q \in Peer, WalkTurn(q) PROVE Knows(x, p)'
  <2>1. UNCHANGED <<status, msgs>>
    BY <1>11 DEF WalkTurn
  <2>2. CASE ring'[x] = ring[x]
    BY <1>2, <2>1, <2>2
  <2>3. CASE ring'[x] # ring[x]
    <3>1. q = x
      BY <1>1, <1>11, <2>3 DEF WalkTurn, Drop, CommonTypes
    <3>2. PICK r \in Peer : r = ring[x][cursor[x]] /\ r \in ToSet(ring[x])
      BY <1>1, <1>11, <3>1, AtCursor DEF WalkTurn
    <3>3. Refused(r) /\ ring'[x] = ring_remove(ring[x], r)
      BY <1>1, <1>11, <2>3, <3>1, <3>2 DEF WalkTurn, Drop, CommonTypes
    <3>4. status[r] # "out"
      BY <1>1, <3>2 DEF OutFresh, FreshRings
    <3>5. r \in hasty' \/ status[r] = "down"
      BY <1>1, <3>3, <3>4, RefusedEffect
    <3>6. r # p
      BY <2>1, <3>5 DEF Excused
    <3>7. p \in ToSet(ring[x]) => p \in ToSet(ring'[x])
      BY <1>1, <3>3, <3>6, RingRemoveSet
    <3> QED
      BY <2>1, <3>7 DEF Knows, Told
  <2> QED
    BY <2>2, <2>3
<1> QED
  BY <1>4, <1>5, <1>6, <1>7, <1>8, <1>9, <1>10, <1>11 DEF Next, Enter, Serve

LEMMA NotifiedStep ==
  ASSUME ListInv, Own, Notified, Next
  PROVE  Notified'
<1> SUFFICES ASSUME NEW p \in Peer, status'[p] \in {"entering", "waiting"},
                    NEW i \in 2..(cursor'[p] - 1), NEW x, x = ring'[p][i]
             PROVE  Behind(p, x)'
  BY DEF Notified
<1>1. /\ TypeInv /\ CommonTypes /\ hasty \subseteq hasty'
      /\ cursor[p] \in Nat /\ cursor[p] <= Len(ring[p]) + 1
      /\ ring[p] \in Seq(Peer) /\ Len(ring[p]) \in Nat
  BY HastyGrows, InRing DEF ListInv, TypeInv, CommonTypes, PeerTypes
<1>2. ASSUME x \in Peer, Behind(p, x) PROVE Behind(p, x)'
  <2>1. status'[x] \in {"up", "down"}
    <3>1. status[x] \in {"up", "down"}
      BY <1>2 DEF Behind
    <3> QED
      BY <1>1, <1>2, <3>1, PeerSteps DEF CommonTypes, Ends, Start, RecvList, Tell, Listen,
         GetsPhotos, Remains
  <2>2. ASSUME Up(x)', p \notin hasty' PROVE Knows(x, p)'
    <3>1. Up(x)
      BY <1>1, <1>2, <2>2, OneLife DEF Behind, Up
    <3>2. Knows(x, p)
      BY <1>1, <1>2, <2>2, <3>1 DEF Behind
    <3>3. ~Excused(p)'
      BY <2>2 DEF Excused
    <3> QED
      BY <1>2, <2>2, <3>1, <3>2, <3>3, KnowsStays
  <2> QED
    BY <2>1, <2>2 DEF Behind
<1>3. ASSUME status[p] \in {"entering", "waiting"}, ring'[p] = ring[p], i < cursor[p]
      PROVE  Behind(p, x)'
  <2>1. i \in 2..(cursor[p] - 1) /\ i \in 1..Len(ring[p])
    BY <1>1, <1>3
  <2>2. x \in Peer
    BY <1>1, <1>3, <2>1, InRing
  <2>3. Behind(p, x)
    BY <1>3, <2>1 DEF Notified
  <2> QED
    BY <1>2, <2>2, <2>3
<1>4. CASE RecvList(p)
  <2>1. cursor'[p] = 2
    BY <1>1, <1>4 DEF RecvList, CommonTypes
  <2> QED
    BY <2>1
<1>5. CASE Tell(p)
  <2>1. /\ status[p] = "entering" /\ ring'[p] = ring[p] /\ cursor'[p] = cursor[p] + 1
        /\ cursor[p] >= 2 /\ ~Over(p)
    BY <1>1, <1>5 DEF Tell, CommonTypes, TypeInv, PeerTypes
  <2>2. CASE i < cursor[p]
    BY <1>3, <2>1, <2>2
  <2>3. CASE ~(i < cursor[p])
    <3>1. i = cursor[p]
      BY <1>1, <2>1, <2>3
    <3>2. x \in Peer /\ x = ring[p][cursor[p]]
      BY <1>1, <2>1, <3>1, AtCursor
    <3>3. status[x] = "up" /\ x # p
      BY <1>5, <2>1, <3>2 DEF Tell, Up
    <3>4. status'[x] = "up"
      BY <1>1, <1>5, <3>2, <3>3 DEF Tell, CommonTypes
    <3>5. ASSUME p \notin hasty' PROVE Knows(x, p)'
      <4>1. Head(ring[p]) = p
        BY <1>1, <2>1, <3>5 DEF Own
      <4>2. PICK type \in {"ask", "register"} : Message(type, p, x, p) \in msgs'
        BY <1>5, <3>2, <4>1 DEF Tell
      <4> QED
        BY <4>2 DEF Told, Knows, Message
    <3> QED
      BY <3>4, <3>5 DEF Behind
  <2> QED
    BY <2>2, <2>3
<1>6. CASE GetsPhotos(p)
  BY <1>1, <1>3, <1>6 DEF GetsPhotos
<1>7. CASE Remains(p)
  BY <1>1, <1>3, <1>7 DEF Remains
<1>8. CASE Ends(p) \/ Start(p) \/ Listen(p)
  BY <1>1, <1>8 DEF Ends, Start, Listen, CommonTypes
<1> QED
  BY <1>1, <1>4, <1>5, <1>6, <1>7, <1>8, PeerSteps

(* The stages of a registered peer.                                          *)
LEMMA Stage ==
  ASSUME TypeInv, NEW p \in Peer, Registered(p)
  PROVE  /\ status[p] \in {"asking", "entering", "waiting", "up"} /\ p \notin hasty
         /\ status[p] = "asking" => answer[p] # <<>>
BY DEF TypeInv, PeerTypes, Registered

(* A peer that does not listen yet keeps the others in its list.             *)
LEMMA LstStays ==
  ASSUME ListInv, Next, NEW p \in Peer, NEW q \in Peer, Registered(p), Registered(p)',
         ~Up(p)', Registered(q), q \in Lst(p)
  PROVE  q \in Lst(p)'
<1>1. /\ TypeInv /\ CommonTypes /\ PeerTypes(p) /\ InList
      /\ status'[p] # "up" /\ TypeInv'
  BY TypeStep DEF ListInv, TypeInv, Up
<1>2. status'[p] \in {"asking", "entering", "waiting"}
  BY <1>1 DEF TypeInv, PeerTypes, Registered
<1>3. ~Up(p)
  BY <1>1, <1>2, PeerSteps DEF CommonTypes, Ends, Start, RecvList, Tell, Listen, GetsPhotos,
     Remains, Up
<1>4. CASE RecvList(p)
  <2>1. /\ answer[p] # <<>> /\ answer[p] \in Seq(Peer) /\ status[p] = "asking"
        /\ status'[p] = "entering" /\ ring'[p] = OwnRoot(answer[p])
    BY <1>1, <1>4 DEF RecvList, CommonTypes
  <2> QED
    BY <2>1, OwnRootProperties DEF Lst
<1>5. CASE Tell(p) \/ GetsPhotos(p)
  <2>1. /\ status[p] # "asking" /\ status'[p] # "asking" /\ ring'[p] = ring[p]
    BY <1>1, <1>5 DEF Tell, GetsPhotos, CommonTypes
  <2> QED
    BY <2>1 DEF Lst
<1>6. CASE Remains(p)
  <2>1. CASE answer'[p] = answer[p]
    BY <1>3, <1>6, <2>1 DEF Remains, Lst, Up
  <2>2. CASE status[p] = "asking" /\ answer'[p] = gw_list
    BY <1>1, <1>6, <2>2 DEF Remains, Lst, InList
  <2> QED
    BY <1>6, <2>1, <2>2 DEF Remains
<1>7. ~Ends(p) /\ ~Start(p) /\ ~Listen(p)
  BY <1>1, <1>2, Stage DEF Ends, Start, Listen, CommonTypes
<1> QED
  BY <1>1, <1>4, <1>5, <1>6, <1>7, PeerSteps

(* A new peer in whose list another stands has told it before it listens.    *)
LEMMA TellsAll ==
  ASSUME ListInv, Own, Notified, NEW p \in Peer, NEW q \in Peer, p # q,
         status[p] = "entering", Over(p), p \notin hasty, q \in ToSet(ring[p])
  PROVE  status[q] \in {"up", "down"} /\ (Up(q) => Knows(q, p))
<1>1. /\ ring[p] \in Seq(Peer) /\ Len(ring[p]) \in Nat /\ cursor[p] \in Nat
      /\ cursor[p] > Len(ring[p])
  BY InRing DEF ListInv, TypeInv, CommonTypes, Over
<1>2. PICK i \in 1..Len(ring[p]) : ring[p][i] = q
  BY <1>1, InRing
<1>3. i # 1
  <2>1. ring[p] # <<>>
    BY <1>1, <1>2, InRing
  <2>2. Head(ring[p]) = ring[p][1] /\ Head(ring[p]) = p
    BY <1>1, <2>1, InRing DEF Own
  <2> QED
    BY <1>2, <2>2
<1>4. i \in 2..(cursor[p] - 1)
  BY <1>1, <1>2, <1>3
<1> QED
  BY <1>2, <1>4 DEF Notified, Behind

LEMMA PairsStep ==
  ASSUME ListInv, Own, Notified, Pairs, Next
  PROVE  Pairs'
<1> SUFFICES ASSUME NEW p \in Peer, NEW q \in Peer, p # q, Registered(p)', Registered(q)'
             PROVE  Pair(p, q)'
  BY DEF Pairs
<1>1. /\ TypeInv /\ CommonTypes /\ TypeInv' /\ InList
      /\ p \notin hasty' /\ q \notin hasty' /\ hasty \subseteq hasty'
  BY TypeStep, HastyGrows DEF ListInv, TypeInv, Registered
<1>2. \A r \in Peer : Registered(r)' =>
        /\ status'[r] \in {"asking", "entering", "waiting", "up"} /\ ~Excused(r)'
  BY <1>1 DEF TypeInv, PeerTypes, Registered, Excused
<1>3. \A r \in Peer : Registered(r)' /\ Up(r) => Up(r)'
  BY <1>1, <1>2, PeerSteps DEF CommonTypes, Ends, Start, RecvList, Tell, Listen, GetsPhotos,
     Remains, Up
<1>4. \A r \in Peer : Up(r)' => Up(r) \/ Listen(r)
  BY <1>1, PeerSteps DEF CommonTypes, Ends, Start, RecvList, Tell, GetsPhotos, Remains, Up
<1>5. ASSUME NEW r \in Peer, NEW s \in Peer, r # s, Listen(r), Registered(s)',
             p \in {r, s}, q \in {r, s}
      PROVE  /\ Registered(r) /\ Registered(s) /\ status[r] = "entering" /\ Over(r)
             /\ UNCHANGED <<ring, msgs, answer, hasty>> /\ status'[s] = status[s]
             /\ status'[r] = "up"
  <2>1. /\ UNCHANGED <<ring, msgs, answer, hasty>> /\ status'[s] = status[s]
        /\ status[r] = "entering" /\ Over(r) /\ status'[r] = "up"
    BY <1>1, <1>5 DEF Listen, CommonTypes
  <2> QED
    BY <1>1, <1>5, <2>1 DEF Registered
<1>6. ASSUME NEW r \in Peer, NEW s \in Peer, r # s, Registered(r)', Registered(s)',
             ~Up(r)', ~Registered(r)
      PROVE  Registered(s) /\ s \in Lst(r)'
  <2>1. /\ SendPeerList /\ r = gw.who /\ status'[r] = "asking" /\ answer'[r] = gw_list
    BY <1>1, <1>6, Registering
  <2>2. Registered(s)
    BY <1>1, <1>6, <2>1, Registering
  <2>3. s \in ToSet(gw_list)
    BY <1>1, <2>2 DEF InList
  <2> QED
    BY <2>1, <2>2, <2>3 DEF Lst
<1>7. CASE Up(p)' /\ Up(q)'
  <2>1. CASE Up(p) /\ Up(q)
    <3>1. Registered(p) /\ Registered(q)
      BY <1>1, <2>1 DEF Registered, Up
    <3>2. Knows(p, q)
      BY <2>1, <3>1 DEF Pairs, Pair
    <3>3. Knows(p, q)'
      BY <1>2, <1>7, <2>1, <3>2, KnowsStays
    <3> QED
      BY <1>7, <3>3 DEF Pair
  <2>2. CASE Listen(p)
    <3>1. /\ Registered(p) /\ Registered(q) /\ status[p] = "entering"
          /\ UNCHANGED <<ring, msgs>> /\ status'[q] = status[q]
      BY <1>5, <2>2
    <3>2. q \in Lst(p)
      BY <1>7, <3>1 DEF Pairs, Pair, Up
    <3>3. Knows(p, q)'
      BY <3>1, <3>2 DEF Lst, Knows
    <3> QED
      BY <1>7, <3>3 DEF Pair
  <2>3. CASE Listen(q)
    <3>1. /\ Registered(p) /\ Registered(q) /\ status[q] = "entering" /\ Over(q)
          /\ UNCHANGED <<ring, msgs>> /\ status'[p] = status[p] /\ q \notin hasty
      BY <1>1, <1>5, <2>3
    <3>2. Up(p) /\ ~Up(q)
      BY <1>7, <3>1 DEF Up
    <3>3. p \in Lst(q)
      BY <3>1, <3>2 DEF Pairs, Pair
    <3>4. Knows(p, q)
      BY <3>1, <3>2, <3>3, TellsAll DEF Lst
    <3>5. Knows(p, q)'
      BY <3>1, <3>4 DEF Knows, Told
    <3> QED
      BY <1>7, <3>5 DEF Pair
  <2> QED
    BY <1>4, <1>7, <2>1, <2>2, <2>3
<1>8. CASE ~Up(p)' /\ Up(q)'
  <2>1. ~Up(p)
    BY <1>3, <1>8
  <2>2. CASE ~Registered(p)
    BY <1>6, <1>8, <2>2 DEF Pair, Up
  <2>3. CASE Up(q) /\ Registered(p)
    <3>1. Registered(q)
      BY <1>1, <2>3 DEF Registered, Up
    <3>2. q \in Lst(p)
      BY <2>1, <2>3, <3>1 DEF Pairs, Pair
    <3>3. q \in Lst(p)'
      BY <1>8, <2>3, <3>1, <3>2, LstStays
    <3> QED
      BY <1>8, <3>3 DEF Pair, Up
  <2>4. CASE Listen(q) /\ Registered(p)
    <3>1. /\ Registered(q) /\ status[q] = "entering" /\ Over(q) /\ q \notin hasty
          /\ status'[p] = status[p]
      BY <1>1, <1>5, <2>4
    <3>2. q \in Lst(p) \/ p \in ToSet(ring[q])
      BY <2>1, <2>4, <3>1 DEF Pairs, Pair, Lst, Up
    <3>3. p \in ToSet(ring[q]) => status[p] \in {"up", "down"}
      BY <3>1, TellsAll
    <3>4. status[p] \notin {"up", "down"}
      BY <1>2, <2>1, <3>1 DEF Up
    <3>5. q \in Lst(p)'
      BY <1>8, <2>4, <3>1, <3>2, <3>3, <3>4, LstStays
    <3> QED
      BY <1>8, <3>5 DEF Pair, Up
  <2> QED
    BY <1>4, <1>8, <2>2, <2>3, <2>4
<1>9. CASE ~Up(p)' /\ ~Up(q)'
  <2>1. CASE ~Registered(p)
    BY <1>6, <1>9, <2>1 DEF Pair, Up
  <2>2. CASE ~Registered(q)
    BY <1>6, <1>9, <2>2 DEF Pair, Up
  <2>3. CASE Registered(p) /\ Registered(q)
    <3>1. ~Up(p) /\ ~Up(q)
      BY <1>3, <1>9
    <3>2. q \in Lst(p) \/ p \in Lst(q)
      BY <2>3, <3>1 DEF Pairs, Pair
    <3>3. q \in Lst(p)' \/ p \in Lst(q)'
      BY <1>9, <2>3, <3>2, LstStays
    <3> QED
      BY <1>9, <3>3 DEF Pair, Up
  <2> QED
    BY <2>1, <2>2, <2>3
<1> QED
  BY <1>7, <1>8, <1>9 DEF Pair, Up

KnowInv == ListInv /\ Own /\ Notified /\ Pairs

LEMMA KnowInit == Init => KnowInv
<1> SUFFICES ASSUME Init PROVE KnowInv
  OBVIOUS
<1>1. Own /\ Notified
  BY DEF Init, Own, Notified
<1>2. Pairs
  BY DEF Init, Pairs, Registered
<1> QED
  BY <1>1, <1>2, ListInit DEF KnowInv

LEMMA KnowStep == KnowInv /\ [Next]_vars => KnowInv'
<1>1. ASSUME KnowInv, Next PROVE KnowInv'
  BY <1>1, ListStep, OwnStep, NotifiedStep, PairsStep DEF KnowInv
<1>2. ASSUME KnowInv, UNCHANGED vars PROVE KnowInv'
  <2>1. ListInv'
    BY <1>2, ListStep DEF KnowInv
  <2>2. UNCHANGED <<status, answer, ring, cursor, msgs, hasty>>
    BY <1>2 DEF vars
  <2>3. Own'
    BY <1>2, <2>2 DEF KnowInv, Own
  <2>4. Notified'
    BY <1>2, <2>2 DEF KnowInv, Notified, Behind, Up, Knows, Told
  <2>5. Pairs'
    BY <1>2, <2>2 DEF KnowInv, Pairs, Pair, Registered, Lst, Up, Knows, Told
  <2> QED
    BY <2>1, <2>3, <2>4, <2>5 DEF KnowInv
<1> QED
  BY <1>1, <1>2

LEMMA KnowHolds == Spec => []KnowInv
BY KnowInit, KnowStep, PTL DEF Spec

(* MutuallyKnown is an invariant: however registrations, notices, walks and  *)
(* ends are interleaved, two peers in service know each other or are about   *)
(* to, unless one of them was probed before it listened.                     *)
THEOREM KnownCorrect == Spec => []MutuallyKnown
<1>1. KnowInv => MutuallyKnown
  BY DEF KnowInv, Pairs, Pair, Registered, MutuallyKnown, Up
<1> QED
  BY <1>1, KnowHolds, PTL
-----------------------------------------------------------------------------
(* Lists in which nobody is twice stay so, and lose by a removal the one     *)
(* that is removed.                                                          *)
LEMMA OnceAppend ==
  ASSUME NEW S, NEW r \in Seq(S), IsInjective(r), NEW k \in S, k \notin ToSet(r)
  PROVE  IsInjective(ring_append(r, k))
<1> DEFINE s == ring_append(r, k)
<1>1. /\ s \in Seq(S) /\ Len(s) = Len(r) + 1 /\ s[Len(r) + 1] = k
      /\ \A i \in 1..Len(r) : s[i] = r[i]
  BY AppendProperties DEF ring_append
<1>2. /\ Len(r) \in Nat /\ DOMAIN r = 1..Len(r) /\ DOMAIN s = 1..(Len(r) + 1)
      /\ \A i \in 1..Len(r) : r[i] \in ToSet(r)
  BY <1>1, LenProperties, InRing
<1> HIDE DEF s
<1>3. \A i, j \in 1..Len(r) : r[i] = r[j] => i = j
  BY <1>2 DEF IsInjective
<1>4. ASSUME NEW i \in 1..(Len(r) + 1), NEW j \in 1..(Len(r) + 1), s[i] = s[j] PROVE i = j
  <2>1. (i = Len(r) + 1 \/ i \in 1..Len(r)) /\ (j = Len(r) + 1 \/ j \in 1..Len(r))
    BY <1>2
  <2> QED
    BY <1>1, <1>2, <1>3, <1>4, <2>1
<1>5. IsInjective(s)
  BY <1>2, <1>4 DEF IsInjective
<1> QED
  BY <1>5 DEF s

LEMMA OnceRemove ==
  ASSUME NEW S, NEW r \in Seq(S), IsInjective(r), NEW k
  PROVE  IsInjective(ring_remove(r, k)) /\ k \notin ToSet(ring_remove(r, k))
<1> DEFINE s == ring_remove(r, k)
<1>1. Len(r) \in Nat /\ DOMAIN r = 1..Len(r) /\ s \in Seq(S) /\ DOMAIN s = 1..Len(s)
  BY LenProperties, RingRemoveSet
<1>2. \A i, j \in 1..Len(r) : r[i] = r[j] => i = j
  BY <1>1 DEF IsInjective
<1>3. CASE ~ \E n \in 1..Len(r) : r[n] = k
  <2>1. s = r
    BY <1>3, RingRemoveNone
  <2>2. k \notin ToSet(r)
    BY <1>1, <1>3 DEF ToSet
  <2> QED
    BY <2>1, <2>2
<1>4. CASE \E n \in 1..Len(r) : r[n] = k
  <2>1. PICK j \in 1..Len(r) :
          /\ r[j] = k /\ Len(s) = Len(r) - 1
          /\ \A i \in 1..(Len(r) - 1) : s[i] = IF i < j THEN r[i] ELSE r[i + 1]
    BY <1>4, RingRemoveKey
  <2> HIDE DEF s
  <2>2. \A i \in 1..(Len(r) - 1) :
          /\ (IF i < j THEN i ELSE i + 1) \in 1..Len(r) /\ (IF i < j THEN i ELSE i + 1) # j
          /\ s[i] = r[IF i < j THEN i ELSE i + 1]
    BY <1>1, <2>1
  <2>3. ASSUME NEW x \in 1..(Len(r) - 1), NEW y \in 1..(Len(r) - 1), s[x] = s[y] PROVE x = y
    <3>1. (IF x < j THEN x ELSE x + 1) = (IF y < j THEN y ELSE y + 1)
      BY <1>2, <2>2, <2>3
    <3> QED
      BY <1>1, <3>1
  <2>4. \A i \in 1..(Len(r) - 1) : s[i] # k
    BY <1>2, <2>1, <2>2
  <2>5. IsInjective(s)
    BY <1>1, <2>1, <2>3 DEF IsInjective
  <2>6. k \notin ToSet(s)
    BY <1>1, <2>1, <2>4 DEF ToSet
  <2> QED
    BY <2>5, <2>6 DEF s
<1> QED
  BY <1>3, <1>4

LEMMA OnceNext ==
  ASSUME NEW S, NEW r \in Seq(S), IsInjective(r), r # <<>>
  PROVE  IsInjective(ring_next(r))
<1> DEFINE s == ring_next(r)
<1>1. /\ Head(r) \in S /\ Head(r) = r[1]
      /\ Tail(r) \in Seq(S) /\ Len(Tail(r)) = Len(r) - 1
      /\ \A i \in 1..(Len(r) - 1) : Tail(r)[i] = r[i + 1]
  BY HeadTailProperties
<1>2. /\ Len(r) \in Nat /\ Len(r) >= 1 /\ DOMAIN r = 1..Len(r)
  BY EmptySeq, LenProperties
<1>3. /\ s \in Seq(S) /\ Len(s) = Len(Tail(r)) + 1 /\ s[Len(Tail(r)) + 1] = Head(r)
      /\ \A i \in 1..Len(Tail(r)) : s[i] = Tail(r)[i]
  BY <1>1, AppendProperties DEF ring_next
<1>4. DOMAIN s = 1..Len(s) /\ Len(s) = Len(r)
  BY <1>1, <1>2, <1>3, LenProperties
<1> HIDE DEF s
<1>5. s[Len(r)] = r[1] /\ \A i \in 1..(Len(r) - 1) : s[i] = r[i + 1]
  BY <1>1, <1>2, <1>3
<1>6. \A i, j \in 1..Len(r) : r[i] = r[j] => i = j
  BY <1>2 DEF IsInjective
<1>7. \A n \in 1..Len(r) : n = Len(r) \/ n \in 1..(Len(r) - 1)
  <2>1. \A L \in Nat : \A n \in 1..L : n = L \/ n \in 1..(L - 1)
    OBVIOUS
  <2> QED
    BY <1>2, <2>1
<1>8. \A n \in 1..(Len(r) - 1) : n + 1 \in 1..Len(r) /\ n + 1 # 1 /\ n \in Nat
  BY <1>2
<1>9. 1 \in 1..Len(r)
  BY <1>2
<1>10. \A n \in 1..(Len(r) - 1) : s[n] = r[n + 1] /\ s[n] # r[1]
  BY <1>5, <1>6, <1>8, <1>9
<1>11. ASSUME NEW i \in 1..(Len(r) - 1), NEW j \in 1..(Len(r) - 1), s[i] = s[j] PROVE i = j
  <2>1. i + 1 = j + 1
    BY <1>6, <1>8, <1>10, <1>11
  <2> QED
    BY <1>8, <2>1
<1>12. ASSUME NEW i \in 1..Len(r), NEW j \in 1..Len(r), s[i] = s[j] PROVE i = j
  BY <1>5, <1>7, <1>10, <1>11, <1>12
<1>13. IsInjective(s)
  BY <1>4, <1>12 DEF IsInjective
<1> QED
  BY <1>13 DEF s

LEMMA OnceOwnRoot ==
  ASSUME NEW l \in Seq(Peer), l # <<>>, IsInjective(l)
  PROVE  IsInjective(OwnRoot(l))
<1> DEFINE s == OwnRoot(l)
<1>1. Len(l) \in Nat /\ Len(l) >= 1 /\ DOMAIN l = 1..Len(l)
  BY EmptySeq, LenProperties
<1>2. s \in Seq(Peer) /\ Len(s) = Len(l)
  BY OwnRootProperties
<1>3. DOMAIN s = 1..Len(l)
  BY <1>2, LenProperties
<1>4. s[1] = l[Len(l)] /\ \A i \in 2..Len(l) : s[i] = l[i - 1]
  BY OwnRootProperties
<1> HIDE DEF s
<1>5. \A i, j \in 1..Len(l) : l[i] = l[j] => i = j
  BY <1>1 DEF IsInjective
<1>6. ASSUME NEW i \in 1..Len(l), NEW j \in 1..Len(l), s[i] = s[j] PROVE i = j
  <2>1. (i = 1 \/ (i \in 2..Len(l) /\ i - 1 \in 1..Len(l) /\ i - 1 # Len(l)))
        /\ (j = 1 \/ (j \in 2..Len(l) /\ j - 1 \in 1..Len(l) /\ j - 1 # Len(l)))
        /\ Len(l) \in 1..Len(l)
    BY <1>1
  <2>2. i - 1 = j - 1 => i = j
    BY <1>1
  <2> QED
    BY <1>4, <1>5, <1>6, <2>1, <2>2
<1>7. IsInjective(s)
  BY <1>3, <1>6 DEF IsInjective
<1> QED
  BY <1>7 DEF s

(* A removal below the root leaves the root.                                 *)
LEMMA RemoveBelow ==
  ASSUME NEW S, NEW r \in Seq(S), r # <<>>, NEW k, k # Head(r)
  PROVE  ring_remove(r, k) # <<>> /\ Head(ring_remove(r, k)) = Head(r)
<1> DEFINE s == ring_remove(r, k)
<1>1. Len(r) \in Nat /\ Len(r) >= 1 /\ Head(r) = r[1] /\ s \in Seq(S)
  BY EmptySeq, LenProperties, HeadTailProperties, RingRemoveSet
<1>2. CASE ~ \E n \in 1..Len(r) : r[n] = k
  BY <1>2, RingRemoveNone
<1>3. CASE \E n \in 1..Len(r) : r[n] = k
  <2>1. PICK j \in 1..Len(r) :
          /\ r[j] = k /\ Len(s) = Len(r) - 1
          /\ \A i \in 1..(Len(r) - 1) : s[i] = IF i < j THEN r[i] ELSE r[i + 1]
    BY <1>3, RingRemoveKey
  <2> HIDE DEF s
  <2>2. j # 1
    BY <1>1, <2>1
  <2>3. 1 \in 1..(Len(r) - 1) /\ 1 < j /\ Len(s) >= 1
    BY <1>1, <2>1, <2>2
  <2>4. s[1] = r[1]
    BY <2>1, <2>3
  <2>5. s # <<>>
    BY <1>1, <2>3, InRing
  <2>6. Head(s) = s[1]
    BY <1>1, <2>5, HeadTailProperties
  <2> QED
    BY <1>1, <2>4, <2>5, <2>6 DEF s
<1> QED
  BY <1>2, <1>3
-----------------------------------------------------------------------------
(* No peer is in the gateway's list twice, and one that has left it is not   *)
(* in it.                                                                    *)
Once ==
  /\ IsInjective(gw_list)
  /\ gw.pc \in {"removed", "tell"} => gw.who \notin ToSet(gw_list)
  /\ \A p \in Peer : IsInjective(answer[p])

(* A peer whose registration is under way, or at the gateway.                *)
Joining(p) == \E m \in inbox : m.type = "join" /\ m.who = p
AtGateway(p) == gw.pc \in {"added", "check"} /\ gw.who = p
Unheard(p) == Joining(p) \/ AtGateway(p)

(* Nobody has heard of it.                                                   *)
Silent(p) ==
  /\ \A r \in Peer : p \notin ToSet(answer[r]) /\ p \notin ToSet(ring[r])
  /\ \A m \in msgs : m.who # p
  /\ \A m \in inbox : m.type # "join" => m.who # p
  /\ gw.pc \in {"removed", "tell"} => gw.who # p
  /\ status[p] \in {"asking", "down"} /\ answer[p] = <<>>

(* A peer registers once, and is spoken of only then.                        *)
FirstTime ==
  /\ \A m \in inbox : m.type = "join" => m.from = m.who
  /\ \A p \in Peer : Joining(p) => p \notin ToSet(gw_list) /\ ~AtGateway(p)
  /\ \A p \in Peer : Unheard(p) => Silent(p)

LEMMA OnceStep ==
  ASSUME TypeInv, OutFresh, Once, FirstTime, Next
  PROVE  Once'
<1>1. /\ CommonTypes /\ GwTypes /\ gw_list \in Seq(Peer) /\ <<>> \in Seq(Peer)
      /\ gw \in [pc : GwStages, who : Peer \cup {NoPeer}, exc : Peer \cup {NoPeer}, pos : Nat]
  BY EmptySeq DEF TypeInv, GwTypes
<1>2. IsInjective(<<>>)
  BY EmptySeq DEF IsInjective
<1>3. ASSUME UNCHANGED gateway, \A p \in Peer : answer'[p] = answer[p] \/ answer'[p] = <<>>
      PROVE  Once'
  BY <1>2, <1>3 DEF Once, gateway
<1>4. ASSUME NEW p \in Peer, End(p) PROVE \A q \in Peer : answer'[q] = answer[q] \/ answer'[q] = <<>>
  BY <1>1, <1>4, EndEffect
<1>5. ASSUME NEW m \in inbox, GwRecv(m) PROVE Once'
  <2>1. m.who \in Peer /\ UNCHANGED answer
    BY <1>1, <1>5 DEF CommonTypes, Datagrams, GwRecv
  <2>2. CASE m.type = "join"
    <3>1. m.who \notin ToSet(gw_list)
      BY <2>1, <2>2 DEF FirstTime, Joining
    <3>2. gw_list' = ring_append(gw_list, m.who) /\ gw'.pc = "added"
      BY <1>5, <2>2 DEF GwRecv
    <3>3. IsInjective(gw_list')
      BY <1>1, <2>1, <3>1, <3>2, OnceAppend DEF Once
    <3> QED
      BY <2>1, <3>2, <3>3 DEF Once
  <2>3. CASE m.type # "join"
    <3>1. gw_list' = ring_remove(gw_list, m.who) /\ gw'.who = m.who
      BY <1>5, <2>3 DEF GwRecv, Leaver
    <3>2. IsInjective(gw_list') /\ m.who \notin ToSet(gw_list')
      BY <1>1, <3>1, OnceRemove DEF Once
    <3> QED
      BY <2>1, <3>1, <3>2 DEF Once
  <2> QED
    BY <2>2, <2>3
<1>6. CASE CheckTurn
  <2>1. gw'.pc = "check" /\ UNCHANGED answer
    BY <1>1, <1>6 DEF CheckTurn
  <2>2. IsInjective(gw_list')
    BY <1>1, <1>6, OnceRemove DEF CheckTurn, Once
  <2> QED
    BY <2>1, <2>2 DEF Once
<1>7. CASE SendPeerList
  <2>1. gw'.pc = "recv" /\ UNCHANGED gw_list
    BY <1>7 DEF SendPeerList, Idle
  <2>2. \A p \in Peer : answer'[p] = answer[p] \/ answer'[p] = gw_list
    BY <1>1, <1>7 DEF SendPeerList, CommonTypes
  <2> QED
    BY <2>1, <2>2 DEF Once
<1>8. CASE TellTurn \/ TellNobody
  <2>1. UNCHANGED <<gw_list, answer>>
    BY <1>8 DEF TellTurn, TellNobody
  <2>2. gw'.pc \in {"removed", "tell"} => gw.pc \in {"removed", "tell"} /\ gw'.who = gw.who
    <3>1. \/ gw' = Idle \/ gw' = [gw EXCEPT !.pc = "stuck"]
          \/ gw' = [gw EXCEPT !.pc = "tell", !.pos = @ + 1] /\ gw.pc \in {"removed", "tell"}
      BY <1>8 DEF TellTurn, TellNobody
    <3>2. CASE gw' = Idle
      BY <3>2 DEF Idle
    <3>3. CASE gw' = [gw EXCEPT !.pc = "stuck"]
      BY <1>1, <3>3
    <3>4. CASE gw' = [gw EXCEPT !.pc = "tell", !.pos = @ + 1] /\ gw.pc \in {"removed", "tell"}
      BY <1>1, <3>4
    <3> QED
      BY <3>1, <3>2, <3>3, <3>4
  <2> QED
    BY <2>1, <2>2 DEF Once
<1>9. CASE ServeClient
  <2>1. gw_list # <<>> /\ gw_list' = ring_next(gw_list) /\ UNCHANGED answer
        /\ (gw' = gw \/ gw' = [gw EXCEPT !.pc = "stuck"])
    BY <1>9 DEF ServeClient
  <2>2. IsInjective(gw_list') /\ ToSet(gw_list') = ToSet(gw_list)
    BY <1>1, <2>1, OnceNext, RingNext DEF Once
  <2>3. gw'.pc \in {"removed", "tell"} => gw' = gw
    BY <1>1, <2>1
  <2> QED
    BY <2>1, <2>2, <2>3 DEF Once
<1>10. ASSUME NEW m \in msgs, Handle(m) \/ HandleFails(m) PROVE Once'
  <2>1. m.to \in Peer
    BY <1>1 DEF CommonTypes, Messages
  <2> QED
    BY <1>3, <1>4, <1>10, <2>1 DEF Handle, HandleFails
<1>11. ASSUME NEW p \in Peer, Enter(p) PROVE Once'
  <2>1. CASE RecvList(p)
    BY <1>1, <1>3, <2>1 DEF RecvList, CommonTypes
  <2>2. CASE Start(p) \/ Tell(p) \/ Listen(p)
    BY <1>3, <2>2 DEF Start, Tell, Listen
  <2>3. CASE GiveUp(p) \/ TellFails(p) \/ NoPhotos(p)
    BY <1>3, <1>4, <2>3 DEF GiveUp, TellFails, NoPhotos
  <2> QED
    BY <1>11, <2>1, <2>2, <2>3 DEF Enter
<1>12. ASSUME NEW p \in Peer, Serve(p) PROVE Once'
  BY <1>3, <1>12 DEF Serve, WalkBegin, WalkTurn, WalkEnd
<1>13. ASSUME NEW p \in Peer, Exit(p) PROVE Once'
  BY <1>3, <1>4, <1>13 DEF Exit
<1> QED
  BY <1>5, <1>6, <1>7, <1>8, <1>9, <1>10, <1>11, <1>12, <1>13 DEF Next, GwStep
-----------------------------------------------------------------------------
LEMMA FirstStep ==
  ASSUME TypeInv, OutFresh, FirstTime, Next
  PROVE  FirstTime'
<1>1. /\ CommonTypes /\ GwTypes /\ gw_list \in Seq(Peer) /\ ToSet(<<>>) = {}
      /\ gw \in [pc : GwStages, who : Peer \cup {NoPeer}, exc : Peer \cup {NoPeer}, pos : Nat]
  BY DEF TypeInv, GwTypes, ToSet
<1>2. \A m \in inbox' : m.type = "join" => m.from = m.who
  <2>1. ASSUME NEW q \in Peer, NEW type \in {"join", "exit"}
        PROVE  Datagram(type, q, q).from = Datagram(type, q, q).who
    BY DEF Datagram
  <2>2. ASSUME NEW q, NEW r PROVE Datagram("loss", q, r).type # "join"
    BY DEF Datagram
  <2>3. \A m \in inbox' : \/ m \in inbox
                          \/ \E q \in Peer : m = Datagram("join", q, q) \/ m = Datagram("exit", q, q)
                          \/ \E q, r : m = Datagram("loss", q, r)
    BY DEF Next, GwStep, CheckTurn, SendPeerList, TellTurn, TellNobody, ServeClient, GwRecv,
       Handle, HandleFails, Enter, Start, GiveUp, RecvList, Tell, TellFails, NoPhotos, Listen,
       Serve, WalkBegin, WalkTurn, WalkEnd, Exit
  <2> QED
    BY <2>1, <2>2, <2>3 DEF FirstTime
<1> SUFFICES ASSUME NEW p \in Peer
             PROVE  /\ Joining(p)' => p \notin ToSet(gw_list') /\ ~AtGateway(p)'
                    /\ Unheard(p)' => Silent(p)'
  BY <1>2 DEF FirstTime
<1> DEFINE First == /\ Joining(p)' => p \notin ToSet(gw_list') /\ ~AtGateway(p)'
                    /\ Unheard(p)' => Silent(p)'
<1> HIDE DEF First
<1>3. /\ PeerTypes(p) /\ status[p] \in Stages
      /\ Joining(p) => p \notin ToSet(gw_list) /\ ~AtGateway(p)
      /\ Unheard(p) => Silent(p)
  BY DEF TypeInv, CommonTypes, FirstTime
<1>4. ASSUME UNCHANGED gateway, Joining(p)' => Joining(p), Silent(p) => Silent(p)' PROVE First
  <2>1. AtGateway(p)' = AtGateway(p) /\ gw_list' = gw_list
    BY <1>4 DEF AtGateway, gateway
  <2> QED
    BY <1>3, <1>4, <2>1 DEF Unheard, First
<1>5. ASSUME Silent(p), UNCHANGED <<status, answer, ring, msgs>>,
             gw'.pc \in {"removed", "tell"} => gw'.who # p,
             \A m \in inbox' : m.type # "join" => m.who # p
      PROVE  Silent(p)'
  BY <1>5 DEF Silent
<1>6. ASSUME NEW q \in Peer, End(q), UNCHANGED gateway,
             \A m \in inbox' : m \in inbox \/ (m.type # "join" /\ m.who = q),
             status[p] \in {"asking", "down"} => q # p \/ inbox' = inbox
      PROVE  First
  <2>1. Joining(p)' => Joining(p)
    BY <1>6 DEF Joining
  <2>2. ASSUME Silent(p) PROVE Silent(p)'
    <3>1. \A r \in Peer : /\ answer'[r] = answer[r] \/ answer'[r] = <<>>
                          /\ ring'[r] = ring[r] \/ ring'[r] = <<>>
      BY <1>1, <1>6, EndEffect
    <3>2. /\ status'[p] = status[p] \/ status'[p] = "down"
          /\ answer'[p] = answer[p] \/ answer'[p] = <<>>
          /\ msgs' \subseteq msgs
      BY <1>1, <1>6, EndEffect
    <3>3. \A m \in inbox' : m.type # "join" => m.who # p
      BY <1>6, <2>2 DEF Silent
    <3> QED
      BY <1>1, <1>6, <2>2, <3>1, <3>2, <3>3 DEF Silent, gateway
  <2> QED
    BY <1>4, <1>6, <2>1, <2>2
<1>7. ASSUME NEW m \in inbox, GwRecv(m) PROVE First
  <2>1. /\ m \in Datagrams /\ m.who \in Peer /\ UNCHANGED <<status, answer, ring, msgs>>
        /\ inbox' = inbox \ {m}
    BY <1>1, <1>7 DEF CommonTypes, Datagrams, GwRecv
  <2>2. Joining(p)' => Joining(p)
    BY <2>1 DEF Joining
  <2>3. Silent(p) => \A n \in inbox' : n.type # "join" => n.who # p
    BY <2>1 DEF Silent
  <2>4. CASE m.type = "join"
    <3>1. gw_list' = ring_append(gw_list, m.who) /\ gw'.pc = "added" /\ gw'.who = m.who
      BY <1>7, <2>4 DEF GwRecv
    <3>2. AtGateway(p)' => p = m.who
      BY <3>1 DEF AtGateway
    <3>3. p = m.who => ~Joining(p)'
      <4>1. ASSUME p = m.who, NEW n \in inbox, n.type = "join", n.who = p PROVE n = m
        <5>1. n \in Datagrams /\ n.from = p /\ m.from = p
          BY <1>1, <2>4, <4>1 DEF CommonTypes, FirstTime
        <5> QED
          BY <2>1, <2>4, <4>1, <5>1 DEF Datagrams
      <4> QED
        BY <2>1, <4>1 DEF Joining
    <3>4. Unheard(p)' => Unheard(p)
      BY <2>2, <2>4, <3>2 DEF Unheard, Joining
    <3>5. Unheard(p)' => Silent(p)'
      BY <1>3, <1>5, <2>1, <2>3, <3>1, <3>4
    <3>6. Joining(p)' => p \notin ToSet(gw_list')
      BY <1>1, <1>3, <2>1, <2>2, <3>1, <3>3, RingAppendSet
    <3> QED
      BY <3>2, <3>3, <3>5, <3>6 DEF First
  <2>5. CASE m.type # "join"
    <3>1. gw_list' = ring_remove(gw_list, m.who) /\ gw'.pc = "removed" /\ gw'.who = m.who
      BY <1>7, <2>5 DEF GwRecv, Leaver
    <3>2. ~AtGateway(p)'
      BY <3>1 DEF AtGateway
    <3>3. Silent(p) => m.who # p
      BY <2>5 DEF Silent
    <3>4. Unheard(p)' => Silent(p)'
      BY <1>3, <1>5, <2>1, <2>2, <2>3, <3>1, <3>2, <3>3 DEF Unheard
    <3>5. Joining(p)' => p \notin ToSet(gw_list')
      BY <1>1, <1>3, <2>2, <3>1, RingRemoveSet
    <3> QED
      BY <3>2, <3>4, <3>5 DEF First
  <2> QED
    BY <2>4, <2>5
<1>8. ASSUME CheckTurn \/ ServeClient \/ SendPeerList \/ TellNobody \/ TellTurn
      PROVE  First
  <2>1. /\ UNCHANGED <<inbox, status, ring>>
        /\ ToSet(gw_list') \subseteq ToSet(gw_list)
    <3>1. \/ gw_list' = gw_list
          \/ gw_list' = ring_next(gw_list) /\ gw_list # <<>>
          \/ gw_list' = ring_remove(gw_list, gw_list[gw.pos])
      <4>1. CheckTurn => gw_list' = gw_list \/ gw_list' = ring_remove(gw_list, gw_list[gw.pos])
        BY DEF CheckTurn
      <4>2. ServeClient => gw_list' = ring_next(gw_list) /\ gw_list # <<>>
        BY DEF ServeClient
      <4>3. SendPeerList \/ TellNobody \/ TellTurn => gw_list' = gw_list
        BY DEF SendPeerList, TellNobody, TellTurn
      <4> QED
        BY <1>8, <4>1, <4>2, <4>3
    <3>2. ToSet(gw_list') \subseteq ToSet(gw_list)
      BY <1>1, <3>1, RingNext, RingRemoveSet
    <3> QED
      BY <1>8, <3>2 DEF CheckTurn, ServeClient, SendPeerList, TellNobody, TellTurn
  <2>2. Joining(p)' <=> Joining(p)
    BY <2>1 DEF Joining
  <2>3. /\ AtGateway(p)' => AtGateway(p) /\ ~SendPeerList
        /\ gw'.pc \in {"removed", "tell"} => gw.pc \in {"removed", "tell"} /\ gw'.who = gw.who
    <3>1. \/ gw' = gw /\ ServeClient
          \/ gw' = Idle \/ gw' = [gw EXCEPT !.pc = "stuck"]
          \/ gw' = [gw EXCEPT !.pc = "tell", !.pos = @ + 1] /\ gw.pc \in {"removed", "tell"}
          \/ gw' = [gw EXCEPT !.pc = "check", !.pos = @ + 1] /\ gw.pc \in {"added", "check"}
             /\ CheckTurn
          \/ gw' = [gw EXCEPT !.pc = "check"] /\ gw.pc \in {"added", "check"} /\ CheckTurn
      BY <1>8 DEF CheckTurn, ServeClient, SendPeerList, TellNobody, TellTurn
    <3>2. CASE gw' = gw /\ ServeClient
      <4>1. ~SendPeerList
        BY <3>2 DEF SendPeerList, Idle
      <4> QED
        BY <3>2, <4>1 DEF AtGateway
    <3>3. CASE gw' = Idle
      BY <3>3 DEF Idle, AtGateway
    <3>4. CASE gw' = [gw EXCEPT !.pc = "stuck"]
      BY <1>1, <3>4 DEF AtGateway
    <3>5. CASE gw' = [gw EXCEPT !.pc = "tell", !.pos = @ + 1] /\ gw.pc \in {"removed", "tell"}
      BY <1>1, <3>5 DEF AtGateway
    <3>6. ASSUME \/ gw' = [gw EXCEPT !.pc = "check", !.pos = @ + 1]
                 \/ gw' = [gw EXCEPT !.pc = "check"],
                 gw.pc \in {"added", "check"}
          PROVE  gw'.pc = "check" /\ gw'.who = gw.who /\ gw' # Idle
      <4>1. CASE gw' = [gw EXCEPT !.pc = "check", !.pos = @ + 1]
        BY <1>1, <4>1 DEF Idle
      <4>2. CASE gw' = [gw EXCEPT !.pc = "check"]
        BY <1>1, <4>2 DEF Idle
      <4> QED
        BY <3>6, <4>1, <4>2
    <3>7. SendPeerList => gw' = Idle
      BY DEF SendPeerList
    <3> QED
      BY <3>1, <3>2, <3>3, <3>4, <3>5, <3>6, <3>7 DEF AtGateway
  <2>4. Unheard(p)' => Unheard(p)
    BY <2>2, <2>3 DEF Unheard
  <2>5. ASSUME Unheard(p)' PROVE Silent(p)'
    <3>1. Silent(p) /\ (gw'.pc \in {"removed", "tell"} => gw'.who # p)
          /\ \A m \in inbox' : m.type # "join" => m.who # p
      BY <1>3, <2>1, <2>3, <2>4, <2>5 DEF Silent
    <3>2. \A m \in msgs' : m.who # p
      <4>1. \A m \in msgs' : m \in msgs \/ (m.who = gw.who /\ gw.pc \in {"removed", "tell"})
        BY <1>8 DEF CheckTurn, ServeClient, SendPeerList, TellNobody, TellTurn, Message
      <4> QED
        BY <3>1, <4>1 DEF Silent
    <3>3. CASE ~SendPeerList
      <4>1. UNCHANGED answer
        BY <1>8, <3>3 DEF CheckTurn, ServeClient, TellNobody, TellTurn
      <4> QED
        BY <2>1, <3>1, <3>2, <4>1 DEF Silent
    <3>4. CASE SendPeerList
      <4>1. Joining(p)
        BY <2>2, <2>3, <2>5, <3>4 DEF Unheard
      <4>2. p \notin ToSet(gw_list) /\ p # gw.who
        BY <1>3, <3>4, <4>1 DEF AtGateway, SendPeerList
      <4>3. \A r \in Peer : answer'[r] = answer[r] \/ (r = gw.who /\ answer'[r] = gw_list)
        BY <1>1, <3>4 DEF SendPeerList, CommonTypes
      <4> QED
        BY <2>1, <3>1, <3>2, <4>2, <4>3 DEF Silent
    <3> QED
      BY <3>3, <3>4
  <2> QED
    BY <1>3, <2>1, <2>2, <2>3, <2>5 DEF First
<1>9. ASSUME NEW m \in msgs, Handle(m) PROVE First
  <2>1. m.to \in Peer /\ m.who \in Peer /\ ring[m.to] \in Seq(Peer)
        /\ UNCHANGED <<gateway, inbox, answer>> /\ msgs' \subseteq msgs
    BY <1>1, <1>9 DEF CommonTypes, Messages, Handle
  <2>2. ASSUME Silent(p) PROVE Silent(p)'
    <3>1. m.who # p /\ p \notin ToSet(ring[m.to])
      BY <2>1, <2>2 DEF Silent
    <3>2. /\ p \notin ToSet(delete_peer(ring[m.to], m.who))
          /\ p \notin ToSet(register_peer(ring[m.to], m.who))
      <4>1. p \notin ToSet(ring_append(ring[m.to], m.who))
        BY <2>1, <3>1, RingAppendSet
      <4>2. p \notin ToSet(ring_remove(ring[m.to], m.who))
        BY <2>1, <3>1, RingRemoveSet
      <4> QED
        BY <4>1, <4>2 DEF delete_peer, register_peer
    <3>3. \A r \in Peer : p \notin ToSet(ring'[r])
      BY <1>1, <1>9, <2>1, <2>2, <3>2 DEF Handle, CommonTypes, Silent
    <3>4. status'[p] = status[p] \/ status[p] = "waiting"
      BY <1>1, <1>9 DEF Handle, Awaits, CommonTypes
    <3> QED
      BY <2>1, <2>2, <3>3, <3>4 DEF Silent, gateway
  <2>3. Joining(p)' => Joining(p)
    BY <2>1 DEF Joining
  <2> QED
    BY <1>4, <2>1, <2>2, <2>3
<1>10. ASSUME NEW m \in msgs, HandleFails(m) PROVE First
  <2>1. m.to \in Peer /\ End(m.to) /\ UNCHANGED <<gateway, inbox>>
    BY <1>1, <1>10 DEF CommonTypes, Messages, HandleFails
  <2> QED
    BY <1>6, <2>1
<1>11. ASSUME NEW q \in Peer, Start(q) PROVE First
  <2>1. /\ inbox' = inbox \cup {Datagram("join", q, q)} /\ status[q] = "out"
        /\ status' = [status EXCEPT ![q] = "asking"]
        /\ UNCHANGED <<gateway, answer, ring, msgs>>
    BY <1>11 DEF Start
  <2>2. CASE q # p
    <3>1. Joining(p)' => Joining(p)
      BY <2>1, <2>2 DEF Joining, Datagram
    <3>2. status'[p] = status[p]
      BY <1>1, <2>1, <2>2 DEF CommonTypes
    <3>3. \A m \in inbox' : m \in inbox \/ m.type = "join"
      BY <2>1 DEF Datagram
    <3>4. Silent(p) => Silent(p)'
      BY <2>1, <3>2, <3>3 DEF Silent, gateway
    <3> QED
      BY <1>4, <2>1, <3>1, <3>4
  <2>3. CASE q = p
    <3>1. FreshGw(p) /\ FreshNet(p) /\ FreshRings(p) /\ answer[p] = <<>>
      BY <1>3, <2>1, <2>3 DEF OutFresh, PeerTypes
    <3>2. status'[p] = "asking" /\ \A m \in inbox' : m \in inbox \/ m.type = "join"
      BY <1>1, <2>1, <2>3 DEF CommonTypes, Datagram
    <3>3. Silent(p)'
      BY <2>1, <3>1, <3>2 DEF Silent, FreshGw, FreshNet, FreshRings, gateway
    <3>4. p \notin ToSet(gw_list') /\ ~AtGateway(p)'
      BY <2>1, <3>1 DEF FreshGw, AtGateway, gateway
    <3> QED
      BY <3>3, <3>4 DEF First
  <2> QED
    BY <2>2, <2>3
<1>12. ASSUME NEW q \in Peer, GiveUp(q) \/ TellFails(q) \/ (NoPhotos(q) /\ End(q)) PROVE First
  BY <1>6, <1>12 DEF GiveUp, TellFails, NoPhotos
<1>13. ASSUME NEW q \in Peer, NoPhotos(q), ~End(q) PROVE First
  <2>1. UNCHANGED <<gateway, inbox, answer, ring, msgs>> /\ status[q] = "waiting"
        /\ status' = [status EXCEPT ![q] = "entering"]
    BY <1>13 DEF NoPhotos
  <2>2. Silent(p) => Silent(p)'
    BY <1>1, <2>1 DEF Silent, CommonTypes, gateway
  <2> QED
    BY <1>4, <2>1, <2>2 DEF Joining
<1>14. ASSUME NEW q \in Peer, RecvList(q) PROVE First
  <2>1. /\ answer[q] # <<>> /\ answer[q] \in Seq(Peer) /\ UNCHANGED <<gateway, inbox, msgs>>
        /\ status[q] = "asking"
    BY <1>1, <1>14 DEF RecvList, CommonTypes
  <2>2. ASSUME Silent(p) PROVE Silent(p)'
    <3>1. p # q
      BY <2>1, <2>2 DEF Silent
    <3>2. \A r \in Peer : answer'[r] = answer[r] \/ answer'[r] = <<>>
      BY <1>1, <1>14 DEF RecvList, CommonTypes
    <3>3. \A r \in Peer : ring'[r] = ring[r] \/ ring'[r] = OwnRoot(answer[q])
      BY <1>1, <1>14 DEF RecvList, CommonTypes
    <3>4. p \notin ToSet(OwnRoot(answer[q]))
      BY <2>1, <2>2, OwnRootProperties DEF Silent
    <3>5. status'[p] = status[p] /\ answer'[p] = answer[p]
      BY <1>1, <1>14, <3>1 DEF RecvList, CommonTypes
    <3> QED
      BY <1>1, <2>1, <2>2, <3>2, <3>3, <3>4, <3>5 DEF Silent, gateway
  <2> QED
    BY <1>4, <2>1, <2>2 DEF Joining
<1>15. ASSUME NEW q \in Peer, Tell(q) PROVE First
  <2>1. /\ UNCHANGED <<gateway, inbox, answer, ring>> /\ status[q] = "entering" /\ ~Over(q)
        /\ cursor[q] > 0
    BY <1>15 DEF Tell, TypeInv, PeerTypes, CommonTypes
  <2>2. Head(ring[q]) \in ToSet(ring[q])
    BY <2>1, AtCursor
  <2>3. \A m \in msgs' : m \in msgs \/ m.who = Head(ring[q])
    BY <1>15 DEF Tell, Message
  <2>4. status'[p] = status[p] \/ p = q
    BY <1>1, <1>15 DEF Tell, CommonTypes
  <2>5. Silent(p) => Silent(p)'
    BY <2>1, <2>2, <2>3, <2>4 DEF Silent, gateway
  <2> QED
    BY <1>4, <2>1, <2>5 DEF Joining
<1>16. ASSUME NEW q \in Peer, Listen(q) PROVE First
  <2>1. /\ UNCHANGED <<gateway, inbox, answer, ring, msgs>> /\ status[q] = "entering"
        /\ status' = [status EXCEPT ![q] = "up"]
    BY <1>16 DEF Listen
  <2>2. Silent(p) => Silent(p)'
    BY <1>1, <2>1 DEF Silent, CommonTypes, gateway
  <2> QED
    BY <1>4, <2>1, <2>2 DEF Joining
<1>17. ASSUME NEW q \in Peer, WalkBegin(q) \/ WalkEnd(q) PROVE First
  <2>1. UNCHANGED <<gateway, inbox, status, answer, ring, msgs>>
    BY <1>17 DEF WalkBegin, WalkEnd
  <2> QED
    BY <1>4, <2>1 DEF Joining, Silent, gateway
<1>18. ASSUME NEW q \in Peer, WalkTurn(q) PROVE First
  <2>1. /\ UNCHANGED <<gateway, status, answer, msgs>> /\ ring[q] \in Seq(Peer)
        /\ ring[q][cursor[q]] \in ToSet(ring[q])
    BY <1>1, <1>18, AtCursor DEF WalkTurn, CommonTypes
  <2>2. \A m \in inbox' : m \in inbox \/ (m.type = "loss" /\ m.who = ring[q][cursor[q]])
    BY <1>18 DEF WalkTurn, Datagram
  <2>3. \A r \in Peer : ring'[r] = ring[r] \/ ring'[r] = ring_remove(ring[q], ring[q][cursor[q]])
    BY <1>1, <1>18 DEF WalkTurn, Drop, CommonTypes
  <2>4. ToSet(ring_remove(ring[q], ring[q][cursor[q]])) \subseteq ToSet(ring[q])
    BY <2>1, RingRemoveSet
  <2>5. Silent(p) => Silent(p)'
    BY <2>1, <2>2, <2>3, <2>4 DEF Silent, gateway
  <2>6. Joining(p)' => Joining(p)
    BY <2>2 DEF Joining
  <2> QED
    BY <1>4, <2>1, <2>5, <2>6
<1>19. ASSUME NEW q \in Peer, Exit(q) PROVE First
  <2>1. /\ status[q] \in {"entering", "waiting", "up"} /\ End(q) /\ UNCHANGED gateway
        /\ inbox' = inbox \cup {Datagram("exit", q, q)}
    BY <1>19 DEF Exit
  <2>2. \A m \in inbox' : m \in inbox \/ (m.type # "join" /\ m.who = q)
    BY <2>1 DEF Datagram
  <2> QED
    BY <1>6, <2>1, <2>2
<1>20. ASSUME GwStep \/ ServeClient PROVE First
  BY <1>8, <1>20 DEF GwStep
<1>21. ASSUME NEW q \in Peer, Enter(q) \/ Serve(q) \/ Exit(q) PROVE First
  BY <1>11, <1>12, <1>13, <1>14, <1>15, <1>16, <1>17, <1>18, <1>19, <1>21 DEF Enter, Serve
<1>22. First
  BY <1>7, <1>9, <1>10, <1>20, <1>21 DEF Next
<1> QED
  BY <1>22 DEF First
-----------------------------------------------------------------------------
(* A node that is added at the end leaves the root.                          *)
LEMMA AppendBelow ==
  ASSUME NEW S, NEW r \in Seq(S), r # <<>>, NEW k \in S
  PROVE  ring_append(r, k) # <<>> /\ Head(ring_append(r, k)) = Head(r)
<1> DEFINE s == ring_append(r, k)
<1>1. /\ s \in Seq(S) /\ s # <<>> /\ Len(s) = Len(r) + 1
      /\ \A i \in 1..Len(r) : s[i] = r[i]
  BY RingAppend, AppendProperties DEF ring_append
<1> HIDE DEF s
<1>2. Len(r) \in Nat /\ Len(r) >= 1 /\ Head(r) = r[1] /\ Head(s) = s[1]
  BY <1>1, InRing
<1>3. 1 \in 1..Len(r)
  BY <1>2
<1>4. Head(s) = Head(r)
  BY <1>1, <1>2, <1>3
<1> QED
  BY <1>1, <1>4 DEF s

(* What may change the ring of a peer in service.                            *)
LEMMA RingSteps ==
  ASSUME TypeInv, Next, NEW p \in Peer, Up(p), Up(p)'
  PROVE  \/ ring'[p] = ring[p]
         \/ \E m \in msgs :
              /\ Handle(m) /\ m.to = p
              /\ ring'[p] = IF m.type = "delete" THEN ring_remove(ring[p], m.who)
                            ELSE ring_append(ring[p], m.who)
         \/ \E q \in Peer :
              /\ WalkTurn(p) /\ q = ring[p][cursor[p]] /\ Refused(q)
              /\ ring'[p] = ring_remove(ring[p], q)
<1> DEFINE Steps ==
      \/ ring'[p] = ring[p]
      \/ \E m \in msgs :
           /\ Handle(m) /\ m.to = p
           /\ ring'[p] = IF m.type = "delete" THEN ring_remove(ring[p], m.who)
                         ELSE ring_append(ring[p], m.who)
      \/ \E q \in Peer :
           /\ WalkTurn(p) /\ q = ring[p][cursor[p]] /\ Refused(q)
           /\ ring'[p] = ring_remove(ring[p], q)
<1>1. CommonTypes /\ status[p] = "up" /\ status'[p] = "up"
  BY DEF TypeInv, Up
<1>2. ring'[p] = ring[p] => Steps
  OBVIOUS
<1>3. ASSUME NEW m \in msgs, Handle(m) PROVE Steps
  <2>1. m.to \in Peer
    BY <1>1 DEF CommonTypes, Messages
  <2>2. CASE m.to # p
    BY <1>1, <1>3, <2>1, <2>2 DEF Handle, CommonTypes
  <2>3. CASE m.to = p
    BY <1>1, <1>3, <2>1, <2>3 DEF Handle, CommonTypes, delete_peer, register_peer
  <2> QED
    BY <2>2, <2>3
<1>4. ASSUME NEW q \in Peer, WalkTurn(q) PROVE Steps
  <2>1. CASE q # p
    BY <1>1, <1>4, <2>1 DEF WalkTurn, Drop, CommonTypes
  <2>2. CASE q = p /\ ring'[p] # ring[p]
    <3>1. PICK r \in Peer : r = ring[p][cursor[p]]
      BY <1>4, <2>2, AtCursor DEF WalkTurn
    <3>2. Refused(r) /\ ring'[p] = ring_remove(ring[p], r)
      BY <1>1, <1>4, <2>2, <3>1 DEF WalkTurn, Drop, CommonTypes
    <3> QED
      BY <1>4, <2>2, <3>1, <3>2
  <2> QED
    BY <2>1, <2>2
<1> HIDE DEF Steps
<1>5. ASSUME NEW q \in Peer, End(q) PROVE Steps
  BY <1>1, <1>2, <1>5, EndEffect
<1>6. ASSUME NEW m \in msgs, HandleFails(m) PROVE Steps
  <2>1. m.to \in Peer
    BY <1>1 DEF CommonTypes, Messages
  <2> QED
    BY <1>5, <1>6, <2>1 DEF HandleFails
<1>7. ASSUME GwStep \/ ServeClient \/ \E m \in inbox : GwRecv(m) PROVE Steps
  BY <1>2, <1>7 DEF GwStep, CheckTurn, SendPeerList, TellTurn, TellNobody, ServeClient, GwRecv
<1>8. ASSUME NEW q \in Peer, Enter(q) PROVE Steps
  <2>1. CASE GiveUp(q) \/ TellFails(q) \/ (NoPhotos(q) /\ End(q))
    BY <1>5, <2>1 DEF GiveUp, TellFails
  <2>2. CASE Start(q) \/ Tell(q) \/ Listen(q) \/ (NoPhotos(q) /\ ~End(q))
    BY <1>2, <2>2 DEF Start, Tell, Listen, NoPhotos
  <2>3. CASE RecvList(q)
    BY <1>1, <1>2, <2>3 DEF RecvList, CommonTypes
  <2> QED
    BY <1>8, <2>1, <2>2, <2>3 DEF Enter
<1>9. ASSUME NEW q \in Peer, WalkBegin(q) \/ WalkEnd(q) PROVE Steps
  BY <1>2, <1>9 DEF WalkBegin, WalkEnd
<1>10. ASSUME NEW q \in Peer, Exit(q) PROVE Steps
  BY <1>5, <1>10 DEF Exit
<1>11. Steps
  BY <1>3, <1>4, <1>6, <1>7, <1>8, <1>9, <1>10 DEF Next, Serve
<1> QED
  BY <1>11 DEF Steps
-----------------------------------------------------------------------------
(* Messages go to peers that listen, and nobody is told that he has gone.    *)
Addressed == \A m \in msgs : Up(m.to) /\ (m.type = "delete" => m.who # m.to)

LEMMA AddressedStep ==
  ASSUME TypeInv, Once, Addressed, Next
  PROVE  Addressed'
<1>1. CommonTypes /\ GwTypes /\ \A m \in msgs : m.to \in Peer
  BY DEF TypeInv, CommonTypes, Messages
<1>2. ASSUME msgs' \subseteq msgs, \A x \in Peer : Up(x) => Up(x)' PROVE Addressed'
  BY <1>1, <1>2 DEF Addressed
<1>3. ASSUME NEW q \in Peer, End(q) PROVE Addressed'
  <2>1. \A m \in msgs' : m \in msgs /\ m.to # q
    BY <1>3 DEF End
  <2>2. \A x \in Peer : x # q => status'[x] = status[x]
    BY <1>1, <1>3, EndEffect
  <2> QED
    BY <1>1, <2>1, <2>2 DEF Addressed, Up
<1>4. ASSUME NEW m \in msgs, Handle(m) PROVE Addressed'
  <2>1. \A x \in Peer : status[x] = "up" => status'[x] = "up"
    BY <1>1, <1>4 DEF Handle, Awaits, CommonTypes
  <2> QED
    BY <1>2, <1>4, <2>1 DEF Handle, Up
<1>5. ASSUME NEW m \in msgs, HandleFails(m) PROVE Addressed'
  BY <1>1, <1>3, <1>5 DEF HandleFails
<1>6. ASSUME TellTurn PROVE Addressed'
  <2>1. /\ gw.pos \in 1..Len(gw_list) /\ gw_list \in Seq(Peer) /\ gw.who \notin ToSet(gw_list)
    BY <1>1, <1>6, InRing DEF TellTurn, GwTypes, Once
  <2>2. PICK q \in Peer : q = gw_list[gw.pos] /\ q \in ToSet(gw_list)
    BY <2>1, InRing
  <2>3. \A m \in msgs' : m \in msgs \/ (m = Message("delete", NoPeer, q, gw.who) /\ Up(q))
    BY <1>6, <2>2 DEF TellTurn
  <2>4. UNCHANGED status
    BY <1>6 DEF TellTurn
  <2>5. Message("delete", NoPeer, q, gw.who).to = q /\ Message("delete", NoPeer, q, gw.who).who = gw.who
    BY DEF Message
  <2> QED
    BY <2>1, <2>2, <2>3, <2>4, <2>5 DEF Addressed, Up
<1>7. ASSUME CheckTurn \/ SendPeerList \/ TellNobody \/ ServeClient \/ \E m \in inbox : GwRecv(m)
      PROVE  Addressed'
  BY <1>7 DEF CheckTurn, SendPeerList, TellNobody, ServeClient, GwRecv, Addressed, Up
<1>8. ASSUME NEW p \in Peer, Tell(p) PROVE Addressed'
  <2>1. /\ Up(ring[p][cursor[p]]) /\ status[p] = "entering"
        /\ \A m \in msgs' : m \in msgs \/ (m.to = ring[p][cursor[p]] /\ m.type # "delete")
    BY <1>8 DEF Tell, Message
  <2>2. \A x \in Peer : x # p => status'[x] = status[x]
    BY <1>1, <1>8 DEF Tell, CommonTypes
  <2>3. ring[p][cursor[p]] \in Peer
    <3>1. cursor[p] > 0 /\ ~Over(p)
      BY <1>8 DEF Tell, TypeInv, PeerTypes, CommonTypes
    <3> QED
      BY <3>1, AtCursor
  <2> QED
    BY <1>1, <2>1, <2>2, <2>3 DEF Addressed, Up
<1>9. ASSUME NEW p \in Peer, GiveUp(p) \/ TellFails(p) \/ (NoPhotos(p) /\ End(p)) \/ Exit(p)
      PROVE  Addressed'
  BY <1>3, <1>9 DEF GiveUp, TellFails, Exit
<1>10. ASSUME NEW p \in Peer, Start(p) \/ RecvList(p) \/ (NoPhotos(p) /\ ~End(p)) \/ Listen(p)
       PROVE  Addressed'
  <2>1. UNCHANGED msgs
    BY <1>10 DEF Start, RecvList, NoPhotos, Listen
  <2>2. \A x \in Peer : status[x] = "up" => status'[x] = "up"
    BY <1>1, <1>10 DEF Start, RecvList, NoPhotos, Listen, CommonTypes
  <2> QED
    BY <1>2, <2>1, <2>2 DEF Up
<1>11. ASSUME NEW p \in Peer, Serve(p) PROVE Addressed'
  BY <1>11 DEF Serve, WalkBegin, WalkTurn, WalkEnd, Addressed, Up
<1>12. ASSUME NEW p \in Peer, Enter(p) \/ Serve(p) \/ Exit(p) PROVE Addressed'
  BY <1>8, <1>9, <1>10, <1>11, <1>12 DEF Enter
<1> QED
  BY <1>4, <1>5, <1>6, <1>7, <1>12 DEF Next, GwStep
-----------------------------------------------------------------------------
(* A peer in the gateway's list, or one about to be told of a leaver.        *)
Owned(p) == p \in ToSet(gw_list) \/ \E m \in msgs : m.type = "delete" /\ m.to = p

(* The gateway's walk has the new peer before it, if it is still in the list *)
(* ...                                                                       *)
Before ==
  AtGateway(gw.who) /\ status[gw.who] = "asking" /\ gw.who \in ToSet(gw_list) =>
    \E i \in gw.pos..Len(gw_list) : gw_list[i] = gw.who

(* ... so that a peer that the gateway speaks to has its own node at the     *)
(* root, which no walk passes and no message removes.                        *)
RootedAt(p) ==
  /\ cursor[p] # 1
  /\ answer[p] # <<>> /\ Owned(p) => Last(answer[p]) = p
  /\ status[p] \in {"entering", "waiting", "up"} =>
       ring[p] # <<>> /\ (Owned(p) => Head(ring[p]) = p)
Rooted == Before /\ \A p \in Peer : RootedAt(p)

LEMMA OwnedStays ==
  ASSUME TypeInv, FirstTime, Next, NEW p \in Peer, Owned(p)',
         answer[p] # <<>> \/ status[p] \notin {"asking", "down"}
  PROVE  Owned(p)
<1>1. CommonTypes /\ GwTypes /\ gw_list \in Seq(Peer) /\ ~Joining(p)
  BY DEF TypeInv, GwTypes, FirstTime, Unheard, Silent
<1>2. ASSUME UNCHANGED gw_list, \A m \in msgs' : m.type = "delete" => m \in msgs PROVE Owned(p)
  BY <1>2 DEF Owned
<1>3. ASSUME ToSet(gw_list') \subseteq ToSet(gw_list), UNCHANGED msgs PROVE Owned(p)
  BY <1>3 DEF Owned
<1>4. ASSUME NEW m \in inbox, GwRecv(m) PROVE Owned(p)
  <2>1. m.who \in Peer /\ UNCHANGED msgs
    BY <1>1, <1>4 DEF CommonTypes, Datagrams, GwRecv
  <2>2. CASE m.type = "join"
    <3>1. gw_list' = ring_append(gw_list, m.who) /\ m.who # p
      BY <1>1, <1>4, <2>2 DEF GwRecv, Joining
    <3> QED
      BY <1>1, <2>1, <3>1, RingAppendSet DEF Owned
  <2>3. CASE m.type # "join"
    <3>1. gw_list' = ring_remove(gw_list, m.who)
      BY <1>4, <2>3 DEF GwRecv, Leaver
    <3> QED
      BY <1>1, <1>3, <2>1, <3>1, RingRemoveSet
  <2> QED
    BY <2>2, <2>3
<1>5. ASSUME CheckTurn PROVE Owned(p)
  BY <1>1, <1>3, <1>5, RingRemoveSet DEF CheckTurn
<1>6. ASSUME ServeClient PROVE Owned(p)
  BY <1>1, <1>3, <1>6, RingNext DEF ServeClient
<1>7. ASSUME SendPeerList \/ TellNobody PROVE Owned(p)
  BY <1>2, <1>7 DEF SendPeerList, TellNobody
<1>8. ASSUME TellTurn PROVE Owned(p)
  <2>1. gw.pos \in 1..Len(gw_list) /\ UNCHANGED gw_list
    BY <1>1, <1>8, InRing DEF TellTurn, GwTypes
  <2>2. gw_list[gw.pos] \in ToSet(gw_list)
    BY <1>1, <2>1, InRing
  <2>3. \A m \in msgs' : m \in msgs \/ m.to = gw_list[gw.pos]
    BY <1>8 DEF TellTurn, Message
  <2> QED
    BY <2>1, <2>2, <2>3 DEF Owned
<1>9. ASSUME NEW q \in Peer, End(q), UNCHANGED gw_list PROVE Owned(p)
  BY <1>2, <1>9 DEF End
<1>10. ASSUME NEW m \in msgs, Handle(m) \/ HandleFails(m) PROVE Owned(p)
  <2>1. m.to \in Peer
    BY <1>1 DEF CommonTypes, Messages
  <2> QED
    BY <1>2, <1>9, <1>10, <2>1 DEF Handle, HandleFails, gateway
<1>11. ASSUME NEW q \in Peer, Enter(q) PROVE Owned(p)
  <2>1. CASE GiveUp(q) \/ TellFails(q) \/ (NoPhotos(q) /\ End(q))
    BY <1>9, <2>1 DEF GiveUp, TellFails, NoPhotos, gateway
  <2>2. CASE Start(q) \/ RecvList(q) \/ Listen(q) \/ (NoPhotos(q) /\ ~End(q))
    BY <1>2, <2>2 DEF Start, RecvList, Listen, NoPhotos, gateway
  <2>3. CASE Tell(q)
    BY <1>2, <2>3 DEF Tell, Message, gateway
  <2> QED
    BY <1>11, <2>1, <2>2, <2>3 DEF Enter
<1>12. ASSUME NEW q \in Peer, Serve(q) \/ Exit(q) PROVE Owned(p)
  BY <1>2, <1>9, <1>12 DEF Serve, WalkBegin, WalkTurn, WalkEnd, Exit, gateway
<1> QED
  BY <1>4, <1>5, <1>6, <1>7, <1>8, <1>10, <1>11, <1>12 DEF Next, GwStep

(* What is behind the node that a walk drops comes one place nearer.         *)
LEMMA ClosesUp ==
  ASSUME NEW S, NEW r \in Seq(S), NEW k, NEW c \in 1..Len(r), r[c] = k,
         NEW n \in c..Len(r), r[n] # k
  PROVE  n - 1 \in c..Len(ring_remove(r, k)) /\ ring_remove(r, k)[n - 1] = r[n]
<1>1. \E i \in 1..Len(r) : r[i] = k
  OBVIOUS
<1>2. PICK j \in 1..Len(r) :
        /\ r[j] = k
        /\ \A i \in 1..Len(r) : i < j => r[i] # k
        /\ Len(ring_remove(r, k)) = Len(r) - 1
        /\ \A i \in 1..(Len(r) - 1) :
             ring_remove(r, k)[i] = IF i < j THEN r[i] ELSE r[i + 1]
  BY <1>1, RingRemoveKey, SMTT(60)
<1>3. Len(r) \in Nat /\ j <= c /\ n # c
  BY <1>2, LenProperties
<1>4. /\ n - 1 \in c..(Len(r) - 1) /\ n - 1 \in 1..(Len(r) - 1)
      /\ ~(n - 1 < j) /\ (n - 1) + 1 = n
  BY <1>3
<1> QED
  BY <1>2, <1>4

LEMMA BeforeStep ==
  ASSUME TypeInv, OutFresh, Once, Before, Next
  PROVE  Before'
<1> SUFFICES ASSUME AtGateway(gw.who)', status'[gw'.who] = "asking", gw'.who \in ToSet(gw_list')
             PROVE  \E i \in gw'.pos..Len(gw_list') : gw_list'[i] = gw'.who
  BY DEF Before
<1> DEFINE Ahead == \E i \in gw'.pos..Len(gw_list') : gw_list'[i] = gw'.who
<1>1. /\ CommonTypes /\ GwTypes /\ gw_list \in Seq(Peer) /\ Len(gw_list) \in Nat
      /\ gw \in [pc : GwStages, who : Peer \cup {NoPeer}, exc : Peer \cup {NoPeer}, pos : Nat]
      /\ gw'.pc \in {"added", "check"}
  BY InRing DEF TypeInv, GwTypes, AtGateway
<1>2. ASSUME UNCHANGED gw PROVE gw.who \in Peer /\ status[gw.who] = "asking" /\ AtGateway(gw.who)
  <2>1. gw.who \in Peer
    BY <1>1, <1>2 DEF GwTypes
  <2>2. status[gw.who] # "out"
    BY <2>1 DEF OutFresh, FreshGw
  <2>3. status[gw.who] = "asking"
    BY <1>1, <1>2, <2>1, <2>2, PeerSteps DEF CommonTypes, Ends, Start, RecvList, Tell, Listen,
       GetsPhotos, Remains
  <2> QED
    BY <1>1, <1>2, <2>1, <2>3 DEF AtGateway
<1> HIDE DEF Ahead
<1>3. ASSUME UNCHANGED gateway PROVE Ahead
  BY <1>2, <1>3 DEF Before, gateway, Ahead
<1>4. ASSUME NEW m \in inbox, GwRecv(m) PROVE Ahead
  <2>1. m.who \in Peer /\ m.type = "join"
    BY <1>1, <1>4 DEF CommonTypes, Datagrams, GwRecv
  <2>2. gw_list' = ring_append(gw_list, m.who) /\ gw'.who = m.who /\ gw'.pos = 1
    BY <1>4, <2>1 DEF GwRecv
  <2>3. Len(gw_list') = Len(gw_list) + 1 /\ gw_list'[Len(gw_list) + 1] = m.who
    <3>1. gw_list \in Seq(Peer)
      BY <1>1
    <3> QED
      BY <2>1, <2>2, <3>1, RingAppend
  <2>4. Len(gw_list) + 1 \in gw'.pos..Len(gw_list')
    BY <1>1, <2>2, <2>3
  <2> QED
    BY <2>2, <2>3, <2>4 DEF Ahead
<1>5. ASSUME CheckTurn PROVE Ahead
  <2>1. /\ gw.pos \in 1..Len(gw_list) /\ gw.pos < Len(gw_list) /\ gw.pc \in {"added", "check"}
        /\ UNCHANGED status
    BY <1>1, <1>5 DEF CheckTurn, GwTypes
  <2>2. PICK q \in Peer : q = gw_list[gw.pos]
    BY <1>1, <2>1, InRing
  <2>3. gw'.who = gw.who /\ gw.who \in Peer /\ AtGateway(gw.who)
    BY <1>1, <1>5, <2>1 DEF CheckTurn, AtGateway, GwTypes
  <2>4. ToSet(gw_list') \subseteq ToSet(gw_list)
    BY <1>1, <1>5, RingRemoveSet DEF CheckTurn
  <2>5. PICK i \in gw.pos..Len(gw_list) : gw_list[i] = gw.who
    BY <2>1, <2>3, <2>4 DEF Before
  <2>6. CASE Up(q) /\ gw' = [gw EXCEPT !.pc = "check", !.pos = @ + 1] /\ UNCHANGED gw_list
    <3>1. gw'.pos = gw.pos + 1 /\ gw.who # q
      BY <1>1, <2>1, <2>3, <2>6 DEF Up
    <3>2. i \in (gw.pos + 1)..Len(gw_list)
      BY <1>1, <2>1, <2>2, <2>5, <3>1
    <3> QED
      BY <2>3, <2>5, <2>6, <3>1, <3>2 DEF Ahead
  <2>7. CASE /\ gw' = [gw EXCEPT !.pc = "check"]
             /\ gw_list' = ring_remove(gw_list, q)
    <3>1. gw'.pos = gw.pos
      BY <1>1, <2>7
    <3>2. gw.who # q
      BY <1>1, <2>3, <2>7, OnceRemove DEF Once
    <3>3. i - 1 \in gw.pos..Len(gw_list') /\ gw_list'[i - 1] = gw.who
      BY <1>1, <2>1, <2>2, <2>5, <2>7, <3>2, ClosesUp
    <3> QED
      BY <2>3, <3>1, <3>3 DEF Ahead
  <2> QED
    BY <1>5, <2>2, <2>6, <2>7 DEF CheckTurn
<1>6. ~SendPeerList /\ ~TellNobody
  BY <1>1 DEF SendPeerList, TellNobody, Idle
<1>7. ~TellTurn
  <2>1. TellTurn => \/ gw' = Idle \/ gw' = [gw EXCEPT !.pc = "stuck"]
                    \/ gw' = [gw EXCEPT !.pc = "tell", !.pos = @ + 1]
    BY DEF TellTurn
  <2>2. gw' # Idle
    BY <1>1 DEF Idle
  <2>3. gw' # [gw EXCEPT !.pc = "stuck"]
    BY <1>1
  <2>4. gw' # [gw EXCEPT !.pc = "tell", !.pos = @ + 1]
    BY <1>1
  <2> QED
    BY <2>1, <2>2, <2>3, <2>4
<1>8. ASSUME ServeClient PROVE Ahead
  <2>1. /\ gw_list # <<>> /\ gw_list' = ring_next(gw_list)
        /\ gw.pc \in {"recv", "added", "removed"}
    BY <1>8 DEF ServeClient
  <2>2. gw_list' \in Seq(Peer)
    BY <1>1, <2>1, RingNext
  <2>3. UNCHANGED gw
    <3>1. gw' # [gw EXCEPT !.pc = "stuck"]
      BY <1>1
    <3> QED
      BY <1>8, <3>1 DEF ServeClient
  <2>4. gw'.pos = 1
    BY <1>1, <2>1, <2>3 DEF GwTypes
  <2>5. \E h \in 1..Len(gw_list') : gw_list'[h] = gw'.who
    BY <2>2, InRing
  <2> QED
    BY <2>4, <2>5 DEF Ahead
<1>9. ASSUME NEW p \in Peer, Enter(p) \/ Serve(p) \/ Exit(p) PROVE UNCHANGED gateway
  BY <1>9 DEF Enter, Start, GiveUp, RecvList, Tell, TellFails, NoPhotos, Listen, Serve,
     WalkBegin, WalkTurn, WalkEnd, Exit
<1>10. ASSUME NEW m \in msgs, Handle(m) \/ HandleFails(m) PROVE UNCHANGED gateway
  BY <1>10 DEF Handle, HandleFails
<1>11. Ahead
  BY <1>3, <1>4, <1>5, <1>6, <1>7, <1>8, <1>9, <1>10 DEF Next, GwStep
<1> QED
  BY <1>11 DEF Ahead

(* No walk stands at the root.                                               *)
LEMMA CursorStep ==
  ASSUME TypeInv, Next, NEW p \in Peer, cursor[p] # 1
  PROVE  cursor'[p] # 1
<1>1. CommonTypes /\ cursor[p] \in Nat
  BY DEF TypeInv, CommonTypes
<1>2. \/ cursor'[p] \in {cursor[p], 0, 2}
      \/ cursor'[p] = cursor[p] + 1 /\ cursor[p] > 0
  <2>1. ASSUME NEW q \in Peer, End(q) PROVE cursor'[p] \in {cursor[p], 0}
    BY <1>1, <2>1, EndEffect
  <2>2. ASSUME NEW m \in msgs, Handle(m) \/ HandleFails(m) PROVE cursor'[p] \in {cursor[p], 0}
    <3>1. m.to \in Peer
      BY <1>1 DEF CommonTypes, Messages
    <3> QED
      BY <2>1, <2>2, <3>1 DEF Handle, HandleFails
  <2>3. ASSUME GwStep \/ ServeClient \/ \E m \in inbox : GwRecv(m) PROVE cursor'[p] = cursor[p]
    BY <2>3 DEF GwStep, CheckTurn, SendPeerList, TellTurn, TellNobody, ServeClient, GwRecv
  <2>4. ASSUME NEW q \in Peer,
               GiveUp(q) \/ TellFails(q) \/ NoPhotos(q) \/ Exit(q) \/ Start(q)
        PROVE  cursor'[p] \in {cursor[p], 0}
    BY <2>1, <2>4 DEF GiveUp, TellFails, NoPhotos, Exit, Start
  <2>5. ASSUME NEW q \in Peer, RecvList(q) \/ Listen(q) \/ WalkBegin(q) \/ WalkEnd(q)
        PROVE  cursor'[p] \in {cursor[p], 0, 2}
    BY <1>1, <2>5 DEF RecvList, Listen, WalkBegin, WalkEnd, CommonTypes
  <2>6. ASSUME NEW q \in Peer, Tell(q) \/ WalkTurn(q)
        PROVE  cursor'[p] = cursor[p] \/ (cursor'[p] = cursor[p] + 1 /\ cursor[p] > 0)
    <3>1. cursor[q] > 0
      BY <2>6 DEF Tell, WalkTurn, TypeInv, PeerTypes, CommonTypes
    <3> QED
      BY <1>1, <2>6, <3>1 DEF Tell, WalkTurn, Drop, CommonTypes
  <2> QED
    BY <2>2, <2>3, <2>4, <2>5, <2>6 DEF Next, Enter, Serve
<1> QED
  BY <1>1, <1>2

LEMMA RootedStep ==
  ASSUME TypeInv, OutFresh, Once, FirstTime, Addressed, Rooted, Next
  PROVE  Rooted'
<1> SUFFICES ASSUME NEW p \in Peer PROVE RootedAt(p)'
  BY BeforeStep DEF Rooted
<1>1. /\ CommonTypes /\ GwTypes /\ PeerTypes(p) /\ RootedAt(p) /\ Before
      /\ ring[p] \in Seq(Peer) /\ answer[p] \in Seq(Peer) /\ cursor[p] \in Nat
  BY DEF TypeInv, CommonTypes, Rooted
<1>2. cursor'[p] # 1
  BY <1>1, CursorStep DEF RootedAt
<1>3. answer[p] # <<>> \/ status[p] \notin {"asking", "down"} => (Owned(p)' => Owned(p))
  BY OwnedStays
<1>4. CASE Ends(p)
  BY <1>2, <1>4 DEF Ends, RootedAt
<1>5. CASE Start(p)
  BY <1>1, <1>2, <1>5 DEF Start, CommonTypes, PeerTypes, RootedAt
<1>6. CASE RecvList(p)
  <2>1. /\ answer[p] # <<>> /\ answer'[p] = <<>> /\ ring'[p] = OwnRoot(answer[p])
    BY <1>1, <1>6 DEF RecvList, CommonTypes
  <2>2. ring'[p] # <<>> /\ Head(ring'[p]) = Last(answer[p])
    BY <1>1, <2>1, OwnRootProperties
  <2> QED
    BY <1>1, <1>2, <1>3, <2>1, <2>2 DEF RootedAt
<1>7. CASE Tell(p) \/ Listen(p) \/ GetsPhotos(p)
  <2>1. /\ status[p] \in {"entering", "waiting"} /\ ring'[p] = ring[p]
        /\ answer'[p] = answer[p]
    BY <1>7 DEF Tell, Listen, GetsPhotos
  <2>2. answer[p] = <<>>
    BY <1>1, <2>1 DEF PeerTypes
  <2> QED
    BY <1>1, <1>2, <1>3, <2>1, <2>2 DEF RootedAt
<1>8. CASE Remains(p)
  <2>1. ASSUME answer'[p] # <<>>, Owned(p)' PROVE Last(answer'[p]) = p
    <3>1. CASE answer'[p] = answer[p]
      BY <1>1, <1>3, <2>1, <3>1 DEF RootedAt
    <3>2. CASE SendPeerList /\ p = gw.who /\ status[p] = "asking" /\ answer'[p] = gw_list
      <4>1. /\ gw.pc \in {"added", "check"} /\ gw.pos >= Len(gw_list)
            /\ gw.pos \in Nat /\ gw.pos >= 1 /\ gw_list \in Seq(Peer) /\ Len(gw_list) \in Nat
            /\ UNCHANGED <<gw_list, msgs>>
        BY <1>1, <3>2, InRing DEF SendPeerList, GwTypes
      <4>2. p \in ToSet(gw_list)
        BY <2>1, <3>2, <4>1 DEF Owned, Addressed, Up
      <4>3. PICK i \in gw.pos..Len(gw_list) : gw_list[i] = p
        BY <1>1, <3>2, <4>1, <4>2 DEF Before, AtGateway
      <4>4. i = Len(gw_list)
        BY <4>1, <4>3
      <4> QED
        BY <3>2, <4>3, <4>4 DEF Last
    <3> QED
      BY <1>8, <3>1, <3>2 DEF Remains
  <2>2. ASSUME status'[p] \in {"entering", "waiting", "up"}
        PROVE  ring'[p] # <<>> /\ (Owned(p)' => Head(ring'[p]) = p)
    <3>1. /\ status[p] \in {"entering", "waiting", "up"} /\ ring[p] # <<>>
          /\ Owned(p)' => Head(ring[p]) = p
      BY <1>1, <1>3, <1>8, <2>2 DEF Remains, RootedAt
    <3>2. CASE ring'[p] = ring[p]
      BY <3>1, <3>2
    <3>3. CASE ring'[p] # ring[p]
      <4>1. Up(p) /\ Up(p)'
        BY <1>8, <3>1, <3>3 DEF Remains, Up
      <4>2. \/ \E m \in msgs :
                 /\ Handle(m) /\ m.to = p
                 /\ ring'[p] = IF m.type = "delete" THEN ring_remove(ring[p], m.who)
                               ELSE ring_append(ring[p], m.who)
            \/ \E q \in Peer :
                 /\ WalkTurn(p) /\ q = ring[p][cursor[p]] /\ Refused(q)
                 /\ ring'[p] = ring_remove(ring[p], q)
        BY <3>3, <4>1, RingSteps
      <4>3. ASSUME NEW m \in msgs, m.to = p, m.type = "delete",
                   ring'[p] = ring_remove(ring[p], m.who)
            PROVE  ring'[p] # <<>> /\ Head(ring'[p]) = Head(ring[p])
        <5>1. m.who # p /\ Owned(p)
          BY <4>3 DEF Addressed, Owned
        <5>2. Head(ring[p]) = p
          BY <1>1, <3>1, <5>1 DEF RootedAt
        <5> QED
          BY <1>1, <3>1, <4>3, <5>1, <5>2, RemoveBelow
      <4>4. ASSUME NEW m \in msgs, ring'[p] = ring_append(ring[p], m.who)
            PROVE  ring'[p] # <<>> /\ Head(ring'[p]) = Head(ring[p])
        <5>1. m.who \in Peer
          BY <1>1 DEF CommonTypes, Messages
        <5> QED
          BY <1>1, <3>1, <4>4, <5>1, AppendBelow
      <4>5. ASSUME NEW q \in Peer, WalkTurn(p), q = ring[p][cursor[p]], Refused(q),
                   ring'[p] = ring_remove(ring[p], q)
            PROVE  ring'[p] # <<>> /\ (Head(ring[p]) = p => Head(ring'[p]) = p)
        <5>1. q # p
          BY <4>1, <4>5 DEF Refused
        <5>2. CASE Head(ring[p]) = p
          BY <1>1, <3>1, <4>5, <5>1, <5>2, RemoveBelow
        <5>3. CASE Head(ring[p]) # p
          <6>1. cursor[p] \in 1..Len(ring[p]) /\ cursor[p] # 1
            BY <1>1, <4>5, AtCursor DEF WalkTurn, RootedAt
          <6>2. Len(ring[p]) \in Nat /\ Len(ring[p]) >= 2
            BY <1>1, <6>1, InRing
          <6>3. Len(ring'[p]) = Len(ring[p]) - 1 /\ ring'[p] \in Seq(Peer)
            BY <1>1, <4>5, <6>1, DropOne, RingRemoveType
          <6>4. Len(ring'[p]) >= 1
            BY <6>2, <6>3
          <6> QED
            BY <5>3, <6>3, <6>4, InRing
        <5> QED
          BY <5>2, <5>3
      <4> QED
        BY <3>1, <4>2, <4>3, <4>4, <4>5
    <3> QED
      BY <3>2, <3>3
  <2> QED
    BY <1>2, <2>1, <2>2 DEF RootedAt
<1> QED
  BY <1>4, <1>5, <1>6, <1>7, <1>8, PeerSteps
-----------------------------------------------------------------------------
(* The peers that a new peer will tell of itself.                            *)
Untold(p) ==
  CASE status[p] = "asking" -> ToSet(answer[p]) \ {p}
    [] status[p] \in {"entering", "waiting"} -> {ring[p][i] : i \in cursor[p]..Len(ring[p])} \ {p}
    [] OTHER -> {}

(* If no probe came too early, none of them knows of it yet, nobody is told  *)
(* twice, or of one he knows, and no peer is in a ring twice.                *)
Stranger(p, x) == p \notin Lst(x) /\ ~Told(x, p)
Strangers ==
  hasty = {} =>
    /\ \A p \in Peer : \A x \in Untold(p) : Stranger(p, x)
    /\ \A m \in msgs : m.type # "delete" => m.who \notin ToSet(ring[m.to])
    /\ \A m, n \in msgs : m.type # "delete" /\ n.type # "delete" /\ m.to = n.to /\ m.who = n.who
                          => m = n
    /\ \A p \in Peer : IsInjective(ring[p])

(* The peers still to be told are in the list of the new peer.               *)
LEMMA UntoldListed ==
  ASSUME TypeInv, NEW p \in Peer, NEW x \in Untold(p)
  PROVE  /\ x \in Peer /\ x # p /\ x \in Lst(p)
         /\ status[p] \in {"asking", "entering", "waiting"}
<1>1. answer[p] \in Seq(Peer) /\ ring[p] \in Seq(Peer) /\ cursor[p] \in Nat /\ PeerTypes(p)
  BY DEF TypeInv, CommonTypes
<1>2. CASE status[p] = "asking"
  <2>1. x \in ToSet(answer[p]) \ {p}
    BY <1>2 DEF Untold
  <2>2. x \in Peer
    <3>1. \E i \in 1..Len(answer[p]) : answer[p][i] = x
      BY <1>1, <2>1, InRing
    <3> QED
      BY <1>1, <3>1, InRing
  <2> QED
    BY <1>2, <2>1, <2>2 DEF Lst
<1>3. CASE status[p] \in {"entering", "waiting"}
  <2>1. x \in {ring[p][i] : i \in cursor[p]..Len(ring[p])} /\ x # p
    BY <1>3 DEF Untold
  <2>2. PICK i \in cursor[p]..Len(ring[p]) : x = ring[p][i]
    BY <2>1
  <2>3. i \in 1..Len(ring[p])
    BY <1>1, <1>3, InRing DEF PeerTypes
  <2>4. x \in Peer /\ x \in ToSet(ring[p])
    BY <1>1, <2>2, <2>3, InRing
  <2> QED
    BY <1>3, <2>1, <2>4 DEF Lst
<1>4. CASE status[p] \notin {"asking", "entering", "waiting"}
  BY <1>4 DEF Untold
<1> QED
  BY <1>2, <1>3, <1>4

(* A peer tells of itself the one at its cursor, which it has then told.     *)
LEMMA Tells ==
  ASSUME KnowInv, Strangers, hasty = {}, NEW p \in Peer, Tell(p)
  PROVE  /\ status[p] = "entering" /\ status' \in [Peer -> Stages]
         /\ status'[p] \in {"entering", "waiting"}
         /\ \A x \in Peer : x # p => status'[x] = status[x]
         /\ \A x \in Peer : x # p => cursor'[x] = cursor[x]
         /\ UNCHANGED <<ring, answer>>
         /\ cursor[p] \in 1..Len(ring[p]) /\ cursor'[p] = cursor[p] + 1
         /\ \E x \in Peer : /\ x = ring[p][cursor[p]] /\ Up(x) /\ x \in Untold(p)
                            /\ \E type \in {"ask", "register"} :
                                 msgs' = msgs \cup {Message(type, p, x, p)}
<1>1. TypeInv /\ CommonTypes /\ cursor[p] > 0 /\ ~Over(p) /\ status[p] = "entering"
      /\ cursor[p] \in Nat
  <2>1. TypeInv
    BY DEF KnowInv, ListInv
  <2>2. status[p] = "entering" /\ ~Over(p)
    BY DEF Tell
  <2>3. CommonTypes /\ PeerTypes(p) /\ cursor[p] \in Nat
    BY <2>1 DEF TypeInv, CommonTypes
  <2>4. cursor[p] > 0
    BY <2>2, <2>3 DEF PeerTypes
  <2> QED
    BY <2>1, <2>2, <2>3, <2>4
<1>2. cursor[p] \in 1..Len(ring[p]) /\ ring[p][cursor[p]] \in Peer /\ Len(ring[p]) \in Nat
  <2>1. cursor[p] \in 1..Len(ring[p]) /\ ring[p][cursor[p]] \in Peer
    BY <1>1, AtCursor
  <2> QED
    BY <1>1, <2>1, InRing DEF CommonTypes
<1>3. Head(ring[p]) = p
  BY <1>1 DEF KnowInv, Own
<1>4. /\ status'[p] \in {"entering", "waiting"} /\ status' \in [Peer -> Stages]
      /\ \A x \in Peer : x # p => status'[x] = status[x]
  BY <1>1 DEF Tell, CommonTypes, Stages
<1>5. /\ \A x \in Peer : x # p => cursor'[x] = cursor[x]
      /\ UNCHANGED <<ring, answer>> /\ cursor'[p] = cursor[p] + 1
  BY <1>1 DEF Tell, CommonTypes
<1>6. PICK x \in Peer : x = ring[p][cursor[p]]
  BY <1>2
<1>7. Up(x) /\ x # p
  BY <1>1, <1>6 DEF Tell, Up
<1>8. x \in Untold(p)
  <2>1. cursor[p] \in cursor[p]..Len(ring[p])
    BY <1>2
  <2>2. Untold(p) = {ring[p][i] : i \in cursor[p]..Len(ring[p])} \ {p}
    BY <1>1 DEF Untold
  <2> QED
    BY <1>6, <1>7, <2>1, <2>2
<1>9. \E type \in {"ask", "register"} : msgs' = msgs \cup {Message(type, p, x, p)}
  BY <1>3, <1>6 DEF Tell
<1> QED
  BY <1>1, <1>2, <1>4, <1>5, <1>6, <1>7, <1>8, <1>9

LEMMA NewMessages ==
  ASSUME KnowInv, Strangers, hasty = {}, Next
  PROVE  \A m \in msgs' : \/ m \in msgs \/ m.type = "delete"
                          \/ Tell(m.who) /\ m.to = ring[m.who][cursor[m.who]] /\ m.who \in Peer
<1> SUFFICES ASSUME NEW m \in msgs', m \notin msgs, m.type # "delete"
             PROVE  Tell(m.who) /\ m.to = ring[m.who][cursor[m.who]] /\ m.who \in Peer
  OBVIOUS
<1>1. CommonTypes /\ \A n \in msgs : n.to \in Peer
  BY DEF KnowInv, ListInv, TypeInv, CommonTypes, Messages
<1>2. \A q \in Peer : ~End(q)
  BY DEF End
<1>3. ~TellTurn
  BY DEF TellTurn, Message
<1>4. ~(GwStep \/ ServeClient \/ \E n \in inbox : GwRecv(n))
  BY <1>3 DEF GwStep, CheckTurn, SendPeerList, TellNobody, ServeClient, GwRecv
<1>5. ~ \E n \in msgs : Handle(n) \/ HandleFails(n)
  BY <1>1, <1>2 DEF Handle, HandleFails
<1>6. ~ \E q \in Peer : Serve(q) \/ Exit(q)
  BY <1>2 DEF Serve, WalkBegin, WalkTurn, WalkEnd, Exit
<1>7. PICK q \in Peer : Enter(q)
  BY <1>4, <1>5, <1>6 DEF Next
<1>8. Tell(q)
  BY <1>2, <1>7 DEF Enter, Start, GiveUp, RecvList, TellFails, NoPhotos, Listen
<1>9. PICK x \in Peer : /\ x = ring[q][cursor[q]]
                        /\ \E type \in {"ask", "register"} : msgs' = msgs \cup {Message(type, q, x, q)}
  BY <1>8, Tells
<1>10. m.who = q /\ m.to = x
  BY <1>9 DEF Message
<1> QED
  BY <1>8, <1>9, <1>10
-----------------------------------------------------------------------------
(* What a peer may add to its list: the gateway's own, or a peer it is told. *)
LEMMA LstGrows ==
  ASSUME KnowInv, FirstTime, Next, NEW x \in Peer, NEW y, y \in Lst(x)'
  PROVE  \/ y \in Lst(x)
         \/ SendPeerList /\ x = gw.who
         \/ \E m \in msgs : Handle(m) /\ m.type # "delete" /\ m.to = x /\ m.who = y
<1>1. /\ TypeInv /\ CommonTypes /\ PeerTypes(x) /\ ToSet(<<>>) = {}
      /\ ring[x] \in Seq(Peer) /\ answer[x] \in Seq(Peer)
  BY DEF KnowInv, ListInv, TypeInv, CommonTypes, ToSet
<1>2. CASE Ends(x)
  BY <1>1, <1>2 DEF Ends, Lst
<1>3. CASE Start(x)
  <2>1. answer'[x] = <<>> /\ status'[x] = "asking"
    BY <1>1, <1>3 DEF Start, PeerTypes, CommonTypes
  <2> QED
    BY <1>1, <2>1 DEF Lst
<1>4. CASE RecvList(x)
  <2>1. /\ answer[x] # <<>> /\ status[x] = "asking" /\ status'[x] = "entering"
        /\ ring'[x] = OwnRoot(answer[x])
    BY <1>1, <1>4 DEF RecvList, CommonTypes
  <2> QED
    BY <1>1, <2>1, OwnRootProperties DEF Lst
<1>5. CASE Tell(x) \/ Listen(x) \/ GetsPhotos(x)
  <2>1. status[x] # "asking" /\ status'[x] # "asking" /\ ring'[x] = ring[x]
    BY <1>1, <1>5 DEF Tell, Listen, GetsPhotos, CommonTypes
  <2> QED
    BY <2>1 DEF Lst
<1>6. CASE Remains(x)
  <2>1. CASE status[x] = "asking"
    BY <1>6, <2>1 DEF Remains, Lst
  <2>2. CASE status[x] # "asking" /\ ring'[x] = ring[x]
    BY <1>6, <2>2 DEF Remains, Lst
  <2>3. CASE status[x] # "asking" /\ ring'[x] # ring[x]
    <3>1. Up(x) /\ Up(x)' /\ y \in ToSet(ring'[x])
      BY <1>6, <2>3 DEF Remains, Up, Lst
    <3>2. \/ \E m \in msgs :
               /\ Handle(m) /\ m.to = x
               /\ ring'[x] = IF m.type = "delete" THEN ring_remove(ring[x], m.who)
                             ELSE ring_append(ring[x], m.who)
          \/ \E q \in Peer :
               /\ WalkTurn(x) /\ q = ring[x][cursor[x]] /\ Refused(q)
               /\ ring'[x] = ring_remove(ring[x], q)
      BY <1>1, <2>3, <3>1, RingSteps
    <3>3. ASSUME NEW k, ring'[x] = ring_remove(ring[x], k) PROVE y \in Lst(x)
      BY <1>1, <2>3, <3>1, <3>3, RingRemoveSet DEF Lst
    <3>4. ASSUME NEW m \in msgs, Handle(m), m.to = x, m.type # "delete",
                 ring'[x] = ring_append(ring[x], m.who)
          PROVE  y \in Lst(x) \/ m.who = y
      <4>1. m.who \in Peer
        BY <1>1 DEF CommonTypes, Messages
      <4> QED
        BY <1>1, <2>3, <3>1, <3>4, <4>1, RingAppendSet DEF Lst
    <3> QED
      BY <3>2, <3>3, <3>4
  <2> QED
    BY <2>1, <2>2, <2>3
<1> QED
  BY <1>1, <1>2, <1>3, <1>4, <1>5, <1>6, PeerSteps

(* A peer that is at the gateway is a stranger to all.                       *)
LEMMA Served ==
  ASSUME TypeInv, FirstTime, SendPeerList
  PROVE  gw.who \in Peer /\ Silent(gw.who) /\ UNCHANGED <<msgs, ring>>
<1>1. gw.who \in Peer /\ AtGateway(gw.who)
  BY DEF TypeInv, GwTypes, SendPeerList, AtGateway
<1> QED
  BY <1>1 DEF FirstTime, Unheard, SendPeerList

(* A peer adds none to those it will tell once it has its list.              *)
LEMMA UntoldShrinks ==
  ASSUME KnowInv, FirstTime, Strangers, hasty = {}, Next,
         NEW p \in Peer, NEW x, x \in Untold(p)'
  PROVE  \/ SendPeerList /\ p = gw.who /\ x \in Peer /\ x # p
         \/ x \in Untold(p) /\ (Tell(p) => x # ring[p][cursor[p]])
<1>1. /\ TypeInv /\ CommonTypes /\ PeerTypes(p) /\ ToSet(<<>>) = {}
      /\ ring[p] \in Seq(Peer) /\ answer[p] \in Seq(Peer) /\ cursor[p] \in Nat
  BY DEF KnowInv, ListInv, TypeInv, CommonTypes, ToSet
<1>2. CASE Ends(p)
  BY <1>2 DEF Ends, Untold
<1>3. CASE Start(p)
  <2>1. answer'[p] = <<>> /\ status'[p] = "asking"
    BY <1>1, <1>3 DEF Start, PeerTypes, CommonTypes
  <2> QED
    BY <1>1, <2>1 DEF Untold
<1>4. CASE RecvList(p)
  <2>1. /\ answer[p] # <<>> /\ status[p] = "asking" /\ status'[p] = "entering"
        /\ ring'[p] = OwnRoot(answer[p]) /\ cursor'[p] = 2
    BY <1>1, <1>4 DEF RecvList, CommonTypes
  <2>2. x \in {ring'[p][i] : i \in 2..Len(ring'[p])} /\ x # p
    BY <2>1 DEF Untold
  <2>3. PICK i \in 2..Len(ring'[p]) : x = ring'[p][i]
    BY <2>2
  <2>4. ring'[p] \in Seq(Peer) /\ ToSet(ring'[p]) = ToSet(answer[p])
    BY <1>1, <2>1, OwnRootProperties
  <2>5. i \in 1..Len(ring'[p])
    BY <2>4, InRing
  <2>6. x \in ToSet(answer[p])
    BY <2>3, <2>4, <2>5, InRing
  <2>7. ~Tell(p)
    BY <2>1 DEF Tell
  <2> QED
    BY <2>1, <2>2, <2>6, <2>7 DEF Untold
<1>5. CASE Tell(p)
  <2>1. /\ status[p] = "entering" /\ status'[p] \in {"entering", "waiting"}
        /\ UNCHANGED ring /\ cursor[p] \in 1..Len(ring[p]) /\ cursor'[p] = cursor[p] + 1
    BY <1>5, Tells
  <2>2. x \in {ring[p][i] : i \in (cursor[p] + 1)..Len(ring[p])} /\ x # p
    BY <2>1 DEF Untold
  <2>3. PICK i \in (cursor[p] + 1)..Len(ring[p]) : x = ring[p][i]
    BY <2>2
  <2>4. Len(ring[p]) \in Nat /\ DOMAIN ring[p] = 1..Len(ring[p])
    BY <1>1, LenProperties
  <2>5. i \in cursor[p]..Len(ring[p]) /\ i \in 1..Len(ring[p]) /\ i # cursor[p]
    BY <1>1, <2>1, <2>4
  <2>6. IsInjective(ring[p])
    BY DEF Strangers
  <2>7. ring[p][i] # ring[p][cursor[p]]
    BY <2>1, <2>4, <2>5, <2>6 DEF IsInjective
  <2>8. x \in Untold(p)
    <3>1. Untold(p) = {ring[p][h] : h \in cursor[p]..Len(ring[p])} \ {p}
      BY <2>1 DEF Untold
    <3> QED
      BY <2>2, <2>3, <2>5, <3>1
  <2> QED
    BY <2>3, <2>7, <2>8
<1>6. CASE Listen(p)
  <2>1. status'[p] = "up"
    BY <1>1, <1>6 DEF Listen, CommonTypes
  <2> QED
    BY <2>1 DEF Untold
<1>7. CASE GetsPhotos(p)
  <2>1. x \in Untold(p)
    BY <1>7 DEF GetsPhotos, Untold
  <2>2. ~Tell(p)
    BY <1>7 DEF GetsPhotos, Tell
  <2> QED
    BY <2>1, <2>2
<1>8. CASE Remains(p) /\ ~Tell(p)
  <2>1. CASE answer'[p] = answer[p]
    <3>1. CASE status[p] = "up"
      BY <1>8, <3>1 DEF Remains, Untold
    <3>2. CASE status[p] # "up"
      BY <1>8, <2>1, <3>2 DEF Remains, Untold
    <3> QED
      BY <3>1, <3>2
  <2>2. CASE SendPeerList /\ p = gw.who /\ status[p] = "asking" /\ answer'[p] = gw_list
    <3>1. x \in ToSet(gw_list) /\ x # p
      BY <1>8, <2>2 DEF Remains, Untold
    <3>2. gw_list \in Seq(Peer)
      BY <1>1 DEF TypeInv, GwTypes
    <3>3. \E i \in 1..Len(gw_list) : gw_list[i] = x
      BY <3>1, <3>2, InRing
    <3> QED
      BY <2>2, <3>1, <3>2, <3>3, InRing
  <2> QED
    BY <1>8, <2>1, <2>2 DEF Remains
<1> QED
  BY <1>1, <1>2, <1>3, <1>4, <1>5, <1>6, <1>7, <1>8, PeerSteps

LEMMA StrangerStep ==
  ASSUME KnowInv, FirstTime, Strangers, hasty = {}, Next,
         NEW p \in Peer, NEW x, x \in Untold(p)'
  PROVE  Stranger(p, x)'
<1>1. TypeInv /\ CommonTypes
  BY DEF KnowInv, ListInv, TypeInv
<1>2. \/ SendPeerList /\ p = gw.who /\ x \in Peer /\ x # p
      \/ x \in Untold(p) /\ (Tell(p) => x # ring[p][cursor[p]])
  BY UntoldShrinks
<1>3. CASE SendPeerList /\ p = gw.who /\ x \in Peer /\ x # p
  <2>1. Silent(p) /\ UNCHANGED <<msgs, ring>>
    BY <1>1, <1>3, Served
  <2>2. answer'[x] = answer[x]
    BY <1>1, <1>3 DEF SendPeerList, CommonTypes
  <2> QED
    BY <1>3, <2>1, <2>2 DEF Silent, Stranger, Lst, Told
<1>4. CASE x \in Untold(p) /\ (Tell(p) => x # ring[p][cursor[p]])
  <2>1. p \notin Lst(x) /\ ~Told(x, p) /\ x \in Lst(p) /\ x \in Peer
    BY <1>1, <1>4, UntoldListed DEF Strangers, Stranger
  <2>2. ~(SendPeerList /\ x = gw.who)
    <3>1. ~Silent(x)
      BY <2>1 DEF Silent, Lst
    <3> QED
      BY <1>1, <3>1, Served
  <2>3. p \notin Lst(x)'
    BY <2>1, <2>2, LstGrows DEF Told
  <2>4. ~Told(x, p)'
    <3>1. ASSUME NEW m \in msgs', m.type # "delete", m.to = x, m.who = p PROVE FALSE
      <4>1. Tell(p) /\ x = ring[p][cursor[p]]
        BY <2>1, <3>1, NewMessages DEF Told
      <4> QED
        BY <1>4, <4>1
    <3> QED
      BY <3>1 DEF Told
  <2> QED
    BY <2>3, <2>4 DEF Stranger
<1> QED
  BY <1>2, <1>3, <1>4

LEMMA MessagesStep ==
  ASSUME KnowInv, FirstTime, Addressed, Addressed', Strangers, hasty = {}, Next
  PROVE  /\ \A m \in msgs' : m.type # "delete" => m.who \notin ToSet(ring'[m.to])
         /\ \A m, n \in msgs' : m.type # "delete" /\ n.type # "delete"
                                /\ m.to = n.to /\ m.who = n.who => m = n
<1>1. TypeInv /\ CommonTypes /\ \A m \in msgs : m.to \in Peer /\ m.who \in Peer
  BY DEF KnowInv, ListInv, TypeInv, CommonTypes, Messages
<1>2. ASSUME NEW m \in msgs', m \in msgs, m.type # "delete" PROVE m.who \notin ToSet(ring'[m.to])
  <2>1. Up(m.to) /\ Up(m.to)' /\ m.to \in Peer /\ m.who \notin ToSet(ring[m.to])
        /\ ring[m.to] \in Seq(Peer)
    BY <1>1, <1>2 DEF Addressed, Strangers, CommonTypes
  <2>2. \/ ring'[m.to] = ring[m.to]
        \/ \E n \in msgs :
             /\ Handle(n) /\ n.to = m.to
             /\ ring'[m.to] = IF n.type = "delete" THEN ring_remove(ring[m.to], n.who)
                              ELSE ring_append(ring[m.to], n.who)
        \/ \E q \in Peer :
             /\ WalkTurn(m.to) /\ q = ring[m.to][cursor[m.to]] /\ Refused(q)
             /\ ring'[m.to] = ring_remove(ring[m.to], q)
    BY <1>1, <2>1, RingSteps
  <2>3. ASSUME NEW k, ring'[m.to] = ring_remove(ring[m.to], k)
        PROVE  m.who \notin ToSet(ring'[m.to])
    BY <2>1, <2>3, RingRemoveSet
  <2>4. ASSUME NEW n \in msgs, Handle(n), n.to = m.to, n.type # "delete",
               ring'[m.to] = ring_append(ring[m.to], n.who)
        PROVE  m.who \notin ToSet(ring'[m.to])
    <3>1. m # n
      BY <1>2, <2>4 DEF Handle
    <3>2. m.who # n.who
      BY <1>2, <2>4, <3>1 DEF Strangers
    <3> QED
      BY <1>1, <2>1, <2>4, <3>2, RingAppendSet
  <2> QED
    BY <2>1, <2>2, <2>3, <2>4
<1>3. ASSUME NEW p \in Peer, Tell(p)
      PROVE  \E x \in Peer :
               /\ UNCHANGED ring /\ p \notin ToSet(ring[x]) /\ ~Told(x, p)
               /\ \E type \in {"ask", "register"} : msgs' = msgs \cup {Message(type, p, x, p)}
  <2>1. PICK x \in Peer : /\ Up(x) /\ x \in Untold(p)
                          /\ \E type \in {"ask", "register"} :
                               msgs' = msgs \cup {Message(type, p, x, p)}
    BY <1>3, Tells
  <2>2. UNCHANGED ring
    BY <1>3, Tells
  <2>3. p \notin ToSet(ring[x]) /\ ~Told(x, p)
    BY <2>1 DEF Strangers, Stranger, Lst, Up
  <2> QED
    BY <2>1, <2>2, <2>3
<1>4. CASE \E p \in Peer : Tell(p)
  <2>1. PICK p \in Peer : Tell(p)
    BY <1>4
  <2>2. PICK x \in Peer :
          /\ UNCHANGED ring /\ p \notin ToSet(ring[x]) /\ ~Told(x, p)
          /\ \E type \in {"ask", "register"} : msgs' = msgs \cup {Message(type, p, x, p)}
    BY <1>3, <2>1
  <2>3. PICK type \in {"ask", "register"} : msgs' = msgs \cup {Message(type, p, x, p)}
    BY <2>2
  <2> DEFINE t == Message(type, p, x, p)
  <2>4. t.to = x /\ t.who = p
    BY DEF Message
  <2>5. \A m \in msgs' : m \in msgs \/ m = t
    BY <2>3
  <2> HIDE DEF t
  <2>6. \A m \in msgs : m.type # "delete" => ~(m.to = x /\ m.who = p)
    BY <2>2 DEF Told
  <2> QED
    BY <1>2, <2>2, <2>4, <2>5, <2>6 DEF Strangers
<1>5. CASE ~ \E p \in Peer : Tell(p)
  <2>1. \A m \in msgs' : m.type # "delete" => m \in msgs
    BY <1>5, NewMessages
  <2> QED
    BY <1>2, <2>1 DEF Strangers
<1> QED
  BY <1>4, <1>5

LEMMA OnceRingStep ==
  ASSUME KnowInv, Once, Strangers, hasty = {}, Next, NEW p \in Peer
  PROVE  IsInjective(ring'[p])
<1>1. /\ TypeInv /\ CommonTypes /\ PeerTypes(p) /\ IsInjective(ring[p])
      /\ ring[p] \in Seq(Peer) /\ answer[p] \in Seq(Peer)
  BY DEF KnowInv, ListInv, TypeInv, CommonTypes, Strangers
<1>2. CASE Ends(p)
  BY <1>2 DEF Ends, IsInjective
<1>3. CASE RecvList(p)
  <2>1. answer[p] # <<>> /\ ring'[p] = OwnRoot(answer[p]) /\ IsInjective(answer[p])
    BY <1>1, <1>3 DEF RecvList, CommonTypes, Once
  <2> QED
    BY <1>1, <2>1, OnceOwnRoot
<1>4. CASE ring'[p] = ring[p]
  BY <1>1, <1>4
<1>5. Start(p) \/ Tell(p) \/ Listen(p) \/ GetsPhotos(p) => ring'[p] = ring[p]
  BY DEF Start, Tell, Listen, GetsPhotos
<1>6. CASE Remains(p) /\ ring'[p] # ring[p]
  <2>1. Up(p) /\ Up(p)'
    BY <1>6 DEF Remains, Up
  <2>2. \/ \E m \in msgs :
             /\ Handle(m) /\ m.to = p
             /\ ring'[p] = IF m.type = "delete" THEN ring_remove(ring[p], m.who)
                           ELSE ring_append(ring[p], m.who)
        \/ \E q \in Peer :
             /\ WalkTurn(p) /\ q = ring[p][cursor[p]] /\ Refused(q)
             /\ ring'[p] = ring_remove(ring[p], q)
    BY <1>1, <1>6, <2>1, RingSteps
  <2>3. ASSUME NEW k, ring'[p] = ring_remove(ring[p], k) PROVE IsInjective(ring'[p])
    BY <1>1, <2>3, OnceRemove
  <2>4. ASSUME NEW m \in msgs, m.to = p, m.type # "delete", ring'[p] = ring_append(ring[p], m.who)
        PROVE  IsInjective(ring'[p])
    <3>1. m.who \in Peer /\ m.who \notin ToSet(ring[p])
      BY <1>1, <2>4 DEF CommonTypes, Messages, Strangers
    <3> QED
      BY <1>1, <2>4, <3>1, OnceAppend
  <2> QED
    BY <2>2, <2>3, <2>4
<1> QED
  BY <1>1, <1>2, <1>3, <1>4, <1>5, <1>6, PeerSteps
-----------------------------------------------------------------------------
RootInv == KnowInv /\ Once /\ FirstTime /\ Addressed /\ Rooted /\ Strangers

LEMMA RootInit == Init => RootInv
<1> SUFFICES ASSUME Init PROVE RootInv
  OBVIOUS
<1>1. /\ ToSet(<<>>) = {} /\ <<Founder>> # <<>> /\ Head(<<Founder>>) = Founder
      /\ IsInjective(<<>>) /\ IsInjective(<<Founder>>)
  BY DEF ToSet, IsInjective
<1>2. Once
  BY <1>1 DEF Init, Idle, Once
<1>3. FirstTime
  BY DEF Init, Idle, FirstTime, Joining, AtGateway, Unheard
<1>4. Addressed
  BY DEF Init, Addressed
<1>5. Rooted
  BY <1>1 DEF Init, Idle, Rooted, Before, RootedAt, AtGateway
<1>6. Strangers
  BY <1>1 DEF Init, Strangers, Untold
<1> QED
  BY <1>2, <1>3, <1>4, <1>5, <1>6, KnowInit DEF RootInv

LEMMA RootStep == RootInv /\ [Next]_vars => RootInv'
<1>1. ASSUME RootInv, Next PROVE RootInv'
  <2>1. /\ KnowInv /\ TypeInv /\ OutFresh /\ Once /\ FirstTime /\ Addressed /\ Rooted /\ Strangers
    BY <1>1 DEF RootInv, KnowInv, ListInv
  <2>2. Once' /\ FirstTime' /\ Addressed' /\ Rooted'
    BY <1>1, <2>1, OnceStep, FirstStep, AddressedStep, RootedStep
  <2>3. ASSUME hasty' = {}
        PROVE  /\ \A p \in Peer : \A x \in Untold(p)' : Stranger(p, x)'
               /\ \A m \in msgs' : m.type # "delete" => m.who \notin ToSet(ring'[m.to])
               /\ \A m, n \in msgs' : m.type # "delete" /\ n.type # "delete"
                                      /\ m.to = n.to /\ m.who = n.who => m = n
               /\ \A p \in Peer : IsInjective(ring'[p])
    <3>1. hasty = {}
      BY <1>1, <2>1, <2>3, HastyGrows
    <3>2. \A p \in Peer : \A x \in Untold(p)' : Stranger(p, x)'
      BY <1>1, <2>1, <3>1, StrangerStep
    <3>3. /\ \A m \in msgs' : m.type # "delete" => m.who \notin ToSet(ring'[m.to])
          /\ \A m, n \in msgs' : m.type # "delete" /\ n.type # "delete"
                                 /\ m.to = n.to /\ m.who = n.who => m = n
      BY <1>1, <2>1, <2>2, <3>1, MessagesStep
    <3>4. \A p \in Peer : IsInjective(ring'[p])
      BY <1>1, <2>1, <3>1, OnceRingStep
    <3> QED
      BY <3>2, <3>3, <3>4
  <2>4. Strangers'
    BY <2>3 DEF Strangers
  <2> QED
    BY <1>1, <2>1, <2>2, <2>4, KnowStep DEF RootInv
<1>2. ASSUME RootInv, UNCHANGED vars PROVE RootInv'
  <2>1. KnowInv'
    BY <1>2, KnowStep DEF RootInv
  <2>2. UNCHANGED <<gw_list, gw, inbox, status, answer, ring, cursor, msgs, hasty>>
    BY <1>2 DEF vars, gateway
  <2>3. Once' /\ Addressed'
    BY <1>2, <2>2 DEF RootInv, Once, Addressed, Up
  <2>4. FirstTime'
    BY <1>2, <2>2 DEF RootInv, FirstTime, Joining, AtGateway, Unheard, Silent
  <2>5. Rooted'
    BY <1>2, <2>2 DEF RootInv, Rooted, Before, RootedAt, AtGateway, Owned
  <2>6. Strangers'
    BY <1>2, <2>2 DEF RootInv, Strangers, Untold, Stranger, Lst, Told
  <2> QED
    BY <2>1, <2>3, <2>4, <2>5, <2>6 DEF RootInv
<1> QED
  BY <1>1, <1>2

(* OwnRing is an invariant: however clients turn the gateway's list between  *)
(* a peer's registration and its answer, a peer in service has its own node  *)
(* at the root of its ring, unless it was probed before it listened, and if  *)
(* nobody was, no ring has a peer twice.                                     *)
THEOREM OwnRingCorrect == Spec => []OwnRing
<1>1. RootInv => OwnRing
  <2> SUFFICES ASSUME RootInv PROVE OwnRing
    OBVIOUS
  <2>1. ASSUME NEW p \in Peer, Up(p) PROVE ring[p] # <<>> /\ (Head(ring[p]) = p \/ p \in hasty)
    <3>1. RootedAt(p) /\ InList
      BY DEF RootInv, Rooted, KnowInv, ListInv
    <3>2. p \notin hasty => p \in ToSet(gw_list)
      BY <2>1, <3>1 DEF InList, Registered, Up
    <3> QED
      BY <2>1, <3>1, <3>2 DEF RootedAt, Owned, Up
  <2>2. hasty = {} => \A p \in Peer : Up(p) => IsInjective(ring[p])
    BY DEF RootInv, Strangers
  <2> QED
    BY <2>1, <2>2 DEF OwnRing
<1> QED
  BY <1>1, RootInit, RootStep, PTL DEF Spec
=============================================================================
