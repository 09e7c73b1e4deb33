----------------------------- MODULE Membership ------------------------------
(***************************************************************************)
(* Who is in service, and who knows of whom: the gateway's list of peers   *)
(* (gateway.c) and the ring of every peer (peer.c), from the registration  *)
(* of a peer to its end.  A new peer gets the gateway's list, tells every  *)
(* peer in it, and listens only then; until then it refuses every probe.   *)
(* A peer that leaves tells the gateway, which tells the others (message   *)
(* 12); one that is killed tells nobody, and is found by those who probe   *)
(* it.  Datagrams to and from the gateway may be lost, late or overtaken;  *)
(* a lost one stays under way for ever.                                    *)
(*                                                                         *)
(* A probe, and what a thread does under the lock it needs, is one step.   *)
(***************************************************************************)
EXTENDS Ring, FiniteSets

CONSTANTS
  Peer,       \* the peers; each starts once
  Founder,    \* the peer in service from the start
  NoPeer,     \* no peer at all
  MaxEnds     \* bound of the model: peers that leave or are killed

ASSUME MembershipAssumption ==
  /\ IsFiniteSet(Peer) /\ Founder \in Peer /\ NoPeer \notin Peer
  /\ MaxEnds \in Nat

VARIABLES
  gw_list,  \* the gateway's peer_list, from the root on
  gw,       \* the thread connection_peer: where it stands, and about whom
  inbox,    \* datagrams under way to the gateway
  status,   \* per peer: "out", "asking" (for the list), "entering", "waiting"
            \*   (for the photos), "up" or "down"
  answer,   \* per peer: the list under way to it
  ring,     \* per peer: its peer_list, from the root on
  cursor,   \* per peer: position of the walk under way, 0 if there is none
  msgs,     \* messages of peers and gateway to peers, not handled yet
  ends,     \* number of peers that left or were killed
  hasty     \* history: the peers that refused a connection before they listened

gateway == <<gw_list, gw>>
vars == <<gateway, inbox, status, answer, ring, cursor, msgs, ends, hasty>>

Idle == [pc |-> "recv", who |-> NoPeer, exc |-> NoPeer, pos |-> 0]

Init ==
  /\ gw_list = <<Founder>> /\ gw = Idle /\ inbox = {}
  /\ status = [p \in Peer |-> IF p = Founder THEN "up" ELSE "out"]
  /\ answer = [p \in Peer |-> <<>>]
  /\ ring = [p \in Peer |-> IF p = Founder THEN <<p>> ELSE <<>>]
  /\ cursor = [p \in Peer |-> 0]
  /\ msgs = {} /\ ends = 0 /\ hasty = {}
-----------------------------------------------------------------------------
(* isOnline, connect_peer: a peer that listens accepts.                      *)
Up(p) == status[p] = "up"

(* A probe of q that is refused, recorded if q has yet to listen.            *)
Refused(q) ==
  /\ ~Up(q)
  /\ hasty' = IF status[q] \in {"asking", "entering", "waiting"} THEN hasty \cup {q} ELSE hasty

(* What is said of peer who, to the gateway and to peer to.                  *)
Datagram(type, from, who) == [type |-> type, from |-> from, who |-> who]
Message(type, from, to, who) == [type |-> type, from |-> from, to |-> to, who |-> who]

(* The process of p ends, with its memory and its connections.               *)
End(p) ==
  /\ status' = [status EXCEPT ![p] = "down"]
  /\ cursor' = [cursor EXCEPT ![p] = 0]
  /\ ring' = [ring EXCEPT ![p] = <<>>]
  /\ answer' = [answer EXCEPT ![p] = <<>>]
  /\ msgs' = {m \in msgs : m.to # p}
-----------------------------------------------------------------------------
(* The gateway.  Its lock is free in the stages "recv", "added", "removed".  *)

(* Faulty variant: the peer at the root leaves, whoever it is about.         *)
LeaverRoot(m) == gw_list[1]

(* Who leaves the list: the sender of an exit, or the peer reported lost.    *)
Leaver(m) == m.who

(* connection_peer: a datagram is served up to the first unlock.             *)
GwRecv(m) ==
  /\ gw.pc = "recv" /\ inbox' = inbox \ {m}
  /\ IF m.type = "join"
     THEN /\ gw_list' = ring_append(gw_list, m.who)
          /\ gw' = [pc |-> "added", who |-> m.who, pos |-> 1, exc |-> NoPeer]
     ELSE /\ gw_list' = ring_remove(gw_list, Leaver(m))
          /\ gw' = [pc |-> "removed", who |-> Leaver(m), pos |-> 1,
                    exc |-> IF m.type = "loss" THEN m.from ELSE NoPeer]
  /\ UNCHANGED <<status, answer, ring, cursor, msgs, ends, hasty>>

(* The walk of a registration probes all but the last.                       *)
CheckTurn ==
  /\ gw.pc \in {"added", "check"} /\ gw.pos < Len(gw_list)
  /\ LET q == gw_list[gw.pos]
     IN  \/ /\ Up(q) /\ gw' = [gw EXCEPT !.pc = "check", !.pos = @ + 1]
            /\ UNCHANGED <<gw_list, hasty>>
         \/ /\ Refused(q) /\ gw' = [gw EXCEPT !.pc = "check"]
            /\ gw_list' = ring_remove(gw_list, q)
  /\ UNCHANGED <<inbox, status, answer, ring, cursor, msgs, ends>>

(* send_ring_udp; a peer that has given up has no longer that socket.        *)
SendPeerList ==
  /\ gw.pc \in {"added", "check"} /\ gw.pos >= Len(gw_list)
  /\ answer' = IF status[gw.who] = "asking"
               THEN [answer EXCEPT ![gw.who] = gw_list] ELSE answer
  /\ gw' = Idle
  /\ UNCHANGED <<gw_list, inbox, status, ring, cursor, msgs, ends, hasty>>

(* broadcastPeers: the next peer is told that gw.who has gone.  The reporter *)
(* of a loss stops the walk at the root, and keeps it for ever elsewhere.    *)
TellTurn ==
  /\ gw.pc \in {"removed", "tell"} /\ gw_list # <<>>
  /\ LET q == gw_list[gw.pos]
         next == IF gw.pos = Len(gw_list) THEN Idle
                 ELSE [gw EXCEPT !.pc = "tell", !.pos = @ + 1]
     IN  \/ /\ q = gw.exc
            /\ gw' = IF gw.pos = 1 THEN Idle ELSE [gw EXCEPT !.pc = "stuck"]
            /\ UNCHANGED <<msgs, hasty>>
         \/ /\ q # gw.exc /\ Up(q) /\ gw' = next
            /\ msgs' = msgs \cup {Message("delete", NoPeer, q, gw.who)}
            /\ UNCHANGED hasty
         \/ q # gw.exc /\ Refused(q) /\ gw' = next /\ UNCHANGED msgs
  /\ UNCHANGED <<gw_list, inbox, status, answer, ring, cursor, ends>>

TellNobody ==
  /\ gw.pc = "removed" /\ gw_list = <<>> /\ gw' = Idle
  /\ UNCHANGED <<gw_list, inbox, status, answer, ring, cursor, msgs, ends, hasty>>

(* connection_client: a client asks, and the root moves on to the next peer. *)
(* If that one refuses, the thread locks itself out, with the list locked.   *)
ServeClient ==
  /\ gw.pc \in {"recv", "added", "removed"} /\ gw_list # <<>>
  /\ gw_list' = ring_next(gw_list)
  /\ \/ Up(Head(gw_list')) /\ UNCHANGED <<gw, hasty>>
     \/ Refused(Head(gw_list')) /\ gw' = [gw EXCEPT !.pc = "stuck"]
  /\ UNCHANGED <<inbox, status, answer, ring, cursor, msgs, ends>>
-----------------------------------------------------------------------------
(* A peer enters.                                                            *)

Start(p) ==
  /\ status[p] = "out"
  /\ status' = [status EXCEPT ![p] = "asking"]
  /\ inbox' = inbox \cup {Datagram("join", p, p)}
  /\ UNCHANGED <<gateway, answer, ring, cursor, msgs, ends, hasty>>

(* 5 s without the list.                                                     *)
GiveUp(p) ==
  /\ status[p] = "asking" /\ End(p)
  /\ UNCHANGED <<gateway, inbox, ends, hasty>>

(* peer_list = peer_list->prev: the last node is taken for the peer's own.   *)
OwnRoot(l) == <<Last(l)>> \o Front(l)

RecvList(p) ==
  /\ status[p] = "asking" /\ answer[p] # <<>>
  /\ ring' = [ring EXCEPT ![p] = OwnRoot(answer[p])]
  /\ answer' = [answer EXCEPT ![p] = <<>>]
  /\ status' = [status EXCEPT ![p] = "entering"]
  /\ cursor' = [cursor EXCEPT ![p] = 2]
  /\ UNCHANGED <<gateway, inbox, msgs, ends, hasty>>

(* Faulty variant: the last peer of the ring is not told.                    *)
OverShort(p) == cursor[p] >= Len(ring[p])

(* aux is at the peer's own node again.                                      *)
Over(p) == cursor[p] > Len(ring[p])

(* notify_and_recv_photos: the next peer is told, under the name of the      *)
(* root, the first one with a request for the photos.                        *)
Tell(p) ==
  /\ status[p] = "entering" /\ ~Over(p) /\ Up(ring[p][cursor[p]])
  /\ LET type == IF cursor[p] = 2 THEN "ask" ELSE "register"
     IN  /\ msgs' = msgs \cup {Message(type, p, ring[p][cursor[p]], Head(ring[p]))}
         /\ status' = [status EXCEPT ![p] = IF type = "ask" THEN "waiting" ELSE @]
  /\ cursor' = [cursor EXCEPT ![p] = @ + 1]
  /\ UNCHANGED <<gateway, inbox, answer, ring, ends, hasty>>

(* A connection that is refused ends the new peer.                           *)
TellFails(p) ==
  /\ status[p] = "entering" /\ ~Over(p)
  /\ Refused(ring[p][cursor[p]]) /\ End(p)
  /\ UNCHANGED <<gateway, inbox, ends>>

(* The peer asked for the photos has ended: recv_all fails, or gives 0.      *)
NoPhotos(p) ==
  /\ status[p] = "waiting" /\ \A m \in msgs : m.type = "ask" => m.from # p
  /\ \/ End(p)
     \/ /\ status' = [status EXCEPT ![p] = "entering"]
        /\ UNCHANGED <<answer, ring, cursor, msgs>>
  /\ UNCHANGED <<gateway, inbox, ends, hasty>>

(* bind, listen.                                                             *)
Listen(p) ==
  /\ status[p] = "entering" /\ Over(p)
  /\ status' = [status EXCEPT ![p] = "up"]
  /\ cursor' = [cursor EXCEPT ![p] = 0]
  /\ UNCHANGED <<gateway, inbox, answer, ring, msgs, ends, hasty>>
-----------------------------------------------------------------------------
(* A peer in service.  Its walks hold peer_lock, so that no message about a  *)
(* peer is handled meanwhile.                                                *)

(* Faulty variant: the new node becomes the root.                            *)
register_first(r, k) == <<k>> \o r

register_peer(r, k) == ring_append(r, k)
delete_peer(r, k) == ring_remove(r, k)

(* The sender of a message still waits for the photos.                       *)
Awaits(m) == m.type = "ask" /\ status[m.from] = "waiting"

(* A thread handles a message about a peer, and sends the photos if asked to.*)
Handle(m) ==
  /\ Up(m.to) /\ cursor[m.to] = 0
  /\ ring' = [ring EXCEPT ![m.to] = IF m.type = "delete" THEN delete_peer(@, m.who)
                                    ELSE register_peer(@, m.who)]
  /\ status' = IF Awaits(m) THEN [status EXCEPT ![m.from] = "entering"] ELSE status
  /\ msgs' = msgs \ {m}
  /\ UNCHANGED <<gateway, inbox, answer, cursor, ends, hasty>>

(* send_all_photos to a peer that has ended: the send fails, which ends the  *)
(* sender too.                                                               *)
HandleFails(m) ==
  /\ Up(m.to) /\ cursor[m.to] = 0 /\ m.type = "ask" /\ ~Awaits(m)
  /\ End(m.to)
  /\ UNCHANGED <<gateway, inbox, ends, hasty>>

(* broadcastPeersAndNotify, for any request of a client.                     *)
WalkBegin(p) ==
  /\ Up(p) /\ cursor[p] = 0 /\ Len(ring[p]) > 1
  /\ cursor' = [cursor EXCEPT ![p] = 2]
  /\ UNCHANGED <<gateway, inbox, status, answer, ring, msgs, ends, hasty>>

(* Faulty variant: the peer that refuses stays, and is tried again.          *)
DropNot(p) == UNCHANGED <<ring, cursor>>

(* Faulty variant: the walk also skips the peer after the one removed.       *)
DropSkipping(p) ==
  /\ ring' = [ring EXCEPT ![p] = ring_remove(@, @[cursor[p]])]
  /\ cursor' = [cursor EXCEPT ![p] = @ + 1]

(* The cursor moves on, and the node it leaves is removed by its key.        *)
Drop(p) ==
  /\ ring' = [ring EXCEPT ![p] = ring_remove(@, @[cursor[p]])]
  /\ UNCHANGED cursor

WalkTurn(p) ==
  /\ Up(p) /\ cursor[p] > 0 /\ ~Over(p)
  /\ LET q == ring[p][cursor[p]]
     IN  \/ /\ Up(q)
            /\ cursor' = [cursor EXCEPT ![p] = @ + 1]
            /\ UNCHANGED <<ring, inbox, hasty>>
         \/ Refused(q) /\ Drop(p) /\ inbox' = inbox \cup {Datagram("loss", p, q)}
  /\ UNCHANGED <<gateway, status, answer, msgs, ends>>

WalkEnd(p) ==
  /\ Up(p) /\ cursor[p] > 0 /\ Over(p)
  /\ cursor' = [cursor EXCEPT ![p] = 0]
  /\ UNCHANGED <<gateway, inbox, status, answer, ring, msgs, ends, hasty>>

(* kill_server, on SIGINT; a peer that is killed is one whose datagram is    *)
(* lost.                                                                     *)
Exit(p) ==
  /\ ends < MaxEnds /\ status[p] \in {"entering", "waiting", "up"} /\ End(p)
  /\ inbox' = inbox \cup {Datagram("exit", p, p)}
  /\ ends' = ends + 1
  /\ UNCHANGED <<gateway, hasty>>
-----------------------------------------------------------------------------
GwStep == CheckTurn \/ SendPeerList \/ TellTurn \/ TellNobody

Enter(p) == Start(p) \/ GiveUp(p) \/ RecvList(p) \/ Tell(p) \/ TellFails(p)
            \/ NoPhotos(p) \/ Listen(p)
Serve(p) == WalkBegin(p) \/ WalkTurn(p) \/ WalkEnd(p)

Next ==
  \/ GwStep \/ ServeClient
  \/ \E m \in inbox : GwRecv(m)
  \/ \E m \in msgs : Handle(m) \/ HandleFails(m)
  \/ \E p \in Peer : Enter(p) \/ Serve(p) \/ Exit(p)

Spec == Init /\ [][Next]_vars

(* A walk that has begun goes on, and a thread that waits for peer_lock gets *)
(* it if it is free again and again.                                         *)
Fairness ==
  /\ \A p \in Peer : WF_vars(WalkTurn(p) \/ WalkEnd(p))
  /\ \A p \in Peer : SF_vars(\E m \in msgs : m.to = p /\ Handle(m))

FairSpec == Spec /\ Fairness
-----------------------------------------------------------------------------
(* Type invariant, with every cursor inside its ring or just behind it.      *)
TypeOK ==
  /\ gw_list \in Seq(Peer)
  /\ gw \in [pc : {"recv", "added", "check", "removed", "tell", "stuck"},
             who : Peer \cup {NoPeer}, exc : Peer \cup {NoPeer},
             pos : 0..Len(gw_list) + 1]
  /\ inbox \subseteq [type : {"join", "exit", "loss"}, from : Peer, who : Peer]
  /\ status \in [Peer -> {"out", "asking", "entering", "waiting", "up", "down"}]
  /\ \A p \in Peer : /\ answer[p] \in Seq(Peer) /\ ring[p] \in Seq(Peer)
                     /\ cursor[p] \in 0..Len(ring[p]) + 1
  /\ msgs \subseteq [type : {"ask", "register", "delete"}, from : Peer \cup {NoPeer}, to : Peer,
                    who : Peer]
  /\ ends \in 0..MaxEnds /\ hasty \subseteq Peer

(* Any two peers in service know each other, or are about    *)
(* to, unless one of them was probed before it listened: nothing else loses  *)
(* a member, neither the order in which peers register, nor peers that leave *)
(* or are reported, nor datagrams that are lost or late (peer.c: "Informs    *)
(* the other peers that this peer have entered in the system").              *)
Told(p, q) == \E m \in msgs : m.type # "delete" /\ m.to = p /\ m.who = q
Knows(p, q) == q \in ToSet(ring[p]) \/ Told(p, q)
MutuallyKnown ==
  \A p, q \in Peer : Up(p) /\ Up(q) /\ p # q /\ {p, q} \cap hasty = {} => Knows(p, q)

(* A peer in service is in the gateway's list, so that clients are sent to   *)
(* it, unless it was probed before it listened: no exit or loss report, late *)
(* or lost, takes out another (gateway.c: "Removes an exiting peer from the  *)
(* list").                                                                   *)
Listed == \A p \in Peer : Up(p) /\ p \notin hasty => p \in ToSet(gw_list)

(* The root of a peer's ring is its own node, and no peer is in a ring       *)
(* twice, although clients may turn the gateway's list between a peer's      *)
(* registration and its answer: the peer that is then not last was probed,   *)
(* or ends (peer.c: "Puts root of peer_list referencing this peer's          *)
(* identification element").                                                 *)
OwnRing ==
  /\ \A p \in Peer : Up(p) => ring[p] # <<>> /\ (Head(ring[p]) = p \/ p \in hasty)
  /\ hasty = {} => \A p \in Peer : Up(p) => IsInjective(ring[p])

(* A peer whose clients keep asking is rid, again and again, of every peer   *)
(* that has gone, even if nobody was told: no notice brings one back for     *)
(* good, and no walk passes over one (peer.c: "removes peer from list if     *)
(* it's not online").  One probed before it listened may have the dead peer  *)
(* at its root, which no walk probes.                                        *)
Gone(p) == {q \in ToSet(ring[p]) : status[q] = "down"}
DeadForgotten ==
  \A p \in Peer : []<>(Up(p) /\ cursor[p] > 0) /\ [](p \notin hasty) => []<>(Gone(p) = {})
=============================================================================
