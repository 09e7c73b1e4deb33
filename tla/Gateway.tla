------------------------------ MODULE Gateway -------------------------------
(***************************************************************************)
(* The gateway process (gateway.c): the directory of peers, peer_list,     *)
(* shared by two threads under list_lock, and the photo id counter.        *)
(*                                                                         *)
(*   connection_peer    serves the peers' UDP socket: registration, exit,  *)
(*                      report of a lost peer, request of a photo id;      *)
(*   connection_client  serves the clients' UDP socket: it hands out the   *)
(*                      next peer in turn.                                 *)
(*                                                                         *)
(* The environment is the most general one: any datagram of Datagram may   *)
(* arrive whenever a thread waits for one, and every probe of a peer       *)
(* (isOnline) may end in any way Probes allows.  A step is one critical    *)
(* section, or one probe, since a probe is a connect() during which        *)
(* everything else moves on.                                               *)
(***************************************************************************)
EXTENDS Ring

CONSTANTS
  Peer,        \* peer identities, a data_r: IP address and TCP port
  NoPeer,      \* no peer at all
  Datagram,    \* the message_gw datagrams that may reach the peers' socket
  Probes,      \* the outcomes of isOnline: "online", "refused", "error"
  IdModulus,   \* 2^32, the number of values of the uint32_t photo_id
  MaxRing      \* bound of the model: no registration beyond this length

Message ==
       [type : {"join", "exit", "id"}, from : Peer, who : {NoPeer}]
  \cup [type : {"loss"}, from : Peer, who : Peer]

ASSUME GatewayAssumption ==
  /\ NoPeer \notin Peer
  /\ Datagram \subseteq Message
  /\ Probes \subseteq {"online", "refused", "error"}
  /\ IdModulus \in Nat \ {0}
  /\ MaxRing \in Nat

VARIABLES
  peer_list,   \* the ring of registered peers
  list_lock,   \* the thread that holds list_lock, or "free"
  photo_id,    \* the last photo id given out
  gw,          \* the process: "up", or how it ended
  peer_pc,     \* where connection_peer is
  client_pc,   \* where connection_client is
  buff,        \* the datagram connection_peer works on
  aux,         \* position in peer_list of connection_peer's cursor aux
  answer,      \* what connection_client's message says: a peer or NoPeer
  reached,     \* history: peers that accepted in the current walk
  unreached    \* history: peers that refused in the current walk

vars == <<peer_list, list_lock, photo_id, gw, peer_pc, client_pc, buff, aux,
          answer, reached, unreached>>
history == <<reached, unreached>>
peerVars == <<photo_id, peer_pc, buff, aux, reached, unreached>>
clientVars == <<client_pc, answer>>

Init ==
  /\ peer_list = <<>>
  /\ list_lock = "free"
  /\ photo_id = 0
  /\ gw = "up"
  /\ peer_pc = "recv"
  /\ client_pc = "recv"
  /\ buff \in Datagram
  /\ aux = 1
  /\ answer = NoPeer
  /\ reached = {}
  /\ unreached = {}
-----------------------------------------------------------------------------
(* connection_peer.  Its cursor aux is a position of peer_list; aux->next    *)
(* is the root exactly when the position is the last one.                    *)

AtLast == aux = Len(peer_list)

(* The peer a removal request names: its sender, or the peer it reports.     *)
Gone == IF buff.type = "exit" THEN buff.from ELSE buff.who

(* The peer left out of the broadcast of a removal: the one that reported it.*)
Excluded == IF buff.type = "loss" THEN buff.from ELSE NoPeer

(* Faulty variant: the counter is wider than the id that is sent.            *)
NextIdWide(i) == i + 1

(* ++photo_id, an unsigned 32-bit integer.                                   *)
NextId(i) == (i + 1) % IdModulus

(* A datagram is received and dispatched on its type.  A request of a photo  *)
(* id is served at once: it takes no lock.                                   *)
PeerRecv(d) ==
  /\ gw = "up" /\ peer_pc = "recv"
  /\ buff' = d
  /\ \/ /\ d.type = "join"
        /\ Len(peer_list) < MaxRing
        /\ peer_pc' = "append"
        /\ UNCHANGED photo_id
     \/ /\ d.type \in {"exit", "loss"}
        /\ peer_pc' = "remove"
        /\ UNCHANGED photo_id
     \/ /\ d.type = "id"
        /\ photo_id' = NextId(photo_id)
        /\ UNCHANGED peer_pc
  /\ UNCHANGED <<peer_list, list_lock, gw, aux, history, clientVars>>

(* First critical section of a registration: the peer is appended.           *)
AddPeer ==
  /\ gw = "up" /\ peer_pc = "append" /\ list_lock = "free"
  /\ peer_list' = ring_append(peer_list, buff.from)
  /\ peer_pc' = "listed"
  /\ UNCHANGED <<list_lock, photo_id, gw, buff, aux, history, clientVars>>

(* Second critical section of a registration: the walk that probes the       *)
(* peers.  The lock was free in between.                                     *)
CheckBegin ==
  /\ gw = "up" /\ peer_pc = "listed" /\ list_lock = "free"
  /\ list_lock' = "peer"
  /\ peer_pc' = "check"
  /\ aux' = 1
  /\ reached' = {} /\ unreached' = {}
  /\ UNCHANGED <<peer_list, photo_id, gw, buff, clientVars>>

(* Faulty variant: the cursor also moves on past the removed node.           *)
CheckDropSkipping ==
  /\ peer_list' = ring_remove(peer_list, peer_list[aux])
  /\ aux' = aux + 1

(* Faulty variant: the node removed is the one the cursor has moved to.      *)
CheckDropNext ==
  /\ peer_list' = ring_remove(peer_list, peer_list[aux + 1])
  /\ UNCHANGED aux

(* Faulty variant: the node that refused stays, and the walk starts again.   *)
CheckDropRestart == aux' = 1 /\ UNCHANGED peer_list

(* The node under the cursor refused: the cursor moves on and the node just  *)
(* left is removed by its key, so that the cursor's position is unchanged.   *)
CheckDrop ==
  /\ peer_list' = ring_remove(peer_list, peer_list[aux])
  /\ UNCHANGED aux

(* One turn of the loop.  Any failure of connect() but a refusal ends the    *)
(* process.                                                                  *)
CheckProbe(r) ==
  /\ gw = "up" /\ peer_pc = "check" /\ ~AtLast
  /\ \/ /\ r = "online"
        /\ aux' = aux + 1
        /\ reached' = reached \cup {peer_list[aux]}
        /\ UNCHANGED <<peer_list, gw, unreached>>
     \/ /\ r = "refused"
        /\ CheckDrop
        /\ unreached' = unreached \cup {peer_list[aux]}
        /\ UNCHANGED <<gw, reached>>
     \/ /\ r = "error"
        /\ gw' = "exited"
        /\ UNCHANGED <<peer_list, aux, history>>
  /\ UNCHANGED <<list_lock, photo_id, peer_pc, buff, clientVars>>

(* Faulty variant: the lock is not released.                                 *)
SendPeerListHolding ==
  /\ gw = "up" /\ peer_pc = "check" /\ AtLast
  /\ peer_pc' = "print"
  /\ UNCHANGED <<peer_list, list_lock, photo_id, gw, buff, aux, history,
                 clientVars>>

(* The loop ends with the cursor on the last node, which is not probed; the  *)
(* whole list goes to the peer that registered.                              *)
SendPeerList ==
  /\ gw = "up" /\ peer_pc = "check" /\ AtLast
  /\ list_lock' = "free"
  /\ peer_pc' = "print"
  /\ UNCHANGED <<peer_list, photo_id, gw, buff, aux, history, clientVars>>

(* printPeers takes the lock and releases it.                                *)
PrintPeers ==
  /\ gw = "up" /\ peer_pc = "print" /\ list_lock = "free"
  /\ peer_pc' = "recv"
  /\ UNCHANGED <<peer_list, list_lock, photo_id, gw, buff, aux, history,
                 clientVars>>

(* An exit or a loss report: the named peer is removed.                      *)
RemovePeer ==
  /\ gw = "up" /\ peer_pc = "remove" /\ list_lock = "free"
  /\ peer_list' = ring_remove(peer_list, Gone)
  /\ peer_pc' = "removed"
  /\ UNCHANGED <<list_lock, photo_id, gw, buff, aux, history, clientVars>>

(* printPeers, for which the lock must be free too, and then broadcastPeers  *)
(* is entered; an empty list is nothing to walk.                             *)
BcastBegin ==
  /\ gw = "up" /\ peer_pc = "removed" /\ list_lock = "free"
  /\ aux' = 1
  /\ reached' = {} /\ unreached' = {}
  /\ IF peer_list = <<>>
     THEN /\ peer_pc' = "recv" /\ UNCHANGED list_lock
     ELSE /\ peer_pc' = "bcast" /\ list_lock' = "peer"
  /\ UNCHANGED <<peer_list, photo_id, gw, buff, clientVars>>

(* Faulty variant: the loop ends one node early.                             *)
BcastAdvanceShort ==
  IF aux >= Len(peer_list) - 1
  THEN /\ peer_pc' = "recv" /\ list_lock' = "free" /\ UNCHANGED aux
  ELSE /\ aux' = aux + 1 /\ UNCHANGED <<peer_pc, list_lock>>

(* aux = aux->next, and the loop condition aux != peer_list.                 *)
BcastAdvance ==
  IF AtLast
  THEN /\ peer_pc' = "recv" /\ list_lock' = "free" /\ UNCHANGED aux
  ELSE /\ aux' = aux + 1 /\ UNCHANGED <<peer_pc, list_lock>>

(* One turn for a peer that is not excluded: it is told if it accepts.       *)
BcastProbe(r) ==
  /\ gw = "up" /\ peer_pc = "bcast" /\ peer_list[aux] # Excluded
  /\ \/ /\ r = "online"
        /\ reached' = reached \cup {peer_list[aux]}
        /\ BcastAdvance
        /\ UNCHANGED <<gw, unreached>>
     \/ /\ r = "refused"
        /\ unreached' = unreached \cup {peer_list[aux]}
        /\ BcastAdvance
        /\ UNCHANGED <<gw, reached>>
     \/ /\ r = "error"
        /\ gw' = "exited"
        /\ UNCHANGED <<list_lock, peer_pc, aux, history>>
  /\ UNCHANGED <<peer_list, photo_id, buff, clientVars>>

(* One turn for the excluded peer: aux = aux->next stands inside the         *)
(* condition, so the cursor does not move.  On the root the loop condition   *)
(* aux != peer_list fails at once and the broadcast is over; anywhere else   *)
(* the same turn is taken again.                                             *)
BcastSkip ==
  /\ gw = "up" /\ peer_pc = "bcast" /\ peer_list[aux] = Excluded
  /\ \/ /\ aux = 1
        /\ peer_pc' = "recv" /\ list_lock' = "free"
     \/ /\ aux # 1
        /\ UNCHANGED <<peer_pc, list_lock>>
  /\ UNCHANGED <<peer_list, photo_id, gw, buff, aux, history, clientVars>>
-----------------------------------------------------------------------------
(* connection_client.                                                        *)

ClientRecv ==
  /\ gw = "up" /\ client_pc = "recv"
  /\ client_pc' = "test"
  /\ UNCHANGED <<peer_list, list_lock, gw, answer, peerVars>>

(* peer_list != NULL, read without the lock.                                 *)
ClientTest ==
  /\ gw = "up" /\ client_pc = "test"
  /\ IF peer_list # <<>>
     THEN /\ client_pc' = "lock" /\ UNCHANGED answer
     ELSE /\ client_pc' = "reply" /\ answer' = NoPeer
  /\ UNCHANGED <<peer_list, list_lock, gw, peerVars>>

(* pthread_mutex_lock(&list_lock) in connection_client.                      *)
ClientLock == list_lock = "free" /\ list_lock' = "client"

(* The lock is taken and the root pointer moved to the next peer in turn.    *)
(* If the list became empty since the test, peer_list->next is read through  *)
(* a NULL pointer.                                                           *)
ClientRotate ==
  /\ gw = "up" /\ client_pc = "lock"
  /\ ClientLock
  /\ \/ /\ peer_list # <<>>
        /\ peer_list' = ring_next(peer_list)
        /\ client_pc' = "probe"
        /\ UNCHANGED gw
     \/ /\ peer_list = <<>>
        /\ gw' = "crashed"
        /\ UNCHANGED <<peer_list, client_pc>>
  /\ UNCHANGED <<answer, peerVars>>

(* The new root is probed.  If it accepts it is the answer and the lock is   *)
(* released.  If it refuses, broadcastPeers is called with list_lock held    *)
(* and locks it again: the mutex is a default one, so the call never         *)
(* returns, and no action leaves "relock".                                   *)
ClientProbe(r) ==
  /\ gw = "up" /\ client_pc = "probe"
  /\ \/ /\ r = "online"
        /\ answer' = Head(peer_list)
        /\ list_lock' = "free"
        /\ client_pc' = "reply"
        /\ UNCHANGED gw
     \/ /\ r = "refused"
        /\ client_pc' = "relock"
        /\ UNCHANGED <<list_lock, gw, answer>>
     \/ /\ r = "error"
        /\ gw' = "exited"
        /\ UNCHANGED <<list_lock, client_pc, answer>>
  /\ UNCHANGED <<peer_list, peerVars>>

ClientReply ==
  /\ gw = "up" /\ client_pc = "reply"
  /\ client_pc' = "recv"
  /\ UNCHANGED <<peer_list, list_lock, gw, answer, peerVars>>
-----------------------------------------------------------------------------
(* SIGINT: the main thread frees the list and exits.                         *)
Interrupt ==
  /\ gw = "up"
  /\ gw' = "stopped"
  /\ UNCHANGED <<peer_list, list_lock, peerVars, clientVars>>

PeerThread ==
  \/ AddPeer
  \/ CheckBegin
  \/ \E r \in Probes : CheckProbe(r)
  \/ SendPeerList
  \/ PrintPeers
  \/ RemovePeer
  \/ BcastBegin
  \/ \E r \in Probes : BcastProbe(r)
  \/ BcastSkip

ClientThread ==
  \/ ClientTest
  \/ ClientRotate
  \/ \E r \in Probes : ClientProbe(r)
  \/ ClientReply

Next ==
  \/ \E d \in Datagram : PeerRecv(d)
  \/ ClientRecv
  \/ PeerThread
  \/ ClientThread
  \/ Interrupt

Spec == Init /\ [][Next]_vars

(* A thread that can take a step takes one, and a thread that waits for the  *)
(* lock gets it if the lock is free again and again.  Datagrams need not     *)
(* arrive.                                                                   *)
Fairness ==
  /\ WF_vars(PeerThread) /\ WF_vars(ClientThread)
  /\ SF_vars(AddPeer) /\ SF_vars(CheckBegin) /\ SF_vars(PrintPeers)
  /\ SF_vars(RemovePeer) /\ SF_vars(BcastBegin) /\ SF_vars(ClientRotate)

FairSpec == Spec /\ Fairness
-----------------------------------------------------------------------------
(* Type invariant: every variable stays within its type.                     *)
TypeOK ==
  /\ peer_list \in Seq(Peer)
  /\ list_lock \in {"free", "peer", "client"}
  /\ photo_id \in 0..(IdModulus - 1)
  /\ gw \in {"up", "crashed", "exited", "stopped"}
  /\ peer_pc \in {"recv", "append", "listed", "check", "print", "remove",
                  "removed", "bcast"}
  /\ client_pc \in {"recv", "test", "lock", "probe", "reply", "relock"}
  /\ buff \in Datagram
  /\ aux \in Nat \ {0}
  /\ answer \in Peer \cup {NoPeer}
  /\ reached \subseteq Peer /\ unreached \subseteq Peer

(* While the process is up, list_lock is held by a thread exactly while that *)
(* thread is inside one of its critical sections: no path leaves one with    *)
(* the lock held, or touches the list without it, across the probes that are *)
(* made in between (gateway.c: connection_peer, connection_client,           *)
(* broadcastPeers).                                                          *)
LockHolder ==
  gw = "up" =>
    /\ list_lock = "peer" <=> peer_pc \in {"check", "bcast"}
    /\ list_lock = "client" <=> client_pc \in {"probe", "relock"}

(* No thread follows the list where it has nothing to point at: the cursor   *)
(* of a walk stays inside the ring, however many nodes the walk itself       *)
(* removes; a registration's walk never starts on an empty list, although    *)
(* the lock was free since the peer was appended; and the list does not      *)
(* become empty under a client's probe of its root (gateway.c: the loops     *)
(* over aux in connection_peer and broadcastPeers, connection_client).       *)
CursorInRing ==
  gw = "up" =>
    /\ peer_pc \in {"check", "bcast"} => aux \in 1..Len(peer_list)
    /\ peer_pc = "listed" \/ client_pc = "probe" => peer_list # <<>>

(* Every node the registration's walk has left behind is a peer that         *)
(* accepted a connection during this very walk, so that the list sent to the *)
(* new peer names, but for its last entry, only peers that were alive        *)
(* (gateway.c: "Checks if peers are all online before sending peer_list").   *)
ListChecked ==
  (gw = "up" /\ peer_pc = "check") =>
    \A i \in 1..Len(peer_list) : i < aux => peer_list[i] \in reached

(* A peer disappears from the list only because it refused a connection in   *)
(* the current walk, or because the datagram being served names it; the      *)
(* client thread and the broadcasts never lose one.                          *)
Lost == ToSet(peer_list) \ ToSet(peer_list')
RemovedOnlyIfGone ==
  [][ Lost \subseteq CASE peer_pc = "check"  -> unreached'
                       [] peer_pc = "remove" -> {Gone}
                       [] OTHER              -> {} ]_vars

(* When the broadcast of an exit is over, every listed peer has been probed  *)
(* in it, and told if it was online (gateway.c: broadcastPeers, "Broadcasts  *)
(* message to all the peers in peer_list").  The broadcast of a reported     *)
(* loss does not do that: see BcastSkip.                                     *)
BroadcastComplete ==
  [][ (peer_pc = "bcast" /\ peer_pc' # "bcast" /\ buff.type = "exit") =>
        ToSet(peer_list) \subseteq reached' \cup unreached' ]_vars

(* The walk of a registration ends, although it removes nodes under its own  *)
(* cursor, and every broadcast of an exit ends and releases the list.        *)
WalksEnd ==
  /\ (peer_pc = "check") ~> (peer_pc # "check" \/ gw # "up")
  /\ (peer_pc = "bcast" /\ buff.type = "exit") ~> (peer_pc # "bcast" \/ gw # "up")

(* Every broadcast of a removal ends, that of a reported loss too.           *)
BroadcastEnds == (peer_pc = "bcast") ~> (peer_pc # "bcast" \/ gw # "up")

(* The two states in which the list stays locked for ever: the client thread *)
(* locks it a second time, and a broadcast that leaves its reporter out.     *)
Stuck == client_pc = "relock" \/ (peer_pc = "bcast" /\ buff.type = "loss")

(* Every client request is answered, with an online peer or with "no peers", *)
(* whatever registrations, exits and probes are under way, unless the list   *)
(* is stuck: nothing else keeps a client waiting (gateway.c:                 *)
(* connection_client).                                                       *)
ClientServed == (client_pc = "test") ~> (client_pc = "reply" \/ Stuck \/ gw # "up")

(* Every client request is answered.                                         *)
ClientAnswered == (client_pc = "test") ~> (client_pc = "reply" \/ gw # "up")

(* Round robin: as long as the process runs, clients keep asking and no more *)
(* peers leave, each peer that stays listed is given to clients again and    *)
(* again, whatever registers meanwhile and whatever order the peers that     *)
(* left have left the ring in (gateway.c: "round robin approach").           *)
RoundRobin ==
  \A p \in Peer :
    (/\ [](gw = "up")
     /\ <>[](p \in ToSet(peer_list))
     /\ <>[][Len(peer_list) <= Len(peer_list')]_vars
     /\ []<>(client_pc = "reply")) =>
      []<>(client_pc = "reply" /\ answer = p)
=============================================================================
