----------------------------- MODULE IdService ------------------------------
(***************************************************************************)
(* How a photo gets its id (add_photo of peer.c and connection_peer of     *)
(* gateway.c): a peer's thread sends the gateway a datagram and waits 5 s  *)
(* for the answer, a bare number.  All threads of a peer wait on the same  *)
(* socket, and an answer says not whose it is.  Datagrams may be lost or   *)
(* overtake each other.  A thread that has waited in vain takes the        *)
(* gateway for dead and ends the whole system: it tells every peer, and    *)
(* then ends its own (connection, checkGWState, kill_server).              *)
(***************************************************************************)
EXTENDS Ring, FiniteSets

CONSTANTS
  Members,     \* the peers, in the order in which they registered
  Thread,      \* the threads of a peer that clients upload to
  NoThread,    \* no thread at all
  IdModulus,   \* 2^32, the number of values of the uint32_t photo_id
  MaxServed,   \* bound of the model: id requests that the gateway serves
  MaxGiveUps   \* bound of the model: threads that wait in vain

Peer == ToSet(Members)

ASSUME IdServiceAssumption ==
  /\ Members \in Seq(Peer)
  /\ \A i, j \in 1..Len(Members) : Members[i] = Members[j] => i = j
  /\ NoThread \notin Thread
  /\ IdModulus \in Nat \ {0, 1} /\ MaxServed \in Nat /\ MaxGiveUps \in Nat

VARIABLES
  photo_id,   \* the gateway's counter
  served,     \* history: the requests it has served
  requests,   \* per peer: id requests under way to the gateway
  answers,    \* per peer: the answers under way to its socket
  status,     \* per peer: "up", "told" of the shut-down, or "down"
  th,         \* per peer and thread: where it stands in add_photo
  toTell,     \* per peer: the peers its broadcast has still to tell
  walker,     \* per peer: the thread that holds peer_lock for it
  photos,     \* history: per id: the number of photos stored under it
  gaveup      \* history: the threads that have waited in vain

network == <<requests, answers>>
shutdown == <<toTell, walker, gaveup>>
vars == <<photo_id, served, network, status, th, photos, shutdown>>

(* The other peers in the order in which a peer's broadcast tells them.      *)
RingOf(p) == ring_remove(Members, p)

Init ==
  /\ photo_id = 0 /\ served = 0
  /\ requests = [p \in Peer |-> 0] /\ answers = [p \in Peer |-> <<>>]
  /\ status = [p \in Peer |-> "up"]
  /\ th = [p \in Peer |-> [t \in Thread |-> "idle"]]
  /\ toTell = [p \in Peer |-> RingOf(p)]
  /\ walker = [p \in Peer |-> NoThread]
  /\ photos = [id \in 0..(IdModulus - 1) |-> 0]
  /\ gaveup = {}
-----------------------------------------------------------------------------
(* The process of the peer runs, and may have been told to end.              *)
Runs(p) == status[p] # "down"
Goto(p, t, s) == th' = [th EXCEPT ![p][t] = s]

(* A client uploads: the thread asks the gateway for an id, and waits.       *)
Ask(p, t) ==
  /\ Runs(p) /\ th[p][t] = "idle"
  /\ served + Cardinality({q \in Peer : requests[q] > 0}) < MaxServed
  /\ requests' = [requests EXCEPT ![p] = @ + 1]
  /\ Goto(p, t, "wait")
  /\ UNCHANGED <<photo_id, served, answers, status, photos, shutdown>>

(* Faulty variant: the counter is wider than the id.                         *)
NextIdWide(i) == i + 1

(* ++photo_id, an unsigned 32-bit integer.                                   *)
NextId(i) == (i + 1) % IdModulus

(* The gateway serves a request.  A datagram that is lost is one that stays  *)
(* under way for ever, and one that is late is taken later.                  *)
Serve(p) ==
  /\ requests[p] > 0 /\ served < MaxServed
  /\ requests' = [requests EXCEPT ![p] = @ - 1]
  /\ photo_id' = NextId(photo_id)
  /\ served' = served + 1
  /\ answers' = IF Runs(p) THEN [answers EXCEPT ![p] = Append(@, photo_id')]
                            ELSE answers
  /\ UNCHANGED <<status, th, photos, shutdown>>

(* Faulty variant: the id 0 is an id like any other.                         *)
UsableAny(id) == TRUE

(* id == 0 is the sign of a failure: nothing is stored.                      *)
Usable(id) == id # 0

(* Faulty variant: the answer stays in the socket.                           *)
RestAll(p, i) == answers[p]

(* The answers left when the i-th is taken from the socket.                  *)
Rest(p, i) == RemoveAt(answers[p], i)

(* A thread that waits takes an answer, whichever has come, and stores the   *)
(* photo under it.                                                           *)
RecvId(p, t) ==
  /\ Runs(p) /\ th[p][t] = "wait"
  /\ \E i \in 1..Len(answers[p]) :
       /\ answers' = [answers EXCEPT ![p] = Rest(p, i)]
       /\ photos' = IF Usable(answers[p][i])
                    THEN [photos EXCEPT ![answers[p][i]] = @ + 1]
                    ELSE photos
  /\ Goto(p, t, "idle")
  /\ UNCHANGED <<photo_id, served, requests, status, shutdown>>

(* recvfrom times out; the thread fails, and checkGWState sees why.          *)
TimeOut(p, t) ==
  /\ Runs(p) /\ th[p][t] = "wait" /\ Cardinality(gaveup) < MaxGiveUps
  /\ Goto(p, t, "gaveup")
  /\ gaveup' = gaveup \cup {<<p, t>>}
  /\ UNCHANGED <<photo_id, served, network, status, photos, toTell, walker>>
-----------------------------------------------------------------------------
(* broadcastPeersAndNotify("", -2, NULL), with peer_lock held throughout.    *)
BcastLock(p, t) ==
  /\ Runs(p) /\ th[p][t] = "gaveup" /\ walker[p] = NoThread
  /\ walker' = [walker EXCEPT ![p] = t]
  /\ UNCHANGED <<photo_id, served, network, status, th, photos, toTell, gaveup>>

(* The next peer is told if it still runs, and dropped if it does not.       *)
Tell(p, t) ==
  /\ Runs(p) /\ walker[p] = t /\ toTell[p] # <<>>
  /\ LET q == Head(toTell[p])
     IN  status' = IF status[q] = "up" THEN [status EXCEPT ![q] = "told"] ELSE status
  /\ toTell' = [toTell EXCEPT ![p] = Tail(@)]
  /\ UNCHANGED <<photo_id, served, network, th, photos, walker, gaveup>>

(* Faulty variant: the last peer of the ring is not waited for.              *)
ToldEnough(p) == Len(toTell[p]) <= 1

(* The broadcast is over.                                                    *)
ToldAll(p) == toTell[p] = <<>>

(* kill_server, after the broadcast or on the message -2: the process ends,  *)
(* whatever its other threads are doing, and its socket is closed.  A peer   *)
(* that was told tells nobody.                                               *)
KillServer(p) ==
  /\ \/ status[p] = "told"
     \/ status[p] = "up" /\ walker[p] # NoThread /\ ToldAll(p)
  /\ status' = [status EXCEPT ![p] = "down"]
  /\ th' = [th EXCEPT ![p] = [t \in Thread |-> "idle"]]
  /\ answers' = [answers EXCEPT ![p] = <<>>]
  /\ toTell' = [toTell EXCEPT ![p] = <<>>]
  /\ walker' = [walker EXCEPT ![p] = NoThread]
  /\ UNCHANGED <<photo_id, served, requests, photos, gaveup>>
-----------------------------------------------------------------------------
ThreadStep(p, t) ==
  RecvId(p, t) \/ TimeOut(p, t) \/ BcastLock(p, t) \/ Tell(p, t)

Next ==
  \E p \in Peer :
    \/ Serve(p) \/ KillServer(p)
    \/ \E t \in Thread : Ask(p, t) \/ ThreadStep(p, t)

Spec == Init /\ [][Next]_vars

(* Threads go on, and a process that is told to end ends.  The gateway and   *)
(* the network owe nothing.                                                  *)
Fairness ==
  \A p \in Peer :
    /\ WF_vars(KillServer(p))
    /\ \A t \in Thread : WF_vars(BcastLock(p, t)) /\ WF_vars(Tell(p, t))

FairSpec == Spec /\ Fairness
-----------------------------------------------------------------------------
(* Type invariant: every variable stays within its type.                     *)
TypeOK ==
  /\ photo_id \in 0..(IdModulus - 1) /\ served \in 0..MaxServed
  /\ requests \in [Peer -> Nat]
  /\ answers \in [Peer -> Seq(0..(IdModulus - 1))]
  /\ status \in [Peer -> {"up", "told", "down"}]
  /\ th \in [Peer -> [Thread -> {"idle", "wait", "gaveup"}]]
  /\ toTell \in [Peer -> Seq(Peer)]
  /\ walker \in [Peer -> Thread \cup {NoThread}]
  /\ photos \in [0..(IdModulus - 1) -> Nat] /\ gaveup \subseteq Peer \X Thread

(* Until the counter wraps, no id names two photos, although threads take    *)
(* each other's answers and answers to requests that were given up           *)
(* (gateway.c: connection_peer, "unique photo id"; peer.c: add_photo).         *)
UniqueIds ==
  served < IdModulus => \A id \in DOMAIN photos : photos[id] <= 1

(* No photo gets the id 0, which means failure to peers and clients, not     *)
(* even after the counter has wrapped (peer.c: add_photo, "if(id == 0)").    *)
NoZeroId == photos[0] = 0

(* The shut-down reaches everybody: if the threads of one peer alone give    *)
(* up, every peer ends in the end, in whatever order they are told and end   *)
(* (peer.c: connection, "Shutting down").                                    *)
OneGaveUp == Cardinality({a[1] : a \in gaveup}) = 1
ShutdownReachesAll ==
  OneGaveUp ~> (~OneGaveUp \/ \A q \in Peer : status[q] = "down")
=============================================================================
