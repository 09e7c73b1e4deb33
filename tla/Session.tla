------------------------------ MODULE Session -------------------------------
(***************************************************************************)
(* A client and its peer on one TCP connection: client.c and library.c at  *)
(* one end, the thread of `connection' in peer.c at the other.  A command  *)
(* and its answer carry no number that would tell which belongs to which,  *)
(* and the client waits 8 s for every piece of an answer.                  *)
(*                                                                         *)
(* The streams are sequences of words of four bytes; the message with the  *)
(* command is one item.  Values are those that steer the two programs: an  *)
(* id, a length or a size is 0, or 1 or Size.                              *)
(***************************************************************************)
EXTENDS Integers, Sequences, FiniteSets

CONSTANTS
  Size,         \* the words of a photo, a name or an array that is not empty
  Capacity,     \* words under way in one direction, the buffers
  MaxCommands,  \* bound of the model: commands the client gives
  MaxKills      \* bound of the model: peers that are killed

ASSUME SessionAssumption ==
  /\ Size \in Nat \ {0} /\ Capacity \in Nat \ {0}
  /\ MaxCommands \in Nat /\ MaxKills \in Nat

(* keyadd and delete are one: the answer is a number that nothing depends on *)
Op == {"edit", "search", "getname", "download", "add"}

VARIABLES
  cpc,     \* client: "idle", "head", "number", "data", "upload", "again", "gone"
  cmd,     \* client: its command [of, kind, val], as it goes into the stream
  want,    \* client: the length asked for, or the words still to upload
  got,     \* client: words of the data received
  cend,    \* client: the state of its end of the connection
  c2p, p2c,\* the streams
  ppc,     \* peer: "head", "answer", "payload", "body", "left", "ended"
  job,     \* peer: the command it works on
  left,    \* peer: words of the answer still to send
  body,    \* peer: the words received of a photo
  pend,    \* peer: the state of its end of the connection
  stored,  \* history: the last photo the peer has stored
  why,     \* history: why the peer's process has ended
  slips,   \* history: what has gone out of the ordinary: an answer came late
           \* or fell short, a photo came torn, the client left in the middle
  wasted,  \* history: commands given since the end of the peer was known
  kills    \* history: peers killed

client == <<cpc, cmd, want, got>>
peer == <<ppc, job, left, body, stored, why>>
history == <<slips, wasted, kills>>
vars == <<client, cend, c2p, p2c, peer, pend, history>>

NoCommand == [of |-> 0, kind |-> "none", val |-> 0]
NoPhoto == [of |-> 0, size |-> 0, words |-> <<>>]
Huge == 2 * Size + Capacity   \* a length that no stream satisfies

Init ==
  /\ cpc = "idle" /\ cmd = NoCommand /\ want = 0 /\ got = 0 /\ cend = "open"
  /\ c2p = <<>> /\ p2c = <<>>
  /\ ppc = "head" /\ job = NoCommand /\ left = 0 /\ body = <<>> /\ pend = "open"
  /\ stored = NoPhoto /\ why = "none"
  /\ slips = {} /\ wasted = 0 /\ kills = 0
-----------------------------------------------------------------------------
(* TCP.  An end is "open"; "fin" when the other has closed; "dead" when data *)
(* was sent after that and its reset is under way; "rst" when a reset has    *)
(* come that no call has reported yet; "pipe" when one has, or it came after *)
(* the other's close.                                                        *)

(* What the other end comes to by a close with words unread or under way.    *)
AfterClose(unread) == IF unread = <<>> THEN {"fin"} ELSE {"rst", "dead"}

(* A reset may overtake the last words of the other direction.               *)
Arrives(end, q) == IF end = "rst" THEN {SubSeq(q, 1, i) : i \in 0..Len(q)} ELSE {q}

(* send() of one item at an end, and the end afterwards.                     *)
Put(end, q, w) == IF end = "open" THEN Append(q, w) ELSE q
AfterSend(end) == CASE end = "fin" -> "dead" [] end = "rst" -> "pipe" [] OTHER -> end
CanSend(end, q) == end # "open" \/ Len(q) < Capacity
Refuses(end) == end \in {"rst", "pipe"}

(* recv() at an end with nothing left to read: 0, or the reset.              *)
AfterRecv(end) == IF end = "rst" THEN "pipe" ELSE end

(* The reset arrives.                                                        *)
ResetArrives ==
  /\ \/ cend = "dead" /\ cend' = "pipe" /\ UNCHANGED pend
     \/ pend = "dead" /\ pend' = "pipe" /\ UNCHANGED cend
  /\ UNCHANGED <<client, c2p, p2c, peer, history>>

Take(q, n) == SubSeq(q, 1, n)
Rest(q, n) == SubSeq(q, n + 1, Len(q))
Least(a, b) == IF a < b THEN a ELSE b
-----------------------------------------------------------------------------
(* The client.                                                               *)

(* main: the user gives a command.                                           *)
Begin(op, size) ==
  /\ cpc = "idle" /\ cmd.of < MaxCommands
  /\ cpc' = "head" /\ want' = 0 /\ got' = 0
  /\ cmd' = [of |-> cmd.of + 1, kind |-> op, val |-> size]
  /\ wasted' = IF Refuses(cend) THEN wasted + 1 ELSE wasted
  /\ UNCHANGED <<cend, c2p, p2c, peer, pend, slips, kills>>

(* Faulty variant: a broken connection is an error like any other.           *)
NoticesNot(end) == FALSE

(* checkPeerState: errno is EPIPE after a send() at the end.                 *)
Notices(end) == end = "pipe"

(* Back to the menu after a failed send(), or out of it to another peer.     *)
AfterFailure(end) == IF Notices(end) THEN "again" ELSE "idle"

(* stream_and_send_photo.                                                    *)
SendHead ==
  /\ cpc = "head" /\ CanSend(cend, c2p)
  /\ c2p' = Put(cend, c2p, cmd)
  /\ cend' = AfterSend(cend)
  /\ cpc' = IF Refuses(cend) THEN AfterFailure(cend) ELSE "number"
  /\ UNCHANGED <<cmd, want, got, p2c, peer, pend, history>>

(* Faulty variant: the size of a photo is received as an int.                *)
NumberWordsInt(op) == 1

(* The words of the number that an answer begins with: the size of a photo   *)
(* is a long.                                                                *)
NumberWords(op) == IF op = "download" THEN 2 ELSE 1

(* The values that words read as a number can have: any, for words of data.  *)
Reads(w) == IF w.kind = "number" THEN {w.val} ELSE {-1, 0, 1, Size}
Number(ws, op) ==
  IF op # "download" THEN Reads(ws[1])
  ELSE {IF v < 0 THEN Huge ELSE v : v \in
          IF Len(ws) = 1 THEN Reads(ws[1])
          ELSE UNION {IF h = 0 THEN Reads(ws[1]) ELSE {-1, Huge} : h \in Reads(ws[2])}}

(* No buffer of such a length can be had, and recv() fails.                  *)
Broken(v) == v < 0

(* The number comes, by one recv() that may give less than a long has.       *)
RecvNumber ==
  /\ cpc = "number"
  /\ \E n \in 1..Least(NumberWords(cmd.kind), Len(p2c)) :
       /\ p2c' = Rest(p2c, n)
       /\ slips' = IF n < NumberWords(cmd.kind) THEN slips \cup {"short"} ELSE slips
       /\ \E v \in Number(Take(p2c, n), cmd.kind) :
            \/ /\ \/ v = 0 \/ cmd.kind = "edit"
                  \/ cmd.kind = "add" /\ cmd.val = 0
                  \/ cmd.kind # "add" /\ Broken(v)
               /\ cpc' = "idle" /\ UNCHANGED want
            \/ /\ v # 0 /\ cmd.kind = "add" /\ cmd.val > 0
               /\ cpc' = "upload" /\ want' = cmd.val
            \/ /\ v # 0 /\ ~Broken(v) /\ cmd.kind \in {"search", "getname", "download"}
               /\ cpc' = "data" /\ want' = v
  /\ UNCHANGED <<cmd, got, cend, c2p, peer, pend, wasted, kills>>

(* The data comes: by one recv() for an array, by recv_all, which asks for   *)
(* the full length in every turn, for a name or a photo.                     *)
RecvData ==
  /\ cpc = "data"
  /\ \E n \in 1..Least(want, Len(p2c)) :
       /\ p2c' = Rest(p2c, n)
       /\ got' = got + n
       /\ cpc' = IF cmd.kind = "search" \/ got + n >= want THEN "idle" ELSE "data"
       /\ slips' = IF cmd.kind = "search" /\ n < want THEN slips \cup {"short"} ELSE slips
  /\ UNCHANGED <<cmd, want, cend, c2p, peer, pend, wasted, kills>>

(* The photo is sent, if the peer has given it an id.                        *)
Upload ==
  /\ cpc = "upload" /\ CanSend(cend, c2p)
  /\ c2p' = Put(cend, c2p, [of |-> cmd.of, kind |-> "photo", val |-> 0])
  /\ cend' = AfterSend(cend)
  /\ want' = want - 1
  /\ cpc' = IF Refuses(cend) THEN AfterFailure(cend)
            ELSE IF want = 1 THEN "idle" ELSE "upload"
  /\ UNCHANGED <<cmd, got, p2c, peer, pend, history>>

Waiting == cpc \in {"number", "data"} /\ p2c = <<>>

(* Faulty variant: no time-out is set.                                       *)
TimesOutNever == FALSE

(* 8 s without a word.                                                       *)
TimesOut == Waiting /\ cend = "open"

(* The command fails by the time-out, and its answer may come later.         *)
GiveUp ==
  /\ TimesOut
  /\ cpc' = "idle" /\ slips' = slips \cup {"late"}
  /\ UNCHANGED <<cmd, want, got, cend, c2p, p2c, peer, pend, wasted, kills>>

(* recv() gives 0, or an error, and the command ends: with the result "not   *)
(* found", or a variable never set, or a name never received.                *)
RecvEnd ==
  /\ Waiting /\ cend # "open"
  /\ cpc' = "idle" /\ cend' = AfterRecv(cend)
  /\ UNCHANGED <<cmd, want, got, c2p, p2c, peer, pend, history>>

(* A length that is huge, of which malloc() may have failed.                 *)
RecvFails ==
  /\ cpc = "data" /\ want = Huge
  /\ cpc' = "idle"
  /\ UNCHANGED <<cmd, want, got, cend, c2p, p2c, peer, pend, history>>

(* gallery_connect: another peer, or none.                                   *)
Reconnect ==
  /\ cpc = "again"
  /\ wasted' = 0
  /\ \/ /\ cpc' = "idle" /\ cend' = "open" /\ pend' = "open"
        /\ c2p' = <<>> /\ p2c' = <<>> /\ slips' = {}
        /\ ppc' = "head" /\ job' = NoCommand /\ left' = 0 /\ body' = <<>> /\ why' = "none"
        /\ stored' = NoPhoto
     \/ cpc' = "gone" /\ UNCHANGED <<cend, c2p, p2c, peer, pend, slips>>
  /\ UNCHANGED <<cmd, want, got, kills>>

(* quit, or SIGINT in the middle of a command: notify_server says good-bye   *)
(* and closes.                                                               *)
Leave ==
  /\ cpc \notin {"again", "gone"} /\ CanSend(cend, c2p)
  /\ cpc' = "gone" /\ p2c' = <<>>
  /\ slips' = IF cpc = "idle" THEN slips ELSE slips \cup {"left"}
  /\ IF cend = "open"
     THEN /\ pend' \in AfterClose(p2c)
          /\ c2p' \in Arrives(pend', Append(c2p, [of |-> cmd.of, kind |-> "quit", val |-> 0]))
     ELSE UNCHANGED <<c2p, pend>>
  /\ UNCHANGED <<cmd, want, got, cend, peer, wasted, kills>>
-----------------------------------------------------------------------------
(* The peer.                                                                 *)

(* The process ends with words unread, and the kernel closes its sockets.    *)
End(cause, unread) ==
  /\ ppc' = "ended" /\ why' = cause
  /\ c2p' = <<>>
  /\ IF pend = "open"
     THEN cend' \in AfterClose(unread) /\ p2c' \in Arrives(cend', p2c)
     ELSE UNCHANGED <<cend, p2c>>
  /\ UNCHANGED <<job, left, body, stored>>

Kill ==
  /\ ppc # "ended" /\ kills < MaxKills
  /\ End("killed", c2p) /\ kills' = kills + 1
  /\ UNCHANGED <<client, pend, slips, wasted>>

(* connection: the next message; the default branch ignores what is none.    *)
RecvHead ==
  /\ ppc = "head" /\ c2p # <<>>
  /\ c2p' = Tail(c2p)
  /\ CASE Head(c2p).kind = "quit" -> ppc' = "left" /\ UNCHANGED job
       [] Head(c2p).kind = "photo" -> UNCHANGED <<ppc, job>>
       [] OTHER -> ppc' = "answer" /\ job' = Head(c2p)
  /\ UNCHANGED <<client, cend, p2c, left, body, stored, why, pend, history>>

(* The client has gone: recv() gives 0 or an error, and the thread ends.     *)
RecvGone ==
  /\ ppc = "head" /\ c2p = <<>> /\ pend # "open"
  /\ ppc' = "left" /\ pend' = AfterRecv(pend)
  /\ UNCHANGED <<client, cend, c2p, p2c, job, left, body, stored, why, history>>

(* The numbers an answer may begin with.                                     *)
Answers(op) ==
  CASE op = "edit" -> {-1, 0, 1} [] op = "add" -> {0, 1} [] OTHER -> {0, Size}

(* Faulty variant: an upload without an id goes on like any other.           *)
BodyFollowsAlways(v) == TRUE

(* A photo follows if it has an id.                                          *)
BodyFollows(v) == v # 0

(* The handler answers with a number, the low word of it first.  Nobody      *)
(* catches SIGPIPE; another error ends search_photo and add_photo, and the   *)
(* other handlers go on.                                                     *)
Answer ==
  /\ ppc = "answer" /\ CanSend(pend, p2c)
  /\ IF pend = "pipe"
     THEN End("sigpipe", c2p) /\ UNCHANGED pend
     ELSE \E v \in Answers(job.kind) :
            LET word(x) == [of |-> job.of, kind |-> "number", val |-> x]
                sent == Put(pend, p2c, word(v))
            IN  /\ p2c' = IF job.kind = "download" THEN Put(pend, sent, word(0)) ELSE sent
                /\ pend' = AfterSend(pend)
                /\ ppc' = IF job.kind = "add" /\ BodyFollows(v) /\ pend # "rst" THEN "body"
                          ELSE IF job.kind \in {"getname", "download"} /\ v # 0 THEN "payload"
                          ELSE IF job.kind = "search" /\ v # 0 /\ pend # "rst" THEN "payload"
                          ELSE "head"
                /\ left' = Size /\ body' = <<>>
                /\ UNCHANGED <<cend, c2p, job, stored, why>>
  /\ UNCHANGED <<client, history>>

(* The array, the name or the photo.                                         *)
Payload ==
  /\ ppc = "payload" /\ CanSend(pend, p2c)
  /\ IF pend = "pipe"
     THEN End("sigpipe", c2p) /\ UNCHANGED pend
     ELSE /\ p2c' = Put(pend, p2c, [of |-> job.of, kind |-> "data", val |-> 0])
          /\ pend' = AfterSend(pend)
          /\ left' = left - 1
          /\ ppc' = IF left = 1 \/ pend = "rst" THEN "head" ELSE "payload"
          /\ UNCHANGED <<cend, c2p, job, body, stored, why>>
  /\ UNCHANGED <<client, history>>

(* Faulty variant: the last word of the photo is not waited for.             *)
WholeShort(n, size) == n >= size - 1

(* recv_all leaves its loop.                                                 *)
Whole(n, size) == n >= size

(* add_photo receives the photo by recv_all, which asks for the full size in *)
(* every turn.  It exits when it has got too much.                           *)
RecvBody ==
  /\ ppc = "body"
  /\ \E n \in 1..Least(job.val, Len(c2p)) :
       LET words == body \o Take(c2p, n)
       IN  /\ slips' = IF n < job.val - Len(body) /\ c2p[n].kind = "photo"
                       THEN slips \cup {"torn"} ELSE slips
           /\ IF Len(words) > job.val THEN End("exit", Rest(c2p, n))
              ELSE /\ c2p' = Rest(c2p, n)
                   /\ IF Whole(Len(words), job.val)
                      THEN /\ stored' = [of |-> job.of, size |-> job.val, words |-> words]
                           /\ ppc' = "head" /\ body' = <<>>
                      ELSE body' = words /\ UNCHANGED <<stored, ppc>>
                   /\ UNCHANGED <<cend, p2c, job, left, why>>
  /\ UNCHANGED <<client, pend, wasted, kills>>

(* The client has gone, or the photo is empty, for which recv_all never      *)
(* returns a positive number: add_photo exits.                               *)
BodyFails ==
  /\ ppc = "body" /\ (job.val = 0 \/ (c2p = <<>> /\ pend # "open"))
  /\ End("exit", c2p)
  /\ UNCHANGED <<client, pend, history>>
-----------------------------------------------------------------------------
Command == \E op \in Op : \E size \in IF op = "add" THEN {0, Size} ELSE {0} : Begin(op, size)

ClientStep == SendHead \/ RecvNumber \/ RecvData \/ Upload \/ GiveUp \/ RecvEnd
              \/ RecvFails \/ Reconnect
PeerStep == RecvHead \/ RecvGone \/ Answer \/ Payload \/ RecvBody \/ BodyFails

Next == Command \/ ClientStep \/ Leave \/ PeerStep \/ Kill \/ ResetArrives

Spec == Init /\ [][Next]_vars

(* Both programs go on; the user gives commands as he likes.                 *)
Fairness == WF_vars(ClientStep) /\ WF_vars(PeerStep)

FairSpec == Spec /\ Fairness
-----------------------------------------------------------------------------
Word == [of : Nat, kind : Op \cup {"none", "quit", "photo", "number", "data"}, val : Int]
EndState == {"open", "fin", "dead", "rst", "pipe"}

(* Type invariant: every variable stays within its type, and the streams     *)
(* within their buffers, but for the second word of a long and a good-bye.   *)
TypeOK ==
  /\ cpc \in {"idle", "head", "number", "data", "upload", "again", "gone"}
  /\ ppc \in {"head", "answer", "payload", "body", "left", "ended"}
  /\ cmd \in Word /\ job \in Word
  /\ want \in 0..Huge /\ got \in Nat /\ left \in 0..Size
  /\ cend \in EndState /\ pend \in EndState
  /\ c2p \in Seq(Word) /\ p2c \in Seq(Word) /\ body \in Seq(Word)
  /\ Len(c2p) <= Capacity + 1 /\ Len(p2c) <= Capacity + 1
  /\ stored \in [of : Nat, size : Nat, words : Seq(Word)]
  /\ why \in {"none", "killed", "exit", "sigpipe"}
  /\ slips \subseteq {"late", "short", "torn", "left"} /\ wasted \in Nat /\ kills \in 0..MaxKills

(* As long as no command was given up and no plain recv() fell short, every  *)
(* word that waits for the client answers its current command, and none      *)
(* waits when it has none; and the buffers hold what they can, whatever      *)
(* happens (library.c: "Receive int from peer").                             *)
InStep ==
  /\ TypeOK
  /\ slips \cap {"late", "short"} = {} =>
       /\ \A i \in 1..Len(p2c) : p2c[i].of = cmd.of
       /\ cpc = "idle" => p2c = <<>>

(* A photo is stored with the words of its own upload, all of them, in       *)
(* however many pieces they come, unless the client gave up, left in the     *)
(* middle or fell out of step (peer.c: add_photo, "Receive photo").          *)
PhotoWhole ==
  slips \subseteq {"torn"} /\ stored.of > 0 =>
    /\ Len(stored.words) = stored.size
    /\ \A i \in 1..Len(stored.words) :
         stored.words[i].of = stored.of /\ stored.words[i].kind = "photo"

(* The peer's process survives its clients: it ends by itself only if one    *)
(* gave up or left in the middle of a command, a recv() fell short, a photo  *)
(* came in pieces or was empty (peer.c: connection, "Client broke            *)
(* connection!").                                                            *)
PeerSurvives ==
  why \in {"exit", "sigpipe"} => slips # {} \/ (job.kind = "add" /\ job.val = 0)

(* When the client's system knows that the peer has gone, it takes at most   *)
(* two commands until the client does and looks for another (client.c:       *)
(* checkPeerState, "Peer has disconnected").                                 *)
NoticesSoon == wasted <= 2

(* No answer keeps the client waiting for ever, whatever the peer does and   *)
(* however far the two are out of step; and no send does, until a command    *)
(* was given up or fell short (library.c: gallery_connect, "so client        *)
(* doesn't stay blocked if peer isnt online").                               *)
Blocked == slips # {} /\ cpc \in {"head", "upload"}
CommandEnds ==
  (cpc \in {"head", "number", "data", "upload"} /\ ~Blocked)
    ~> (cpc \in {"idle", "again", "gone"} \/ Blocked)
=============================================================================
