---------------------------- MODULE SessionProofs ---------------------------
(***************************************************************************)
(* What holds of Session for photos of any size, buffers of any capacity   *)
(* and any number of commands and peers that are killed.                   *)
(*                                                                         *)
(*   TypeInv   the types, the words in the streams, and what a program     *)
(*             knows of its command at each of its stages                  *)
(*   EndInv    who can know that the other end is gone                     *)
(*   WasteInv  how often the client may ask a peer it could know is gone   *)
(*   SyncInv   how client, peer and streams stand to each other as long as *)
(*             they are in step; what a client that left in order leaves   *)
(*                                                                         *)
(* SessionInv, the conjunction of all but WasteInv, is inductive.          *)
(***************************************************************************)
EXTENDS Session, TLAPS

(* The values of the words an answer is made of.                             *)
Value == {-1, 0, 1, Size}

(* The items of the streams.                                                 *)
AnswerWord(w) == w.kind \in {"number", "data"} /\ w.val \in Value
RequestItem(w) ==
  /\ w.kind \in Op \cup {"quit", "photo"} /\ w.val \in {0, Size}
  /\ w.kind \in Op => w.of > 0
Words ==
  /\ \A i \in 1..Len(p2c) : AnswerWord(p2c[i])
  /\ \A i \in 1..Len(c2p) : RequestItem(c2p[i])

(* What the programs are at with their commands.                             *)
ClientStage ==
  /\ cmd.kind \in Op \cup {"none"} /\ cmd.val \in {0, Size}
  /\ cpc \in {"head", "number", "data", "upload"} => cmd.kind \in Op /\ cmd.of > 0
  /\ cpc \in {"head", "number"} => got = 0
  /\ cpc = "upload" => want \in 1..Size
PeerStage ==
  /\ job.kind \in Op \cup {"none"} /\ job.val \in {0, Size}
  /\ ppc \in {"answer", "payload", "body"} => job.kind \in Op /\ job.of > 0
  /\ ppc = "payload" => left \in 1..Size
  /\ ppc = "body" => job.kind = "add"

TypeInv == TypeOK /\ Words /\ ClientStage /\ PeerStage
-----------------------------------------------------------------------------
(* The operations on streams.                                                *)

LEMMA TakeRest ==
  ASSUME NEW S, NEW q \in Seq(S), NEW n \in 0..Len(q)
  PROVE  /\ Take(q, n) \in Seq(S) /\ Len(Take(q, n)) = n
         /\ \A i \in 1..n : Take(q, n)[i] = q[i]
         /\ Rest(q, n) \in Seq(S) /\ Len(Rest(q, n)) = Len(q) - n
         /\ \A i \in 1..(Len(q) - n) : Rest(q, n)[i] = q[n + i]
BY DEF Take, Rest

LEMMA AppendLast ==
  ASSUME NEW S, NEW q \in Seq(S), NEW e \in S
  PROVE  /\ Append(q, e) \in Seq(S) /\ Len(Append(q, e)) = Len(q) + 1
         /\ \A i \in 1..Len(q) : Append(q, e)[i] = q[i]
         /\ Append(q, e)[Len(q) + 1] = e
OBVIOUS

LEMMA TailShifts ==
  ASSUME NEW S, NEW q \in Seq(S), q # <<>>
  PROVE  /\ Tail(q) \in Seq(S) /\ Len(Tail(q)) = Len(q) - 1 /\ Len(q) > 0
         /\ Head(q) = q[1] /\ Head(q) \in S
         /\ \A i \in 1..(Len(q) - 1) : Tail(q)[i] = q[i + 1]
OBVIOUS

LEMMA Joined ==
  ASSUME NEW S, NEW q \in Seq(S), NEW r \in Seq(S)
  PROVE  /\ q \o r \in Seq(S) /\ Len(q \o r) = Len(q) + Len(r)
         /\ \A i \in 1..Len(q) : (q \o r)[i] = q[i]
         /\ \A i \in 1..Len(r) : (q \o r)[Len(q) + i] = r[i]
         /\ \A i \in 1..(Len(q) + Len(r)) :
              i <= Len(q) \/ (i - Len(q) \in 1..Len(r) /\ (q \o r)[i] = r[i - Len(q)])
OBVIOUS

LEMMA ArrivesPrefix ==
  ASSUME NEW S, NEW q \in Seq(S), NEW end, NEW r \in Arrives(end, q)
  PROVE  /\ r \in Seq(S) /\ Len(r) <= Len(q) /\ \A i \in 1..Len(r) : r[i] = q[i]
         /\ end # "rst" => r = q
<1>1. CASE end = "rst"
  <2>1. PICK i \in 0..Len(q) : r = SubSeq(q, 1, i)
    BY <1>1 DEF Arrives
  <2> QED
    BY <1>1, <2>1
<1>2. CASE end # "rst"
  BY <1>2 DEF Arrives
<1> QED
  BY <1>1, <1>2

LEMMA LeastBound ==
  ASSUME NEW a \in Int, NEW b \in Int
  PROVE  Least(a, b) <= a /\ Least(a, b) <= b /\ Least(a, b) \in Int
BY DEF Least

LEMMA Ending ==
  ASSUME NEW cause, NEW unread, End(cause, unread), p2c \in Seq(Word), cend \in EndState
  PROVE  /\ ppc' = "ended" /\ why' = cause /\ c2p' = <<>>
         /\ job' = job /\ left' = left /\ body' = body /\ stored' = stored
         /\ cend' \in EndState /\ p2c' \in Seq(Word) /\ Len(p2c') <= Len(p2c)
         /\ \A i \in 1..Len(p2c') : p2c'[i] = p2c[i]
         /\ pend = "open" => cend' # "open" /\ cend' # "pipe"
         /\ pend # "open" => cend' = cend
<1>1. CASE pend = "open"
  <2>1. cend' \in AfterClose(unread) /\ p2c' \in Arrives(cend', p2c)
    BY <1>1 DEF End
  <2>2. cend' \in {"fin", "rst", "dead"}
    BY <2>1 DEF AfterClose
  <2>3. /\ p2c' \in Seq(Word) /\ Len(p2c') <= Len(p2c)
        /\ \A i \in 1..Len(p2c') : p2c'[i] = p2c[i]
    BY <2>1, ArrivesPrefix
  <2> QED
    BY <1>1, <2>2, <2>3 DEF End, EndState
<1>2. CASE pend # "open"
  BY <1>2 DEF End
<1> QED
  BY <1>1, <1>2

LEMMA TypeInit == Init => TypeInv
BY SessionAssumption
   DEF Init, TypeInv, TypeOK, Words, ClientStage, PeerStage, NoCommand, NoPhoto, Word, EndState, Op,
       Huge

(* The actions that leave the streams and the peer as they are.              *)
LEMMA BeginTypes ==
  ASSUME TypeInv, NEW op \in Op, NEW size \in {0, Size}, Begin(op, size)
  PROVE  TypeInv'
<1>1. /\ cpc' = "head" /\ want' = 0 /\ got' = 0
      /\ cmd' = [of |-> cmd.of + 1, kind |-> op, val |-> size]
      /\ wasted' \in {wasted, wasted + 1}
      /\ UNCHANGED <<cend, c2p, p2c, peer, pend, slips, kills>>
  BY DEF Begin
<1>2. cmd.of \in Nat /\ wasted \in Nat /\ 0 \in 0..Huge /\ Size \in Int
  BY SessionAssumption DEF TypeInv, TypeOK, Word, Huge
<1>3. cmd' \in Word
  BY <1>1, <1>2 DEF Word
<1>4. wasted' \in Nat
  BY <1>1, <1>2
<1>5. TypeOK'
  BY <1>1, <1>2, <1>3, <1>4 DEF TypeInv, TypeOK, peer
<1>6. Words' /\ PeerStage'
  BY <1>1 DEF TypeInv, Words, PeerStage, peer
<1>7. ClientStage'
  BY <1>1, <1>2 DEF ClientStage
<1> QED
  BY <1>5, <1>6, <1>7 DEF TypeInv

LEMMA WaitTypes ==
  ASSUME TypeInv, GiveUp \/ RecvEnd \/ RecvFails
  PROVE  TypeInv'
<1>1. /\ cpc' = "idle" /\ cend' \in {cend, "pipe"} /\ slips' \in {slips, slips \cup {"late"}}
      /\ UNCHANGED <<cmd, want, got, c2p, p2c, peer, pend, wasted, kills>>
  BY DEF GiveUp, RecvEnd, RecvFails, AfterRecv, history
<1>2. cend' \in EndState /\ slips' \subseteq {"late", "short", "torn", "left"}
  BY <1>1 DEF TypeInv, TypeOK, EndState
<1>3. TypeOK'
  BY <1>1, <1>2 DEF TypeInv, TypeOK, peer
<1>4. Words' /\ PeerStage'
  BY <1>1 DEF TypeInv, Words, PeerStage, peer
<1>5. ClientStage'
  BY <1>1 DEF TypeInv, ClientStage
<1> QED
  BY <1>3, <1>4, <1>5 DEF TypeInv

LEMMA ResetTypes ==
  ASSUME TypeInv, ResetArrives
  PROVE  TypeInv'
<1>1. /\ cend' \in {cend, "pipe"} /\ pend' \in {pend, "pipe"}
      /\ UNCHANGED <<client, c2p, p2c, peer, history>>
  BY DEF ResetArrives
<1>2. cend' \in EndState /\ pend' \in EndState
  BY <1>1 DEF TypeInv, TypeOK, EndState
<1>3. TypeOK'
  BY <1>1, <1>2 DEF TypeInv, TypeOK, client, peer, history
<1> QED
  BY <1>1, <1>3 DEF TypeInv, Words, PeerStage, ClientStage, client, peer

(* The client sends.                                                         *)
LEMMA PutItem ==
  ASSUME TypeInv, NEW w \in Word, RequestItem(w), CanSend(cend, c2p), c2p' = Put(cend, c2p, w)
  PROVE  /\ c2p' \in Seq(Word) /\ Len(c2p') <= Capacity + 1
         /\ \A i \in 1..Len(c2p') : RequestItem(c2p'[i])
<1>1. c2p \in Seq(Word) /\ Len(c2p) <= Capacity + 1 /\ Capacity \in Nat
  BY SessionAssumption DEF TypeInv, TypeOK
<1>2. \A i \in 1..Len(c2p) : RequestItem(c2p[i])
  BY DEF TypeInv, Words
<1>3. CASE cend = "open"
  <2>1. c2p' = Append(c2p, w) /\ Len(c2p) < Capacity
    BY <1>3 DEF Put, CanSend
  <2>2. /\ c2p' \in Seq(Word) /\ Len(c2p') = Len(c2p) + 1
        /\ \A i \in 1..Len(c2p) : c2p'[i] = c2p[i]
        /\ c2p'[Len(c2p) + 1] = w
    BY <1>1, <2>1, AppendLast
  <2>3. Len(c2p') <= Capacity + 1
    BY <1>1, <2>1, <2>2
  <2>4. ASSUME NEW i \in 1..Len(c2p') PROVE RequestItem(c2p'[i])
    BY <1>1, <1>2, <2>2
  <2> QED
    BY <2>2, <2>3, <2>4
<1>4. CASE cend # "open"
  BY <1>1, <1>2, <1>4 DEF Put
<1> QED
  BY <1>3, <1>4

LEMMA SendTypes ==
  ASSUME TypeInv, SendHead \/ Upload
  PROVE  TypeInv'
<1> DEFINE w == IF cpc = "head" THEN cmd ELSE [of |-> cmd.of, kind |-> "photo", val |-> 0]
<1>1. /\ cpc \in {"head", "upload"} /\ CanSend(cend, c2p) /\ c2p' = Put(cend, c2p, w)
      /\ cend' = AfterSend(cend)
      /\ UNCHANGED <<cmd, got, p2c, peer, pend, history>>
  BY DEF SendHead, Upload
<1>2. w \in Word /\ RequestItem(w)
  <2>1. cmd \in Word /\ cmd.of \in Nat /\ cmd.val \in {0, Size}
    BY DEF TypeInv, TypeOK, Word, ClientStage
  <2>2. cpc = "head" => cmd.kind \in Op /\ cmd.of > 0
    BY DEF TypeInv, ClientStage
  <2>3. CASE cpc = "head"
    BY <2>1, <2>2, <2>3 DEF RequestItem
  <2>4. CASE cpc # "head"
    BY <2>1, <2>4 DEF RequestItem, Word, Op
  <2> QED
    BY <2>3, <2>4
<1> HIDE DEF w
<1>3. /\ c2p' \in Seq(Word) /\ Len(c2p') <= Capacity + 1
      /\ \A i \in 1..Len(c2p') : RequestItem(c2p'[i])
  BY <1>1, <1>2, PutItem
<1>4. cend' \in EndState
  BY <1>1 DEF AfterSend, EndState, TypeInv, TypeOK
<1>5. /\ cpc' \in {"idle", "again", "number", "upload"}
      /\ want' \in 0..Huge
      /\ cpc' = "upload" => want' \in 1..Size
      /\ cpc' = "number" => cpc = "head"
  <2>1. want \in 0..Huge /\ Size \in Nat /\ Huge \in Nat /\ Size <= Huge
    BY SessionAssumption DEF TypeInv, TypeOK, Huge
  <2>2. CASE SendHead
    BY <2>1, <2>2 DEF SendHead, AfterFailure
  <2>3. CASE Upload
    <3>1. want \in 1..Size /\ want' = want - 1
      BY <2>3 DEF Upload, TypeInv, ClientStage
    <3>2. cpc' \in {"idle", "again", "upload"} /\ (cpc' = "upload" => want # 1)
      BY <2>3 DEF Upload, AfterFailure
    <3> QED
      BY <2>1, <3>1, <3>2
  <2> QED
    BY <2>2, <2>3
<1>6. TypeOK'
  BY <1>1, <1>3, <1>4, <1>5 DEF TypeInv, TypeOK, peer, history
<1>7. Words' /\ PeerStage'
  BY <1>1, <1>3 DEF TypeInv, Words, PeerStage, peer
<1>8. ClientStage'
  BY <1>1, <1>5 DEF TypeInv, ClientStage
<1> QED
  BY <1>6, <1>7, <1>8 DEF TypeInv

LEMMA LeaveTypes ==
  ASSUME TypeInv, Leave
  PROVE  TypeInv'
<1>1. /\ cpc' = "gone" /\ p2c' = <<>> /\ slips' \in {slips, slips \cup {"left"}}
      /\ UNCHANGED <<cmd, want, got, cend, peer, wasted, kills>>
  BY DEF Leave
<1>2. /\ c2p' \in Seq(Word) /\ Len(c2p') <= Capacity + 1
      /\ \A i \in 1..Len(c2p') : RequestItem(c2p'[i])
      /\ pend' \in EndState
  <2> DEFINE w == [of |-> cmd.of, kind |-> "quit", val |-> 0]
             q == Append(c2p, w)
  <2>1. c2p \in Seq(Word) /\ Len(c2p) <= Capacity + 1 /\ Capacity \in Nat
    BY SessionAssumption DEF TypeInv, TypeOK
  <2>2. \A i \in 1..Len(c2p) : RequestItem(c2p[i])
    BY DEF TypeInv, Words
  <2>3. w \in Word /\ RequestItem(w)
    BY DEF RequestItem, Op, Word, TypeInv, TypeOK
  <2>4. CASE cend = "open"
    <3>1. pend' \in AfterClose(p2c) /\ c2p' \in Arrives(pend', q) /\ Len(c2p) < Capacity
      BY <2>4 DEF Leave, CanSend
    <3> HIDE DEF w
    <3>2. /\ q \in Seq(Word) /\ Len(q) = Len(c2p) + 1
          /\ \A i \in 1..Len(c2p) : q[i] = c2p[i]
          /\ q[Len(c2p) + 1] = w
      BY <2>1, <2>3, AppendLast
    <3> HIDE DEF q
    <3>3. \A i \in 1..Len(q) : RequestItem(q[i])
      BY <2>1, <2>2, <2>3, <3>2
    <3>4. /\ c2p' \in Seq(Word) /\ Len(c2p') <= Len(q) /\ \A i \in 1..Len(c2p') : c2p'[i] = q[i]
      BY <3>1, <3>2, ArrivesPrefix
    <3>5. Len(c2p') <= Capacity + 1 /\ Len(c2p') \in Nat /\ Len(q) \in Nat
      BY <2>1, <3>1, <3>2, <3>4
    <3>6. \A i \in 1..Len(c2p') : RequestItem(c2p'[i])
      BY <3>3, <3>4, <3>5
    <3>7. pend' \in EndState
      BY <3>1 DEF AfterClose, EndState
    <3> QED
      BY <3>4, <3>5, <3>6, <3>7
  <2>5. CASE cend # "open"
    BY <2>1, <2>2, <2>5 DEF Leave, TypeInv, TypeOK
  <2> QED
    BY <2>4, <2>5
<1>3. <<>> \in Seq(Word) /\ Len(<<>>) = 0 /\ 0 <= Capacity + 1
  BY SessionAssumption
<1>4. slips' \subseteq {"late", "short", "torn", "left"}
  BY <1>1 DEF TypeInv, TypeOK
<1>5. TypeOK'
  BY <1>1, <1>2, <1>3, <1>4 DEF TypeInv, TypeOK, peer
<1>6. Words' /\ PeerStage'
  BY <1>1, <1>2, <1>3 DEF TypeInv, Words, PeerStage, peer
<1>7. ClientStage'
  BY <1>1 DEF TypeInv, ClientStage
<1> QED
  BY <1>5, <1>6, <1>7 DEF TypeInv

(* The client receives.                                                      *)
LEMMA Numbers ==
  ASSUME TypeInv, NEW n \in 1..Least(NumberWords(cmd.kind), Len(p2c)),
         NEW v \in Number(Take(p2c, n), cmd.kind)
  PROVE  v \in {-1, 0, 1, Size, Huge}
<1>1. /\ n \in 0..Len(p2c) /\ n \in 1..2 /\ n \in 1..Len(p2c)
      /\ p2c \in Seq(Word) /\ Len(p2c) \in Nat
  <2>1. p2c \in Seq(Word) /\ Len(p2c) \in Nat
    BY DEF TypeInv, TypeOK
  <2>2. NumberWords(cmd.kind) \in 1..2
    BY DEF NumberWords
  <2> QED
    BY <2>1, <2>2 DEF Least
<1> DEFINE ws == Take(p2c, n)
<1>2. ws \in Seq(Word) /\ Len(ws) = n /\ \A i \in 1..n : ws[i] = p2c[i]
  BY <1>1, TakeRest
<1>3. \A i \in 1..n : Reads(ws[i]) \subseteq {-1, 0, 1, Size}
  <2> TAKE i \in 1..n
  <2>1. p2c[i].val \in Value
    BY <1>1 DEF TypeInv, Words, AnswerWord
  <2> QED
    BY <1>2, <2>1 DEF Reads, Value
<1> HIDE DEF ws
<1>4. v \in Number(ws, cmd.kind)
  BY DEF ws
<1>5. 1 \in 1..n /\ (n # 1 => 2 \in 1..n) /\ Reads(ws[1]) \subseteq {-1, 0, 1, Size}
  BY <1>1, <1>3
<1>6. CASE cmd.kind # "download"
  BY <1>4, <1>5, <1>6 DEF Number
<1>7. CASE cmd.kind = "download" /\ n = 1
  <2>1. PICK u \in Reads(ws[1]) : v = IF u < 0 THEN Huge ELSE u
    BY <1>2, <1>4, <1>7 DEF Number
  <2> QED
    BY <1>5, <2>1
<1>8. CASE cmd.kind = "download" /\ n # 1
  <2>1. PICK u \in UNION {IF h = 0 THEN Reads(ws[1]) ELSE {-1, Huge} : h \in Reads(ws[2])} :
          v = IF u < 0 THEN Huge ELSE u
    BY <1>2, <1>4, <1>8 DEF Number
  <2>2. u \in {-1, 0, 1, Size, Huge}
    BY <1>5, <2>1
  <2> QED
    BY <2>1, <2>2
<1> QED
  BY <1>6, <1>7, <1>8

LEMMA TakenRest ==
  ASSUME TypeInv, NEW b \in Int, NEW n \in 1..Least(b, Len(p2c)), p2c' = Rest(p2c, n)
  PROVE  /\ n \in 1..Len(p2c) /\ n <= b
         /\ p2c' \in Seq(Word) /\ Len(p2c') = Len(p2c) - n
         /\ \A i \in 1..Len(p2c') : p2c'[i] = p2c[n + i]
         /\ Len(p2c') <= Capacity + 1 /\ \A i \in 1..Len(p2c') : AnswerWord(p2c'[i])
<1>1. p2c \in Seq(Word) /\ Len(p2c) \in Nat /\ Len(p2c) <= Capacity + 1 /\ Capacity \in Nat
  BY SessionAssumption DEF TypeInv, TypeOK
<1>2. n \in 1..Len(p2c) /\ n <= b /\ n \in 0..Len(p2c)
  BY <1>1 DEF Least
<1>3. /\ p2c' \in Seq(Word) /\ Len(p2c') = Len(p2c) - n
      /\ \A i \in 1..(Len(p2c) - n) : p2c'[i] = p2c[n + i]
  BY <1>1, <1>2, TakeRest
<1>4. \A i \in 1..Len(p2c') : n + i \in 1..Len(p2c)
  BY <1>1, <1>2, <1>3
<1>5. \A i \in 1..Len(p2c') : AnswerWord(p2c'[i])
  BY <1>3, <1>4 DEF TypeInv, Words
<1>6. Len(p2c') <= Capacity + 1
  BY <1>1, <1>2, <1>3
<1> QED
  BY <1>2, <1>3, <1>5, <1>6

LEMMA RecvNumberTypes ==
  ASSUME TypeInv, RecvNumber
  PROVE  TypeInv'
<1>1. PICK n \in 1..Least(NumberWords(cmd.kind), Len(p2c)) :
        /\ p2c' = Rest(p2c, n)
        /\ slips' \in {slips, slips \cup {"short"}}
        /\ \E v \in Number(Take(p2c, n), cmd.kind) :
             \/ cpc' = "idle" /\ UNCHANGED want
             \/ /\ cmd.val > 0 /\ cpc' = "upload" /\ want' = cmd.val
             \/ /\ v # 0 /\ ~Broken(v) /\ cpc' = "data" /\ want' = v
  BY DEF RecvNumber
<1>2. UNCHANGED <<cmd, got, cend, c2p, peer, pend, wasted, kills>> /\ cpc = "number"
  BY DEF RecvNumber
<1>3. /\ p2c' \in Seq(Word) /\ Len(p2c') <= Capacity + 1
      /\ \A i \in 1..Len(p2c') : AnswerWord(p2c'[i])
  <2>1. NumberWords(cmd.kind) \in Int
    BY DEF NumberWords
  <2> QED
    BY <1>1, <2>1, TakenRest
<1>4. /\ cpc' \in {"idle", "upload", "data"} /\ want' \in 0..Huge
      /\ cpc' = "upload" => want' \in 1..Size
  <2>1. want \in 0..Huge /\ Size \in Nat \ {0} /\ Huge \in Nat /\ Size <= Huge /\ 1 <= Huge
    BY SessionAssumption DEF TypeInv, TypeOK, Huge
  <2>2. cmd.val \in {0, Size}
    BY DEF TypeInv, ClientStage
  <2>3. PICK v \in Number(Take(p2c, n), cmd.kind) :
             \/ cpc' = "idle" /\ UNCHANGED want
             \/ /\ cmd.val > 0 /\ cpc' = "upload" /\ want' = cmd.val
             \/ /\ v # 0 /\ ~Broken(v) /\ cpc' = "data" /\ want' = v
    BY <1>1
  <2>4. v \in {-1, 0, 1, Size, Huge}
    BY Numbers
  <2> QED
    BY <2>1, <2>2, <2>3, <2>4 DEF Broken
<1>5. slips' \subseteq {"late", "short", "torn", "left"}
  BY <1>1 DEF TypeInv, TypeOK
<1>6. TypeOK'
  BY <1>2, <1>3, <1>4, <1>5 DEF TypeInv, TypeOK, peer
<1>7. Words' /\ PeerStage'
  BY <1>2, <1>3 DEF TypeInv, Words, PeerStage, peer
<1>8. ClientStage'
  BY <1>2, <1>4 DEF TypeInv, ClientStage
<1> QED
  BY <1>6, <1>7, <1>8 DEF TypeInv

LEMMA RecvDataTypes ==
  ASSUME TypeInv, RecvData
  PROVE  TypeInv'
<1>1. PICK n \in 1..Least(want, Len(p2c)) :
        /\ p2c' = Rest(p2c, n) /\ got' = got + n
        /\ cpc' \in {"idle", "data"}
        /\ slips' \in {slips, slips \cup {"short"}}
  BY DEF RecvData
<1>2. UNCHANGED <<cmd, want, cend, c2p, peer, pend, wasted, kills>> /\ cpc = "data"
  BY DEF RecvData
<1>3. /\ p2c' \in Seq(Word) /\ Len(p2c') <= Capacity + 1
      /\ \A i \in 1..Len(p2c') : AnswerWord(p2c'[i])
      /\ n \in 1..Len(p2c)
  <2>1. want \in Int
    BY SessionAssumption DEF TypeInv, TypeOK, Huge
  <2> QED
    BY <1>1, <2>1, TakenRest
<1>4. got' \in Nat
  BY <1>1, <1>3 DEF TypeInv, TypeOK
<1>5. slips' \subseteq {"late", "short", "torn", "left"}
  BY <1>1 DEF TypeInv, TypeOK
<1>6. TypeOK'
  BY <1>1, <1>2, <1>3, <1>4, <1>5 DEF TypeInv, TypeOK, peer
<1>7. Words' /\ PeerStage'
  BY <1>2, <1>3 DEF TypeInv, Words, PeerStage, peer
<1>8. ClientStage'
  BY <1>1, <1>2 DEF TypeInv, ClientStage
<1> QED
  BY <1>6, <1>7, <1>8 DEF TypeInv

LEMMA ReconnectTypes ==
  ASSUME TypeInv, Reconnect
  PROVE  TypeInv'
<1>1. cpc = "again" /\ wasted' = 0 /\ UNCHANGED <<cmd, want, got, kills>>
  BY DEF Reconnect
<1>2. CASE /\ cpc' = "idle" /\ cend' = "open" /\ pend' = "open"
           /\ c2p' = <<>> /\ p2c' = <<>> /\ slips' = {}
           /\ ppc' = "head" /\ job' = NoCommand /\ left' = 0 /\ body' = <<>> /\ why' = "none"
           /\ stored' = NoPhoto
  <2>1. <<>> \in Seq(Word) /\ Len(<<>>) = 0 /\ 0 <= Capacity + 1 /\ 0 \in 0..Size
    BY SessionAssumption
  <2>2. NoCommand \in Word /\ NoPhoto \in [of : Nat, size : Nat, words : Seq(Word)]
    BY DEF NoCommand, NoPhoto, Word
  <2>3. TypeOK'
    BY <1>1, <1>2, <2>1, <2>2 DEF TypeInv, TypeOK, EndState
  <2>4. Words'
    BY <1>2, <2>1 DEF Words
  <2>5. ClientStage' /\ PeerStage'
    BY <1>1, <1>2 DEF TypeInv, ClientStage, PeerStage, NoCommand
  <2> QED
    BY <2>3, <2>4, <2>5 DEF TypeInv
<1>3. CASE cpc' = "gone" /\ UNCHANGED <<cend, c2p, p2c, peer, pend, slips>>
  <2>1. TypeOK'
    BY <1>1, <1>3 DEF TypeInv, TypeOK, peer
  <2> QED
    BY <1>1, <1>3, <2>1 DEF TypeInv, Words, ClientStage, PeerStage, peer
<1> QED
  BY <1>2, <1>3 DEF Reconnect

(* The peer.                                                                 *)
LEMMA EndTypes ==
  ASSUME TypeInv, NEW cause \in {"killed", "exit", "sigpipe"}, NEW unread, End(cause, unread),
         UNCHANGED <<client, pend, wasted>>, slips' \in {slips, slips \cup {"torn"}},
         kills' \in 0..MaxKills
  PROVE  TypeInv'
<1>1. p2c \in Seq(Word) /\ cend \in EndState /\ Len(p2c) \in Nat /\ Len(p2c) <= Capacity + 1
  BY DEF TypeInv, TypeOK
<1>2. /\ ppc' = "ended" /\ why' = cause /\ c2p' = <<>>
      /\ job' = job /\ left' = left /\ body' = body /\ stored' = stored
      /\ cend' \in EndState /\ p2c' \in Seq(Word) /\ Len(p2c') <= Len(p2c)
      /\ \A i \in 1..Len(p2c') : p2c'[i] = p2c[i]
  BY <1>1, Ending
<1>3. Len(p2c') \in Nat /\ Len(p2c') <= Capacity + 1
  <2>1. Len(p2c') \in Nat
    BY <1>2
  <2> QED
    BY SessionAssumption, <1>1, <1>2, <2>1
<1>4. <<>> \in Seq(Word) /\ Len(<<>>) = 0 /\ 0 <= Capacity + 1
  BY SessionAssumption
<1>5. slips' \subseteq {"late", "short", "torn", "left"}
  BY DEF TypeInv, TypeOK
<1>6. TypeOK'
  BY <1>2, <1>3, <1>4, <1>5 DEF TypeInv, TypeOK, client
<1>7. Words'
  BY <1>1, <1>2, <1>3, <1>4 DEF TypeInv, Words
<1>8. ClientStage' /\ PeerStage'
  BY <1>2 DEF TypeInv, ClientStage, PeerStage, client
<1> QED
  BY <1>6, <1>7, <1>8 DEF TypeInv

LEMMA KillTypes ==
  ASSUME TypeInv, Kill
  PROVE  TypeInv'
<1>1. kills' \in 0..MaxKills
  BY SessionAssumption DEF Kill, TypeInv, TypeOK
<1> QED
  BY <1>1, EndTypes DEF Kill

LEMMA BodyFailsTypes ==
  ASSUME TypeInv, BodyFails
  PROVE  TypeInv'
<1>1. kills' \in 0..MaxKills
  BY DEF BodyFails, history, TypeInv, TypeOK
<1> QED
  BY <1>1, EndTypes DEF BodyFails, history

LEMMA RecvHeadTypes ==
  ASSUME TypeInv, RecvHead
  PROVE  TypeInv'
<1>1. /\ c2p # <<>> /\ c2p' = Tail(c2p)
      /\ UNCHANGED <<client, cend, p2c, left, body, stored, why, pend, history>>
  BY DEF RecvHead
<1>2. /\ c2p \in Seq(Word) /\ Len(c2p) \in Nat /\ Len(c2p) <= Capacity + 1
      /\ \A i \in 1..Len(c2p) : RequestItem(c2p[i])
  BY DEF TypeInv, TypeOK, Words
<1>3. /\ c2p' \in Seq(Word) /\ Len(c2p') = Len(c2p) - 1 /\ Len(c2p) > 0
      /\ Head(c2p) = c2p[1] /\ Head(c2p) \in Word
      /\ \A i \in 1..(Len(c2p) - 1) : c2p'[i] = c2p[i + 1]
  BY <1>1, <1>2, TailShifts
<1>4. \A i \in 1..Len(c2p') : RequestItem(c2p'[i])
  <2> TAKE i \in 1..Len(c2p')
  <2>1. i + 1 \in 1..Len(c2p) /\ i \in 1..(Len(c2p) - 1)
    BY <1>2, <1>3
  <2> QED
    BY <1>2, <1>3, <2>1
<1>5. Len(c2p') <= Capacity + 1
  BY SessionAssumption, <1>2, <1>3
<1>6. \/ ppc' = "answer" /\ job' = Head(c2p) /\ Head(c2p).kind \in Op
      \/ ppc' \in {"left", "head"} /\ UNCHANGED job
  <2>1. 1 \in 1..Len(c2p)
    BY <1>2, <1>3
  <2>2. RequestItem(Head(c2p))
    BY <1>2, <1>3, <2>1
  <2> QED
    BY <2>2 DEF RecvHead, RequestItem
<1>7. RequestItem(Head(c2p))
  <2>1. 1 \in 1..Len(c2p)
    BY <1>2, <1>3
  <2> QED
    BY <1>2, <1>3, <2>1
<1>8. job' \in Word /\ PeerStage'
  BY <1>3, <1>6, <1>7 DEF RequestItem, TypeInv, TypeOK, PeerStage
<1>9. TypeOK'
  BY <1>1, <1>3, <1>5, <1>6, <1>8 DEF TypeInv, TypeOK, client, history
<1>10. Words' /\ ClientStage'
  BY <1>1, <1>4 DEF TypeInv, Words, ClientStage, client
<1> QED
  BY <1>8, <1>9, <1>10 DEF TypeInv

LEMMA RecvGoneTypes ==
  ASSUME TypeInv, RecvGone
  PROVE  TypeInv'
<1>1. /\ ppc' = "left" /\ pend' \in {pend, "pipe"}
      /\ UNCHANGED <<client, cend, c2p, p2c, job, left, body, stored, why, history>>
  BY DEF RecvGone, AfterRecv
<1>2. pend' \in EndState
  BY <1>1 DEF TypeInv, TypeOK, EndState
<1>3. TypeOK'
  BY <1>1, <1>2 DEF TypeInv, TypeOK, client, history
<1> QED
  BY <1>1, <1>3 DEF TypeInv, Words, ClientStage, PeerStage, client

LEMMA PutWord ==
  ASSUME NEW end, NEW q \in Seq(Word), NEW w \in Word, AnswerWord(w),
         \A i \in 1..Len(q) : AnswerWord(q[i])
  PROVE  /\ Put(end, q, w) \in Seq(Word)
         /\ \A i \in 1..Len(Put(end, q, w)) : AnswerWord(Put(end, q, w)[i])
         /\ Len(Put(end, q, w)) = IF end = "open" THEN Len(q) + 1 ELSE Len(q)
<1>1. CASE end = "open"
  <2>1. /\ Append(q, w) \in Seq(Word) /\ Len(Append(q, w)) = Len(q) + 1
        /\ \A i \in 1..Len(q) : Append(q, w)[i] = q[i]
        /\ Append(q, w)[Len(q) + 1] = w
    BY AppendLast
  <2>2. \A i \in 1..Len(Append(q, w)) : AnswerWord(Append(q, w)[i])
    BY <2>1
  <2> QED
    BY <1>1, <2>1, <2>2 DEF Put
<1>2. CASE end # "open"
  BY <1>2 DEF Put
<1> QED
  BY <1>1, <1>2

(* What a send of the peer does.                                             *)
LEMMA PeerSends ==
  ASSUME TypeInv, UNCHANGED <<client, cend, c2p, job, stored, why, history>>,
         pend' = AfterSend(pend), p2c' \in Seq(Word), Len(p2c') <= Capacity + 1,
         \A i \in 1..Len(p2c') : AnswerWord(p2c'[i]),
         ppc \in {"answer", "payload"}, ppc' \in {"body", "payload", "head"},
         ppc' = "body" => job.kind = "add", ppc' = "payload" => left' \in 1..Size,
         left' \in 0..Size, body' \in {<<>>, body}
  PROVE  TypeInv'
<1>1. pend' \in EndState
  BY DEF TypeInv, TypeOK, AfterSend, EndState
<1>2. body' \in Seq(Word)
  <2>1. <<>> \in Seq(Word) /\ body \in Seq(Word)
    BY DEF TypeInv, TypeOK
  <2> QED
    BY <2>1
<1>3. TypeOK'
  BY <1>1, <1>2 DEF TypeInv, TypeOK, client, history
<1>4. Words' /\ ClientStage'
  BY DEF TypeInv, Words, ClientStage, client
<1>5. PeerStage'
  BY DEF TypeInv, PeerStage
<1> QED
  BY <1>3, <1>4, <1>5 DEF TypeInv

LEMMA AnswerTypes ==
  ASSUME TypeInv, Answer
  PROVE  TypeInv'
<1>1. ppc = "answer" /\ CanSend(pend, p2c) /\ UNCHANGED <<client, history>>
  BY DEF Answer
<1>2. CASE pend = "pipe"
  <2>1. End("sigpipe", c2p) /\ UNCHANGED pend
    BY <1>2 DEF Answer
  <2>2. kills' \in 0..MaxKills
    BY <1>1 DEF history, TypeInv, TypeOK
  <2> QED
    BY <1>1, <2>1, <2>2, EndTypes DEF history
<1>3. CASE pend # "pipe"
  <2> DEFINE word(x) == [of |-> job.of, kind |-> "number", val |-> x]
             sent(x) == Put(pend, p2c, word(x))
  <2>1. PICK v \in Answers(job.kind) :
          /\ p2c' = IF job.kind = "download" THEN Put(pend, sent(v), word(0)) ELSE sent(v)
          /\ pend' = AfterSend(pend)
          /\ ppc' = IF job.kind = "add" /\ BodyFollows(v) /\ pend # "rst" THEN "body"
                    ELSE IF job.kind \in {"getname", "download"} /\ v # 0 THEN "payload"
                    ELSE IF job.kind = "search" /\ v # 0 /\ pend # "rst" THEN "payload"
                    ELSE "head"
          /\ left' = Size /\ body' = <<>>
          /\ UNCHANGED <<cend, c2p, job, stored, why>>
    BY <1>3 DEF Answer
  <2>2. v \in Value /\ v \in Int /\ job.of \in Nat
    <3>1. Answers(job.kind) \subseteq {-1, 0, 1, Size}
      BY DEF Answers
    <3>2. job \in Word /\ Size \in Int
      BY SessionAssumption DEF TypeInv, TypeOK
    <3>3. job.of \in Nat
      BY <3>2 DEF Word
    <3>4. v \in {-1, 0, 1, Size}
      BY <3>1
    <3> QED
      BY <3>2, <3>3, <3>4 DEF Value
  <2>3. word(v) \in Word /\ AnswerWord(word(v)) /\ word(0) \in Word /\ AnswerWord(word(0))
    BY <2>2 DEF Word, AnswerWord, Value
  <2>4. /\ p2c \in Seq(Word) /\ Len(p2c) \in Nat /\ Len(p2c) <= Capacity + 1 /\ Capacity \in Nat
        /\ \A i \in 1..Len(p2c) : AnswerWord(p2c[i])
        /\ pend = "open" => Len(p2c) < Capacity
    BY SessionAssumption, <1>1 DEF TypeInv, TypeOK, Words, CanSend
  <2> HIDE DEF word
  <2>5. /\ sent(v) \in Seq(Word) /\ \A i \in 1..Len(sent(v)) : AnswerWord(sent(v)[i])
        /\ Len(sent(v)) = IF pend = "open" THEN Len(p2c) + 1 ELSE Len(p2c)
    BY <2>3, <2>4, PutWord
  <2> HIDE DEF sent
  <2>6. /\ Put(pend, sent(v), word(0)) \in Seq(Word)
        /\ \A i \in 1..Len(Put(pend, sent(v), word(0))) :
             AnswerWord(Put(pend, sent(v), word(0))[i])
        /\ Len(Put(pend, sent(v), word(0))) =
             IF pend = "open" THEN Len(sent(v)) + 1 ELSE Len(sent(v))
    BY <2>3, <2>5, PutWord
  <2>7. /\ p2c' \in Seq(Word) /\ \A i \in 1..Len(p2c') : AnswerWord(p2c'[i])
        /\ Len(p2c') <= Capacity + 1
    <3>1. CASE job.kind = "download"
      <4>1. p2c' = Put(pend, sent(v), word(0))
        BY <2>1, <3>1
      <4>2. Len(p2c') <= Capacity + 1
        BY <2>4, <2>5, <2>6, <4>1
      <4> QED
        BY <2>6, <4>1, <4>2
    <3>2. CASE job.kind # "download"
      <4>1. p2c' = sent(v)
        BY <2>1, <3>2
      <4>2. Len(p2c') <= Capacity + 1
        BY <2>4, <2>5, <4>1
      <4> QED
        BY <2>5, <4>1, <4>2
    <3> QED
      BY <3>1, <3>2
  <2>8. /\ ppc' \in {"body", "payload", "head"} /\ ppc' = "body" => job.kind = "add"
        /\ left' \in 0..Size /\ left' \in 1..Size
    BY SessionAssumption, <2>1
  <2> QED
    BY <1>1, <2>1, <2>7, <2>8, PeerSends
<1> QED
  BY <1>2, <1>3

LEMMA PayloadTypes ==
  ASSUME TypeInv, Payload
  PROVE  TypeInv'
<1>1. ppc = "payload" /\ CanSend(pend, p2c) /\ UNCHANGED <<client, history>>
  BY DEF Payload
<1>2. CASE pend = "pipe"
  <2>1. End("sigpipe", c2p) /\ UNCHANGED pend
    BY <1>2 DEF Payload
  <2>2. kills' \in 0..MaxKills
    BY <1>1 DEF history, TypeInv, TypeOK
  <2> QED
    BY <1>1, <2>1, <2>2, EndTypes DEF history
<1>3. CASE pend # "pipe"
  <2> DEFINE w == [of |-> job.of, kind |-> "data", val |-> 0]
  <2>1. /\ p2c' = Put(pend, p2c, w)
        /\ pend' = AfterSend(pend)
        /\ left' = left - 1
        /\ ppc' = IF left = 1 \/ pend = "rst" THEN "head" ELSE "payload"
        /\ UNCHANGED <<cend, c2p, job, body, stored, why>>
    BY <1>3 DEF Payload
  <2>2. w \in Word /\ AnswerWord(w)
    BY DEF Word, AnswerWord, Value, TypeInv, TypeOK
  <2>3. /\ p2c \in Seq(Word) /\ Len(p2c) \in Nat /\ Len(p2c) <= Capacity + 1 /\ Capacity \in Nat
        /\ \A i \in 1..Len(p2c) : AnswerWord(p2c[i])
        /\ pend = "open" => Len(p2c) < Capacity
    BY SessionAssumption, <1>1 DEF TypeInv, TypeOK, Words, CanSend
  <2> HIDE DEF w
  <2>4. /\ p2c' \in Seq(Word) /\ \A i \in 1..Len(p2c') : AnswerWord(p2c'[i])
        /\ Len(p2c') = IF pend = "open" THEN Len(p2c) + 1 ELSE Len(p2c)
    BY <2>1, <2>2, <2>3, PutWord
  <2>5. Len(p2c') <= Capacity + 1
    BY <2>3, <2>4
  <2>6. left \in 1..Size /\ Size \in Nat
    BY SessionAssumption, <1>1 DEF TypeInv, PeerStage
  <2>7. /\ ppc' \in {"body", "payload", "head"} /\ (ppc' = "body" => job.kind = "add")
        /\ left' \in 0..Size /\ (ppc' = "payload" => left' \in 1..Size)
        /\ body' \in {<<>>, body}
    BY <2>1, <2>6
  <2> QED
    BY <1>1, <2>1, <2>4, <2>5, <2>7, PeerSends
<1> QED
  BY <1>2, <1>3

LEMMA RecvBodyTypes ==
  ASSUME TypeInv, RecvBody
  PROVE  TypeInv'
<1>1. ppc = "body" /\ UNCHANGED <<client, pend, wasted, kills>>
  BY DEF RecvBody
<1>2. PICK n \in 1..Least(job.val, Len(c2p)) :
        /\ slips' \in {slips, slips \cup {"torn"}}
        /\ \/ End("exit", Rest(c2p, n))
           \/ /\ c2p' = Rest(c2p, n)
              /\ \/ /\ stored' = [of |-> job.of, size |-> job.val,
                                  words |-> body \o Take(c2p, n)]
                    /\ ppc' = "head" /\ body' = <<>>
                 \/ body' = body \o Take(c2p, n) /\ UNCHANGED <<stored, ppc>>
              /\ UNCHANGED <<cend, p2c, job, left, why>>
  BY DEF RecvBody
<1>3. CASE End("exit", Rest(c2p, n))
  <2>1. kills' \in 0..MaxKills
    BY <1>1 DEF TypeInv, TypeOK
  <2> QED
    BY <1>1, <1>2, <1>3, <2>1, EndTypes
<1>4. CASE /\ c2p' = Rest(c2p, n)
           /\ \/ /\ stored' = [of |-> job.of, size |-> job.val,
                               words |-> body \o Take(c2p, n)]
                 /\ ppc' = "head" /\ body' = <<>>
              \/ body' = body \o Take(c2p, n) /\ UNCHANGED <<stored, ppc>>
           /\ UNCHANGED <<cend, p2c, job, left, why>>
  <2>1. /\ c2p \in Seq(Word) /\ Len(c2p) \in Nat /\ Len(c2p) <= Capacity + 1 /\ body \in Seq(Word)
        /\ \A i \in 1..Len(c2p) : RequestItem(c2p[i])
        /\ job.of \in Nat /\ job.val \in Nat
    BY SessionAssumption DEF TypeInv, TypeOK, Words, Word, PeerStage
  <2>2. n \in 0..Len(c2p) /\ n \in 1..Len(c2p)
    BY <2>1 DEF Least
  <2>3. /\ Take(c2p, n) \in Seq(Word)
        /\ c2p' \in Seq(Word) /\ Len(c2p') = Len(c2p) - n
        /\ \A i \in 1..(Len(c2p) - n) : c2p'[i] = c2p[n + i]
    BY <1>4, <2>1, <2>2, TakeRest
  <2>4. body \o Take(c2p, n) \in Seq(Word) /\ <<>> \in Seq(Word)
    BY <2>1, <2>3
  <2>5. /\ body' \in Seq(Word) /\ stored' \in [of : Nat, size : Nat, words : Seq(Word)]
        /\ ppc' \in {"head", "body"}
    <3> DEFINE words == body \o Take(c2p, n)
    <3>1. words \in Seq(Word) /\ <<>> \in Seq(Word)
      BY <2>4
    <3>2. \/ /\ stored' = [of |-> job.of, size |-> job.val, words |-> words]
             /\ ppc' = "head" /\ body' = <<>>
          \/ body' = words /\ UNCHANGED <<stored, ppc>>
      BY <1>4
    <3> HIDE DEF words
    <3>3. stored \in [of : Nat, size : Nat, words : Seq(Word)]
      BY DEF TypeInv, TypeOK
    <3>4. CASE /\ stored' = [of |-> job.of, size |-> job.val, words |-> words]
               /\ ppc' = "head" /\ body' = <<>>
      <4>1. stored' \in [of : Nat, size : Nat, words : Seq(Word)]
        BY <2>1, <3>1, <3>4
      <4> QED
        BY <3>1, <3>4, <4>1
    <3>5. CASE body' = words /\ UNCHANGED <<stored, ppc>>
      BY <1>1, <3>1, <3>3, <3>5
    <3> QED
      BY <3>2, <3>4, <3>5
  <2>6. \A i \in 1..Len(c2p') : RequestItem(c2p'[i])
    <3> TAKE i \in 1..Len(c2p')
    <3>1. n + i \in 1..Len(c2p) /\ i \in 1..(Len(c2p) - n)
      BY <2>1, <2>2, <2>3
    <3> QED
      BY <2>1, <2>3, <3>1
  <2>7. Len(c2p') <= Capacity + 1
    BY SessionAssumption, <2>1, <2>2, <2>3
  <2>8. slips' \subseteq {"late", "short", "torn", "left"}
    BY <1>2 DEF TypeInv, TypeOK
  <2>9. TypeOK'
    BY <1>1, <1>4, <2>3, <2>5, <2>7, <2>8 DEF TypeInv, TypeOK, client
  <2>10. Words' /\ ClientStage' /\ PeerStage'
    BY <1>1, <1>4, <2>5, <2>6 DEF TypeInv, Words, ClientStage, PeerStage, client
  <2> QED
    BY <2>9, <2>10 DEF TypeInv
<1> QED
  BY <1>2, <1>3, <1>4

LEMMA TypeStep ==
  ASSUME TypeInv, [Next]_vars
  PROVE  TypeInv'
<1>1. CASE Command
  <2>1. PICK op \in Op : \E size \in IF op = "add" THEN {0, Size} ELSE {0} : Begin(op, size)
    BY <1>1 DEF Command
  <2>2. PICK size \in {0, Size} : Begin(op, size)
    BY <2>1
  <2> QED
    BY <2>2, BeginTypes
<1>2. CASE ClientStep
  BY <1>2, SendTypes, RecvNumberTypes, RecvDataTypes, WaitTypes, ReconnectTypes DEF ClientStep
<1>3. CASE PeerStep
  BY <1>3, RecvHeadTypes, RecvGoneTypes, AnswerTypes, PayloadTypes, RecvBodyTypes, BodyFailsTypes
     DEF PeerStep
<1>4. CASE Leave \/ Kill \/ ResetArrives
  BY <1>4, LeaveTypes, KillTypes, ResetTypes
<1>5. CASE UNCHANGED vars
  BY <1>5 DEF vars, client, peer, history, TypeInv, TypeOK, Words, ClientStage, PeerStage
<1> QED
  BY <1>1, <1>2, <1>3, <1>4, <1>5 DEF Next

LEMMA TypesHold == Spec => []TypeInv
BY TypeInit, TypeStep, PTL DEF Spec

(* Every variable keeps its type and the buffers their bound, for any sizes, *)
(* any capacity and any number of commands (library.c, peer.c: connection).  *)
THEOREM TypeCorrect == Spec => []TypeOK
BY TypesHold, PTL DEF TypeInv

(* Each end of the connection knows of the other's end only after it, and    *)
(* nothing reaches a peer that has ended.                                    *)
EndInv ==
  /\ cend # "open" => ppc = "ended"
  /\ pend # "open" => cpc = "gone"
  /\ cpc = "gone" => ppc = "ended" \/ pend # "open"
  /\ cpc = "again" => cend = "pipe"
  /\ ppc = "ended" => c2p = <<>> /\ (cpc = "gone" \/ cend # "open")
  /\ ppc = "left" => cpc = "gone"
  /\ why # "none" => ppc = "ended"
  /\ \A i \in 1..Len(c2p) : c2p[i].kind = "quit" => cpc = "gone"

LEMMA EndInit == Init => EndInv
BY DEF Init, EndInv

(* The client goes on, and what it adds to the stream is no good-bye.        *)
LEMMA ClientGoesOn ==
  ASSUME TypeInv, EndInv, UNCHANGED <<peer, pend>>,
         cpc # "gone", cpc' # "gone", cend' = "open" <=> cend = "open",
         cpc' = "again" => cend' = "pipe",
         \/ UNCHANGED c2p
         \/ \E w : w.kind # "quit" /\ c2p' = Put(cend, c2p, w)
  PROVE  EndInv'
<1>1. CASE UNCHANGED c2p
  BY <1>1 DEF EndInv, peer
<1>2. CASE \E w : w.kind # "quit" /\ c2p' = Put(cend, c2p, w)
  <2>1. PICK w : w.kind # "quit" /\ c2p' = Put(cend, c2p, w)
    BY <1>2
  <2>2. CASE cend # "open"
    BY <1>1, <2>1, <2>2 DEF Put
  <2>3. CASE cend = "open"
    <3>1. ppc # "ended" /\ c2p' = Append(c2p, w) /\ c2p \in Seq(Word)
      BY <2>1, <2>3 DEF Put, EndInv, TypeInv, TypeOK
    <3>2. \A i \in 1..Len(c2p') : c2p'[i].kind # "quit"
      BY <2>1, <3>1 DEF EndInv
    <3> QED
      BY <3>1, <3>2 DEF EndInv, peer
  <2> QED
    BY <2>2, <2>3
<1> QED
  BY <1>1, <1>2

LEMMA ClientEnds ==
  ASSUME TypeInv, EndInv, Command \/ ClientStep \/ Leave
  PROVE  EndInv'
<1>1. CASE Command
  <2>1. PICK op \in Op : \E size \in IF op = "add" THEN {0, Size} ELSE {0} : Begin(op, size)
    BY <1>1 DEF Command
  <2>2. PICK size \in IF op = "add" THEN {0, Size} ELSE {0} : Begin(op, size)
    BY <2>1
  <2> QED
    BY <2>2, ClientGoesOn DEF Begin
<1>2. CASE SendHead \/ Upload
  <2> DEFINE w == IF cpc = "head" THEN cmd ELSE [of |-> cmd.of, kind |-> "photo", val |-> 0]
  <2>1. /\ cpc \in {"head", "upload"} /\ c2p' = Put(cend, c2p, w)
        /\ cend' = AfterSend(cend) /\ UNCHANGED <<peer, pend>>
        /\ cpc' # "gone" /\ (cpc' = "again" => cend = "pipe")
    BY <1>2 DEF SendHead, Upload, AfterFailure, Notices, Refuses
  <2>2. w.kind # "quit"
    BY <2>1 DEF TypeInv, ClientStage, Op
  <2> HIDE DEF w
  <2> QED
    BY <2>1, <2>2, ClientGoesOn DEF AfterSend
<1>3. CASE RecvNumber \/ RecvData \/ GiveUp \/ RecvFails
  <2>1. /\ cpc \in {"number", "data"} /\ cpc' \in {"idle", "upload", "data"}
        /\ UNCHANGED <<peer, pend, cend, c2p>>
    BY <1>3 DEF RecvNumber, RecvData, GiveUp, TimesOut, Waiting, RecvFails
  <2> QED
    BY <2>1, ClientGoesOn
<1>4. CASE RecvEnd
  <2>1. /\ cpc \in {"number", "data"} /\ cpc' = "idle" /\ cend # "open" /\ cend' # "open"
        /\ UNCHANGED <<peer, pend, c2p>>
    BY <1>4 DEF RecvEnd, Waiting, AfterRecv
  <2> QED
    BY <2>1, ClientGoesOn
<1>5. CASE Reconnect
  BY <1>5 DEF Reconnect, EndInv, peer
<1>6. CASE Leave
  <2>1. cpc' = "gone" /\ UNCHANGED <<cend, peer>> /\ cpc \notin {"again", "gone"}
    BY <1>6 DEF Leave
  <2>2. CASE cend = "open"
    <3>1. pend' \in AfterClose(p2c)
      BY <1>6, <2>2 DEF Leave
    <3>2. pend' # "open" /\ ppc # "ended"
      BY <2>1, <2>2, <3>1 DEF AfterClose, EndInv
    <3> QED
      BY <2>1, <2>2, <3>2 DEF EndInv, peer
  <2>3. CASE cend # "open"
    <3>1. UNCHANGED <<c2p, pend>>
      BY <1>6, <2>3 DEF Leave
    <3> QED
      BY <2>1, <2>3, <3>1 DEF EndInv, peer
  <2> QED
    BY <2>2, <2>3
<1> QED
  BY <1>1, <1>2, <1>3, <1>4, <1>5, <1>6 DEF ClientStep

LEMMA ProcessEnds ==
  ASSUME TypeInv, EndInv, NEW cause, NEW unread, End(cause, unread), UNCHANGED <<client, pend>>,
         ppc # "ended"
  PROVE  EndInv'
<1>1. /\ ppc' = "ended" /\ c2p' = <<>>
      /\ pend = "open" => cend' # "open" /\ cend' # "pipe"
      /\ pend # "open" => cend' = cend
  BY Ending DEF TypeInv, TypeOK
<1>2. cpc' = cpc /\ cpc # "again" /\ cend = "open"
  BY DEF client, EndInv
<1>3. Len(c2p') = 0
  BY <1>1
<1> QED
  BY <1>1, <1>2, <1>3 DEF EndInv

LEMMA PeerEnds ==
  ASSUME TypeInv, EndInv, PeerStep \/ Kill \/ ResetArrives
  PROVE  EndInv'
<1>1. CASE Kill \/ BodyFails
  BY <1>1, ProcessEnds DEF Kill, BodyFails
<1>2. CASE RecvHead
  <2>1. /\ c2p # <<>> /\ c2p' = Tail(c2p) /\ ppc = "head" /\ ppc' \in {"left", "head", "answer"}
        /\ ppc' = "left" => Head(c2p).kind = "quit"
        /\ UNCHANGED <<client, cend, why, pend>>
    BY <1>2 DEF RecvHead
  <2>2. c2p \in Seq(Word)
    BY DEF TypeInv, TypeOK
  <2>3. /\ Len(c2p') = Len(c2p) - 1 /\ Head(c2p) = c2p[1] /\ Len(c2p) > 0 /\ Len(c2p) \in Nat
        /\ \A i \in 1..(Len(c2p) - 1) : c2p'[i] = c2p[i + 1]
    BY <2>1, <2>2, TailShifts
  <2>4. \A i \in 1..Len(c2p') : c2p'[i].kind = "quit" => cpc = "gone"
    <3> TAKE i \in 1..Len(c2p')
    <3>1. i + 1 \in 1..Len(c2p) /\ c2p'[i] = c2p[i + 1]
      BY <2>3
    <3> QED
      BY <3>1 DEF EndInv
  <2>5. ppc' = "left" => cpc = "gone"
    BY <2>1, <2>3 DEF EndInv
  <2> QED
    BY <2>1, <2>4, <2>5 DEF EndInv, client
<1>3. CASE RecvGone
  BY <1>3 DEF RecvGone, EndInv, client, AfterRecv
<1>4. CASE Answer \/ Payload
  <2>1. CASE pend = "pipe"
    <3>1. End("sigpipe", c2p) /\ UNCHANGED <<client, pend>> /\ ppc # "ended"
      BY <1>4, <2>1 DEF Answer, Payload
    <3> QED
      BY <3>1, ProcessEnds
  <2>2. CASE pend # "pipe"
    <3>1. /\ ppc \in {"answer", "payload"} /\ ppc' \in {"body", "payload", "head"}
          /\ pend' = AfterSend(pend) /\ UNCHANGED <<cend, c2p, why, client>>
      BY <1>4, <2>2 DEF Answer, Payload
    <3>2. pend' = "open" <=> pend = "open"
      BY <3>1 DEF AfterSend
    <3> QED
      BY <3>1, <3>2 DEF EndInv, client
  <2> QED
    BY <2>1, <2>2
<1>5. CASE RecvBody
  <2>1. PICK n \in 1..Least(job.val, Len(c2p)) :
          \/ End("exit", Rest(c2p, n))
          \/ /\ c2p' = Rest(c2p, n) /\ ppc' \in {"head", "body"}
             /\ UNCHANGED <<cend, p2c, why>>
    BY <1>5 DEF RecvBody
  <2>2. ppc = "body" /\ UNCHANGED <<client, pend>>
    BY <1>5 DEF RecvBody
  <2>3. CASE End("exit", Rest(c2p, n))
    BY <2>2, <2>3, ProcessEnds
  <2>4. CASE c2p' = Rest(c2p, n) /\ ppc' \in {"head", "body"} /\ UNCHANGED <<cend, p2c, why>>
    <3>1. c2p \in Seq(Word) /\ Len(c2p) \in Nat /\ job.val \in Int
      BY SessionAssumption DEF TypeInv, TypeOK, PeerStage
    <3>2. n \in 1..Len(c2p) /\ n \in 0..Len(c2p)
      BY <3>1 DEF Least
    <3>3. Len(c2p') = Len(c2p) - n /\ \A i \in 1..(Len(c2p) - n) : c2p'[i] = c2p[n + i]
      BY <2>4, <3>1, <3>2, TakeRest
    <3>4. \A i \in 1..Len(c2p') : c2p'[i].kind = "quit" => cpc = "gone"
      <4> TAKE i \in 1..Len(c2p')
      <4>1. n + i \in 1..Len(c2p) /\ c2p'[i] = c2p[n + i]
        BY <3>1, <3>2, <3>3
      <4> QED
        BY <4>1 DEF EndInv
    <3> QED
      BY <2>2, <2>4, <3>4 DEF EndInv, client
  <2> QED
    BY <2>1, <2>3, <2>4
<1>6. CASE ResetArrives
  BY <1>6 DEF ResetArrives, EndInv, client, peer
<1> QED
  BY <1>1, <1>2, <1>3, <1>4, <1>5, <1>6 DEF PeerStep

LEMMA EndStep ==
  ASSUME TypeInv, EndInv, [Next]_vars
  PROVE  EndInv'
<1>1. CASE UNCHANGED vars
  BY <1>1 DEF vars, client, peer, EndInv
<1> QED
  BY <1>1, ClientEnds, PeerEnds DEF Next
-----------------------------------------------------------------------------
(* A reset that has come is told by the next call that fails; once told, the *)
(* next send() ends the loop of commands.                                    *)
WasteInv ==
  /\ wasted \in Nat
  /\ ~Refuses(cend) => wasted = 0
  /\ cend = "rst" => wasted <= IF cpc \in {"head", "gone"} THEN 1 ELSE 0
  /\ cend = "pipe" => wasted <= IF cpc \in {"head", "again", "gone"} THEN 2 ELSE 1

LEMMA WasteStep ==
  ASSUME TypeInv, EndInv, WasteInv, [Next]_vars
  PROVE  WasteInv'
<1>1. CASE Command
  <2>1. PICK op \in Op : \E size \in IF op = "add" THEN {0, Size} ELSE {0} : Begin(op, size)
    BY <1>1 DEF Command
  <2>2. PICK size \in IF op = "add" THEN {0, Size} ELSE {0} : Begin(op, size)
    BY <2>1
  <2>3. /\ cpc = "idle" /\ cpc' = "head" /\ cend' = cend
        /\ wasted' = IF Refuses(cend) THEN wasted + 1 ELSE wasted
    BY <2>2 DEF Begin
  <2> QED
    BY <2>3 DEF WasteInv, Refuses
<1>2. CASE SendHead \/ Upload
  <2>1. /\ cpc \in {"head", "upload"} /\ cend' = AfterSend(cend) /\ wasted' = wasted
        /\ cend = "pipe" => cpc' = "again"
        /\ cend # "pipe" => cpc' # "again"
    BY <1>2 DEF SendHead, Upload, Refuses, AfterFailure, Notices, history
  <2> QED
    BY <2>1 DEF WasteInv, Refuses, AfterSend
<1>3. CASE RecvNumber \/ RecvData \/ GiveUp \/ RecvFails \/ RecvEnd
  <2>1. /\ cpc \in {"number", "data"} /\ cend' \in {cend, AfterRecv(cend)} /\ wasted' = wasted
    BY <1>3 DEF RecvNumber, RecvData, GiveUp, TimesOut, Waiting, RecvFails, RecvEnd, history
  <2> QED
    BY <2>1 DEF WasteInv, Refuses, AfterRecv
<1>4. CASE Reconnect
  BY <1>4 DEF Reconnect, WasteInv, Refuses
<1>5. CASE Leave
  BY <1>5 DEF Leave, WasteInv
<1>6. CASE ResetArrives
  BY <1>6 DEF ResetArrives, WasteInv, Refuses, client, history
<1>7. CASE PeerStep \/ Kill
  <2>1. UNCHANGED <<client, wasted>> /\ ppc # "ended"
    BY <1>7 DEF PeerStep, Kill, RecvHead, RecvGone, Answer, Payload, RecvBody, BodyFails, history
  <2>2. cend = "open"
    BY <2>1 DEF EndInv
  <2>3. wasted = 0
    BY <2>2 DEF WasteInv, Refuses
  <2> QED
    BY <2>1, <2>3 DEF WasteInv
<1>8. CASE UNCHANGED vars
  BY <1>8 DEF vars, client, history, WasteInv
<1> QED
  BY <1>1, <1>2, <1>3, <1>4, <1>5, <1>6, <1>7, <1>8 DEF Next, ClientStep

(* When the client's system knows that the peer has ended, it takes at most  *)
(* two commands until the client does, for any sizes, buffers and time-outs  *)
(* (client.c: checkPeerState).                                               *)
THEOREM NoticeCorrect == Spec => []NoticesSoon
<1>1. Init => TypeInv /\ EndInv /\ WasteInv
  BY TypeInit, EndInit DEF Init, WasteInv, Refuses
<1>2. TypeInv /\ EndInv /\ WasteInv /\ [Next]_vars => (TypeInv /\ EndInv /\ WasteInv)'
  BY TypeStep, EndStep, WasteStep
<1>3. TypeInv /\ EndInv /\ WasteInv => NoticesSoon
  BY DEF TypeInv, TypeOK, EndState, WasteInv, NoticesSoon, Refuses
<1> QED
  BY <1>1, <1>2, <1>3, PTL DEF Spec

-----------------------------------------------------------------------------
(* In step: no command was given up and no plain recv() fell short.          *)
Sync == slips \cap {"late", "short"} = {}

(* Words of the answer that the peer has still to send.                      *)
Due == IF ppc = "payload" THEN left ELSE 0

(* The commands whose answer goes on behind the number.                      *)
Sends(op) == op \in {"search", "getname", "download"}

(* The stream holds the answer, or the first part of it.                     *)
Answered ==
  /\ Len(p2c) + Due <= NumberWords(cmd.kind) + Size
  /\ p2c # <<>> => p2c[1].kind = "number" /\ p2c[1].val \in Answers(cmd.kind)
  /\ cmd.kind = "download" /\ Len(p2c) > 1 => p2c[2].kind = "number" /\ p2c[2].val = 0
  /\ Len(p2c) > NumberWords(cmd.kind) => p2c[1].val = Size /\ Sends(cmd.kind)

(* It holds no more than what the client still waits for.                    *)
Receiving ==
  /\ want = Size /\ got + Len(p2c) + Due <= want
  /\ Sends(cmd.kind) /\ (cmd.kind = "search" => got = 0)

Reply ==
  /\ \A i \in 1..Len(p2c) : p2c[i].of = cmd.of
  /\ cpc \in {"idle", "head", "upload", "again"} => p2c = <<>>
  /\ cpc = "number" => Answered
  /\ cpc = "data" => Receiving

(* The peer answers the client's command and no other.                       *)
Turn ==
  /\ ppc = "answer" => job = cmd /\ cpc = "number" /\ p2c = <<>> /\ c2p = <<>>
  /\ ppc = "payload" =>
       /\ job = cmd /\ cpc \in {"number", "data"} /\ c2p = <<>> /\ Sends(cmd.kind)
       /\ cpc = "number" => Len(p2c) >= NumberWords(cmd.kind) /\ p2c[1].val = Size
  /\ ppc = "head" =>
       /\ c2p = <<>> \/ (c2p = <<cmd>> /\ cpc = "number" /\ p2c = <<>>)
       /\ cpc # "upload"
       /\ cpc = "number" /\ p2c # <<>> /\ cmd.kind = "add" => p2c[1].val = 0

(* What the peer has received of a photo, what is in the stream and what the *)
(* client has still to send make up the photo; the next command may be       *)
(* behind it.                                                                *)
Uploading ==
  ppc = "body" =>
    /\ cpc \in {"idle", "head", "upload", "number"}
    /\ cpc \in {"idle", "head"} => Len(body) + Len(c2p) = job.val
    /\ cpc = "upload" => Len(body) + Len(c2p) + want = job.val /\ job = cmd
    /\ cpc = "number" =>
         \/ p2c # <<>> /\ job = cmd /\ c2p = <<>> /\ body = <<>> /\ p2c[1].val # 0
         \/ p2c = <<>> /\ Len(body) + Len(c2p) = job.val + 1
    /\ \A i \in 1..Len(c2p) :
         IF cpc = "number" /\ i = Len(c2p) THEN c2p[i] = cmd
         ELSE c2p[i].kind = "photo" /\ c2p[i].of = job.of

(* The words received so far are of the photo, and more than one receive     *)
(* means that it came in pieces.                                             *)
Pieces ==
  ppc = "body" =>
    /\ \A i \in 1..Len(body) : body[i].kind = "photo" /\ body[i].of = job.of
    /\ slips = {} => body = <<>>
    /\ Len(body) < job.val \/ body = <<>>

(* A client that left between two commands has said good-bye.                *)
Parting ==
  ppc # "ended" =>
    /\ pend = "fin" /\ ppc \in {"head", "body", "left"}
    /\ ppc = "head" => Len(c2p) = 1 /\ c2p[1].kind = "quit"
    /\ ppc = "body" =>
         /\ Len(body) + Len(c2p) = job.val + 1
         /\ \A i \in 1..Len(c2p) :
              IF i = Len(c2p) THEN c2p[i].kind = "quit"
              ELSE c2p[i].kind = "photo" /\ c2p[i].of = job.of

SyncInv ==
  /\ Sync /\ cpc # "gone" => Reply /\ Turn /\ Uploading /\ Pieces
  /\ Sync /\ cpc = "gone" => p2c = <<>>
  /\ slips \subseteq {"torn"} /\ cpc = "gone" => Parting /\ Pieces

SessionInv == TypeInv /\ EndInv /\ SyncInv

LEMMA SyncInit == Init => SyncInv
BY DEF Init, SyncInv, Sync, Reply, Answered, Receiving, Turn, Uploading, Pieces

(* What the three parts of SyncInv ask of a step.                            *)
LEMMA SyncBy ==
  ASSUME slips' \cap {"late", "short"} = {} /\ cpc' # "gone" =>
           Reply' /\ Turn' /\ Uploading' /\ Pieces',
         slips' \cap {"late", "short"} = {} /\ cpc' = "gone" => p2c' = <<>>,
         slips' \subseteq {"torn"} /\ cpc' = "gone" => Parting' /\ Pieces'
  PROVE  SyncInv'
BY DEF SyncInv, Sync

LEMMA BeginSync ==
  ASSUME SessionInv, NEW op \in Op, NEW size, Begin(op, size)
  PROVE  SyncInv'
<1>1. /\ cpc = "idle" /\ cpc' = "head" /\ got' = 0
      /\ UNCHANGED <<cend, c2p, p2c, peer, pend, slips, kills>>
  BY DEF Begin
<1>2. SUFFICES ASSUME slips' \cap {"late", "short"} = {}
               PROVE  Reply' /\ Turn' /\ Uploading' /\ Pieces'
  BY <1>1, SyncBy
<1>3. Reply /\ Turn /\ Uploading /\ Pieces
  BY <1>1, <1>2 DEF SessionInv, SyncInv, Sync
<1>4. p2c = <<>> /\ p2c' = <<>>
  BY <1>1, <1>3 DEF Reply
<1>5. Reply'
  BY <1>1, <1>4 DEF Reply
<1>6. Turn'
  BY <1>1, <1>3 DEF Turn, peer
<1>7. Uploading'
  BY <1>1, <1>3 DEF Uploading, peer
<1>8. Pieces'
  BY <1>1, <1>3 DEF Pieces, peer
<1> QED
  BY <1>5, <1>6, <1>7, <1>8

LEMMA WaitSync ==
  ASSUME SessionInv, GiveUp \/ RecvEnd \/ RecvFails
  PROVE  SyncInv'
<1>1. CASE GiveUp
  BY <1>1, SyncBy DEF GiveUp
<1>2. CASE RecvEnd
  <2>1. /\ p2c = <<>> /\ p2c' = <<>> /\ cend # "open" /\ cpc' = "idle" /\ ppc' = ppc
    BY <1>2 DEF RecvEnd, Waiting, peer
  <2>2. ppc' = "ended"
    BY <2>1 DEF SessionInv, EndInv
  <2>3. Reply' /\ Turn' /\ Uploading' /\ Pieces'
    BY <2>1, <2>2 DEF Reply, Turn, Uploading, Pieces
  <2> QED
    BY <2>1, <2>3, SyncBy
<1>3. CASE RecvFails
  <2>1. /\ cpc = "data" /\ want = Huge /\ cpc' = "idle" /\ slips' = slips
    BY <1>3 DEF RecvFails, history
  <2>2. want # Size
    BY <2>1, SessionAssumption DEF Huge
  <2>3. ~Sync
    BY <2>1, <2>2 DEF SessionInv, SyncInv, Reply, Receiving
  <2> QED
    BY <2>1, <2>3, SyncBy DEF Sync
<1> QED
  BY <1>1, <1>2, <1>3

LEMMA ReconnectSync ==
  ASSUME SessionInv, Reconnect
  PROVE  SyncInv'
<1>1. cpc = "again"
  BY DEF Reconnect
<1>2. CASE /\ cpc' = "idle" /\ c2p' = <<>> /\ p2c' = <<>> /\ ppc' = "head"
  <2>1. Reply' /\ Turn' /\ Uploading' /\ Pieces'
    BY <1>2 DEF Reply, Turn, Uploading, Pieces
  <2> QED
    BY <1>2, <2>1, SyncBy
<1>3. CASE cpc' = "gone" /\ UNCHANGED <<cend, c2p, p2c, peer, pend, slips>>
  <2>1. ppc' = "ended"
    BY <1>1, <1>3 DEF SessionInv, EndInv, peer
  <2>2. slips' \cap {"late", "short"} = {} => p2c' = <<>>
    BY <1>1, <1>3 DEF SessionInv, SyncInv, Sync, Reply
  <2>3. Parting' /\ Pieces'
    BY <2>1 DEF Parting, Pieces
  <2> QED
    BY <1>3, <2>2, <2>3, SyncBy
<1> QED
  BY <1>2, <1>3 DEF Reconnect

LEMMA ResetSync ==
  ASSUME SessionInv, ResetArrives
  PROVE  SyncInv'
<1>1. UNCHANGED <<client, c2p, p2c, peer, history>>
  BY DEF ResetArrives
<1>2. Reply' <=> Reply
  BY <1>1 DEF Reply, Answered, Receiving, Due, client, peer
<1>3. Turn => Turn'
  BY <1>1 DEF Turn, client, peer
<1>4. Uploading => Uploading'
  BY <1>1 DEF Uploading, client, peer
<1>5. Pieces => Pieces'
  BY <1>1 DEF Pieces, client, peer, history
<1>6. slips' \subseteq {"torn"} /\ cpc' = "gone" => Parting'
  <2>1. SUFFICES ASSUME slips' \subseteq {"torn"}, cpc' = "gone" PROVE Parting'
    OBVIOUS
  <2>2. Parting
    BY <1>1, <2>1 DEF SessionInv, SyncInv, client, history
  <2>3. ppc # "ended" => pend' = pend
    BY <2>2 DEF ResetArrives, Parting
  <2> QED
    BY <1>1, <2>2, <2>3 DEF Parting, peer
<1> QED
  BY <1>1, <1>2, <1>3, <1>4, <1>5, <1>6, SyncBy DEF SessionInv, SyncInv, Sync, client, history

(* The client sends.                                                         *)
LEMMA SendHeadSync ==
  ASSUME SessionInv, SendHead
  PROVE  SyncInv'
<1>1. /\ cpc = "head" /\ c2p' = Put(cend, c2p, cmd)
      /\ cpc' \in {"idle", "again", "number"} /\ (~Refuses(cend) => cpc' = "number")
      /\ UNCHANGED <<cmd, want, got, p2c, peer, pend, history>>
  BY DEF SendHead, AfterFailure
<1>2. SUFFICES ASSUME slips' \cap {"late", "short"} = {}
               PROVE  Reply' /\ Turn' /\ Uploading' /\ Pieces'
  BY <1>1, SyncBy
<1>3. Reply /\ Turn /\ Uploading /\ Pieces
  BY <1>1, <1>2 DEF SessionInv, SyncInv, Sync, history
<1>4. p2c = <<>> /\ p2c' = <<>>
  BY <1>1, <1>3 DEF Reply
<1>5. Pieces'
  BY <1>1, <1>3 DEF Pieces, peer, history
<1>6. ppc \notin {"answer", "payload"} /\ ppc' = ppc
  BY <1>1, <1>3 DEF Turn, peer
<1>7. Reply'
  <2>1. Len(p2c') + Due' <= NumberWords(cmd'.kind) + Size
    BY <1>4, <1>6, SessionAssumption DEF Due, NumberWords
  <2>2. Len(p2c') <= NumberWords(cmd'.kind)
    BY <1>4 DEF NumberWords
  <2>3. Len(p2c') = 0
    BY <1>4
  <2>4. Answered'
    BY <1>4, <2>1, <2>2, <2>3 DEF Answered, NumberWords
  <2> QED
    BY <1>1, <1>4, <2>3, <2>4 DEF Reply
<1>8. CASE ppc = "ended"
  BY <1>6, <1>5, <1>7, <1>8 DEF Turn, Uploading
<1>9. CASE ppc # "ended"
  <2>1. cend = "open" /\ cpc' = "number" /\ c2p' = Append(c2p, cmd)
    BY <1>1, <1>9 DEF SessionInv, EndInv, Put, Refuses
  <2>2. c2p \in Seq(Word) /\ cmd \in Word /\ Len(c2p) \in Nat
    BY DEF SessionInv, TypeInv, TypeOK
  <2>3. /\ Len(c2p') = Len(c2p) + 1
        /\ \A i \in 1..Len(c2p) : c2p'[i] = c2p[i]
        /\ c2p'[Len(c2p) + 1] = cmd
    BY <2>1, <2>2, AppendLast
  <2>4. Turn'
    <3>1. ppc = "head" => c2p = <<>>
      BY <1>1, <1>3 DEF Turn
    <3>2. ppc = "head" => c2p' = <<cmd>>
      BY <2>1, <3>1
    <3> QED
      BY <1>1, <1>4, <1>6, <2>1, <3>2 DEF Turn
  <2>5. Uploading'
    <3>1. CASE ppc = "body"
      <4>1. /\ Len(body) + Len(c2p) = job.val
            /\ \A i \in 1..Len(c2p) : c2p[i].kind = "photo" /\ c2p[i].of = job.of
        BY <1>1, <1>3, <3>1 DEF Uploading
      <4>2. Len(body) \in Nat
        BY DEF SessionInv, TypeInv, TypeOK
      <4>3. Len(body') + Len(c2p') = job'.val + 1
        BY <1>1, <2>2, <2>3, <4>1, <4>2 DEF peer
      <4>4. \A i \in 1..Len(c2p') :
              IF i = Len(c2p') THEN c2p'[i] = cmd'
              ELSE c2p'[i].kind = "photo" /\ c2p'[i].of = job'.of
        BY <1>1, <2>2, <2>3, <4>1 DEF peer
      <4> QED
        BY <1>4, <2>1, <4>3, <4>4 DEF Uploading
    <3> QED
      BY <1>6, <3>1 DEF Uploading
  <2> QED
    BY <1>5, <1>7, <2>4, <2>5
<1> QED
  BY <1>8, <1>9

LEMMA UploadSync ==
  ASSUME SessionInv, Upload
  PROVE  SyncInv'
<1> DEFINE w == [of |-> cmd.of, kind |-> "photo", val |-> 0]
<1>1. /\ cpc = "upload" /\ c2p' = Put(cend, c2p, w) /\ want' = want - 1
      /\ cpc' \in {"idle", "again", "upload"}
      /\ ~Refuses(cend) => cpc' = IF want = 1 THEN "idle" ELSE "upload"
      /\ UNCHANGED <<cmd, got, p2c, peer, pend, history>>
  BY DEF Upload, AfterFailure
<1>2. SUFFICES ASSUME slips' \cap {"late", "short"} = {}
               PROVE  Reply' /\ Turn' /\ Uploading' /\ Pieces'
  BY <1>1, SyncBy
<1>3. Reply /\ Turn /\ Uploading /\ Pieces
  BY <1>1, <1>2 DEF SessionInv, SyncInv, Sync, history
<1>4. p2c = <<>> /\ p2c' = <<>>
  BY <1>1, <1>3 DEF Reply
<1>5. Pieces'
  BY <1>1, <1>3 DEF Pieces, peer, history
<1>6. ppc \notin {"answer", "payload", "head"} /\ ppc' = ppc
  BY <1>1, <1>3 DEF Turn, peer
<1>7. Reply'
  BY <1>1, <1>4 DEF Reply
<1>8. Turn'
  BY <1>6 DEF Turn
<1>9. Uploading'
  <2>1. SUFFICES ASSUME ppc = "body" PROVE Uploading'
    BY <1>6 DEF Uploading
  <2>2. cend = "open" /\ c2p' = Append(c2p, w) /\ cpc' = IF want = 1 THEN "idle" ELSE "upload"
    BY <1>1, <2>1 DEF SessionInv, EndInv, Put, Refuses
  <2>3. c2p \in Seq(Word) /\ w \in Word /\ Len(c2p) \in Nat
    BY DEF SessionInv, TypeInv, TypeOK, Word
  <2>4. want \in 1..Size /\ Len(body) \in Nat /\ Size \in Nat
    BY <1>1, SessionAssumption DEF SessionInv, TypeInv, TypeOK, ClientStage
  <2> HIDE DEF w
  <2>5. /\ Len(c2p') = Len(c2p) + 1
        /\ \A i \in 1..Len(c2p) : c2p'[i] = c2p[i]
        /\ c2p'[Len(c2p) + 1] = w
    BY <2>2, <2>3, AppendLast
  <2>6. /\ Len(body) + Len(c2p) + want = job.val /\ job = cmd
        /\ \A i \in 1..Len(c2p) : c2p[i].kind = "photo" /\ c2p[i].of = job.of
    BY <1>1, <1>3, <2>1 DEF Uploading
  <2>7. w.kind = "photo" /\ w.of = job.of
    BY <2>6 DEF w
  <2>8. \A i \in 1..Len(c2p') : c2p'[i].kind = "photo" /\ c2p'[i].of = job'.of
    BY <1>1, <2>3, <2>5, <2>6, <2>7 DEF peer
  <2>9. Len(body') + Len(c2p') + want' = job'.val /\ job' = cmd'
    BY <1>1, <2>3, <2>4, <2>5, <2>6 DEF peer
  <2>10. cpc' = "idle" => Len(body') + Len(c2p') = job'.val
    BY <1>1, <2>2, <2>3, <2>4, <2>5, <2>6 DEF peer
  <2> QED
    BY <2>2, <2>8, <2>9, <2>10 DEF Uploading
<1> QED
  BY <1>5, <1>7, <1>8, <1>9

(* In step, the number received whole is the one that was sent.              *)
LEMMA NumberRead ==
  ASSUME SessionInv, Answered, p2c # <<>>, NumberWords(cmd.kind) <= Len(p2c),
         NEW v \in Number(Take(p2c, NumberWords(cmd.kind)), cmd.kind)
  PROVE  v = p2c[1].val
<1>1. p2c \in Seq(Word) /\ Len(p2c) \in Nat /\ NumberWords(cmd.kind) \in 0..Len(p2c)
  BY DEF SessionInv, TypeInv, TypeOK, NumberWords
<1> DEFINE n == NumberWords(cmd.kind)
           ws == Take(p2c, n)
<1>2. ws \in Seq(Word) /\ Len(ws) = n /\ \A i \in 1..n : ws[i] = p2c[i]
  BY <1>1, TakeRest
<1>3. n = IF cmd.kind = "download" THEN 2 ELSE 1
  BY DEF NumberWords
<1>4. p2c[1].kind = "number" /\ p2c[1].val \in Answers(cmd.kind)
  BY DEF Answered
<1>5. v \in Number(ws, cmd.kind)
  OBVIOUS
<1> HIDE DEF ws
<1>6. ws[1] = p2c[1] /\ Reads(ws[1]) = {p2c[1].val}
  BY <1>2, <1>3, <1>4 DEF Reads
<1>7. CASE cmd.kind # "download"
  BY <1>5, <1>6, <1>7 DEF Number
<1>8. CASE cmd.kind = "download"
  <2>1. p2c[2].kind = "number" /\ p2c[2].val = 0
    BY <1>1, <1>8 DEF Answered, NumberWords
  <2>2. ws[2] = p2c[2] /\ Reads(ws[2]) = {0}
    BY <1>2, <1>3, <1>8, <2>1 DEF Reads
  <2>3. Len(ws) # 1
    BY <1>2, <1>3, <1>8
  <2>4. PICK u \in UNION {IF h = 0 THEN Reads(ws[1]) ELSE {-1, Huge} : h \in Reads(ws[2])} :
          v = IF u < 0 THEN Huge ELSE u
    BY <1>5, <1>8, <2>3 DEF Number
  <2>5. u \in Reads(ws[1])
    BY <2>2, <2>4
  <2>6. u = p2c[1].val /\ u \in {0, Size} /\ Size \in Nat
    BY <1>4, <1>6, <1>8, <2>5, SessionAssumption DEF Answers
  <2> QED
    BY <2>4, <2>6
<1> QED
  BY <1>7, <1>8

LEMMA RecvNumberSync ==
  ASSUME SessionInv, RecvNumber
  PROVE  SyncInv'
<1>1. PICK n \in 1..Least(NumberWords(cmd.kind), Len(p2c)) :
        /\ p2c' = Rest(p2c, n)
        /\ slips' = IF n < NumberWords(cmd.kind) THEN slips \cup {"short"} ELSE slips
        /\ \E v \in Number(Take(p2c, n), cmd.kind) :
            \/ /\ \/ v = 0 \/ cmd.kind = "edit"
                  \/ cmd.kind = "add" /\ cmd.val = 0
                  \/ cmd.kind # "add" /\ Broken(v)
               /\ cpc' = "idle" /\ UNCHANGED want
            \/ /\ v # 0 /\ cmd.kind = "add" /\ cmd.val > 0
               /\ cpc' = "upload" /\ want' = cmd.val
            \/ /\ v # 0 /\ ~Broken(v) /\ cmd.kind \in {"search", "getname", "download"}
               /\ cpc' = "data" /\ want' = v
  BY DEF RecvNumber
<1>2. cpc = "number" /\ UNCHANGED <<cmd, got, cend, c2p, peer, pend, wasted, kills>>
  BY DEF RecvNumber
<1>3. /\ p2c \in Seq(Word) /\ Len(p2c) \in Nat /\ NumberWords(cmd.kind) \in 1..2
      /\ Len(c2p) \in Nat /\ Len(body) \in Nat
  BY DEF SessionInv, TypeInv, TypeOK, NumberWords
<1>4. cpc' # "gone"
  BY <1>1
<1>5. SUFFICES ASSUME slips' \cap {"late", "short"} = {}
               PROVE  Reply' /\ Turn' /\ Uploading' /\ Pieces'
  BY <1>4, SyncBy
<1>6. n = NumberWords(cmd.kind) /\ n \in 1..Len(p2c) /\ slips' = slips
  BY <1>1, <1>3, <1>5 DEF Least
<1>7. Reply /\ Turn /\ Uploading /\ Pieces /\ Answered
  BY <1>2, <1>5, <1>6 DEF SessionInv, SyncInv, Sync, Reply
<1>8. p2c # <<>> /\ Len(p2c) >= 1
  BY <1>3, <1>6
<1> DEFINE v == p2c[1].val
<1>9. /\ \/ /\ \/ v = 0 \/ cmd.kind = "edit"
               \/ cmd.kind = "add" /\ cmd.val = 0
               \/ cmd.kind # "add" /\ Broken(v)
            /\ cpc' = "idle" /\ UNCHANGED want
         \/ /\ v # 0 /\ cmd.kind = "add" /\ cmd.val > 0
            /\ cpc' = "upload" /\ want' = cmd.val
         \/ /\ v # 0 /\ ~Broken(v) /\ Sends(cmd.kind)
            /\ cpc' = "data" /\ want' = v
      /\ v \in Answers(cmd.kind)
  <2>1. \A u \in Number(Take(p2c, n), cmd.kind) : u = v
    BY <1>3, <1>6, <1>7, <1>8, NumberRead
  <2>2. v \in Answers(cmd.kind)
    BY <1>7, <1>8 DEF Answered
  <2> QED
    BY <1>1, <2>1, <2>2 DEF Sends
<1>10. /\ p2c' \in Seq(Word) /\ Len(p2c') = Len(p2c) - n
       /\ \A i \in 1..(Len(p2c) - n) : p2c'[i] = p2c[n + i]
  <2>1. n \in 0..Len(p2c)
    BY <1>3, <1>6
  <2> QED
    BY <1>1, <1>3, <2>1, TakeRest
<1>11. /\ Size \in Nat \ {0} /\ cmd.val \in {0, Size} /\ cmd.kind \in Op /\ got = 0
       /\ Sends(cmd.kind) => v \in {0, Size}
  BY <1>2, <1>9, SessionAssumption DEF SessionInv, TypeInv, ClientStage, Answers, Sends
<1> HIDE DEF v
<1>12. cpc' # "data" => p2c' = <<>>
  <2>1. SUFFICES ASSUME cpc' # "data" PROVE Len(p2c') = 0
    BY <1>10
  <2>2. ~(v = Size /\ Sends(cmd.kind))
    BY <1>9, <1>11, <2>1 DEF Sends, Broken
  <2>3. Len(p2c) <= n
    BY <1>3, <1>6, <1>7, <2>2 DEF Answered, v
  <2> QED
    BY <1>3, <1>6, <1>10, <2>3
<1>13. cpc' = "data" => Sends(cmd.kind) /\ v = Size /\ want' = Size
  BY <1>9, <1>11
<1>14. /\ ppc \in {"answer", "payload", "head", "body", "left", "ended"}
       /\ ppc = "payload" => left \in 1..Size
  BY DEF SessionInv, TypeInv, TypeOK, PeerStage
<1>15. Reply'
  <2>1. \A i \in 1..Len(p2c') : p2c'[i].of = cmd'.of
    <3> TAKE i \in 1..Len(p2c')
    <3>1. n + i \in 1..Len(p2c) /\ p2c'[i] = p2c[n + i]
      BY <1>3, <1>6, <1>10
    <3> QED
      BY <1>2, <1>7, <3>1 DEF Reply
  <2>2. cpc' = "data" => Receiving'
    <3>1. Len(p2c) + Due <= n + Size /\ Due \in Nat
      BY <1>6, <1>7, <1>11, <1>14 DEF Answered, Due
    <3>2. Due' = Due
      BY <1>2 DEF Due, peer
    <3>3. got' + Len(p2c') + Due' <= Size
      BY <1>2, <1>3, <1>6, <1>10, <1>11, <3>1, <3>2
    <3> QED
      BY <1>2, <1>11, <1>13, <3>3 DEF Receiving
  <2> QED
    BY <1>9, <1>12, <2>1, <2>2 DEF Reply
<1>16. ppc = "head" => c2p = <<>> /\ (cmd.kind = "add" => v = 0)
  BY <1>2, <1>7, <1>8 DEF Turn, v
<1>17. ppc = "payload" => c2p = <<>> /\ job = cmd /\ Sends(cmd.kind) /\ v = Size
  BY <1>2, <1>7 DEF Turn, v
<1>18. ppc = "body" => job = cmd /\ c2p = <<>> /\ body = <<>> /\ v # 0
  BY <1>2, <1>7, <1>8 DEF Uploading, v
<1>19. Turn'
  <2>1. ppc # "answer"
    BY <1>7, <1>8 DEF Turn
  <2>2. ppc = "payload" => cpc' = "data"
    BY <1>9, <1>11, <1>17 DEF Sends, Broken
  <2>3. ppc = "head" => cpc' # "upload"
    BY <1>9, <1>16
  <2> QED
    BY <1>2, <1>9, <1>16, <1>17, <2>1, <2>2, <2>3 DEF Turn, peer
<1>20. Uploading'
  <2>1. SUFFICES ASSUME ppc = "body" PROVE Uploading'
    BY <1>2 DEF Uploading, peer
  <2>2. job.kind = "add" /\ Len(c2p) = 0 /\ Len(body) = 0
    BY <1>18, <2>1 DEF SessionInv, TypeInv, PeerStage
  <2>3. cmd.kind = "add" /\ job = cmd
    BY <1>18, <2>1, <2>2
  <2>4. \/ cpc' = "idle" /\ cmd.val = 0
        \/ cpc' = "upload" /\ want' = cmd.val
    BY <1>9, <1>18, <2>1, <2>3 DEF Sends
  <2> QED
    BY <1>2, <1>11, <2>2, <2>3, <2>4 DEF Uploading, peer
<1>21. Pieces'
  BY <1>2, <1>6, <1>7 DEF Pieces, peer
<1> QED
  BY <1>15, <1>19, <1>20, <1>21

LEMMA RecvDataSync ==
  ASSUME SessionInv, RecvData
  PROVE  SyncInv'
<1>1. PICK n \in 1..Least(want, Len(p2c)) :
        /\ p2c' = Rest(p2c, n)
        /\ got' = got + n
        /\ cpc' = IF cmd.kind = "search" \/ got + n >= want THEN "idle" ELSE "data"
        /\ slips' = IF cmd.kind = "search" /\ n < want THEN slips \cup {"short"} ELSE slips
  BY DEF RecvData
<1>2. cpc = "data" /\ UNCHANGED <<cmd, want, cend, c2p, peer, pend, wasted, kills>>
  BY DEF RecvData
<1>3. SUFFICES ASSUME slips' \cap {"late", "short"} = {}
               PROVE  Reply' /\ Turn' /\ Uploading' /\ Pieces'
  BY <1>1, SyncBy
<1>4. slips' = slips /\ (cmd.kind = "search" => n >= want)
  <2>1. cmd.kind = "search" => ~(n < want)
    BY <1>1, <1>3
  <2>2. want \in Int /\ n \in Int
    BY SessionAssumption DEF SessionInv, TypeInv, TypeOK, Huge
  <2> QED
    BY <1>1, <2>1, <2>2
<1>5. Reply /\ Turn /\ Uploading /\ Pieces /\ Receiving
  BY <1>2, <1>3, <1>4 DEF SessionInv, SyncInv, Sync, Reply
<1>6. /\ p2c \in Seq(Word) /\ Len(p2c) \in Nat /\ got \in Nat /\ Size \in Nat \ {0}
      /\ ppc \in {"answer", "payload", "head", "body", "left", "ended"}
      /\ ppc = "payload" => left \in 1..Size
  BY SessionAssumption DEF SessionInv, TypeInv, TypeOK, PeerStage
<1>7. want = Size /\ got + Len(p2c) + Due <= want /\ (cmd.kind = "search" => got = 0)
  BY <1>5 DEF Receiving
<1>8. n \in 1..Len(p2c) /\ n \in 0..Len(p2c) /\ n <= want
  BY <1>6, <1>7 DEF Least
<1>9. /\ p2c' \in Seq(Word) /\ Len(p2c') = Len(p2c) - n
      /\ \A i \in 1..(Len(p2c) - n) : p2c'[i] = p2c[n + i]
  BY <1>1, <1>6, <1>8, TakeRest
<1>10. Due \in Nat /\ Due' = Due /\ (ppc = "payload" => Due > 0)
  BY <1>2, <1>6 DEF Due, peer
<1>11. cpc' = "idle" => p2c' = <<>> /\ ppc # "payload"
  <2>1. SUFFICES ASSUME cpc' = "idle" PROVE Len(p2c') = 0 /\ Due = 0
    BY <1>9, <1>10
  <2>2. got + n >= want
    BY <1>1, <1>4, <1>6, <1>7, <1>8, <2>1
  <2> QED
    BY <1>6, <1>7, <1>8, <1>9, <1>10, <2>2
<1>12. cpc' = "data" => Receiving'
  <2>1. SUFFICES ASSUME cpc' = "data" PROVE Receiving'
    OBVIOUS
  <2>2. got' + Len(p2c') + Due' <= want'
    BY <1>1, <1>2, <1>6, <1>7, <1>8, <1>9, <1>10
  <2> QED
    BY <1>1, <1>2, <1>5, <2>1, <2>2 DEF Receiving
<1>13. Reply'
  <2>1. \A i \in 1..Len(p2c') : p2c'[i].of = cmd'.of
    <3> TAKE i \in 1..Len(p2c')
    <3>1. n + i \in 1..Len(p2c) /\ p2c'[i] = p2c[n + i]
      BY <1>6, <1>8, <1>9
    <3> QED
      BY <1>2, <1>5, <3>1 DEF Reply
  <2> QED
    BY <1>1, <1>11, <1>12, <2>1 DEF Reply
<1>14. ppc \notin {"answer", "body"}
  BY <1>2, <1>5 DEF Turn, Uploading
<1>15. cpc' \in {"idle", "data"}
  BY <1>1
<1>16. Turn'
  BY <1>2, <1>5, <1>11, <1>14, <1>15 DEF Turn, peer
<1>17. Uploading' /\ Pieces'
  BY <1>2, <1>14 DEF Uploading, Pieces, peer
<1> QED
  BY <1>13, <1>16, <1>17

LEMMA LeaveSync ==
  ASSUME SessionInv, Leave
  PROVE  SyncInv'
<1> DEFINE w == [of |-> cmd.of, kind |-> "quit", val |-> 0]
<1>1. /\ cpc' = "gone" /\ p2c' = <<>> /\ cpc \notin {"again", "gone"}
      /\ slips' = IF cpc = "idle" THEN slips ELSE slips \cup {"left"}
      /\ UNCHANGED <<cmd, want, got, cend, peer, wasted, kills>>
  BY DEF Leave
<1>2. SUFFICES ASSUME slips' \subseteq {"torn"} PROVE Parting' /\ Pieces'
  BY <1>1, SyncBy
<1>3. cpc = "idle" /\ slips' = slips
  <2>1. "left" \notin slips'
    BY <1>2
  <2> QED
    BY <1>1, <2>1
<1>4. Reply /\ Turn /\ Uploading /\ Pieces
  BY <1>1, <1>2, <1>3 DEF SessionInv, SyncInv, Sync
<1>5. Pieces'
  BY <1>1, <1>3, <1>4 DEF Pieces, peer
<1>6. CASE ppc = "ended"
  BY <1>1, <1>5, <1>6 DEF Parting, peer
<1>7. CASE ppc # "ended"
  <2>1. cend = "open" /\ p2c = <<>>
    BY <1>3, <1>4, <1>7 DEF SessionInv, EndInv, Reply
  <2>2. pend' = "fin" /\ c2p' = Append(c2p, w)
    BY <2>1 DEF Leave, AfterClose, Arrives
  <2>3. c2p \in Seq(Word) /\ w \in Word /\ Len(c2p) \in Nat /\ Len(body) \in Nat
    BY DEF SessionInv, TypeInv, TypeOK, Word
  <2>4. w.kind = "quit"
    OBVIOUS
  <2> HIDE DEF w
  <2>5. /\ Len(c2p') = Len(c2p) + 1
        /\ \A i \in 1..Len(c2p) : c2p'[i] = c2p[i]
        /\ c2p'[Len(c2p) + 1] = w
    BY <2>2, <2>3, AppendLast
  <2>6. ppc \in {"head", "body", "left"}
    BY <1>3, <1>4, <1>7 DEF Turn, SessionInv, TypeInv, TypeOK
  <2>7. ppc = "head" => Len(c2p') = 1 /\ c2p'[1].kind = "quit"
    <3>1. ppc = "head" => Len(c2p) = 0
      BY <1>3, <1>4 DEF Turn
    <3> QED
      BY <2>4, <2>5, <3>1
  <2>8. ppc = "body" =>
          /\ Len(body) + Len(c2p') = job.val + 1
          /\ \A i \in 1..Len(c2p') :
               IF i = Len(c2p') THEN c2p'[i].kind = "quit"
               ELSE c2p'[i].kind = "photo" /\ c2p'[i].of = job.of
    <3>1. ppc = "body" =>
            /\ Len(body) + Len(c2p) = job.val
            /\ \A i \in 1..Len(c2p) : c2p[i].kind = "photo" /\ c2p[i].of = job.of
      BY <1>3, <1>4 DEF Uploading
    <3>2. ppc = "body" => Len(body) + Len(c2p') = job.val + 1
      BY <2>3, <2>5, <3>1
    <3>3. ASSUME ppc = "body", NEW i \in 1..Len(c2p')
          PROVE  IF i = Len(c2p') THEN c2p'[i].kind = "quit"
                 ELSE c2p'[i].kind = "photo" /\ c2p'[i].of = job.of
      BY <2>3, <2>4, <2>5, <3>1, <3>3
    <3> QED
      BY <3>2, <3>3
  <2> QED
    BY <1>1, <1>5, <2>2, <2>6, <2>7, <2>8 DEF Parting, peer
<1> QED
  BY <1>6, <1>7

(* The peer's process ends: what has arrived of its answer is still read.    *)
LEMMA EndSync ==
  ASSUME SessionInv, NEW cause, NEW unread, End(cause, unread), UNCHANGED <<client, pend>>,
         slips \subseteq slips'
  PROVE  SyncInv'
<1>1. /\ ppc' = "ended" /\ p2c' \in Seq(Word) /\ Len(p2c') <= Len(p2c)
      /\ \A i \in 1..Len(p2c') : p2c'[i] = p2c[i]
  BY Ending DEF SessionInv, TypeInv, TypeOK
<1>2. /\ p2c \in Seq(Word) /\ Len(p2c) \in Nat /\ Len(p2c') \in Nat
      /\ p2c = <<>> => p2c' = <<>>
  BY <1>1 DEF SessionInv, TypeInv, TypeOK
<1>3. Turn' /\ Uploading' /\ Pieces' /\ Parting'
  BY <1>1 DEF Turn, Uploading, Pieces, Parting
<1>4. UNCHANGED <<cpc, cmd, want, got>>
  BY DEF client
<1>5. CASE ~Sync
  BY <1>3, <1>5, SyncBy DEF Sync
<1>6. CASE Sync /\ cpc = "gone"
  BY <1>2, <1>3, <1>4, <1>6, SyncBy DEF SessionInv, SyncInv
<1>7. CASE Sync /\ cpc # "gone"
  <2>1. Reply
    BY <1>7 DEF SessionInv, SyncInv
  <2>2. Due' = 0 /\ Due \in Nat /\ Size \in Nat /\ NumberWords(cmd.kind) \in 1..2
    BY <1>1, SessionAssumption DEF Due, NumberWords, SessionInv, TypeInv, PeerStage
  <2>3. \A i \in 1..Len(p2c') : i \in 1..Len(p2c) /\ p2c'[i].of = cmd'.of
    BY <1>1, <1>2, <1>4, <2>1 DEF Reply
  <2>4. cpc = "number" => Answered'
    <3>1. SUFFICES ASSUME cpc = "number" PROVE Answered'
      OBVIOUS
    <3>2. Answered
      BY <2>1, <3>1 DEF Reply
    <3>3. Len(p2c') + Due' <= NumberWords(cmd'.kind) + Size
      BY <1>1, <1>2, <1>4, <2>2, <3>2 DEF Answered
    <3>4. p2c' # <<>> => p2c # <<>> /\ p2c'[1] = p2c[1]
      BY <1>1, <1>2
    <3>5. Len(p2c') > 1 => Len(p2c) > 1 /\ p2c'[2] = p2c[2]
      BY <1>1, <1>2
    <3>6. Len(p2c') > NumberWords(cmd.kind) => Len(p2c) > NumberWords(cmd.kind) /\ p2c' # <<>>
      BY <1>1, <1>2, <2>2
    <3> QED
      BY <1>4, <3>2, <3>3, <3>4, <3>5, <3>6 DEF Answered
  <2>5. cpc = "data" => Receiving'
    <3>1. SUFFICES ASSUME cpc = "data" PROVE Receiving'
      OBVIOUS
    <3>2. Receiving /\ got \in Nat
      BY <2>1, <3>1 DEF Reply, SessionInv, TypeInv, TypeOK
    <3>3. got + Len(p2c') + Due' <= Size
      BY <1>1, <1>2, <2>2, <3>2 DEF Receiving
    <3> QED
      BY <1>4, <3>2, <3>3 DEF Receiving
  <2>6. Reply'
    BY <1>2, <1>4, <2>1, <2>3, <2>4, <2>5 DEF Reply
  <2> QED
    BY <1>3, <1>4, <1>7, <2>6, SyncBy
<1> QED
  BY <1>5, <1>6, <1>7

LEMMA RecvHeadSync ==
  ASSUME SessionInv, RecvHead
  PROVE  SyncInv'
<1>1. /\ ppc = "head" /\ c2p # <<>> /\ c2p' = Tail(c2p)
      /\ CASE Head(c2p).kind = "quit" -> ppc' = "left" /\ UNCHANGED job
           [] Head(c2p).kind = "photo" -> UNCHANGED <<ppc, job>>
           [] OTHER -> ppc' = "answer" /\ job' = Head(c2p)
      /\ UNCHANGED <<client, cend, p2c, left, body, stored, why, pend, history>>
  BY DEF RecvHead
<1>2. c2p \in Seq(Word) /\ Len(c2p) \in Nat
  BY DEF SessionInv, TypeInv, TypeOK
<1>3. /\ c2p' \in Seq(Word) /\ Len(c2p') = Len(c2p) - 1 /\ Len(c2p) > 0 /\ Head(c2p) = c2p[1]
  BY <1>1, <1>2, TailShifts
<1>4. ASSUME Sync, cpc # "gone" PROVE Reply' /\ Turn' /\ Uploading' /\ Pieces'
  <2>1. Reply /\ Turn
    BY <1>4 DEF SessionInv, SyncInv
  <2>2. c2p = <<cmd>> /\ cpc = "number" /\ p2c = <<>>
    BY <1>1, <2>1 DEF Turn
  <2>3. Head(c2p) = cmd /\ Len(c2p) = 1 /\ cmd.kind \in Op
    BY <1>3, <2>2 DEF SessionInv, TypeInv, ClientStage
  <2>4. ppc' = "answer" /\ job' = cmd /\ c2p' = <<>>
    BY <1>1, <1>3, <2>3 DEF Op
  <2>5. Turn' /\ Uploading' /\ Pieces'
    BY <1>1, <2>2, <2>4 DEF Turn, Uploading, Pieces, client
  <2>6. Due' = Due
    BY <1>1, <2>4 DEF Due
  <2>7. Reply'
    BY <1>1, <2>1, <2>2, <2>6 DEF Reply, Answered, client
  <2> QED
    BY <2>5, <2>7
<1>5. ASSUME slips \subseteq {"torn"}, cpc = "gone" PROVE Parting' /\ Pieces'
  <2>1. Parting /\ c2p[1].kind = "quit"
    BY <1>1, <1>5 DEF SessionInv, SyncInv, Parting
  <2>2. ppc' = "left"
    BY <1>1, <1>3, <2>1
  <2> QED
    BY <1>1, <2>1, <2>2 DEF Parting, Pieces
<1> QED
  BY <1>1, <1>4, <1>5, SyncBy DEF SessionInv, SyncInv, Sync, client, history

LEMMA RecvGoneSync ==
  ASSUME SessionInv, RecvGone
  PROVE  SyncInv'
<1>1. /\ ppc = "head" /\ c2p = <<>> /\ pend # "open"
      /\ UNCHANGED <<client, cend, c2p, p2c, job, left, body, stored, why, history>>
  BY DEF RecvGone
<1>2. cpc = "gone"
  BY <1>1 DEF SessionInv, EndInv
<1>3. Len(c2p) = 0
  BY <1>1
<1>4. ~(slips \subseteq {"torn"})
  BY <1>1, <1>2, <1>3 DEF SessionInv, SyncInv, Parting
<1> QED
  BY <1>1, <1>2, <1>4, SyncBy DEF SessionInv, SyncInv, Sync, client, history

(* A send of the peer when the client has gone: nothing goes out.            *)
LEMMA SendsNothing ==
  ASSUME SessionInv, ppc \in {"answer", "payload"}, cpc = "gone", UNCHANGED <<client, history>>,
         p2c' = p2c \/ pend = "open"
  PROVE  SyncInv'
<1>1. ~(slips \subseteq {"torn"})
  BY DEF SessionInv, SyncInv, Parting
<1>2. pend # "open"
  BY DEF SessionInv, EndInv
<1> QED
  BY <1>1, <1>2, SyncBy DEF SessionInv, SyncInv, Sync, client, history

LEMMA AnswerSync ==
  ASSUME SessionInv, Answer
  PROVE  SyncInv'
<1>1. ppc = "answer" /\ CanSend(pend, p2c) /\ UNCHANGED <<client, history>>
  BY DEF Answer
<1>2. CASE pend = "pipe"
  <2>1. End("sigpipe", c2p) /\ UNCHANGED pend
    BY <1>2 DEF Answer
  <2> QED
    BY <1>1, <2>1, EndSync DEF history
<1>3. CASE pend # "pipe"
  <2> DEFINE word(x) == [of |-> job.of, kind |-> "number", val |-> x]
             sent(x) == Put(pend, p2c, word(x))
  <2>1. PICK v \in Answers(job.kind) :
          /\ p2c' = IF job.kind = "download" THEN Put(pend, sent(v), word(0)) ELSE sent(v)
          /\ ppc' = IF job.kind = "add" /\ BodyFollows(v) /\ pend # "rst" THEN "body"
                    ELSE IF job.kind \in {"getname", "download"} /\ v # 0 THEN "payload"
                    ELSE IF job.kind = "search" /\ v # 0 /\ pend # "rst" THEN "payload"
                    ELSE "head"
          /\ left' = Size /\ body' = <<>>
          /\ UNCHANGED <<cend, c2p, job, stored, why>>
    BY <1>3 DEF Answer
  <2>2. CASE pend # "open"
    <3>1. cpc = "gone" /\ p2c' = p2c
      BY <2>1, <2>2 DEF Put, SessionInv, EndInv
    <3> QED
      BY <1>1, <3>1, SendsNothing
  <2>3. CASE pend = "open" /\ cpc = "gone"
    <3>1. ppc = "ended"
      BY <2>3 DEF SessionInv, EndInv
    <3> QED
      BY <1>1, <3>1
  <2>4. CASE pend = "open" /\ cpc # "gone" /\ ~Sync
    BY <1>1, <2>4, SyncBy DEF Sync, client, history
  <2>5. CASE pend = "open" /\ cpc # "gone" /\ Sync
    <3>1. job = cmd /\ cpc = "number" /\ p2c = <<>> /\ c2p = <<>>
      BY <1>1, <2>5 DEF SessionInv, SyncInv, Turn
    <3>2. cmd.kind \in Op /\ Size \in Nat \ {0} /\ UNCHANGED <<cpc, cmd, want, got, slips>>
      BY <1>1, <3>1, SessionAssumption DEF SessionInv, TypeInv, ClientStage, client, history
    <3>3. p2c' = IF cmd.kind = "download" THEN Append(<<word(v)>>, word(0))
                ELSE <<word(v)>>
      <4>1. sent(v) = Append(p2c, word(v)) /\ sent(v) = <<word(v)>>
        BY <2>5, <3>1 DEF Put
      <4> HIDE DEF sent, word
      <4>2. Put(pend, sent(v), word(0)) = Append(sent(v), word(0))
        BY <2>5 DEF Put
      <4> QED
        BY <2>1, <3>1, <4>1, <4>2
    <3>4. word(v).of = cmd.of /\ word(0).of = cmd.of /\ word(v).kind = "number"
          /\ word(0).kind = "number" /\ word(v).val = v /\ word(0).val = 0
      BY <3>1
    <3> HIDE DEF word
    <3>5. /\ Len(p2c') = NumberWords(cmd.kind) /\ p2c'[1] = word(v) /\ p2c' # <<>>
          /\ cmd.kind = "download" => p2c'[2] = word(0)
          /\ \A i \in 1..Len(p2c') : p2c'[i] \in {word(v), word(0)}
      <4>1. CASE cmd.kind = "download"
        <5> DEFINE S == {word(v), word(0)}
        <5>1. <<word(v)>> \in Seq(S) /\ word(0) \in S /\ Len(<<word(v)>>) = 1
          OBVIOUS
        <5>2. p2c' = Append(<<word(v)>>, word(0))
          BY <3>3, <4>1
        <5>3. /\ p2c' \in Seq(S) /\ Len(p2c') = 1 + 1 /\ p2c'[1 + 1] = word(0)
              /\ \A i \in 1..1 : p2c'[i] = <<word(v)>>[i]
          BY <5>1, <5>2, AppendLast
        <5>4. \A i \in 1..Len(p2c') : p2c'[i] \in S
          BY <5>3
        <5> QED
          BY <4>1, <5>3, <5>4 DEF NumberWords
      <4>2. CASE cmd.kind # "download"
        BY <3>3, <4>2 DEF NumberWords
      <4> QED
        BY <4>1, <4>2
    <3>6. /\ ppc' = "payload" => Sends(cmd.kind) /\ v # 0
          /\ ppc' = "body" => cmd.kind = "add" /\ v # 0
          /\ ppc' = "head" => (cmd.kind = "add" => v = 0)
          /\ ppc' \in {"payload", "body", "head"}
      BY <2>1, <2>5, <3>1 DEF Sends, BodyFollows
    <3>7. Sends(cmd.kind) => v \in {0, Size}
      BY <2>1, <3>1 DEF Sends, Answers
    <3>8. Due' \in {0, Size}
      BY <2>1 DEF Due
    <3>9. Answered'
      <4>1. Len(p2c') + Due' <= NumberWords(cmd.kind) + Size
        <5>1. NumberWords(cmd.kind) \in Nat /\ Size \in Nat
          BY <3>2 DEF NumberWords
        <5> QED
          BY <3>5, <3>8, <5>1
      <4>2. ~(Len(p2c') > NumberWords(cmd.kind))
        BY <3>5 DEF NumberWords
      <4> QED
        BY <2>1, <3>1, <3>2, <3>4, <3>5, <4>1, <4>2 DEF Answered
    <3>10. Reply'
      <4>1. \A i \in 1..Len(p2c') : p2c'[i].of = cmd'.of
        BY <3>2, <3>4, <3>5
      <4> QED
        BY <3>1, <3>2, <3>9, <4>1 DEF Reply
    <3>11. Turn'
      <4>1. Len(p2c') >= NumberWords(cmd'.kind)
        BY <3>2, <3>5 DEF NumberWords
      <4> QED
        BY <2>1, <3>1, <3>2, <3>4, <3>5, <3>6, <3>7, <4>1 DEF Turn
    <3>12. Uploading'
      <4>1. Len(c2p') = 0
        BY <2>1, <3>1
      <4> QED
        BY <2>1, <3>1, <3>2, <3>4, <3>5, <3>6, <4>1 DEF Uploading
    <3>13. Pieces'
      <4>1. Len(body') = 0 /\ body' = <<>>
        BY <2>1
      <4> QED
        BY <4>1 DEF Pieces
    <3> QED
      BY <2>5, <3>2, <3>10, <3>11, <3>12, <3>13, SyncBy
  <2> QED
    BY <2>2, <2>3, <2>4, <2>5
<1> QED
  BY <1>2, <1>3

LEMMA PayloadSync ==
  ASSUME SessionInv, Payload
  PROVE  SyncInv'
<1>1. ppc = "payload" /\ CanSend(pend, p2c) /\ UNCHANGED <<client, history>>
  BY DEF Payload
<1>2. CASE pend = "pipe"
  <2>1. End("sigpipe", c2p) /\ UNCHANGED pend
    BY <1>2 DEF Payload
  <2> QED
    BY <1>1, <2>1, EndSync DEF history
<1>3. CASE pend # "pipe"
  <2> DEFINE w == [of |-> job.of, kind |-> "data", val |-> 0]
  <2>1. /\ p2c' = Put(pend, p2c, w)
        /\ left' = left - 1
        /\ ppc' = IF left = 1 \/ pend = "rst" THEN "head" ELSE "payload"
        /\ UNCHANGED <<cend, c2p, job, body, stored, why>>
    BY <1>3 DEF Payload
  <2>2. CASE pend # "open"
    <3>1. cpc = "gone" /\ p2c' = p2c
      BY <2>1, <2>2 DEF Put, SessionInv, EndInv
    <3> QED
      BY <1>1, <3>1, SendsNothing
  <2>3. CASE pend = "open" /\ cpc = "gone"
    <3>1. ppc = "ended"
      BY <2>3 DEF SessionInv, EndInv
    <3> QED
      BY <1>1, <3>1
  <2>4. CASE pend = "open" /\ cpc # "gone" /\ ~Sync
    BY <1>1, <2>4, SyncBy DEF Sync, client, history
  <2>5. CASE pend = "open" /\ cpc # "gone" /\ Sync
    <3>1. /\ job = cmd /\ cpc \in {"number", "data"} /\ c2p = <<>> /\ Sends(cmd.kind)
          /\ cpc = "number" => Len(p2c) >= NumberWords(cmd.kind) /\ p2c[1].val = Size
          /\ Reply
      BY <1>1, <2>5 DEF SessionInv, SyncInv, Turn
    <3>2. UNCHANGED <<cpc, cmd, want, got, slips>>
      BY <1>1 DEF client, history
    <3>3. /\ p2c \in Seq(Word) /\ Len(p2c) \in Nat /\ w \in Word /\ got \in Nat
          /\ left \in 1..Size /\ Size \in Nat /\ NumberWords(cmd.kind) \in 1..2
      BY <1>1, SessionAssumption
         DEF SessionInv, TypeInv, TypeOK, Word, PeerStage, NumberWords
    <3>4. p2c' = Append(p2c, w) /\ w.of = cmd.of
      BY <2>1, <2>5, <3>1 DEF Put
    <3> HIDE DEF w
    <3>5. /\ Len(p2c') = Len(p2c) + 1
          /\ \A i \in 1..Len(p2c) : p2c'[i] = p2c[i]
          /\ p2c'[Len(p2c) + 1] = w /\ p2c' # <<>>
      BY <3>3, <3>4, AppendLast
    <3>6. Due = left /\ Due' = left - 1
      BY <1>1, <2>1, <2>5, <3>3 DEF Due
    <3>7. \A i \in 1..Len(p2c') : p2c'[i].of = cmd'.of
      <4> TAKE i \in 1..Len(p2c')
      <4>1. i \in 1..Len(p2c) \/ i = Len(p2c) + 1
        BY <3>3, <3>5
      <4> QED
        BY <3>1, <3>2, <3>4, <3>5, <4>1 DEF Reply
    <3>8. cpc = "number" =>
            /\ p2c # <<>> /\ p2c'[1] = p2c[1] /\ Len(p2c') > NumberWords(cmd.kind)
            /\ cmd.kind = "download" => p2c'[2] = p2c[2] /\ Len(p2c) > 1
      BY <3>1, <3>3, <3>5 DEF NumberWords
    <3>9. cpc = "number" => Answered'
      <4>1. SUFFICES ASSUME cpc = "number" PROVE Answered'
        OBVIOUS
      <4>2. Answered
        BY <3>1, <4>1 DEF Reply
      <4>3. Len(p2c') + Due' <= NumberWords(cmd'.kind) + Size
        BY <3>2, <3>3, <3>5, <3>6, <4>2 DEF Answered
      <4> QED
        BY <3>1, <3>2, <3>8, <4>1, <4>2, <4>3 DEF Answered
    <3>10. cpc = "data" => Receiving'
      <4>1. SUFFICES ASSUME cpc = "data" PROVE Receiving'
        OBVIOUS
      <4>2. Receiving
        BY <3>1, <4>1 DEF Reply
      <4>3. want = Size /\ got + Len(p2c') + Due' <= Size
        BY <3>3, <3>5, <3>6, <4>2 DEF Receiving
      <4> QED
        BY <3>2, <4>2, <4>3 DEF Receiving
    <3>11. Reply'
      BY <3>1, <3>2, <3>7, <3>9, <3>10 DEF Reply
    <3>12. Turn'
      <4>1. cpc = "number" => Len(p2c') >= NumberWords(cmd'.kind)
        BY <3>2, <3>3, <3>8
      <4> QED
        BY <2>1, <2>5, <3>1, <3>2, <3>8, <4>1 DEF Turn, Sends
    <3>13. Uploading' /\ Pieces'
      BY <2>1 DEF Uploading, Pieces
    <3> QED
      BY <2>5, <3>2, <3>11, <3>12, <3>13, SyncBy
  <2> QED
    BY <2>2, <2>3, <2>4, <2>5
<1> QED
  BY <1>2, <1>3

(* The stream the photo is received from: its words, and behind them at most *)
(* one item that is none.                                                    *)
InUpload ==
  /\ Pieces
  /\ \/ Uploading /\ cpc # "gone"
     \/ Parting

LEMMA UploadKnown ==
  ASSUME SyncInv, ppc = "body", slips \subseteq {"torn"} \/ (Sync /\ cpc # "gone")
  PROVE  InUpload
<1>1. CASE cpc = "gone"
  BY <1>1 DEF SyncInv, InUpload
<1>2. CASE cpc # "gone"
  <2>1. Sync
    BY <1>2 DEF Sync
  <2> QED
    BY <1>2, <2>1 DEF SyncInv, InUpload
<1> QED
  BY <1>1, <1>2

(* A receive that does not take too much takes words of the photo only.      *)
LEMMA PhotoWords ==
  ASSUME SessionInv, InUpload, ppc = "body", NEW n \in 1..Least(job.val, Len(c2p)),
         Len(body) + n <= job.val
  PROVE  /\ \A i \in 1..n : c2p[i].kind = "photo" /\ c2p[i].of = job.of
         /\ \A i \in 1..Len(body \o Take(c2p, n)) :
              (body \o Take(c2p, n))[i].kind = "photo" /\ (body \o Take(c2p, n))[i].of = job.of
<1>1. /\ c2p \in Seq(Word) /\ Len(c2p) \in Nat /\ body \in Seq(Word) /\ Len(body) \in Nat
      /\ job.val \in Nat
  BY SessionAssumption DEF SessionInv, TypeInv, TypeOK, PeerStage
<1>2. n \in 1..Len(c2p) /\ n \in 0..Len(c2p) /\ n <= job.val
  BY <1>1 DEF Least
<1>3. \A i \in 1..Len(body) : body[i].kind = "photo" /\ body[i].of = job.of
  BY DEF InUpload, Pieces
<1>4. ASSUME NEW i \in 1..n PROVE c2p[i].kind = "photo" /\ c2p[i].of = job.of
  <2>1. i \in 1..Len(c2p) /\ c2p # <<>>
    BY <1>1, <1>2
  <2>2. CASE Uploading /\ cpc # "gone"
    <3>1. cpc = "number" => Len(body) + Len(c2p) = job.val + 1
      BY <2>1, <2>2 DEF Uploading
    <3>2. cpc = "number" => i # Len(c2p)
      BY <1>1, <1>2, <3>1
    <3> QED
      BY <2>1, <2>2, <3>2 DEF Uploading
  <2>3. CASE Parting
    <3>1. Len(body) + Len(c2p) = job.val + 1
      BY <2>3 DEF Parting
    <3>2. i # Len(c2p)
      BY <1>1, <1>2, <3>1
    <3> QED
      BY <2>1, <2>3, <3>2 DEF Parting
  <2> QED
    BY <2>2, <2>3 DEF InUpload
<1> DEFINE taken == Take(c2p, n)
           words == body \o taken
<1>5. taken \in Seq(Word) /\ Len(taken) = n /\ \A i \in 1..n : taken[i] = c2p[i]
  BY <1>1, <1>2, TakeRest
<1> HIDE DEF taken
<1>6. /\ Len(words) = Len(body) + Len(taken)
      /\ \A i \in 1..Len(body) : words[i] = body[i]
      /\ \A i \in 1..(Len(body) + Len(taken)) :
           i <= Len(body) \/ (i - Len(body) \in 1..Len(taken) /\ words[i] = taken[i - Len(body)])
  BY <1>1, <1>5, Joined
<1> HIDE DEF words
<1>7. ASSUME NEW i \in 1..Len(words) PROVE words[i].kind = "photo" /\ words[i].of = job.of
  <2>1. CASE i <= Len(body)
    <3>1. i \in 1..Len(body) /\ words[i] = body[i]
      BY <1>1, <1>6, <2>1
    <3> QED
      BY <1>3, <3>1
  <2>2. CASE ~(i <= Len(body))
    <3>1. i - Len(body) \in 1..n /\ words[i] = taken[i - Len(body)]
      BY <1>5, <1>6, <2>2
    <3>2. words[i] = c2p[i - Len(body)]
      BY <1>5, <3>1
    <3> QED
      BY <1>4, <3>1, <3>2
  <2> QED
    BY <2>1, <2>2
<1> QED
  BY <1>4, <1>7 DEF words, taken

(* One receive of a photo: too much, all of it, or a piece.                  *)
Received(n) ==
  LET words == body \o Take(c2p, n)
  IN  /\ slips' = IF n < job.val - Len(body) /\ c2p[n].kind = "photo"
                  THEN slips \cup {"torn"} ELSE slips
      /\ \/ Len(words) > job.val /\ End("exit", Rest(c2p, n))
         \/ /\ ~(Len(words) > job.val) /\ Whole(Len(words), job.val)
            /\ stored' = [of |-> job.of, size |-> job.val, words |-> words]
            /\ ppc' = "head" /\ body' = <<>> /\ c2p' = Rest(c2p, n)
            /\ UNCHANGED <<cend, p2c, job, left, why>>
         \/ /\ ~(Len(words) > job.val) /\ ~Whole(Len(words), job.val)
            /\ body' = words /\ c2p' = Rest(c2p, n)
            /\ UNCHANGED <<stored, ppc, cend, p2c, job, left, why>>

LEMMA ReceivedBy ==
  ASSUME RecvBody
  PROVE  /\ ppc = "body" /\ UNCHANGED <<client, pend, wasted, kills>>
         /\ \E n \in 1..Least(job.val, Len(c2p)) : Received(n)
BY DEF RecvBody, Received

LEMMA RecvBodySync ==
  ASSUME SessionInv, RecvBody
  PROVE  SyncInv'
<1>1. ppc = "body" /\ UNCHANGED <<client, pend, wasted, kills>>
  BY ReceivedBy
<1>2. PICK n \in 1..Least(job.val, Len(c2p)) : Received(n)
  BY ReceivedBy
<1> DEFINE words == body \o Take(c2p, n)
<1>3. /\ c2p \in Seq(Word) /\ Len(c2p) \in Nat /\ body \in Seq(Word) /\ Len(body) \in Nat
      /\ job.val \in Nat
  BY SessionAssumption DEF SessionInv, TypeInv, TypeOK, PeerStage
<1>4. n \in 1..Len(c2p) /\ n \in 0..Len(c2p) /\ n <= job.val
  BY <1>3 DEF Least
<1>5. /\ c2p' = Rest(c2p, n) =>
           /\ c2p' \in Seq(Word) /\ Len(c2p') = Len(c2p) - n
           /\ \A i \in 1..(Len(c2p) - n) : c2p'[i] = c2p[n + i]
      /\ words \in Seq(Word) /\ Len(words) = Len(body) + n
  <2>1. /\ Take(c2p, n) \in Seq(Word) /\ Len(Take(c2p, n)) = n
        /\ Rest(c2p, n) \in Seq(Word) /\ Len(Rest(c2p, n)) = Len(c2p) - n
        /\ \A i \in 1..(Len(c2p) - n) : Rest(c2p, n)[i] = c2p[n + i]
    BY <1>3, <1>4, TakeRest
  <2>2. words \in Seq(Word) /\ Len(words) = Len(body) + Len(Take(c2p, n))
    BY <1>3, <2>1, Joined
  <2> QED
    BY <2>1, <2>2
<1>6. slips' \in {slips, slips \cup {"torn"}}
  BY <1>2 DEF Received
<1>7. UNCHANGED <<cpc, cmd, want, got>>
  BY <1>1 DEF client
<1>8. CASE Len(words) > job.val /\ End("exit", Rest(c2p, n))
  <2>1. slips \subseteq slips'
    BY <1>6
  <2> QED
    BY <1>1, <1>8, <2>1, EndSync
<1>9. CASE ~(Len(words) > job.val) /\ c2p' = Rest(c2p, n)
  <2>1. Len(body) + n <= job.val
    BY <1>3, <1>4, <1>5, <1>9
  <2>2. /\ p2c' = p2c /\ job' = job
        /\ \/ Whole(Len(words), job.val) /\ ppc' = "head" /\ body' = <<>>
           \/ ~Whole(Len(words), job.val) /\ ppc' = "body" /\ body' = words
    BY <1>1, <1>2, <1>9 DEF Received, Ending, End
  <2>3. /\ ppc' = "head" => Len(body) + n = job.val
        /\ ppc' = "body" => Len(body) + n < job.val /\ body' = words
        /\ ppc' \in {"head", "body"} /\ Due' = 0 /\ Due = 0
    BY <1>1, <1>3, <1>4, <1>5, <2>1, <2>2 DEF Whole, Due
  <2>4. /\ c2p' \in Seq(Word) /\ Len(c2p') = Len(c2p) - n /\ Len(c2p') \in Nat
        /\ \A i \in 1..(Len(c2p) - n) : c2p'[i] = c2p[n + i]
        /\ ppc' = "body" => Len(body') = Len(body) + n
    BY <1>3, <1>4, <1>5, <1>9, <2>3
  <2>5. ASSUME NEW i \in 1..Len(c2p')
        PROVE  n + i \in 1..Len(c2p) /\ c2p'[i] = c2p[n + i]
               /\ (n + i = Len(c2p) <=> i = Len(c2p'))
    BY <1>3, <1>4, <2>4
  <2>6. ASSUME InUpload PROVE Pieces'
    <3>1. SUFFICES ASSUME ppc' = "body" PROVE Pieces'
      BY DEF Pieces
    <3>2. /\ \A i \in 1..n : c2p[i].kind = "photo" /\ c2p[i].of = job.of
          /\ \A i \in 1..Len(words) : words[i].kind = "photo" /\ words[i].of = job.of
      BY <1>1, <2>1, <2>6, PhotoWords
    <3>3. c2p[n].kind = "photo" /\ n < job.val - Len(body)
      BY <1>3, <1>4, <2>3, <3>1, <3>2
    <3>4. "torn" \in slips'
      BY <1>2, <3>3 DEF Received
    <3> QED
      BY <1>5, <2>2, <2>3, <3>1, <3>2, <3>4 DEF Pieces
  <2>7. ASSUME Sync, cpc # "gone" PROVE Reply' /\ Turn' /\ Uploading' /\ Pieces'
    <3>1. Reply /\ Uploading /\ InUpload
      BY <1>1, <2>7, UploadKnown DEF SessionInv, SyncInv
    <3>2. Reply'
      BY <1>7, <2>2, <2>3, <3>1 DEF Reply, Answered, Receiving
    <3>3. /\ cpc \in {"idle", "head", "upload", "number"}
          /\ cpc \in {"idle", "head"} => Len(body) + Len(c2p) = job.val
          /\ cpc = "upload" => Len(body) + Len(c2p) + want = job.val /\ job = cmd /\ want \in 1..Size
          /\ cpc = "number" => p2c = <<>> /\ Len(body) + Len(c2p) = job.val + 1
      <4>1. c2p # <<>>
        BY <1>3, <1>4
      <4> QED
        BY <1>1, <3>1, <4>1 DEF Uploading, SessionInv, TypeInv, ClientStage
    <3>4. Turn'
      <4>1. ASSUME ppc' = "head"
            PROVE  /\ c2p' = <<>> \/ (c2p' = <<cmd>> /\ cpc = "number")
                   /\ cpc # "upload"
        <5>1. cpc # "upload"
          BY <1>3, <1>4, <2>3, <3>3, <4>1, SessionAssumption
        <5>2. cpc \in {"idle", "head"} => Len(c2p') = 0
          BY <1>3, <1>4, <1>5, <1>9, <2>3, <3>3, <4>1
        <5>3. cpc = "number" => Len(c2p') = 1 /\ c2p'[1] = cmd
          <6>1. SUFFICES ASSUME cpc = "number" PROVE Len(c2p') = 1 /\ c2p'[1] = cmd
            OBVIOUS
          <6>2. Len(c2p') = 1
            BY <1>3, <1>4, <2>3, <2>4, <3>3, <4>1, <6>1
          <6>3. n + 1 = Len(c2p) /\ c2p'[1] = c2p[n + 1] /\ n + 1 \in 1..Len(c2p)
            BY <2>5, <6>2
          <6>4. c2p[Len(c2p)] = cmd
            BY <1>1, <3>1, <6>1, <6>3 DEF Uploading
          <6> QED
            BY <6>2, <6>3, <6>4
        <5> QED
          BY <1>5, <1>9, <3>3, <5>1, <5>2, <5>3
      <4> QED
        BY <1>7, <2>2, <2>3, <3>3, <4>1 DEF Turn
    <3>5. Uploading'
      <4>1. SUFFICES ASSUME ppc' = "body" PROVE Uploading'
        BY DEF Uploading
      <4>2. Len(body') + Len(c2p') = Len(body) + Len(c2p)
        <5>1. Len(body') = Len(body) + n /\ Len(c2p') = Len(c2p) - n
          BY <2>4, <4>1
        <5>2. n \in Nat /\ Len(body) \in Nat /\ Len(c2p) \in Nat
          BY <1>3, <1>4
        <5> QED
          BY <5>1, <5>2
      <4>3. ASSUME NEW i \in 1..Len(c2p')
            PROVE  IF cpc = "number" /\ i = Len(c2p') THEN c2p'[i] = cmd
                   ELSE c2p'[i].kind = "photo" /\ c2p'[i].of = job.of
        BY <1>1, <2>5, <3>1 DEF Uploading
      <4> QED
        BY <1>7, <2>2, <3>3, <4>2, <4>3 DEF Uploading
    <3> QED
      BY <2>6, <3>1, <3>2, <3>4, <3>5
  <2>8. ASSUME slips \subseteq {"torn"}, cpc = "gone" PROVE Parting' /\ Pieces'
    <3>1. Parting /\ InUpload
      BY <1>1, <2>8, UploadKnown DEF SessionInv, SyncInv
    <3>2. /\ pend' = "fin" /\ Len(body) + Len(c2p) = job.val + 1
      BY <1>1, <3>1 DEF Parting
    <3>3. ppc' = "head" => Len(c2p') = 1 /\ c2p'[1].kind = "quit"
      <4>1. SUFFICES ASSUME ppc' = "head" PROVE Len(c2p') = 1 /\ c2p'[1].kind = "quit"
        OBVIOUS
      <4>2. Len(c2p') = 1
        BY <1>3, <1>4, <2>3, <2>4, <3>2, <4>1
      <4>3. n + 1 = Len(c2p) /\ c2p'[1] = c2p[n + 1] /\ n + 1 \in 1..Len(c2p)
        BY <2>5, <4>2
      <4>4. c2p[Len(c2p)].kind = "quit"
        BY <1>1, <3>1, <4>3 DEF Parting
      <4> QED
        BY <4>2, <4>3, <4>4
    <3>4. ppc' = "body" => Len(body') + Len(c2p') = job'.val + 1
      <4>1. SUFFICES ASSUME ppc' = "body" PROVE Len(body') + Len(c2p') = job'.val + 1
        OBVIOUS
      <4>2. Len(body') = Len(body) + n /\ Len(c2p') = Len(c2p) - n /\ job'.val = job.val
        BY <2>2, <2>4, <4>1
      <4>3. n \in Nat /\ Len(body) \in Nat /\ Len(c2p) \in Nat
        BY <1>3, <1>4
      <4> QED
        BY <3>2, <4>2, <4>3
    <3>5. ASSUME NEW i \in 1..Len(c2p')
          PROVE  IF i = Len(c2p') THEN c2p'[i].kind = "quit"
                 ELSE c2p'[i].kind = "photo" /\ c2p'[i].of = job.of
      BY <1>1, <2>5, <3>1 DEF Parting
    <3>6. Parting'
      BY <2>2, <2>3, <3>2, <3>3, <3>4, <3>5 DEF Parting
    <3> QED
      BY <2>6, <3>1, <3>6
  <2> QED
    BY <1>6, <1>7, <2>2, <2>7, <2>8, SyncBy DEF SessionInv, SyncInv, Sync
<1> QED
  BY <1>2, <1>8, <1>9 DEF Received

LEMMA SyncStep ==
  ASSUME SessionInv, [Next]_vars
  PROVE  SyncInv'
<1>1. CASE Command
  <2>1. PICK op \in Op : \E size \in IF op = "add" THEN {0, Size} ELSE {0} : Begin(op, size)
    BY <1>1 DEF Command
  <2>2. PICK size \in IF op = "add" THEN {0, Size} ELSE {0} : Begin(op, size)
    BY <2>1
  <2> QED
    BY <2>2, BeginSync
<1>2. CASE ClientStep
  BY <1>2, SendHeadSync, RecvNumberSync, RecvDataSync, UploadSync, WaitSync, ReconnectSync
     DEF ClientStep
<1>3. CASE PeerStep \/ Kill
  <2>1. CASE Kill \/ BodyFails
    BY <2>1, EndSync DEF Kill, BodyFails, history
  <2> QED
    BY <1>3, <2>1, RecvHeadSync, RecvGoneSync, AnswerSync, PayloadSync, RecvBodySync DEF PeerStep
<1>4. CASE Leave \/ ResetArrives
  BY <1>4, LeaveSync, ResetSync
<1>5. CASE UNCHANGED vars
  BY <1>5 DEF vars, client, peer, history, SessionInv, SyncInv, Sync, Reply, Answered, Receiving,
              Due, Turn, Uploading, Pieces, Parting
<1> QED
  BY <1>1, <1>2, <1>3, <1>4, <1>5 DEF Next

LEMMA SessionHolds == Spec => []SessionInv
<1>1. Init => SessionInv
  BY TypeInit, EndInit, SyncInit DEF SessionInv
<1>2. SessionInv /\ [Next]_vars => SessionInv'
  BY TypeStep, EndStep, SyncStep DEF SessionInv
<1> QED
  BY <1>1, <1>2, PTL DEF Spec

(* As long as no command was given up and no plain recv() fell short, every  *)
(* word that waits for the client answers its current command, and none      *)
(* waits when it has none, for any sizes, buffers and number of commands and *)
(* whenever the peer is killed (library.c, peer.c: connection).              *)
THEOREM InStepCorrect == Spec => []InStep
<1>1. SessionInv => InStep
  <2> SUFFICES ASSUME SessionInv PROVE InStep
    OBVIOUS
  <2>1. TypeOK
    BY DEF SessionInv, TypeInv
  <2>2. Sync => (\A i \in 1..Len(p2c) : p2c[i].of = cmd.of) /\ (cpc = "idle" => p2c = <<>>)
    BY DEF SessionInv, SyncInv, Reply
  <2> QED
    BY <2>1, <2>2 DEF InStep, Sync
<1> QED
  BY <1>1, SessionHolds, PTL
-----------------------------------------------------------------------------
(* A history only grows, until the client takes another peer.                *)
LEMMA SlipsGrow ==
  ASSUME SessionInv, [Next]_vars
  PROVE  \/ slips \subseteq slips'
         \/ stored' = NoPhoto /\ why' = "none"
<1>1. CASE Command
  <2>1. PICK op \in Op : \E size \in IF op = "add" THEN {0, Size} ELSE {0} : Begin(op, size)
    BY <1>1 DEF Command
  <2>2. PICK size \in IF op = "add" THEN {0, Size} ELSE {0} : Begin(op, size)
    BY <2>1
  <2> QED
    BY <2>2 DEF Begin
<1>2. CASE ClientStep
  BY <1>2 DEF ClientStep, SendHead, RecvNumber, RecvData, Upload, GiveUp, RecvEnd, RecvFails,
              Reconnect, history
<1>3. CASE PeerStep \/ Kill
  BY <1>3 DEF PeerStep, RecvHead, RecvGone, Answer, Payload, RecvBody, BodyFails, Kill, history
<1>4. CASE Leave \/ ResetArrives \/ UNCHANGED vars
  BY <1>4 DEF Leave, ResetArrives, vars, history
<1> QED
  BY <1>1, <1>2, <1>3, <1>4 DEF Next

(* What the other actions leave alone of a photo stored.                     *)
LEMMA StoredStays ==
  ASSUME [Next]_vars
  PROVE  RecvBody \/ stored' = stored \/ stored' = NoPhoto
<1>1. CASE Command
  <2>1. PICK op \in Op : \E size \in IF op = "add" THEN {0, Size} ELSE {0} : Begin(op, size)
    BY <1>1 DEF Command
  <2>2. PICK size \in IF op = "add" THEN {0, Size} ELSE {0} : Begin(op, size)
    BY <2>1
  <2> QED
    BY <2>2 DEF Begin, peer
<1>2. CASE ClientStep
  BY <1>2 DEF ClientStep, SendHead, RecvNumber, RecvData, Upload, GiveUp, RecvEnd, RecvFails,
              Reconnect, peer
<1>3. CASE PeerStep \/ Kill
  BY <1>3 DEF PeerStep, RecvHead, RecvGone, Answer, Payload, BodyFails, Kill, End
<1>4. CASE Leave \/ ResetArrives \/ UNCHANGED vars
  BY <1>4 DEF Leave, ResetArrives, vars, peer
<1> QED
  BY <1>1, <1>2, <1>3, <1>4 DEF Next

LEMMA PhotoStep ==
  ASSUME SessionInv, PhotoWhole, [Next]_vars
  PROVE  PhotoWhole'
<1>1. SUFFICES ASSUME slips' \subseteq {"torn"}, stored'.of > 0
               PROVE  /\ Len(stored'.words) = stored'.size
                      /\ \A i \in 1..Len(stored'.words) :
                           stored'.words[i].of = stored'.of /\ stored'.words[i].kind = "photo"
  BY DEF PhotoWhole
<1>2. stored' # NoPhoto
  BY <1>1 DEF NoPhoto
<1>3. slips \subseteq {"torn"}
  BY <1>1, <1>2, SlipsGrow
<1>4. CASE stored' = stored
  BY <1>1, <1>3, <1>4 DEF PhotoWhole
<1>5. CASE RecvBody /\ stored' # stored
  <2>1. ppc = "body"
    BY <1>5, ReceivedBy
  <2>2. PICK n \in 1..Least(job.val, Len(c2p)) : Received(n)
    BY <1>5, ReceivedBy
  <2> DEFINE words == body \o Take(c2p, n)
  <2>3. /\ ~(Len(words) > job.val) /\ Whole(Len(words), job.val)
        /\ stored' = [of |-> job.of, size |-> job.val, words |-> words]
    BY <1>5, <2>2 DEF Received, End
  <2>4. /\ c2p \in Seq(Word) /\ Len(c2p) \in Nat /\ body \in Seq(Word) /\ Len(body) \in Nat
        /\ job.val \in Nat
    BY SessionAssumption DEF SessionInv, TypeInv, TypeOK, PeerStage
  <2>5. n \in 0..Len(c2p) /\ n \in Nat
    BY <2>4 DEF Least
  <2>6. Len(words) = Len(body) + n
    <3>1. Take(c2p, n) \in Seq(Word) /\ Len(Take(c2p, n)) = n
      BY <2>4, <2>5, TakeRest
    <3>2. Len(words) = Len(body) + Len(Take(c2p, n))
      BY <2>4, <3>1, Joined
    <3> QED
      BY <3>1, <3>2
  <2>7. Len(words) = job.val /\ Len(body) + n <= job.val
    BY <2>3, <2>4, <2>5, <2>6 DEF Whole
  <2>8. \A i \in 1..Len(words) : words[i].kind = "photo" /\ words[i].of = job.of
    <3>1. InUpload
      BY <1>3, <2>1, UploadKnown DEF SessionInv
    <3> QED
      BY <2>1, <2>7, <3>1, PhotoWords
  <2> HIDE DEF words
  <2> QED
    BY <2>3, <2>7, <2>8
<1> QED
  BY <1>2, <1>4, <1>5, StoredStays

(* A photo is stored with all the words of its own upload and no others, in  *)
(* however many pieces they come, for photos of any size and buffers of any  *)
(* capacity, unless the client gave up, left in the middle or fell out of    *)
(* step (peer.c: add_photo).                                                 *)
THEOREM PhotoCorrect == Spec => []PhotoWhole
<1>1. Init => PhotoWhole
  BY DEF Init, PhotoWhole, NoPhoto
<1>2. SessionInv /\ PhotoWhole /\ [Next]_vars => PhotoWhole'
  BY PhotoStep
<1> QED
  BY <1>1, <1>2, SessionHolds, PTL DEF Spec

(* What ends the peer's process.                                             *)
LEMMA WhyStays ==
  ASSUME [Next]_vars, why' # why, why' \in {"exit", "sigpipe"}
  PROVE  RecvBody \/ BodyFails \/ ((Answer \/ Payload) /\ pend = "pipe")
<1>1. CASE Command
  <2>1. PICK op \in Op : \E size \in IF op = "add" THEN {0, Size} ELSE {0} : Begin(op, size)
    BY <1>1 DEF Command
  <2>2. PICK size \in IF op = "add" THEN {0, Size} ELSE {0} : Begin(op, size)
    BY <2>1
  <2> QED
    BY <2>2 DEF Begin, peer
<1>2. CASE ClientStep
  BY <1>2 DEF ClientStep, SendHead, RecvNumber, RecvData, Upload, GiveUp, RecvEnd, RecvFails,
              Reconnect, peer
<1>3. CASE PeerStep \/ Kill
  BY <1>3 DEF PeerStep, RecvHead, RecvGone, Answer, Payload, Kill, End
<1>4. CASE Leave \/ ResetArrives \/ UNCHANGED vars
  BY <1>4 DEF Leave, ResetArrives, vars, peer
<1> QED
  BY <1>1, <1>2, <1>3, <1>4 DEF Next

LEMMA SurviveStep ==
  ASSUME SessionInv, PeerSurvives, [Next]_vars
  PROVE  PeerSurvives'
<1>1. SUFFICES ASSUME why' \in {"exit", "sigpipe"}, slips' = {}
               PROVE  job'.kind = "add" /\ job'.val = 0
  BY DEF PeerSurvives
<1>2. slips = {}
  BY <1>1, SlipsGrow
<1>3. CASE why' = why
  <2>1. ppc = "ended" /\ job.kind = "add" /\ job.val = 0
    BY <1>1, <1>2, <1>3 DEF SessionInv, EndInv, PeerSurvives
  <2>2. job' = job \/ why' = "none"
    <3>1. CASE Command
      <4>1. PICK op \in Op : \E size \in IF op = "add" THEN {0, Size} ELSE {0} : Begin(op, size)
        BY <3>1 DEF Command
      <4>2. PICK size \in IF op = "add" THEN {0, Size} ELSE {0} : Begin(op, size)
        BY <4>1
      <4> QED
        BY <4>2 DEF Begin, peer
    <3>2. CASE ClientStep
      BY <3>2 DEF ClientStep, SendHead, RecvNumber, RecvData, Upload, GiveUp, RecvEnd, RecvFails,
                  Reconnect, peer
    <3>3. CASE PeerStep \/ Kill
      BY <2>1, <3>3 DEF PeerStep, RecvHead, RecvGone, Answer, Payload, RecvBody, BodyFails, Kill
    <3>4. CASE Leave \/ ResetArrives \/ UNCHANGED vars
      BY <3>4 DEF Leave, ResetArrives, vars, peer
    <3> QED
      BY <3>1, <3>2, <3>3, <3>4 DEF Next
  <2> QED
    BY <1>1, <2>1, <2>2
<1>4. CASE why' # why /\ RecvBody
  <2>1. ppc = "body"
    BY <1>4, ReceivedBy
  <2>2. PICK n \in 1..Least(job.val, Len(c2p)) : Received(n)
    BY <1>4, ReceivedBy
  <2> DEFINE words == body \o Take(c2p, n)
  <2>3. Len(words) > job.val
    BY <1>4, <2>2 DEF Received
  <2>4. /\ c2p \in Seq(Word) /\ Len(c2p) \in Nat /\ body \in Seq(Word) /\ job.val \in Nat
    BY SessionAssumption DEF SessionInv, TypeInv, TypeOK, PeerStage
  <2>5. n \in 0..Len(c2p) /\ n <= job.val /\ n \in Nat
    BY <2>4 DEF Least
  <2>6. Len(words) = Len(body) + n
    <3>1. Take(c2p, n) \in Seq(Word) /\ Len(Take(c2p, n)) = n
      BY <2>4, <2>5, TakeRest
    <3>2. Len(words) = Len(body) + Len(Take(c2p, n))
      BY <2>4, <3>1, Joined
    <3> QED
      BY <3>1, <3>2
  <2>7. Len(body) = 0
    <3>1. InUpload
      BY <1>2, <2>1, UploadKnown DEF SessionInv
    <3>2. body = <<>>
      BY <1>2, <2>1, <3>1 DEF InUpload, Pieces
    <3> QED
      BY <3>2
  <2> QED
    BY <2>3, <2>4, <2>5, <2>6, <2>7
<1>5. CASE BodyFails
  <2>1. ppc = "body" /\ job' = job /\ (job.val = 0 \/ (c2p = <<>> /\ pend # "open"))
    BY <1>5 DEF BodyFails, End
  <2>2. job.kind = "add" /\ job.val \in Nat /\ Len(body) \in Nat
    BY <2>1, SessionAssumption DEF SessionInv, TypeInv, TypeOK, PeerStage
  <2>3. ASSUME c2p = <<>>, pend # "open" PROVE FALSE
    <3>1. cpc = "gone" /\ Len(c2p) = 0
      BY <2>3 DEF SessionInv, EndInv
    <3>2. Parting /\ Pieces
      BY <1>2, <3>1 DEF SessionInv, SyncInv
    <3>3. body = <<>>
      BY <1>2, <2>1, <3>2 DEF Pieces
    <3>4. Len(body) + Len(c2p) = job.val + 1
      BY <2>1, <3>2 DEF Parting
    <3> QED
      BY <2>2, <3>1, <3>3, <3>4
  <2> QED
    BY <2>1, <2>2, <2>3
<1>6. CASE (Answer \/ Payload) /\ pend = "pipe"
  <2>1. ppc \in {"answer", "payload"} /\ cpc = "gone"
    BY <1>6 DEF Answer, Payload, SessionInv, EndInv
  <2>2. Parting
    BY <1>2, <2>1 DEF SessionInv, SyncInv
  <2> QED
    BY <2>1, <2>2 DEF Parting
<1> QED
  BY <1>1, <1>3, <1>4, <1>5, <1>6, WhyStays

(* The peer's process ends by itself only if a client gave up or left in the *)
(* middle of a command, a recv() fell short, or a photo came in pieces or    *)
(* was empty, for any sizes, buffers and number of commands (peer.c:         *)
(* connection, add_photo).                                                   *)
THEOREM SurvivalCorrect == Spec => []PeerSurvives
<1>1. Init => PeerSurvives
  BY DEF Init, PeerSurvives
<1>2. SessionInv /\ PeerSurvives /\ [Next]_vars => PeerSurvives'
  BY SurviveStep
<1> QED
  BY <1>1, <1>2, SessionHolds, PTL DEF Spec
=============================================================================
