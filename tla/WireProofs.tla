----------------------------- MODULE WireProofs -----------------------------
(***************************************************************************)
(* Proofs about Wire, for messages of any number and any lengths, and for  *)
(* any capacity of the connection.                                         *)
(***************************************************************************)
EXTENDS Wire, SequenceTheorems, TLAPS

(* The sender: where its messages begin, and how far it has come.            *)
StartsInv ==
  /\ \A i \in 1..(out - 1) : starts[i + 1] = starts[i] + lengths[i]
  /\ starts[out] <= sent
  /\ out <= Len(lengths) => sent < End \/ (lengths[out] = 0 /\ sent = starts[out])
  /\ out > Len(lengths) => sent = starts[out]

(* Sender and receiver: the current call began where its message begins, and *)
(* a sender that waits is at most at the end of that message.                *)
SyncInv ==
  receiver = "open" /\ (waits \/ ~short) =>
    /\ in <= out /\ taken - total = starts[in]
    /\ ~short => total = 0
    /\ waits => out <= in \/ (out = in + 1 /\ sent = starts[out])

WireInv == TypeOK /\ StartsInv /\ SyncInv /\ ResultTells /\ Exact
-----------------------------------------------------------------------------
(* The type of the lengths that a state may have.                            *)
LEMMA LengthsType ==
  ASSUME TypeOK
  PROVE  /\ lengths \in Seq(Nat) /\ Len(lengths) \in Nat
         /\ Capacity \in Nat /\ out \in Nat \ {0} /\ in \in Nat \ {0}
         /\ \A i \in 1..Len(lengths) : lengths[i] \in Nat
         /\ \A i \in 1..out : starts[i] \in Nat
<1>1. lengths \in Seq(Nat) /\ Capacity \in Nat
  BY WireAssumption DEF TypeOK
<1>2. Len(lengths) \in Nat /\ \A i \in 1..Len(lengths) : lengths[i] \in Nat
  BY <1>1, LenProperties, ElementOfSeq
<1>3. starts \in Seq(Nat)
  BY DEF TypeOK
<1>4. \A i \in 1..out : starts[i] \in Nat
  BY <1>3, ElementOfSeq DEF out
<1>5. out \in Nat \ {0} /\ in \in Nat \ {0}
  BY <1>2 DEF TypeOK
<1> QED
  BY <1>1, <1>2, <1>4, <1>5

(* The initial states satisfy the invariant.                                 *)
LEMMA WireInit == Init => WireInv
<1> SUFFICES ASSUME Init PROVE WireInv
  OBVIOUS
<1>1. lengths \in Seq(Nat) /\ Len(lengths) \in Nat
  BY WireAssumption, LenProperties DEF Init
<1>2. starts = <<0>> /\ out = 1 /\ starts[1] = 0 /\ calls = <<>> /\ Len(calls) = 0
  BY DEF Init, out
<1>3. TypeOK
  <2>1. starts \in Seq(Nat) /\ out \in 1..(Len(lengths) + 1) /\ in \in 1..(Len(lengths) + 1)
    BY <1>1, <1>2 DEF Init
  <2>2. calls \in Seq([from : Nat, to : Nat, result : {-1, -2} \cup Nat])
    BY <1>2
  <2>3. /\ lengths \in Lengths /\ waits \in BOOLEAN /\ short \in BOOLEAN
        /\ total = 0 /\ taken = 0 /\ sent = 0 /\ in = 1
        /\ sender = "open" /\ receiver = "open"
    BY DEF Init
  <2>4. Len(calls) = in - 1
    BY <1>2, <2>3
  <2> QED
    BY <2>1, <2>2, <2>3, <2>4, WireAssumption DEF TypeOK
<1>4. StartsInv
  BY <1>1, <1>2 DEF Init, StartsInv, End
<1>5. SyncInv
  BY <1>2 DEF Init, SyncInv
<1>6. ResultTells /\ Exact
  BY <1>2 DEF ResultTells, Exact
<1> QED
  BY <1>3, <1>4, <1>5, <1>6 DEF WireInv
-----------------------------------------------------------------------------
(* The sender notes where the next message begins, at p.                     *)
LEMMA StartAppended ==
  ASSUME TypeOK, NEW p \in Nat, starts' = Append(starts, p)
  PROVE  /\ out' = out + 1 /\ starts' \in Seq(Nat) /\ starts'[out'] = p
         /\ \A i \in 1..out : starts'[i] = starts[i]
<1>1. starts \in Seq(Nat)
  BY DEF TypeOK
<1> QED
  BY <1>1, AppendProperties DEF out

(* The next message begins where this one ends.                              *)
LEMMA NextMessage ==
  ASSUME TypeOK, StartsInv, out <= Len(lengths),
         out' = out + 1, starts'[out'] = End, \A i \in 1..out : starts'[i] = starts[i],
         sent' = End, lengths' = lengths
  PROVE  StartsInv'
<1>1. /\ Len(lengths) \in Nat /\ out \in Nat \ {0}
      /\ \A i \in 1..Len(lengths) : lengths[i] \in Nat
      /\ \A i \in 1..out : starts[i] \in Nat
  BY LengthsType
<1>2. End \in Nat /\ End = starts[out] + lengths[out]
  BY <1>1 DEF End
<1>3. \A i \in 1..(out' - 1) : starts'[i + 1] = starts'[i] + lengths'[i]
  <2>1. ASSUME NEW i \in 1..out
        PROVE  starts'[i + 1] = starts'[i] + lengths[i]
    <3>1. CASE i = out
      BY <3>1, <1>2
    <3>2. CASE i # out
      <4>1. i \in 1..(out - 1) /\ i + 1 \in 1..out
        BY <1>1, <3>2
      <4> QED
        BY <4>1 DEF StartsInv
    <3> QED
      BY <3>1, <3>2
  <2> QED
    BY <1>1, <2>1
<1>4. End' = starts'[out'] + lengths'[out']
  BY DEF End
<1>5. out' <= Len(lengths') => sent' < End' \/ (lengths'[out'] = 0 /\ sent' = starts'[out'])
  <2>1. SUFFICES ASSUME out + 1 <= Len(lengths)
                 PROVE  sent' < End' \/ lengths[out'] = 0
    OBVIOUS
  <2>2. lengths[out'] \in Nat
    BY <1>1, <2>1
  <2> QED
    BY <1>2, <1>4, <2>2
<1>6. starts'[out'] <= sent' /\ (out' > Len(lengths') => sent' = starts'[out'])
  BY <1>2
<1> QED
  BY <1>3, <1>5, <1>6 DEF StartsInv

(* What a step of the sender leaves alone, and a new beginning does not      *)
(* disturb: the calls that have returned.                                    *)
LEMMA CallsKept ==
  ASSUME TypeOK, ResultTells, Exact, UNCHANGED <<lengths, waits, receiverVars>>,
         out' \in Nat, out <= out', \A i \in 1..out : starts'[i] = starts[i]
  PROVE  ResultTells' /\ Exact'
<1>1. ResultTells'
  BY DEF ResultTells, receiverVars
<1>2. Exact'
  <2> SUFFICES ASSUME waits \/ ~short, NEW m \in 1..Len(calls)
               PROVE  /\ calls[m].result # -2
                      /\ calls[m].result > 0 =>
                           /\ m + 1 \in 1..out'
                           /\ calls[m].from = starts'[m] /\ calls[m].to = starts'[m + 1]
    BY DEF Exact, receiverVars
  <2>1. m \in Nat \ {0}
    BY DEF TypeOK
  <2>2. out \in Nat
    BY LengthsType
  <2> QED
    BY <2>1, <2>2 DEF Exact
<1> QED
  BY <1>1, <1>2

(* The sender's steps.                                                       *)
LEMMA SendKeeps ==
  ASSUME WireInv, NEW n \in 1..Capacity, Send(n)
  PROVE  WireInv'
<1>a. /\ Len(lengths) \in Nat /\ out \in Nat \ {0} /\ in \in Nat \ {0}
      /\ \A i \in 1..Len(lengths) : lengths[i] \in Nat
      /\ \A i \in 1..out : starts[i] \in Nat
      /\ Capacity \in Nat
  BY LengthsType DEF WireInv
<1> USE <1>a DEF WireInv
<1>0. /\ n \in Nat \ {0} /\ out <= Len(lengths) /\ n \in 1..(End - sent)
      /\ sent' = sent + n /\ sent + n - taken <= Capacity
      /\ receiver = "open" /\ sender = "open" /\ (waits => in >= out)
      /\ UNCHANGED <<lengths, waits, sender, receiverVars>>
  BY DEF Send, Sending
<1>t. /\ sent \in Nat /\ taken \in Nat /\ End \in Nat /\ in \in Nat
      /\ sent' \in Nat /\ sent' <= taken + Capacity /\ taken <= sent'
  <2>1. sent \in Nat /\ taken \in Nat /\ in \in Nat /\ taken <= sent
    BY DEF TypeOK
  <2>2. End \in Nat
    BY <1>0 DEF End
  <2> QED
    BY <1>0, <2>1, <2>2
<1>1. CASE sent + n = End
  <2>1. starts' = Append(starts, sent + n)
    BY <1>1 DEF Send
  <2>2. /\ out' = out + 1 /\ starts' \in Seq(Nat) /\ starts'[out'] = sent + n
        /\ \A i \in 1..out : starts'[i] = starts[i]
        /\ StartsInv'
    BY <2>1, <1>0, <1>t, <1>1, StartAppended, NextMessage
  <2>3. TypeOK'
    BY <2>2, <1>0 DEF TypeOK, receiverVars
  <2>4. SyncInv'
    BY <2>2, <1>0 DEF SyncInv, receiverVars
  <2> QED
    BY <2>2, <2>3, <2>4, <1>0, CallsKept
<1>2. CASE sent + n # End
  <2>1. starts' = starts /\ out' = out /\ End' = End
    BY <1>2, <1>0 DEF Send, out, End
  <2>2. TypeOK'
    BY <2>1, <1>0 DEF TypeOK, receiverVars
  <2>3. StartsInv'
    BY <2>1, <1>0, <1>t, <1>2 DEF StartsInv
  <2>4. SyncInv'
    BY <2>1, <1>0 DEF SyncInv, receiverVars
  <2> QED
    BY <2>1, <2>2, <2>3, <2>4, <1>0, CallsKept
<1> QED
  BY <1>1, <1>2

LEMMA SendEmptyKeeps ==
  ASSUME WireInv, SendEmpty
  PROVE  WireInv'
<1>a. /\ Len(lengths) \in Nat /\ out \in Nat \ {0} /\ in \in Nat \ {0}
      /\ \A i \in 1..Len(lengths) : lengths[i] \in Nat
      /\ \A i \in 1..out : starts[i] \in Nat
      /\ Capacity \in Nat
  BY LengthsType DEF WireInv
<1> USE <1>a DEF WireInv
<1>0. /\ out <= Len(lengths) /\ lengths[out] = 0 /\ sent' = sent
      /\ receiver = "open" /\ sender = "open" /\ (waits => in >= out)
      /\ UNCHANGED <<lengths, waits, receiverVars>>
      /\ sent \in Nat /\ in \in Nat /\ End = starts[out]
  BY DEF SendEmpty, Sending, TypeOK, End
<1>1. sent = End
  BY <1>0 DEF StartsInv
<1>2. CASE starts' = Append(starts, sent) /\ UNCHANGED sender
  <2>1. /\ out' = out + 1 /\ starts' \in Seq(Nat) /\ starts'[out'] = sent
        /\ \A i \in 1..out : starts'[i] = starts[i]
        /\ StartsInv'
    BY <1>0, <1>1, <1>2, StartAppended, NextMessage
  <2>2. TypeOK'
    BY <2>1, <1>0, <1>2 DEF TypeOK, receiverVars
  <2>3. SyncInv'
    BY <2>1, <1>0 DEF SyncInv, receiverVars
  <2> QED
    BY <2>1, <2>2, <2>3, <1>0, CallsKept
<1>3. CASE sender' = "closed" /\ UNCHANGED starts
  <2>1. out' = out /\ End' = End
    BY <1>3, <1>0 DEF out, End
  <2>2. TypeOK'
    BY <2>1, <1>0, <1>3 DEF TypeOK, receiverVars
  <2>3. StartsInv' /\ SyncInv'
    BY <2>1, <1>0, <1>3 DEF StartsInv, SyncInv, receiverVars
  <2> QED
    BY <2>1, <2>2, <2>3, <1>0, <1>3, CallsKept
<1> QED
  BY <1>2, <1>3 DEF SendEmpty

LEMMA CloseKeeps ==
  ASSUME WireInv, Close
  PROVE  WireInv'
<1>a. /\ Len(lengths) \in Nat /\ out \in Nat \ {0} /\ in \in Nat \ {0}
      /\ \A i \in 1..Len(lengths) : lengths[i] \in Nat
      /\ \A i \in 1..out : starts[i] \in Nat
      /\ Capacity \in Nat
  BY LengthsType DEF WireInv
<1> USE <1>a DEF WireInv
<1>1. /\ out' = out /\ End' = End /\ sender' = "closed"
      /\ UNCHANGED <<lengths, waits, starts, sent, receiverVars>>
  BY DEF Close, out, End
<1>2. TypeOK'
  BY <1>1 DEF TypeOK, receiverVars
<1>3. StartsInv' /\ SyncInv'
  BY <1>1 DEF StartsInv, SyncInv, receiverVars
<1> QED
  BY <1>1, <1>2, <1>3, CallsKept
-----------------------------------------------------------------------------
(* A call that returns adds one to the calls and keeps the others.           *)
LEMMA ReturnAppends ==
  ASSUME TypeOK, Receiving, NEW res \in {-1, -2} \cup Nat, NEW p \in Nat, Return(res, p)
  PROVE  /\ calls' \in Seq([from : Nat, to : Nat, result : {-1, -2} \cup Nat])
         /\ Len(calls') = in /\ in' = in + 1 /\ total' = 0
         /\ \A m \in 1..(in - 1) : calls'[m] = calls[m]
         /\ calls'[in].from = taken - total /\ calls'[in].to = p /\ calls'[in].result = res
<1> DEFINE call == [from |-> taken - total, to |-> p, result |-> res]
           Call == [from : Nat, to : Nat, result : {-1, -2} \cup Nat]
<1>1. taken - total \in Nat
  BY DEF TypeOK
<1>2. calls' = Append(calls, call) /\ in' = in + 1 /\ total' = 0
  BY DEF Return
<1>3. calls \in Seq(Call) /\ Len(calls) = in - 1
  BY DEF TypeOK
<1>4. in \in Nat \ {0}
  BY LengthsType
<1>5. call \in Call /\ call.from = taken - total /\ call.to = p /\ call.result = res
  BY <1>1
<1> HIDE DEF call, Call
<1>6. /\ calls' \in Seq(Call) /\ Len(calls') = Len(calls) + 1
      /\ \A m \in 1..Len(calls) : calls'[m] = calls[m]
      /\ calls'[Len(calls) + 1] = call
  BY <1>2, <1>3, <1>5, AppendProperties
<1>7. Len(calls) + 1 = in
  BY <1>3, <1>4
<1> QED
  BY <1>2, <1>3, <1>5, <1>6, <1>7 DEF Call

(* The calls after a return: the two properties speak of one call more.      *)
LEMMA ReturnKeeps ==
  ASSUME TypeOK, ResultTells, Exact, Receiving,
         NEW res \in {-1, -2} \cup Nat, NEW p \in Nat, Return(res, p),
         lengths' = lengths, waits' = waits, starts' = starts, short => short',
         res = -2 <=> p - (taken - total) > lengths[in],
         res > 0 => res = lengths[in] /\ p = taken - total + lengths[in],
         lengths[in] = 0 => res <= 0,
         waits \/ ~short' =>
           /\ res # -2
           /\ res > 0 => /\ in + 1 \in 1..out
                         /\ taken - total = starts[in] /\ p = starts[in + 1]
  PROVE  ResultTells' /\ Exact'
<1>1. /\ Len(calls') = in /\ in \in Nat \ {0} /\ out' = out
      /\ \A m \in 1..(in - 1) : calls'[m] = calls[m]
      /\ calls'[in].from = taken - total /\ calls'[in].to = p /\ calls'[in].result = res
  BY ReturnAppends, LengthsType DEF out
<1>2. Len(calls) = in - 1 /\ short \in BOOLEAN
  BY DEF TypeOK
<1>3. ResultTells'
  <2>1. ASSUME NEW m \in 1..in
        PROVE  /\ calls'[m].result = -2 <=> calls'[m].to - calls'[m].from > lengths[m]
               /\ calls'[m].result > 0 =>
                    calls'[m].result = lengths[m] /\ calls'[m].to = calls'[m].from + lengths[m]
               /\ lengths[m] = 0 => calls'[m].result <= 0
    <3>1. CASE m = in
      BY <3>1, <1>1
    <3>2. CASE m # in
      <4>1. m \in 1..(in - 1)
        BY <1>1, <3>2
      <4> QED
        BY <4>1, <1>1, <1>2 DEF ResultTells
    <3> QED
      BY <3>1, <3>2
  <2> QED
    BY <1>1, <2>1 DEF ResultTells
<1>4. Exact'
  <2>1. ASSUME waits \/ ~short', NEW m \in 1..in
        PROVE  /\ calls'[m].result # -2
               /\ calls'[m].result > 0 =>
                    /\ m + 1 \in 1..out
                    /\ calls'[m].from = starts[m] /\ calls'[m].to = starts[m + 1]
    <3>1. CASE m = in
      BY <3>1, <2>1, <1>1
    <3>2. CASE m # in
      <4>1. m \in 1..(in - 1) /\ (waits \/ ~short)
        BY <1>1, <2>1, <3>2
      <4> QED
        BY <4>1, <1>1, <1>2 DEF Exact
    <3> QED
      BY <3>1, <3>2
  <2> QED
    BY <1>1, <2>1 DEF Exact
<1> QED
  BY <1>3, <1>4

(* The piece a recv() takes does not reach beyond the message, if the sender *)
(* waits or the piece is all that the message lacks; and when the message is *)
(* complete, the sender has begun the next one just there.                   *)
LEMMA PieceFits ==
  ASSUME TypeOK, StartsInv, SyncInv, Receiving,
         NEW n \in Nat \ {0}, n <= lengths[in], n <= sent - taken, total < lengths[in],
         waits \/ (~short /\ n >= lengths[in] - total)
  PROVE  /\ total + n <= lengths[in]
         /\ ~short /\ n >= lengths[in] - total => total + n = lengths[in]
         /\ total + n = lengths[in] =>
              /\ in + 1 <= out /\ taken + n = starts[in + 1]
              /\ waits => out = in + 1 /\ sent = starts[out]
<1>1. /\ in \in Nat \ {0} /\ out \in Nat \ {0} /\ in <= Len(lengths) /\ Len(lengths) \in Nat
      /\ lengths[in] \in Nat /\ sent \in Nat /\ taken \in Nat /\ total \in Nat
      /\ \A i \in 1..out : starts[i] \in Nat
  BY LengthsType DEF TypeOK, Receiving
<1>2. /\ in <= out /\ taken - total = starts[in] /\ (~short => total = 0)
      /\ waits => out <= in \/ (out = in + 1 /\ sent = starts[out])
  BY DEF SyncInv, Receiving
<1>3. starts[in] \in Nat /\ taken = starts[in] + total
  BY <1>1, <1>2
<1>4. CASE out = in
  <2>1. sent < starts[in] + lengths[in]
    BY <1>1, <1>4 DEF StartsInv, End
  <2>2. total + n < lengths[in]
    BY <1>1, <1>3, <2>1
  <2> QED
    BY <1>1, <1>2, <2>2
<1>5. CASE out # in
  <2>1. in + 1 <= out /\ in \in 1..(out - 1)
    BY <1>1, <1>2, <1>5
  <2>2. starts[in + 1] = starts[in] + lengths[in]
    BY <2>1 DEF StartsInv
  <2>3. CASE waits
    <3>1. out = in + 1 /\ sent = starts[in] + lengths[in]
      BY <1>1, <1>2, <2>1, <2>2, <2>3
    <3>2. total + n <= lengths[in]
      BY <1>1, <1>3, <3>1
    <3> QED
      BY <1>1, <1>2, <1>3, <2>1, <2>2, <3>1, <3>2
  <2>4. CASE ~waits
    <3>1. total = 0 /\ n = lengths[in] /\ ~short
      BY <1>1, <1>2, <2>4
    <3> QED
      BY <1>1, <1>3, <2>1, <2>2, <2>4, <3>1
  <2> QED
    BY <2>3, <2>4
<1> QED
  BY <1>4, <1>5

(* The receiver leaves the sender alone.                                     *)
LEMMA StartsKept ==
  ASSUME StartsInv, UNCHANGED <<lengths, waits, senderVars>>
  PROVE  StartsInv' /\ out' = out
<1>1. lengths' = lengths /\ starts' = starts /\ sent' = sent
  BY DEF senderVars
<1>2. out' = out /\ End' = End
  BY <1>1 DEF out, End
<1> QED
  BY <1>1, <1>2 DEF StartsInv

LEMMA RecvKeeps ==
  ASSUME WireInv, NEW n \in 1..Capacity, Recv(n)
  PROVE  WireInv'
<1> USE DEF WireInv
<1>1. /\ Receiving /\ in <= Len(lengths) /\ receiver = "open"
      /\ n \in 1..lengths[in] /\ n <= sent - taken /\ taken' = taken + n
      /\ short' = (short \/ n < lengths[in] - total) /\ total < lengths[in]
      /\ UNCHANGED <<lengths, waits, senderVars>>
      /\ lengths' = lengths /\ waits' = waits /\ starts' = starts
      /\ sent' = sent /\ sender' = sender
  <2>1. total \in Nat /\ lengths[in] \in Nat
    BY LengthsType DEF TypeOK, Recv, Receiving
  <2> QED
    BY <2>1 DEF Recv, Receiving, Full, Asked, senderVars
<1>2. /\ in \in Nat \ {0} /\ out \in Nat \ {0} /\ Len(lengths) \in Nat
      /\ lengths[in] \in Nat /\ n \in Nat \ {0} /\ n <= lengths[in]
      /\ sent \in Nat /\ taken \in Nat /\ total \in Nat /\ total <= taken
      /\ Capacity \in Nat /\ sent <= taken + Capacity /\ taken' <= sent
      /\ short \in BOOLEAN /\ short' \in BOOLEAN
  BY <1>1, LengthsType DEF TypeOK
<1>3. StartsInv' /\ out' = out
  BY <1>1, StartsKept
<1>4. ASSUME waits \/ ~short'
      PROVE  /\ waits \/ ~short
             /\ total + n <= lengths[in]
             /\ ~short' => total + n = lengths[in]
             /\ total + n = lengths[in] =>
                  /\ in + 1 <= out /\ taken + n = starts[in + 1]
                  /\ waits => out = in + 1 /\ sent = starts[out]
  <2>1. short' = (short \/ n < lengths[in] - total)
    BY <1>1
  <2>2. ~short' => ~short /\ ~(n < lengths[in] - total)
    BY <2>1, Zenon
  <2>3. ~short' => ~short /\ n >= lengths[in] - total
    BY <1>2, <2>2
  <2>4. waits \/ (~short /\ n >= lengths[in] - total)
    BY <1>4, <2>3
  <2>5. /\ total + n <= lengths[in]
        /\ ~short /\ n >= lengths[in] - total => total + n = lengths[in]
        /\ total + n = lengths[in] =>
              /\ in + 1 <= out /\ taken + n = starts[in + 1]
              /\ waits => out = in + 1 /\ sent = starts[out]
    BY <1>1, <1>2, <2>4, PieceFits
  <2> QED
    BY <2>3, <2>4, <2>5
<1>5. CASE Full(total + n)
  <2>1. /\ Return(Result(total + n), taken')
        /\ \/ receiver' = receiver
           \/ receiver' = "closed"
    BY <1>5 DEF Recv
  <2>2. /\ total + n >= lengths[in]
        /\ Result(total + n) \in {-1, -2} \cup Nat
        /\ Result(total + n) = -2 <=> total + n > lengths[in]
        /\ Result(total + n) # -2 => Result(total + n) = lengths[in]
        /\ Result(total + n) > 0 =>
             Result(total + n) = lengths[in] /\ total + n = lengths[in]
    BY <1>2, <1>5 DEF Full, Result
  <2>3. taken' - (taken - total) = total + n /\ taken' \in Nat
    BY <1>1, <1>2
  <2>4. /\ calls' \in Seq([from : Nat, to : Nat, result : {-1, -2} \cup Nat])
        /\ Len(calls') = in /\ in' = in + 1 /\ total' = 0
    BY <1>1, <2>1, <2>2, <2>3, ReturnAppends
  <2>5. TypeOK'
    <3>1. /\ out' \in 1..(Len(lengths') + 1) /\ starts' \in Seq(Nat)
          /\ lengths' \in Lengths /\ waits' \in BOOLEAN
          /\ sender' \in {"open", "closed"} /\ receiver' \in {"open", "closed"}
      BY <1>1, <1>3, <2>1 DEF TypeOK
    <3>2. /\ in' \in 1..(Len(lengths') + 1) /\ Len(calls') = in' - 1
          /\ total' \in Nat /\ taken' \in Nat /\ sent' \in Nat
          /\ total' <= taken' /\ taken' <= sent' /\ sent' <= taken' + Capacity
      BY <1>1, <1>2, <2>3, <2>4
    <3> QED
      BY <1>2, <2>4, <3>1, <3>2 DEF TypeOK
  <2>6. SyncInv'
    <3>1. SUFFICES ASSUME waits \/ ~short'
                   PROVE  /\ in + 1 <= out /\ taken + n = starts[in + 1]
                          /\ waits => out <= in + 1 \/ (out = in + 2 /\ sent = starts[out])
      BY <1>1, <1>2, <1>3, <2>4 DEF SyncInv
    <3>2. total + n = lengths[in]
      BY <1>2, <1>4, <2>2, <3>1
    <3> QED
      BY <1>2, <1>4, <3>1, <3>2
  <2>7. ResultTells' /\ Exact'
    <3>1. ASSUME waits \/ ~short', Result(total + n) > 0
          PROVE  /\ in + 1 \in 1..out
                 /\ taken - total = starts[in] /\ taken' = starts[in + 1]
      <4>1. in + 1 <= out /\ taken + n = starts[in + 1] /\ (waits \/ ~short)
        BY <1>4, <2>2, <3>1
      <4>2. taken - total = starts[in]
        BY <1>1, <4>1 DEF SyncInv
      <4> QED
        BY <1>1, <1>2, <4>1, <4>2
    <3>2. waits \/ ~short' => Result(total + n) # -2
      BY <1>2, <1>4, <2>2
    <3>3. /\ Result(total + n) = -2 <=> taken' - (taken - total) > lengths[in]
          /\ Result(total + n) > 0 =>
               Result(total + n) = lengths[in] /\ taken' = taken - total + lengths[in]
          /\ lengths[in] = 0 => Result(total + n) <= 0
          /\ short => short'
      BY <1>1, <1>2, <2>2, <2>3
    <3> QED
      BY <1>1, <2>1, <2>2, <2>3, <3>1, <3>2, <3>3, ReturnKeeps
  <2> QED
    BY <1>3, <2>5, <2>6, <2>7
<1>6. CASE ~Full(total + n)
  <2>1. /\ total' = total + n /\ in' = in /\ calls' = calls /\ receiver' = receiver
        /\ total + n < lengths[in]
    BY <1>2, <1>6 DEF Recv, Full
  <2>2. TypeOK'
    <3>1. /\ lengths' \in Lengths /\ waits' \in BOOLEAN /\ starts' \in Seq(Nat)
          /\ out' \in 1..(Len(lengths') + 1) /\ in' \in 1..(Len(lengths') + 1)
          /\ sender' \in {"open", "closed"} /\ receiver' \in {"open", "closed"}
          /\ Len(calls') = in' - 1
          /\ calls' \in Seq([from : Nat, to : Nat, result : {-1, -2} \cup Nat])
      BY <1>1, <1>3, <2>1 DEF TypeOK
    <3>2. /\ total' \in Nat /\ taken' \in Nat /\ sent' \in Nat
          /\ total' <= taken' /\ taken' <= sent' /\ sent' <= taken' + Capacity
          /\ total' < lengths'[in']
      BY <1>1, <1>2, <2>1
    <3> QED
      BY <1>2, <3>1, <3>2 DEF TypeOK
  <2>3. SyncInv'
    <3>1. SUFFICES ASSUME waits \/ ~short'
                   PROVE  /\ in <= out /\ taken + n - (total + n) = starts[in]
                          /\ ~short' => total + n = 0
                          /\ waits => out <= in \/ (out = in + 1 /\ sent = starts[out])
      BY <1>1, <1>2, <1>3, <2>1 DEF SyncInv
    <3>2. short' /\ (waits \/ ~short)
      BY <1>2, <1>4, <2>1, <3>1
    <3>3. /\ in <= out /\ taken - total = starts[in]
          /\ waits => out <= in \/ (out = in + 1 /\ sent = starts[out])
      BY <1>1, <3>2 DEF SyncInv
    <3> QED
      BY <1>2, <3>2, <3>3
  <2>4. ResultTells' /\ Exact'
    <3>1. ResultTells'
      BY <1>1, <2>1 DEF ResultTells
    <3>2. waits \/ ~short' => waits \/ ~short
      BY <1>4
    <3> QED
      BY <1>1, <1>3, <2>1, <3>1, <3>2 DEF Exact
  <2> QED
    BY <1>3, <2>2, <2>3, <2>4
<1> QED
  BY <1>5, <1>6

LEMMA RecvNothingKeeps ==
  ASSUME WireInv, NEW res \in {-1, 0}, RecvNothing(res)
  PROVE  WireInv'
<1> USE DEF WireInv
<1>1. /\ Receiving /\ in <= Len(lengths)
      /\ ~Full(total) \/ lengths[in] = 0
      /\ Return(res, taken) /\ receiver' = "closed"
      /\ UNCHANGED <<lengths, waits, senderVars>>
      /\ lengths' = lengths /\ waits' = waits /\ taken' = taken /\ short' = short
      /\ starts' = starts /\ sent' = sent /\ sender' = sender
  BY DEF RecvNothing, Receiving, senderVars
<1>2. /\ in \in Nat \ {0} /\ Len(lengths) \in Nat /\ lengths[in] \in Nat
      /\ taken \in Nat /\ total \in Nat /\ total <= taken
      /\ total = 0 \/ total < lengths[in]
  BY <1>1, LengthsType DEF TypeOK
<1>3. StartsInv' /\ out' = out
  BY <1>1, StartsKept
<1>4. /\ calls' \in Seq([from : Nat, to : Nat, result : {-1, -2} \cup Nat])
      /\ Len(calls') = in /\ in' = in + 1 /\ total' = 0
  BY <1>1, <1>2, ReturnAppends
<1>5. TypeOK'
  <2>1. /\ lengths' \in Lengths /\ waits' \in BOOLEAN /\ short' \in BOOLEAN
        /\ starts' \in Seq(Nat) /\ out' \in 1..(Len(lengths') + 1)
        /\ sender' \in {"open", "closed"} /\ receiver' \in {"open", "closed"}
        /\ taken' \in Nat /\ sent' \in Nat /\ taken' <= sent' /\ sent' <= taken' + Capacity
    BY <1>1, <1>3 DEF TypeOK
  <2>2. in' \in 1..(Len(lengths') + 1) /\ Len(calls') = in' - 1 /\ total' <= taken'
    BY <1>1, <1>2, <1>4
  <2> QED
    BY <1>4, <2>1, <2>2 DEF TypeOK
<1>6. SyncInv'
  BY <1>1 DEF SyncInv
<1>7. ResultTells' /\ Exact'
  <2>1. taken - (taken - total) = total
    BY <1>2
  <2>2. /\ res = -2 <=> taken - (taken - total) > lengths[in]
        /\ ~(res > 0) /\ res <= 0 /\ res # -2
    BY <1>2, <2>1
  <2> QED
    BY <1>1, <1>2, <2>2, ReturnKeeps
<1> QED
  BY <1>3, <1>5, <1>6, <1>7
-----------------------------------------------------------------------------
(* Every step keeps the invariant.                                           *)
LEMMA WireStep == WireInv /\ [Next]_vars => WireInv'
<1> SUFFICES ASSUME WireInv, [Next]_vars PROVE WireInv'
  OBVIOUS
<1>1. CASE SendEmpty
  BY <1>1, SendEmptyKeeps
<1>2. ASSUME NEW n \in 1..Capacity, Send(n) PROVE WireInv'
  BY <1>2, SendKeeps
<1>3. CASE Close
  BY <1>3, CloseKeeps
<1>4. ASSUME NEW n \in 1..Capacity, Recv(n) PROVE WireInv'
  BY <1>4, RecvKeeps
<1>5. ASSUME NEW res \in {-1, 0}, RecvNothing(res) PROVE WireInv'
  BY <1>5, RecvNothingKeeps
<1>6. CASE UNCHANGED vars
  <2>1. /\ UNCHANGED <<lengths, waits, receiverVars>> /\ UNCHANGED <<lengths, waits, senderVars>>
        /\ lengths' = lengths /\ waits' = waits
        /\ starts' = starts /\ sent' = sent /\ sender' = sender
        /\ in' = in /\ taken' = taken /\ total' = total /\ receiver' = receiver
        /\ calls' = calls /\ short' = short
    BY <1>6 DEF vars, senderVars, receiverVars
  <2>2. TypeOK /\ StartsInv /\ SyncInv /\ ResultTells /\ Exact
    BY DEF WireInv
  <2>3. StartsInv' /\ out' = out
    BY <2>1, <2>2, StartsKept
  <2>4. TypeOK'
    BY <2>1, <2>2, <2>3 DEF TypeOK
  <2>5. SyncInv'
    BY <2>1, <2>2, <2>3 DEF SyncInv
  <2>6. ResultTells' /\ Exact'
    BY <2>1, <2>2, <2>3 DEF ResultTells, Exact
  <2> QED
    BY <2>3, <2>4, <2>5, <2>6 DEF WireInv
<1> QED
  BY <1>1, <1>2, <1>3, <1>4, <1>5, <1>6 DEF Next, SendStep

(* Every variable stays within its type, and nothing is taken that was not   *)
(* sent (msgs.c: send_all, recv_all).                                        *)
THEOREM TypeCorrect == Spec => []TypeOK
<1>1. WireInv => TypeOK
  BY DEF WireInv
<1> QED
  BY <1>1, WireInit, WireStep, PTL DEF Spec

(* The result of recv_all tells an overflow, and a positive one is the       *)
(* length asked for, however the stream is cut into pieces (msgs.c:          *)
(* recv_all, "overflow of buffer").                                          *)
THEOREM ResultCorrect == Spec => []ResultTells
<1>1. WireInv => ResultTells
  BY DEF WireInv
<1> QED
  BY <1>1, WireInit, WireStep, PTL DEF Spec

(* Messages sent in turns, or that come in one piece, are received exactly,  *)
(* each by its own call (msgs.c: recv_all, "Makes sure that all the buffer   *)
(* is received").                                                            *)
THEOREM ExactCorrect == Spec => []Exact
<1>1. WireInv => Exact
  BY DEF WireInv
<1> QED
  BY <1>1, WireInit, WireStep, PTL DEF Spec
=============================================================================
