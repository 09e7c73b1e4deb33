-------------------------------- MODULE Wire --------------------------------
(***************************************************************************)
(* send_all and recv_all of msgs.c over one direction of a TCP connection: *)
(* a byte stream that takes and delivers in pieces.  Only positions in the *)
(* stream matter, not the bytes.  The sender sends messages of given       *)
(* lengths; the receiver receives them with one call each, and knows the   *)
(* lengths.  Some exchanges of the program are in turns: the sender waits  *)
(* for an answer before it sends on (waits).  Others are pipelined: the    *)
(* replication of a photo, which sends a message, a header, keywords and   *)
(* bytes in a row, and the command a client sends after an upload.         *)
(***************************************************************************)
EXTENDS Integers, Sequences

CONSTANTS
  Lengths,     \* the sequences of lengths the sender may have to send
  MaxMessages, \* the most messages in one of them
  Capacity     \* bytes that may be under way, the buffers of the connection

ASSUME WireAssumption ==
  /\ MaxMessages \in Nat /\ Capacity \in Nat \ {0}
  /\ \A l \in Lengths : l \in Seq(Nat) /\ Len(l) <= MaxMessages

VARIABLES
  lengths,    \* the lengths of this connection's messages
  waits,      \* the sender waits for an answer to each message
  starts,     \* the positions at which the calls of send_all began
  sent,       \* bytes put into the stream
  sender,     \* "open", or "closed": it has closed the connection
  in,         \* number of the message that recv_all works on
  taken,      \* bytes taken out of the stream
  total,      \* total_bytes of the current recv_all
  receiver,   \* "open", or "closed": it has given up
  calls,      \* history: the calls of recv_all that have returned
  short       \* history: some recv gave less than its message still lacked

senderVars == <<starts, sent, sender>>
receiverVars == <<in, taken, total, receiver, calls, short>>
vars == <<lengths, waits, senderVars, receiverVars>>

(* The message that send_all works on, and the position of its end.          *)
out == Len(starts)
End == starts[out] + lengths[out]

Init ==
  /\ lengths \in Lengths
  /\ waits \in BOOLEAN
  /\ starts = <<0>> /\ sent = 0 /\ sender = "open"
  /\ in = 1 /\ taken = 0 /\ total = 0 /\ receiver = "open"
  /\ calls = <<>> /\ short = FALSE
-----------------------------------------------------------------------------
(* send_all.                                                                 *)

(* The sender is inside send_all, and not waiting for an answer.             *)
Sending == /\ sender = "open" /\ receiver = "open" /\ out <= Len(lengths)
           /\ waits => in >= out

(* One turn of the loop: send() takes part of what is left of the message.   *)
Send(n) ==
  /\ Sending
  /\ n \in 1..(End - sent) /\ sent + n - taken <= Capacity
  /\ sent' = sent + n
  /\ starts' = IF sent + n = End THEN Append(starts, sent + n) ELSE starts
  /\ UNCHANGED <<lengths, waits, sender, receiverVars>>

(* Nothing to send: the loop is not entered and the result is a variable     *)
(* that was never set; the caller goes on, or takes it for an error.         *)
SendEmpty ==
  /\ Sending /\ lengths[out] = 0
  /\ \/ starts' = Append(starts, sent) /\ UNCHANGED sender
     \/ sender' = "closed" /\ UNCHANGED starts
  /\ UNCHANGED <<lengths, waits, sent, receiverVars>>

(* The sender ends, possibly in the middle of a message: it closes its       *)
(* socket, or it is killed.                                                  *)
Close ==
  /\ sender = "open"
  /\ sender' = "closed"
  /\ UNCHANGED <<lengths, waits, starts, sent, receiverVars>>
-----------------------------------------------------------------------------
(* recv_all.                                                                 *)

Receiving == receiver = "open" /\ in <= Len(lengths)

(* Faulty variant: room for one byte more than the buffer has.               *)
AskedMore == lengths[in] + 1

(* What recv() is asked for: max_length, in every turn of the loop, whatever *)
(* has been received already.                                                *)
Asked == lengths[in]

(* Faulty variant: the loop is left only when the buffer has overflowed.     *)
FullLate(t) == t > lengths[in]

(* The loop is left: total_bytes < max_length is false.                      *)
Full(t) == t >= lengths[in]

(* Faulty variant: what was received is returned without a look at it.       *)
ResultBlind(t) == t

(* The result of a call that no recv() has failed.                           *)
Result(t) == IF t > lengths[in] THEN -2 ELSE t

(* The call returns res, with the stream read up to position p.              *)
Return(res, p) ==
  /\ calls' = Append(calls, [from |-> taken - total, to |-> p, result |-> res])
  /\ in' = in + 1 /\ total' = 0

(* One turn of the loop.  A call that has overflowed its buffer returns -2;  *)
(* recv_and_unstream_photo takes that for success, add_photo exits.          *)
Recv(n) ==
  /\ Receiving /\ ~Full(total)
  /\ n \in 1..Asked /\ n <= sent - taken
  /\ taken' = taken + n
  /\ short' = (short \/ n < lengths[in] - total)
  /\ IF Full(total + n)
     THEN /\ Return(Result(total + n), taken')
          /\ \/ UNCHANGED receiver
             \/ Result(total + n) = -2 /\ receiver' = "closed"
     ELSE /\ total' = total + n
          /\ UNCHANGED <<in, calls, receiver>>
  /\ UNCHANGED <<lengths, waits, senderVars>>

(* A recv() gives 0, at the end of the connection, or -1, when it times out  *)
(* or fails; or the length is 0, the loop is not entered, and a variable     *)
(* that was never set is returned if it is not positive, and 0 if it is.     *)
(* What was received before is not told, and the caller gives up.            *)
RecvNothing(res) ==
  /\ Receiving
  /\ \/ ~Full(total) /\ sent = taken /\ (res = 0 => sender = "closed")
     \/ lengths[in] = 0
  /\ Return(res, taken)
  /\ receiver' = "closed"
  /\ UNCHANGED <<lengths, waits, taken, short, senderVars>>
-----------------------------------------------------------------------------
SendStep == SendEmpty \/ \E n \in 1..Capacity : Send(n)
RecvStep == (\E n \in 1..Capacity : Recv(n)) \/ (Receiving /\ lengths[in] = 0 /\ RecvNothing(0))

Next ==
  \/ SendStep \/ Close
  \/ \E n \in 1..Capacity : Recv(n)
  \/ \E res \in {-1, 0} : RecvNothing(res)

Spec == Init /\ [][Next]_vars

(* Both ends go on; a connection need not be closed, and a recv need not     *)
(* time out.                                                                 *)
Fairness == WF_vars(SendStep) /\ WF_vars(RecvStep)

FairSpec == Spec /\ Fairness
-----------------------------------------------------------------------------
(* Type invariant, with the positions in order: nothing is taken that was    *)
(* not sent, and a call that goes on still lacks something.                  *)
TypeOK ==
  /\ lengths \in Lengths /\ waits \in BOOLEAN /\ short \in BOOLEAN
  /\ starts \in Seq(Nat) /\ out \in 1..(Len(lengths) + 1)
  /\ in \in 1..(Len(lengths) + 1)
  /\ total \in Nat /\ taken \in Nat /\ sent \in Nat
  /\ total <= taken /\ taken <= sent /\ sent <= taken + Capacity
  /\ in <= Len(lengths) => total = 0 \/ total < lengths[in]
  /\ sender \in {"open", "closed"} /\ receiver \in {"open", "closed"}
  /\ Len(calls) = in - 1
  /\ calls \in Seq([from : Nat, to : Nat, result : {-1, -2} \cup Nat])

(* A call that reports success has received its message and nothing else,    *)
(* and no call overflows its buffer, if the sender waits for answers or if   *)
(* no recv() ever gave less than its message lacked: only a piece that comes *)
(* late lets the next turn, which asks for max_length again, read into what  *)
(* follows (msgs.c: recv_all, "Makes sure that all the buffer is received"). *)
Exact ==
  (waits \/ ~short) => \A m \in 1..Len(calls) :
    /\ calls[m].result # -2
    /\ calls[m].result > 0 =>
         /\ m + 1 \in 1..out
         /\ calls[m].from = starts[m] /\ calls[m].to = starts[m + 1]

(* What the result tells.  An overflow is always told, never another result; *)
(* a positive result is the length asked for; a message of length 0 is never *)
(* reported as received (msgs.c: recv_all, "overflow of buffer").            *)
ResultTells ==
  \A m \in 1..Len(calls) :
    /\ calls[m].result = -2 <=> calls[m].to - calls[m].from > lengths[m]
    /\ calls[m].result > 0 =>
         calls[m].result = lengths[m] /\ calls[m].to = calls[m].from + lengths[m]
    /\ lengths[m] = 0 => calls[m].result <= 0

(* In turns, or where every message comes in one piece, every call returns   *)
(* unless the sender ends: no receiver waits for bytes an earlier call took. *)
CallsReturn ==
  (waits \/ []~short) =>
    \A m \in 1..MaxMessages : (in = m /\ Receiving) ~> (in > m \/ sender = "closed")
=============================================================================
