------------------------------- MODULE Frames --------------------------------
(***************************************************************************)
(* One connection of a topic from Send to OnMessage (tcpip, message): the  *)
(* bytes of each message between MessageInitialization and "<-END->", read *)
(* in chunks TCP may cut anywhere, put together again by StartNewConnection*)
(* and parsed by TransactionsMessage.GetFromBytes, which stops at the end  *)
(* of the first message and ignores what follows it.                       *)
(*                                                                         *)
(* A byte is <<m, k>>, the k-th of message m: 0 is the initialization, and *)
(* the marks are EndLength bytes long.                                     *)
(***************************************************************************)
EXTENDS Integers, SequencesExt

CONSTANTS
  Lengths,             \* body length of each message to be sent: a sequence
  OtherChain,          \* messages sent with another MessageInitialization
  Waits,               \* bytes that read as "WAIT" when they come alone
  EndLength,           \* length of the end mark
  BufSize,             \* most bytes of one Read
  MaxMessageSizeBytes

VARIABLES
  sent,                \* messages sent
  read,                \* bytes read or lost so far
  buffer,              \* rTopic[topic]
  delivered,           \* put in receiveChan: a sequence of byte sequences
  handled,             \* messages OnMessage parsed
  trust,               \* trust lost by bad messages
  dropped,             \* bytes were dropped or the connection ended
  open

vars == <<sent, read, buffer, delivered, handled, trust, dropped, open>>

\* Send: the initialization, the message, the end mark.
Send(m) == [k \in 1 .. 1 + Lengths[m] + EndLength |-> <<m, k - 1>>]
Wire == FoldLeft(LAMBDA bytes, m : bytes \o Send(m), <<>>, [m \in 1 .. sent |-> m])

IsEnd(b) == b[2] > Lengths[b[1]]
EndsWithMark(r) == \A i \in Len(r) - EndLength + 1 .. Len(r) : IsEnd(r[i])
HasInitialization(r) == r[1][2] = 0 /\ r[1][1] \notin OtherChain

\* GetFromBytes on what follows the initialization: the first message when its
\* bytes are all there, in place.
Parses(r) ==
  LET m == r[1][1] IN \A k \in 1 .. Lengths[m] : k + 1 <= Len(r) /\ r[k + 1] = <<m, k>>

Init ==
  /\ sent = 0 /\ read = 0 /\ buffer = <<>> /\ delivered = <<>> /\ handled = <<>>
  /\ trust = 0 /\ dropped = FALSE /\ open = TRUE

-----------------------------------------------------------------------------
Write ==
  /\ open /\ sent < Len(Lengths) /\ sent' = sent + 1
  /\ UNCHANGED <<read, buffer, delivered, handled, trust, dropped, open>>

\* A frame that is too long: the buffer is emptied in the middle of the stream.
TooLong ==
  /\ buffer' = <<>> /\ trust' = trust + 1 /\ dropped' = TRUE
  /\ UNCHANGED <<delivered, handled, open>>

\* Not at the end of a frame yet.
Keep(r) == buffer' = r /\ UNCHANGED <<delivered, handled, trust, dropped, open>>

Deliver_KeepBuffer(r) ==
  /\ buffer' = r
  /\ delivered' = Append(delivered, r)
  /\ handled' = IF Parses(r) THEN Append(handled, r[1][1]) ELSE handled
  /\ UNCHANGED <<trust, dropped, open>>

Deliver(r) ==
  /\ buffer' = <<>>
  /\ IF HasInitialization(r)
     THEN /\ delivered' = Append(delivered, r)
          /\ handled' = IF Parses(r) THEN Append(handled, r[1][1]) ELSE handled
          /\ trust' = IF Parses(r) THEN trust ELSE trust + 1
          /\ UNCHANGED dropped
     ELSE trust' = trust + 1 /\ dropped' = TRUE /\ UNCHANGED <<delivered, handled>>
  /\ UNCHANGED open

\* r[len(r)-7:] of fewer bytes than the mark has panics; so does EOF end it.
Close == open' = FALSE /\ dropped' = TRUE /\ UNCHANGED <<buffer, delivered, handled, trust>>

\* One round of the loop of StartNewConnection with a chunk of n bytes.
Receive(n) ==
  LET chunk == SubSeq(Wire, read + 1, read + n)
      r == buffer \o chunk
  IN /\ open /\ read + n <= Len(Wire)
     /\ read' = read + n
     /\ IF n = 1 /\ chunk[1] \in Waits
        THEN dropped' = TRUE /\ UNCHANGED <<buffer, delivered, handled, trust, open>>
        ELSE IF Len(r) < EndLength THEN Close
        ELSE IF Len(r) > MaxMessageSizeBytes THEN TooLong
        ELSE IF EndsWithMark(r) THEN Deliver(r)
        ELSE Keep(r)
     /\ UNCHANGED sent

\* The peer closes or the node quits.
Exit == open /\ Close /\ UNCHANGED <<sent, read>>

\* Reads kept failing: dialled again.  What was on its way is lost, and the
\* buffer is kept across the two connections.
Redial ==
  /\ open /\ read < Len(Wire)
  /\ read' = Len(Wire) /\ dropped' = TRUE
  /\ UNCHANGED <<sent, buffer, delivered, handled, trust, open>>

Next == Write \/ Exit \/ Redial \/ \E n \in 1 .. BufSize : Receive(n)

Spec == Init /\ [][Next]_vars

-----------------------------------------------------------------------------
(***************************************************************************)
(* StartNewConnection loses, repeats and reorders no byte, wherever TCP    *)
(* cuts the stream: until a frame is refused, a chunk is taken for "WAIT"  *)
(* or the connection ends, what was delivered and what is buffered are     *)
(* exactly the bytes read.  After that still no message is handled twice   *)
(* or out of order, and none that was not sent whole.                      *)
(***************************************************************************)
StreamPreserved ==
  /\ ~dropped => FlattenSeq(delivered) \o buffer = SubSeq(Wire, 1, read)
  /\ \A i \in 1 .. Len(handled) - 1 : handled[i] < handled[i + 1]
=============================================================================
