-------------------------- MODULE XgressFlowProofs --------------------------
(***************************************************************************)
(* One direction of a circuit is an ordered stream of what was forwarded,  *)
(* for any number of payloads, losses and repetitions.  The steps of the   *)
(* receiving side are those of LinkReceiveBuffer, so its invariant holds   *)
(* here too (Recv!IInv).  To it FlowInv adds where a sequence number can   *)
(* be: it is handed out once, waits, and then either fails or is buffered  *)
(* and forwarded; only what was forwarded arrives, and only what arrived   *)
(* is acknowledged.                                                        *)
(***************************************************************************)
EXTENDS XgressFlow, TLAPS

Recv == INSTANCE LinkReceiveBufferProofs

\* A sequence number is handed out once, and is waiting, failed, or sent.
NumbersApart ==
    /\ rxSequence \in Nat
    /\ waiting \cup buffer \cup forwarded \cup failed \subseteq 0..(rxSequence - 1)
    /\ waiting \cap (buffer \cup forwarded \cup failed) = {}
    /\ failed \cap (buffer \cup forwarded) = {}

\* What is underway, taken and acknowledged.
Underway ==
    /\ payloads \subseteq forwarded /\ accepted \subseteq forwarded
    /\ forwarded \subseteq buffer \cup acked
    /\ acked \subseteq accepted /\ acking \subseteq accepted
    /\ \A a \in acks : a.seqs \subseteq accepted

FlowInv == NumbersApart /\ Underway

LEMMA ReceiverBegins == R!Init => Recv!IInv
BY Recv!InitIInv, ReceiverAssumption
   DEF R!Init, Recv!Init, R!Kinds, Recv!Kinds, Recv!Seqs

\* A step of the receiver's operations is one of Recv, which names them anew.
LEMMA ReceiverSteps ==
    /\ \A s \in Seqs : R!ReceiveUnordered(s) => Recv!Next
    /\ R!NextPayloadPoll \/ R!NextPayloadLocked \/ R!NextPayloadSelect \/ R!SendPayload
       \/ R!ClearPayloadFromSendBuffer => Recv!Next
<1>1. ASSUME NEW s \in Seqs, R!ReceiveUnordered(s) PROVE Recv!Next
  <2>1. Recv!ReceiveUnordered(s)
    BY <1>1 DEF R!ReceiveUnordered, R!ReceiveDuplicate, R!ReceiveDropped, R!ReceiveBuffered,
                R!Duplicate, R!Overflows, R!Put, R!QueueNext, R!CanQueue, R!Leftmost,
                R!bufVars, R!txVars,
                Recv!ReceiveUnordered, Recv!ReceiveDuplicate, Recv!ReceiveDropped,
                Recv!ReceiveBuffered, Recv!Duplicate, Recv!Overflows, Recv!Put,
                Recv!QueueNext, Recv!CanQueue, Recv!Leftmost, Recv!bufVars, Recv!txVars
  <2>2. QED
    BY <2>1 DEF Recv!Next, Seqs, Recv!Seqs
<1>2. R!NextPayloadPoll => Recv!NextPayloadPoll
  BY DEF R!NextPayloadPoll, R!Take, R!TxGoto, R!bufVars,
         Recv!NextPayloadPoll, Recv!Take, Recv!TxGoto, Recv!bufVars
<1>3. R!NextPayloadLocked => Recv!NextPayloadLocked
  BY DEF R!NextPayloadLocked, R!QueueNext, R!CanQueue, R!Leftmost,
         Recv!NextPayloadLocked, Recv!QueueNext, Recv!CanQueue, Recv!Leftmost
<1>4. R!NextPayloadSelect => Recv!NextPayloadSelect
  BY DEF R!NextPayloadSelect, R!Take, R!TxGoto, R!bufVars,
         Recv!NextPayloadSelect, Recv!Take, Recv!TxGoto, Recv!bufVars
<1>5. R!SendPayload => Recv!SendPayload
  BY DEF R!SendPayload, R!TxExit, R!bufVars, Recv!SendPayload, Recv!TxExit, Recv!bufVars
<1>6. R!ClearPayloadFromSendBuffer => Recv!ClearPayloadFromSendBuffer
  BY DEF R!ClearPayloadFromSendBuffer, Recv!ClearPayloadFromSendBuffer
<1>7. QED
  BY <1>1, <1>2, <1>3, <1>4, <1>5, <1>6 DEF Recv!Next, Recv!TxStep

LEMMA ReceiverKeeps == Recv!IInv /\ [Next]_vars => Recv!IInv'
<1>. SUFFICES ASSUME Recv!IInv, [Next]_vars PROVE Recv!IInv'
  OBVIOUS
<1>1. Recv!Next \/ UNCHANGED recvVars
  BY ReceiverSteps
     DEF Next, vars, Send, ForwardPayload, RetransmitPayload, Emit, PayloadReceived,
         Acknowledge, AckReceived, Tx, TxClear
<1>2. UNCHANGED recvVars => UNCHANGED Recv!vars
  BY DEF recvVars, Recv!vars, Recv!bufVars, Recv!txVars
<1>3. QED
  BY <1>1, <1>2, Recv!NextIInv, ReceiverAssumption
     DEF R!Kinds, Recv!Kinds, Recv!Seqs

-----------------------------------------------------------------------------
(* The flow's own invariant.                                                 *)

LEMMA FlowBegins == Init => FlowInv
BY DEF Init, S!Init, R!Init, FlowInv, NumbersApart, Underway

\* The sender's own steps move a number from one of its sets to the next.
LEMMA SendKeeps == FlowInv /\ Send => FlowInv'
<1>. SUFFICES ASSUME FlowInv, Send PROVE FlowInv'
  OBVIOUS
<1>. USE DEF FlowInv, NumbersApart, Underway
<1>1. UNCHANGED <<accepted, payloads, acks, acking>>
  BY DEF Send, recvVars, netVars
<1>2. CASE S!Write
  BY <1>1, <1>2 DEF S!Write
<1>3. CASE S!SetGate
  BY <1>1, <1>3 DEF S!SetGate
<1>4. ASSUME NEW s \in Seqs, S!Fail(s) PROVE FlowInv'
  BY <1>1, <1>4 DEF S!Fail
<1>5. ASSUME NEW s \in Seqs, S!Admit(s) \/ S!AdmitLate(s) PROVE FlowInv'
  BY <1>1, <1>5 DEF S!Admit, S!AdmitLate, S!Take
<1>6. QED
  BY <1>2, <1>3, <1>4, <1>5 DEF Send

\* A payload enters the fabric from the send buffer.
LEMMA EmitKeeps ==
    ASSUME FlowInv, NEW s \in Seqs, ForwardPayload(s) \/ RetransmitPayload(s)
    PROVE  FlowInv'
<1>1. /\ UNCHANGED <<rxSequence, waiting, buffer, acked, failed, accepted, acks, acking>>
      /\ s \in buffer /\ forwarded' = forwarded \cup {s}
  BY DEF ForwardPayload, RetransmitPayload, Emit, S!Forward, S!Resend, S!vars, recvVars
<1>2. payloads' \subseteq payloads \cup {s}
  BY DEF ForwardPayload, RetransmitPayload, Emit, Carry
<1>3. QED
  BY <1>1, <1>2 DEF FlowInv, NumbersApart, Underway

\* The receive buffer only adds to what it has taken, and what an ingester worker
\* will acknowledge is among it.
LEMMA PayloadReceivedKeeps ==
    ASSUME FlowInv, NEW s \in Seqs, PayloadReceived(s)
    PROVE  FlowInv'
<1>1. /\ UNCHANGED <<rxSequence, waiting, buffer, forwarded, acked, failed, acks>>
      /\ s \in payloads /\ payloads' \subseteq payloads
  BY DEF PayloadReceived, sendVars, Leave
<1>2. \/ accepted' = accepted /\ acking' = acking
      \/ accepted' = accepted \cup {s} /\ acking' \subseteq acking \cup {s}
  BY DEF PayloadReceived, R!ReceiveUnordered, R!ReceiveDuplicate, R!ReceiveDropped,
         R!ReceiveBuffered
<1>3. QED
  BY <1>1, <1>2 DEF FlowInv, NumbersApart, Underway

\* An acknowledgement names a payload that was taken, or none.
LEMMA AcknowledgeKeeps ==
    ASSUME FlowInv, (\E s \in Seqs : Acknowledge(s)) \/ TxClear \/ Tx
    PROVE  FlowInv'
<1>1. UNCHANGED <<rxSequence, waiting, buffer, forwarded, acked, failed, payloads, accepted>>
  BY DEF Acknowledge, TxClear, Tx, sendVars, recvVars, netVars, R!ClearPayloadFromSendBuffer,
         R!NextPayloadPoll, R!NextPayloadLocked, R!NextPayloadSelect, R!SendPayload,
         R!Take, R!TxGoto, R!TxExit
<1>2. /\ acking' \subseteq acking
      /\ \A a \in acks' : a \in acks \/ a.seqs \subseteq accepted
  BY DEF FlowInv, Underway, Acknowledge, TxClear, Tx, ForwardAcknowledgement, Carry, netVars
<1>3. QED
  BY <1>1, <1>2 DEF FlowInv, NumbersApart, Underway

\* The sender forgets a payload when its acknowledgement arrives.
LEMMA AckReceivedKeeps ==
    ASSUME FlowInv, NEW a \in acks, AckReceived(a)
    PROVE  FlowInv'
<1>1. /\ UNCHANGED <<rxSequence, waiting, forwarded, failed, accepted, payloads, acking>>
      /\ buffer' = buffer \ a.seqs /\ acked' = acked \cup (a.seqs \cap buffer)
      /\ acks' \subseteq acks
  BY DEF AckReceived, S!Ack, recvVars, Leave
<1>2. a.seqs \subseteq accepted
  BY DEF FlowInv, Underway
<1>3. QED
  BY <1>1, <1>2 DEF FlowInv, NumbersApart, Underway

LEMMA FlowKeeps == FlowInv /\ [Next]_vars => FlowInv'
<1>. SUFFICES ASSUME FlowInv, [Next]_vars PROVE FlowInv'
  OBVIOUS
<1>1. CASE UNCHANGED vars
  BY <1>1 DEF vars, sendVars, recvVars, netVars, FlowInv, NumbersApart, Underway
<1>2. CASE Next
  BY <1>2, SendKeeps, EmitKeeps, PayloadReceivedKeeps, AcknowledgeKeeps, AckReceivedKeeps
     DEF Next
<1>3. QED
  BY <1>1, <1>2

LEMMA FlowInvariance == Spec => [](FlowInv /\ Recv!IInv)
<1>1. Init => FlowInv /\ Recv!IInv
  BY FlowBegins, ReceiverBegins DEF Init
<1>2. (FlowInv /\ Recv!IInv) /\ [Next]_vars => (FlowInv /\ Recv!IInv)'
  BY FlowKeeps, ReceiverKeeps
<1>3. QED
  BY <1>1, <1>2, PTL DEF Spec

-----------------------------------------------------------------------------
(* What follows.                                                             *)

\* What was handed to the data plane is in the send buffer or held by the
\* receiver, whatever the fabric loses, repeats or reorders, and the sender
\* forgets only what the receiver holds (receiveAcknowledgement,
\* PayloadReceived).
THEOREM LosesNothing == Spec => []NothingLost
<1>1. FlowInv => NothingLost
  BY DEF FlowInv, Underway, NothingLost
<1>2. QED
  BY <1>1, FlowInvariance, PTL

\* The payloads consumed are below the receive buffer's sequence, and those up to
\* it were taken.
LEMMA ConsumedWereTaken ==
    ASSUME Recv!IInv
    PROVE  /\ Len(consumed) \in Nat /\ sequence \in Int /\ Len(consumed) <= sequence + 1
           /\ 0..sequence \subseteq accepted
BY ReceiverAssumption
   DEF Recv!IInv, Recv!TypeOK, Recv!InOrder, Recv!Pending, Recv!AcceptedIsRetained, Recv!Seqs

\* A write that failed after it took its sequence number ends the stream there:
\* the client at the far end sees nothing that was written later
\* (BufferPayloadWithDeadline, queueNext).
THEOREM HolesEndStreams == Spec => []FailedWriteEndsStream
<1>1. ASSUME FlowInv, Recv!IInv PROVE FailedWriteEndsStream
  <2>. SUFFICES ASSUME NEW s \in failed PROVE Len(consumed) <= s
    BY DEF FailedWriteEndsStream
  <2>1. s \in Nat /\ s \notin accepted
    BY <1>1 DEF FlowInv, NumbersApart, Underway
  <2>2. QED
    BY <2>1, <1>1, ConsumedWereTaken
<1>2. QED
  BY <1>1, FlowInvariance, PTL

\* The stream of what was forwarded, open until tx exits.
Stream == INSTANCE OrderedStream WITH available <- forwarded, open <- txPc # "exited"

\* One direction of a circuit implements the ordered stream of what the sender
\* forwarded (ForwardPayload to tx), over a fabric that loses, repeats and
\* reorders: XgressClose builds on this.
THEOREM FlowIsOrderedStream == Spec => Stream!Spec
<1>1. Init => Stream!Init
  BY DEF Init, S!Init, R!Init, Stream!Init
<1>2. ASSUME FlowInv, Recv!IInv, [Next]_vars
      PROVE  [Stream!Next]_<<forwarded, consumed, txPc # "exited">>
  <2>. USE DEF Stream!Next, Stream!Offer, Stream!Consume, Stream!Stop
  <2>1. CASE UNCHANGED vars
    BY <2>1 DEF vars, sendVars, recvVars
  <2>2. CASE Send
    BY <2>2 DEF Send, recvVars, S!Write, S!SetGate, S!Fail, S!Admit, S!AdmitLate, S!Take
  <2>3. ASSUME NEW s \in Seqs, ForwardPayload(s) \/ RetransmitPayload(s)
        PROVE  [Stream!Next]_<<forwarded, consumed, txPc # "exited">>
    BY <2>3 DEF ForwardPayload, RetransmitPayload, Emit, recvVars, S!Forward, S!Resend, S!vars
  <2>4. ASSUME NEW s \in Seqs, PayloadReceived(s) \/ Acknowledge(s)
        PROVE  UNCHANGED <<forwarded, consumed, txPc>>
    BY <2>4 DEF PayloadReceived, Acknowledge, R!ReceiveUnordered, R!txVars, sendVars, recvVars
  <2>5. ASSUME NEW a \in acks, AckReceived(a)
        PROVE  UNCHANGED <<forwarded, consumed, txPc>>
    BY <2>5 DEF AckReceived, S!Ack, recvVars
  <2>6. CASE Tx \/ TxClear
    <3>1. UNCHANGED forwarded
      BY <2>6 DEF Tx, TxClear, sendVars
    <3>2. CASE R!NextPayloadPoll \/ R!NextPayloadLocked \/ R!NextPayloadSelect
               \/ R!ClearPayloadFromSendBuffer
      <4>1. UNCHANGED consumed /\ txPc # "exited" /\ txPc' # "exited"
        BY <3>2 DEF R!NextPayloadPoll, R!NextPayloadLocked, R!NextPayloadSelect, R!Take,
                    R!TxGoto, R!ClearPayloadFromSendBuffer
      <4>2. QED
        BY <3>1, <4>1
    <3>3. CASE R!SendPayload
      <4>1. txPc = "send" /\ Recv!Pending = 1
        BY <3>3, <1>2 DEF R!SendPayload, Recv!IInv, Recv!TypeOK, Recv!Pending
      <4>2. /\ current[1] = Len(consumed) /\ Len(consumed) <= sequence
        BY <4>1, <1>2, ReceiverAssumption, ConsumedWereTaken
           DEF Recv!IInv, Recv!TypeOK, Recv!InOrder, Recv!Seqs
      <4>3. Len(consumed) \in forwarded
        BY <4>2, <1>2, ConsumedWereTaken DEF FlowInv, Underway
      <4>4. QED
        BY <3>1, <3>3, <4>1, <4>2, <4>3 DEF R!SendPayload, R!TxExit
    <3>4. QED
      BY <2>6, <3>2, <3>3 DEF Tx, TxClear
  <2>7. QED
    BY <1>2, <2>1, <2>2, <2>3, <2>4, <2>5, <2>6 DEF Next
<1>3. QED
  BY <1>1, <1>2, FlowInvariance, PTL DEF Spec, Stream!Spec
=============================================================================
