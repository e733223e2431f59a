----------------------------- MODULE XgressFlow -----------------------------
(* One direction of an open circuit: what the send buffer of one xgress      *)
(* promises (SendBuffer, which LinkSendBuffer implements), a fabric that     *)
(* loses, duplicates and reorders, and the receive buffer of the other       *)
(* xgress, with the acknowledgements that flow back                          *)
(* (Xgress.PayloadReceived and SendEmptyAck in xgress/xgress.go).            *)
EXTENDS Integers, Sequences, FiniteSetsExt, Functions

CONSTANTS
    MaxSeq, DataLen, Kind, MaxWaiting, MayFail, TxPortalMaxSize,
    TxQueueSize, RxBufferSize, Word,
    EmptyAckFloor,     \* an empty ack is only sent above this size (10000)
    FabricSize,        \* bound: messages in transit each way; then sends block
    MaxFaults          \* bound: messages the fabric loses or duplicates

ASSUME FlowAssumption ==
    EmptyAckFloor \in Nat /\ FabricSize \in Nat \ {0} /\ MaxFaults \in Nat

VARIABLES
    rxSequence, waiting, buffer, forwarded, acked, failed, linkRecvBufferSize,
    closing, gateOpen,
    tree, sequence, maxSequence, size, txQueue, closeNotify, txPc, current,
    consumed, accepted,
    payloads,            \* payloads in the fabric
    acks,                \* acknowledgements in the fabric
    acking,              \* payloads an ingester worker is about to acknowledge
    faults,              \* messages lost or duplicated so far
    lastBufferSizeSent   \* size reported by the last ack forwarded

S == INSTANCE SendBuffer
R == INSTANCE LinkReceiveBuffer

\* The assumptions of LinkReceiveBuffer.
ASSUME ReceiverAssumption ==
    /\ MaxSeq \in Nat /\ RxBufferSize \in Nat
    /\ TxQueueSize \in Nat \ {0} /\ Word \in Nat \ {0}
    /\ DataLen \in [0..MaxSeq -> Nat] /\ Kind \in [0..MaxSeq -> R!Kinds]

sendVars == <<rxSequence, waiting, buffer, forwarded, acked, failed,
              linkRecvBufferSize, closing, gateOpen>>
recvVars == <<tree, sequence, maxSequence, size, txQueue, closeNotify, txPc,
              current, consumed, accepted>>
netVars == <<payloads, acks, faults>>
vars == <<sendVars, recvVars, netVars, acking, lastBufferSizeSent>>

Seqs == 0..MaxSeq

Init ==
    /\ S!Init /\ R!Init
    /\ payloads = {} /\ acks = {} /\ acking = {} /\ faults = 0 /\ lastBufferSizeSent = 0

-----------------------------------------------------------------------------
(* The fabric delivers in any order, may lose a message it is given and may  *)
(* keep one it delivers, to deliver it again.                                *)

Fault == 0..1

Count(n) == faults + n <= MaxFaults /\ faults' = faults + n

Carry(transit, m, lost) == IF lost = 1 THEN transit ELSE transit \cup {m}

HasRoom(transit) == Cardinality(transit) <= FabricSize

Leave(transit, m, kept) == IF kept = 1 THEN transit ELSE transit \ {m}

(* The sending xgress.                                                       *)

Send ==
    /\ S!Write \/ S!SetGate \/ \E s \in Seqs : S!Fail(s) \/ S!Admit(s) \/ S!AdmitLate(s)
    /\ UNCHANGED <<recvVars, netVars, acking, lastBufferSizeSent>>

\* ForwardPayload and RetransmitPayload of the data plane.
Emit(s) ==
    /\ \E lost \in Fault : payloads' = Carry(payloads, s, lost) /\ Count(lost)
    /\ HasRoom(payloads')
    /\ UNCHANGED <<recvVars, acks, acking, lastBufferSizeSent>>

ForwardPayload(s) == S!Forward(s) /\ Emit(s)
RetransmitPayload(s) == S!Resend(s) /\ Emit(s)

(* The receiving xgress. An ingester worker runs PayloadReceived: it offers  *)
(* the payload to the receive buffer, and acknowledges it, once the lock is  *)
(* released, if the buffer took it, reporting the size the buffer has then.  *)

\* Mutant: the payload is acknowledged whether ReceiveUnordered took it or not.
AcknowledgesDropped(s) ==
    /\ s \in payloads
    /\ R!ReceiveUnordered(s)
    /\ \E kept \in Fault : payloads' = Leave(payloads, s, kept) /\ Count(kept)
    /\ acking' = acking \cup {s}
    /\ UNCHANGED <<sendVars, acks, lastBufferSizeSent>>


PayloadReceived(s) ==
    /\ s \in payloads
    /\ R!ReceiveUnordered(s)
    /\ \E kept \in Fault : payloads' = Leave(payloads, s, kept) /\ Count(kept)
    /\ acking' = IF ~R!Duplicate(s) /\ R!Overflows(s) THEN acking ELSE acking \cup {s}
    /\ UNCHANGED <<sendVars, acks, lastBufferSizeSent>>

\* An ack that reports the receive buffer to hold n bytes.
ForwardAcknowledgement(seqs, n, lost) ==
    /\ acks' = Carry(acks, [seqs |-> seqs, recv |-> n], lost)
    /\ HasRoom(acks')
    /\ lastBufferSizeSent' = n

Acknowledge(s) ==
    /\ s \in acking
    /\ acking' = acking \ {s}
    /\ \E lost \in Fault : ForwardAcknowledgement({s}, size, lost) /\ Count(lost)
    /\ UNCHANGED <<sendVars, recvVars, payloads>>

Tx ==
    /\ R!NextPayloadPoll \/ R!NextPayloadLocked \/ R!NextPayloadSelect \/ R!SendPayload
    /\ UNCHANGED <<sendVars, netVars, acking, lastBufferSizeSent>>

\* clearPayloadFromSendBuffer reports a buffer that has halved: SendEmptyAck.
NeedsEmptyAck == lastBufferSizeSent > EmptyAckFloor /\ lastBufferSizeSent \div 2 > size'

TxClear ==
    /\ R!ClearPayloadFromSendBuffer
    /\ \/ NeedsEmptyAck /\ \E lost \in Fault : ForwardAcknowledgement({}, size', lost) /\ Count(lost)
       \/ ~NeedsEmptyAck /\ UNCHANGED <<acks, lastBufferSizeSent, faults>>
    /\ UNCHANGED <<sendVars, payloads, acking>>

AckReceived(a) ==
    /\ a \in acks
    /\ \E kept \in Fault : acks' = Leave(acks, a, kept) /\ Count(kept)
    /\ S!Ack(a.seqs, a.recv)
    /\ UNCHANGED <<recvVars, payloads, acking, lastBufferSizeSent>>

Next ==
    \/ Send
    \/ \E s \in Seqs : ForwardPayload(s) \/ RetransmitPayload(s) \/ PayloadReceived(s)
                       \/ Acknowledge(s)
    \/ \E a \in acks : AckReceived(a)
    \/ Tx
    \/ TxClear

Spec == Init /\ [][Next]_vars

(* Goroutines run, the fabric delivers what it did not lose, an              *)
(* unacknowledged payload grows old enough to be retransmitted, and run lets *)
(* a payload in at least when nothing is in flight: its windows may be       *)
(* smaller than TxPortalMaxSize.                                             *)
Fairness ==
    /\ WF_vars((S!InFlight = 0 /\ \E s \in Seqs : S!Admit(s))
               /\ UNCHANGED <<recvVars, netVars, acking, lastBufferSizeSent>>)
    /\ \A s \in Seqs :
        /\ WF_vars(ForwardPayload(s))
        /\ WF_vars(RetransmitPayload(s))
        /\ WF_vars(PayloadReceived(s)) /\ WF_vars(Acknowledge(s))
    /\ WF_vars(\E a \in acks : AckReceived(a))
    /\ WF_vars(Tx) /\ WF_vars(TxClear)

FairSpec == Spec /\ Fairness

-----------------------------------------------------------------------------
(* Properties.                                                               *)

\* No payload is lost end to end: whatever was handed to the data plane is
\* still in the send buffer, to be retransmitted, or is held by the receiver;
\* and the sender only forgets what the receiver acknowledged holding.
NothingLost == forwarded \subseteq buffer \cup accepted /\ acked \subseteq accepted

\* A write that fails after nextReceiveSequence (deadline) leaves a hole in the
\* sequence numbers. The client at the far end never sees data from beyond the
\* hole: its stream stops there instead of silently missing a write.
FailedWriteEndsStream == \A s \in failed : Len(consumed) <= s

\* Every payload handed to the data plane reaches the client at the far end,
\* unless a write before it fails.
EventuallyConsumed ==
    \A s \in Seqs :
        (s \in forwarded) ~> (Len(consumed) > s \/ \E f \in failed : f < s)


=============================================================================
