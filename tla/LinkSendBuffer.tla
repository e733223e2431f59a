--------------------------- MODULE LinkSendBuffer ---------------------------
(* The send half of an xgress: LinkSendBuffer (xgress/link_send_buffer.go),  *)
(* its run goroutine, and the goroutines that write through                  *)
(* Xgress.forwardPayload (xgress/xgress.go). The retransmitter is the set of *)
(* payloads handed to it; module Retransmitter has its detail. Acks come     *)
(* from a peer that only acks what was forwarded. Clock readings (ages,      *)
(* thresholds, the close delays) are nondeterministic.                       *)
EXTENDS Integers, Sequences, FiniteSetsExt, Functions

CONSTANTS
    MaxSeq,                  \* bound: highest sequence number used (< 2^31)
    DataLen,                 \* DataLen[s]: bytes of payload s
    Writers,                 \* goroutines that write: the client's, tx, close
    Deadlines,               \* writes may have a deadline
    AckQueueSize,            \* capacity of newlyReceivedAcks
    RecvSizes,               \* bound: receive buffer sizes an ack may report
    TxPortalStartSize, TxPortalMinSize, TxPortalMaxSize,
    TxPortalIncreaseThresh, TxPortalIncreaseScale,
    TxPortalRetxThresh,
    RetxNum, RetxDen,        \* TxPortalRetxScale = RetxNum / RetxDen <= 1
    Word                     \* bound: sizes are uint32, modulo Word

Seqs == 0..MaxSeq

Pos == Nat \ {0}

ASSUME SeqAssumption == MaxSeq \in Nat /\ DataLen \in [Seqs -> Nat]
ASSUME QueueAssumption == AckQueueSize \in Pos /\ RecvSizes \subseteq Nat /\ Deadlines \in BOOLEAN
ASSUME PortalAssumption ==
    /\ TxPortalStartSize \in Nat /\ TxPortalMinSize \in Nat /\ TxPortalMaxSize \in Nat
    /\ TxPortalMinSize <= TxPortalStartSize /\ TxPortalStartSize <= TxPortalMaxSize
    /\ TxPortalMaxSize < Word /\ Word \in Pos
    /\ TxPortalIncreaseThresh \in Pos /\ TxPortalIncreaseScale \in Nat
    /\ TxPortalRetxThresh \in Pos
    /\ RetxNum \in Nat /\ RetxDen \in Pos /\ RetxNum <= RetxDen

VARIABLES
    rxSequence,          \* next sequence number to allocate
    writer,              \* writer[w]: where writer w is and the payload it has
    buffer,              \* unacknowledged payloads, by sequence number
    sent,                \* payloads whose age is set (markSent was called)
    retxQueued,          \* retxQueued[s]: +1 queued, +2 acked
    retransmitter,       \* payloads handed to the retransmitter's queue
    newlyReceivedAcks,   \* channel of acks
    windowsSize, linkSendBufferSize, linkRecvBufferSize,
    accumulator, successfulAcks, retransmits,
    runPc,               \* where run is in its loop; "open" and "shut" are the
                         \* main select, with and without newlyBuffered
    rtxList,             \* what is left of the list retransmit queues
    closed, closeWhenEmpty,
    forwarded,           \* history: payloads handed to the data plane
    acked,               \* history: payloads removed by an ack
    failed               \* history: numbers taken by writes that failed

winVars   == <<windowsSize, linkSendBufferSize, linkRecvBufferSize,
               accumulator, successfulAcks, retransmits>>
txpVars   == <<sent, retxQueued, retransmitter>>
runVars   == <<runPc, rtxList>>
closeVars == <<closed, closeWhenEmpty>>
histVars  == <<forwarded, acked, failed>>
vars      == <<rxSequence, writer, buffer, txpVars, newlyReceivedAcks, winVars,
               runVars, closeVars, histVars>>

Acks == [seqs : {{}} \cup {{s} : s \in Seqs}, recv : RecvSizes]

Idle == [pc |-> "idle", seq |-> 0]

Init ==
    /\ rxSequence = 0
    /\ writer = [w \in Writers |-> Idle]
    /\ buffer = {} /\ sent = {} /\ retransmitter = {}
    /\ retxQueued = [s \in Seqs |-> 0]
    /\ newlyReceivedAcks = <<>>
    /\ windowsSize = TxPortalStartSize
    /\ linkSendBufferSize = 0 /\ linkRecvBufferSize = 0
    /\ accumulator = 0 /\ successfulAcks = 0 /\ retransmits = 0
    /\ runPc = "acks" /\ rtxList = {}
    /\ closed = FALSE /\ closeWhenEmpty = FALSE
    /\ forwarded = {} /\ acked = {} /\ failed = {}

-----------------------------------------------------------------------------
(* Writers: allocate a sequence number, hand the payload to run through the  *)
(* unbuffered newlyBuffered channel, forward it, mark it sent.               *)

Move(w, pc) == writer' = [writer EXCEPT ![w].pc = pc]

\* Write, sendEOF or sendWriteFailed: nextReceiveSequence.
Write(w) ==
    /\ writer[w].pc = "idle"
    /\ rxSequence <= MaxSeq
    /\ writer' = [writer EXCEPT ![w] = [pc |-> "buffer", seq |-> rxSequence]]
    /\ rxSequence' = rxSequence + 1
    /\ UNCHANGED <<buffer, txpVars, newlyReceivedAcks, winVars, runVars,
                   closeVars, histVars>>

\* BufferPayload's other cases: closeNotify, or the deadline of the context.
\* The sequence number stays allocated.
BufferPayloadFails(w) ==
    /\ writer[w].pc = "buffer"
    /\ closed \/ Deadlines
    /\ writer' = [writer EXCEPT ![w] = Idle]
    /\ failed' = failed \cup {writer[w].seq}
    /\ UNCHANGED <<rxSequence, buffer, txpVars, newlyReceivedAcks, winVars, runVars, closeVars, forwarded, acked>>

\* dataPlane.ForwardPayload; the data plane may lose the payload.
Forward(w) ==
    /\ writer[w].pc = "forward"
    /\ Move(w, "mark")
    /\ forwarded' = forwarded \cup {writer[w].seq}
    /\ UNCHANGED <<rxSequence, buffer, txpVars, newlyReceivedAcks, winVars, runVars, closeVars, acked, failed>>

MarkSent(w) ==
    /\ writer[w].pc = "mark"
    /\ writer' = [writer EXCEPT ![w] = Idle]
    /\ sent' = sent \cup {writer[w].seq}
    /\ UNCHANGED <<rxSequence, buffer, retxQueued, retransmitter, newlyReceivedAcks,
                   winVars, runVars, closeVars, histVars>>

\* Xgress.SendAcknowledgement -> ReceiveAcknowledgement. It blocks while the
\* channel is full and gives up once the buffer is closed.
ReceiveAcknowledgement(ack) ==
    /\ Len(newlyReceivedAcks) < AckQueueSize
    /\ newlyReceivedAcks' = Append(newlyReceivedAcks, ack)
    /\ UNCHANGED <<rxSequence, writer, buffer, txpVars, winVars, runVars,
                   closeVars, histVars>>

-----------------------------------------------------------------------------
(* The run loop.                                                             *)

isBlocked == \/ TxPortalMaxSize < linkRecvBufferSize
             \/ windowsSize < linkSendBufferSize

isAcked(s) == retxQueued[s] > 1

isRetransmittable(s) == retxQueued[s] = 0

AtMost(max, n) == IF n > max THEN max ELSE n

\* An ack for a payload in the buffer: markAcked, and if it was queued for
\* retransmission it is handed to the retransmitter again to be removed; the
\* buffer shrinks and after TxPortalIncreaseThresh acks the window grows.
AckPayload(s, recv) ==
    /\ retxQueued' = [retxQueued EXCEPT ![s] = @ + 2]
    /\ retransmitter' = IF retxQueued[s] > 0 THEN retransmitter \cup {s} ELSE retransmitter
    /\ buffer' = buffer \ {s}
    /\ acked' = acked \cup {s}
    /\ linkSendBufferSize' = (linkSendBufferSize - DataLen[s]) % Word
    /\ accumulator' = (accumulator + DataLen[s]) % Word
    /\ IF successfulAcks + 1 >= TxPortalIncreaseThresh
       THEN /\ successfulAcks' = 0
            /\ windowsSize' =
                 AtMost(TxPortalMaxSize,
                        (windowsSize + accumulator' * TxPortalIncreaseScale) % Word)
       ELSE /\ successfulAcks' = successfulAcks + 1
            /\ UNCHANGED windowsSize
    /\ linkRecvBufferSize' = recv

receiveAcknowledgement ==
    LET ack == Head(newlyReceivedAcks) IN
    /\ newlyReceivedAcks # <<>>
    /\ newlyReceivedAcks' = Tail(newlyReceivedAcks)
    /\ \/ \E s \in ack.seqs \cap buffer : AckPayload(s, ack.recv)
       \/ /\ ack.seqs \cap buffer = {}
          /\ linkRecvBufferSize' = ack.recv
          /\ UNCHANGED <<buffer, retxQueued, retransmitter, acked, windowsSize,
                         linkSendBufferSize, accumulator, successfulAcks>>

\* run receives from newlyBuffered: the hand-over from a waiting writer.
TakeBuffered ==
    \E w \in Writers :
        /\ writer[w].pc = "buffer"
        /\ Move(w, "forward")
        /\ buffer' = buffer \cup {writer[w].seq}
        /\ linkSendBufferSize' = (linkSendBufferSize + DataLen[writer[w].seq]) % Word
        /\ UNCHANGED <<rxSequence, txpVars, newlyReceivedAcks, windowsSize,
                       linkRecvBufferSize, accumulator, successfulAcks, retransmits,
                       rtxList, closeVars, histVars>>

NoWriterWaiting == \A w \in Writers : writer[w].pc # "buffer"

scale(win) ==
    LET scaled == (win * RetxNum) \div RetxDen
    IN  IF scaled < TxPortalMinSize THEN TxPortalMinSize ELSE scaled

\* retransmit lists the payloads that are old enough, a set the clock decides,
\* and queues them in order; every TxPortalRetxThresh of them the window shrinks.
Aged == {s \in buffer : s \in sent /\ isRetransmittable(s)}

retransmit(s) ==
    /\ rtxList' = rtxList \ {s}
    /\ retxQueued' = [retxQueued EXCEPT ![s] = @ + 1]
    /\ retransmitter' = retransmitter \cup {s}
    /\ IF retransmits + 1 >= TxPortalRetxThresh
       THEN accumulator' = 0 /\ retransmits' = 0 /\ windowsSize' = scale(windowsSize)
       ELSE retransmits' = retransmits + 1 /\ UNCHANGED <<accumulator, windowsSize>>

\* checkForClose: once closeWhenEmpty is set, the clock decides when the buffer
\* closes (empty for 5s, or MaxCloseWait).
checkForClose == closed' \in {closed, closed \/ closeWhenEmpty}

RunGoto(pc) ==
    /\ runPc' = pc
    /\ UNCHANGED <<rxSequence, writer, buffer, txpVars, newlyReceivedAcks, winVars,
                   rtxList, closeVars, histVars>>

RunExit == closed /\ RunGoto("exited")

RunReceiveAck(pc) ==
    /\ receiveAcknowledgement
    /\ runPc' = pc
    /\ UNCHANGED <<rxSequence, writer, sent, retransmits, rtxList, closeVars,
                   forwarded, failed>>

RunAcks ==
    /\ runPc = "acks"
    /\ \/ RunReceiveAck("gate")
       \/ RunExit
       \/ newlyReceivedAcks = <<>> /\ ~closed /\ RunGoto("gate")

\* The gate: closed while a window is full, unless closing or empty.
Gated == isBlocked /\ ~closeWhenEmpty /\ linkSendBufferSize # 0

RunGateShut == runPc = "gate" /\ Gated /\ RunGoto("shut")

RunGateOpen ==
    /\ runPc = "gate"
    /\ ~Gated
    /\ \/ TakeBuffered /\ runPc' = "open"
       \/ RunExit
       \/ NoWriterWaiting /\ ~closed /\ RunGoto("open")

\* The main select. After an ack, and on the ticker, run retransmits and checks
\* for close before it loops; an inspect request only loops.
Selecting == runPc \in {"open", "shut"}

RunSelectAck == Selecting /\ RunReceiveAck("tick")

\* Mutant: run goes back to its select without looking at the window.
RunSelectKeepsOpen == runPc = "open" /\ TakeBuffered /\ runPc' = "open"

RunSelectBuffered == runPc = "open" /\ TakeBuffered /\ runPc' = "acks"

RunTicker == Selecting /\ RunGoto("tick")

RunInspect == Selecting /\ RunGoto("acks")

RunSelectClosed == Selecting /\ RunExit

RunTick ==
    /\ runPc = "tick"
    /\ rtxList' \in SUBSET Aged
    /\ runPc' = "retransmit"
    /\ UNCHANGED <<rxSequence, writer, buffer, txpVars, newlyReceivedAcks, winVars,
                   closeVars, histVars>>

RunRetransmit ==
    /\ runPc = "retransmit"
    /\ \E s \in rtxList : (\A k \in rtxList : s <= k) /\ retransmit(s)
    /\ UNCHANGED <<rxSequence, writer, buffer, sent, newlyReceivedAcks, successfulAcks,
                   linkSendBufferSize, linkRecvBufferSize, runPc, closeVars,
                   histVars>>

RunCheckForClose ==
    /\ runPc = "retransmit"
    /\ rtxList = {}
    /\ checkForClose
    /\ runPc' = "acks"
    /\ UNCHANGED <<rxSequence, writer, buffer, txpVars, newlyReceivedAcks, winVars,
                   rtxList, closeWhenEmpty, histVars>>

-----------------------------------------------------------------------------
(* The retransmitter's sender: an acked payload is let go, another is sent   *)
(* again. A send that fails leaves the age as it was.                        *)

Dequeue(s) ==
    /\ s \in retransmitter
    /\ retransmitter' = retransmitter \ {s}
    /\ UNCHANGED <<rxSequence, writer, buffer, newlyReceivedAcks, winVars, runVars, closeVars, histVars>>

RetransmitSkipped(s) == Dequeue(s) /\ isAcked(s) /\ UNCHANGED <<retxQueued, sent>>

RetransmitSent(s) ==
    /\ Dequeue(s) /\ ~isAcked(s)
    /\ retxQueued' = [retxQueued EXCEPT ![s] = @ - 1]
    /\ sent' = sent \cup {s}

\* Mutant: a failed send does not count as dequeued.
RetransmitFailedStaysQueued(s) ==
    Dequeue(s) /\ ~isAcked(s) /\ UNCHANGED <<retxQueued, sent>>

RetransmitFailed(s) ==
    /\ Dequeue(s) /\ ~isAcked(s)
    /\ retxQueued' = [retxQueued EXCEPT ![s] = @ - 1]
    /\ UNCHANGED sent

\* CloseRxTimeout, and Close from the xgress.
CloseWhenEmpty ==
    /\ ~closeWhenEmpty
    /\ closeWhenEmpty' = TRUE
    /\ UNCHANGED <<rxSequence, writer, buffer, txpVars, newlyReceivedAcks, winVars, runVars, closed, histVars>>

Close ==
    /\ ~closed
    /\ closed' = TRUE
    /\ UNCHANGED <<rxSequence, writer, buffer, txpVars, newlyReceivedAcks, winVars, runVars, closeWhenEmpty, histVars>>

RunStep ==
    \/ RunAcks \/ RunGateShut \/ RunGateOpen \/ RunSelectAck \/ RunSelectBuffered
    \/ RunTicker \/ RunInspect \/ RunSelectClosed
    \/ RunTick \/ RunRetransmit \/ RunCheckForClose

WriterStep(w) == Write(w) \/ BufferPayloadFails(w) \/ Forward(w) \/ MarkSent(w)

RetransmitterStep ==
    \E s \in Seqs : RetransmitSkipped(s) \/ RetransmitSent(s) \/ RetransmitFailed(s)

PeerAck ==
    \E ack \in Acks : ack.seqs \subseteq forwarded /\ ReceiveAcknowledgement(ack)

Next ==
    \/ RunStep
    \/ \E w \in Writers : WriterStep(w)
    \/ RetransmitterStep
    \/ PeerAck
    \/ CloseWhenEmpty
    \/ Close

Spec == Init /\ [][Next]_vars

-----------------------------------------------------------------------------
(* Properties.                                                               *)

\* A payload that is not yet acked and counts as queued is in the retransmitter:
\* it can always become retransmittable again.
NeverStranded ==
    \A s \in buffer : isRetransmittable(s) \/ (retxQueued[s] = 1 /\ s \in retransmitter)

\* The buffer keeps the promise the rest of the xgress relies on.
Promise == INSTANCE SendBuffer WITH
             MaxWaiting <- Cardinality(Writers), MayFail <- TRUE,
             waiting <- {writer[w].seq : w \in {v \in Writers : writer[v].pc = "buffer"}},
             closing <- closeWhenEmpty, gateOpen <- runPc = "open"
ImplementsSendBuffer == Promise!Spec
=============================================================================
