------------------------ MODULE LinkSendBufferProofs ------------------------
(***************************************************************************)
(* No payload of a send buffer is stranded, for any number of payloads and *)
(* writers.  The counter retxQueued is raised by run when it queues a      *)
(* payload and again when it is acked, and lowered by the retransmitter's  *)
(* sender; NeverStranded needs to know what the counter says of a payload  *)
(* before, while and after it is in the buffer (Counted), that the list    *)
(* retransmit works on is still of payloads not queued (ListFresh), and    *)
(* that no number is buffered twice (NumbersFresh), since an acked one     *)
(* would come back with its counter raised.                                *)
(***************************************************************************)
EXTENDS LinkSendBuffer, TLAPS

Waiting(w) == writer[w].pc = "buffer"

\* A number that a writer waits with was given to it alone.
NumbersFresh ==
    /\ rxSequence \in Nat
    /\ writer \in [Writers -> [pc : {"idle", "buffer", "forward", "mark"}, seq : Nat]]
    /\ buffer \cup acked \subseteq Seqs /\ buffer \cap acked = {}
    /\ \A s \in buffer \cup acked : s < rxSequence
    /\ \A w \in Writers : Waiting(w) => /\ writer[w].seq < rxSequence
                                        /\ writer[w].seq \in Seqs
                                        /\ writer[w].seq \notin buffer \cup acked
    /\ \A v, w \in Writers : Waiting(v) /\ Waiting(w) /\ writer[v].seq = writer[w].seq => v = w

\* What retxQueued says of a payload.
Counted ==
    /\ retxQueued \in [Seqs -> Int] /\ retransmitter \subseteq Seqs
    /\ \A s \in Seqs :
         /\ s \in buffer => (retxQueued[s] = 1 /\ s \in retransmitter)
                            \/ (retxQueued[s] = 0 /\ s \notin retransmitter)
         /\ s \in acked => retxQueued[s] > 1
         /\ s \notin buffer \cup acked => retxQueued[s] = 0 /\ s \notin retransmitter

\* What is left of the list is in the buffer and not queued.
ListFresh ==
    /\ runPc # "retransmit" => rtxList = {}
    /\ rtxList \subseteq buffer /\ \A s \in rtxList : retxQueued[s] = 0

IInv == NumbersFresh /\ Counted /\ ListFresh

LEMMA InitHolds == Init => IInv
BY SeqAssumption DEF Init, Idle, IInv, NumbersFresh, Counted, ListFresh, Waiting, Seqs

\* Steps that touch neither the buffer nor the counters.
LEMMA QuietKeeps ==
    ASSUME IInv,
           UNCHANGED <<rxSequence, buffer, acked, retxQueued, retransmitter, rtxList>>,
           runPc' = runPc \/ rtxList = {},
           writer' \in [Writers -> [pc : {"idle", "buffer", "forward", "mark"}, seq : Nat]],
           \A w \in Writers : writer'[w].pc = "buffer" => writer'[w] = writer[w]
    PROVE  IInv'
BY DEF IInv, NumbersFresh, Counted, ListFresh, Waiting

LEMMA WriteKeeps ==
    ASSUME IInv, NEW w \in Writers, Write(w)
    PROVE  IInv'
<1>. USE DEF IInv, NumbersFresh, Waiting
<1>1. /\ UNCHANGED <<buffer, acked, retxQueued, retransmitter, rtxList, runPc>>
      /\ rxSequence' = rxSequence + 1 /\ rxSequence \in Seqs
      /\ writer' = [writer EXCEPT ![w] = [pc |-> "buffer", seq |-> rxSequence]]
  BY SeqAssumption DEF Write, txpVars, runVars, histVars, Seqs
<1>2. /\ writer' \in [Writers -> [pc : {"idle", "buffer", "forward", "mark"}, seq : Nat]]
      /\ writer'[w] = [pc |-> "buffer", seq |-> rxSequence]
      /\ \A v \in Writers : v # w => writer'[v] = writer[v]
  BY <1>1
<1>3. NumbersFresh'
  BY <1>1, <1>2, SeqAssumption DEF Seqs
<1>4. QED
  BY <1>1, <1>3 DEF Counted, ListFresh

LEMMA WriterKeeps ==
    ASSUME IInv, NEW w \in Writers, WriterStep(w)
    PROVE  IInv'
<1>1. CASE Write(w)
  BY <1>1, WriteKeeps
<1>2. CASE BufferPayloadFails(w) \/ MarkSent(w)
  <2>1. writer' = [writer EXCEPT ![w] = Idle]
    BY <1>2 DEF BufferPayloadFails, MarkSent
  <2>2. UNCHANGED <<rxSequence, buffer, acked, retxQueued, retransmitter, rtxList, runPc>>
    BY <1>2 DEF BufferPayloadFails, MarkSent, txpVars, runVars, histVars
  <2>3. QED
    BY <2>1, <2>2, QuietKeeps DEF IInv, NumbersFresh, Idle
<1>3. CASE Forward(w)
  <2>1. writer' = [writer EXCEPT ![w].pc = "mark"]
    BY <1>3 DEF Forward, Move
  <2>2. UNCHANGED <<rxSequence, buffer, acked, retxQueued, retransmitter, rtxList, runPc>>
    BY <1>3 DEF Forward, txpVars, runVars
  <2>3. QED
    BY <2>1, <2>2, QuietKeeps DEF IInv, NumbersFresh
<1>4. QED
  BY <1>1, <1>2, <1>3 DEF WriterStep

\* run takes a payload from a writer: its number enters the buffer for the first
\* time, so its counter is zero.
LEMMA TakeKeeps ==
    ASSUME IInv, TakeBuffered, runPc # "retransmit", runPc' # "retransmit"
    PROVE  IInv'
<1>. USE DEF IInv, NumbersFresh, Waiting
<1>1. PICK w \in Writers :
        /\ Waiting(w) /\ writer' = [writer EXCEPT ![w].pc = "forward"]
        /\ buffer' = buffer \cup {writer[w].seq}
        /\ UNCHANGED <<rxSequence, acked, retxQueued, retransmitter, rtxList>>
  BY DEF TakeBuffered, Move, txpVars, histVars
<1>2. /\ writer' \in [Writers -> [pc : {"idle", "buffer", "forward", "mark"}, seq : Nat]]
      /\ writer'[w].pc = "forward"
      /\ \A v \in Writers : v # w => writer'[v] = writer[v]
  BY <1>1
<1>3. NumbersFresh'
  BY <1>1, <1>2
<1>4. Counted'
  BY <1>1 DEF Counted
<1>5. QED
  BY <1>1, <1>3, <1>4 DEF ListFresh

\* An ack takes a payload out of the buffer and raises its counter.
LEMMA AckKeeps ==
    ASSUME IInv, NEW pc, pc # "retransmit", runPc # "retransmit", RunReceiveAck(pc)
    PROVE  IInv'
<1>1. UNCHANGED <<rxSequence, writer, rtxList>> /\ runPc' = pc
  BY DEF RunReceiveAck
<1>2. CASE UNCHANGED <<buffer, retxQueued, retransmitter, acked>>
  BY <1>1, <1>2 DEF IInv, NumbersFresh, Counted, ListFresh, Waiting
<1>3. ASSUME NEW s \in buffer, NEW recv, AckPayload(s, recv) PROVE IInv'
  <2>1. /\ s \in Seqs
        /\ retxQueued' = [retxQueued EXCEPT ![s] = @ + 2]
        /\ buffer' = buffer \ {s} /\ acked' = acked \cup {s}
        /\ retransmitter' \subseteq retransmitter \cup {s}
        /\ retransmitter \subseteq retransmitter'
    BY <1>3 DEF AckPayload, IInv, NumbersFresh
  <2>2. NumbersFresh'
    BY <1>1, <2>1 DEF IInv, NumbersFresh, Waiting
  <2>3. Counted'
    BY <2>1 DEF IInv, Counted
  <2>4. ListFresh'
    BY <1>1, <2>1 DEF IInv, ListFresh
  <2>5. QED
    BY <2>2, <2>3, <2>4 DEF IInv
<1>4. QED
  BY <1>2, <1>3 DEF RunReceiveAck, receiveAcknowledgement

\* run lists payloads that are not queued, and queues the first of them.
LEMMA RetransmitKeeps ==
    ASSUME IInv, RunTick \/ RunRetransmit \/ RunCheckForClose
    PROVE  IInv'
<1>. USE DEF IInv
<1>1. CASE RunTick
  <2>1. /\ rtxList' \subseteq {s \in buffer : retxQueued[s] = 0}
        /\ UNCHANGED <<rxSequence, writer, buffer, acked, retxQueued, retransmitter>>
    BY <1>1 DEF RunTick, Aged, isRetransmittable, txpVars, histVars
  <2>2. runPc' = "retransmit"
    BY <1>1 DEF RunTick
  <2>3. QED
    BY <2>1, <2>2 DEF NumbersFresh, Counted, ListFresh, Waiting
<1>2. CASE RunRetransmit
  <2>1. PICK s \in rtxList : retransmit(s)
    BY <1>2 DEF RunRetransmit
  <2>2. /\ UNCHANGED <<rxSequence, writer, buffer, acked, runPc>> /\ runPc = "retransmit"
        /\ rtxList' = rtxList \ {s}
        /\ retxQueued' = [retxQueued EXCEPT ![s] = @ + 1]
        /\ retransmitter' = retransmitter \cup {s}
    BY <1>2, <2>1 DEF RunRetransmit, retransmit, histVars
  <2>3. NumbersFresh'
    BY <2>2 DEF NumbersFresh, Waiting
  <2>4. s \in buffer /\ s \in Seqs /\ retxQueued[s] = 0
    BY <2>1 DEF ListFresh, NumbersFresh
  <2>5. Counted'
    BY <2>2, <2>4 DEF Counted
  <2>6. ListFresh'
    BY <2>2, <2>4 DEF ListFresh, Counted, NumbersFresh
  <2>7. QED
    BY <2>3, <2>5, <2>6
<1>3. CASE RunCheckForClose
  BY <1>3, QuietKeeps DEF RunCheckForClose, txpVars, histVars, NumbersFresh
<1>4. QED
  BY <1>1, <1>2, <1>3

LEMMA GotoKeeps ==
    ASSUME IInv, NEW pc, pc # "retransmit", runPc # "retransmit", RunGoto(pc)
    PROVE  IInv'
BY QuietKeeps DEF RunGoto, txpVars, histVars, IInv, NumbersFresh, ListFresh

LEMMA RunKeeps == IInv /\ RunStep => IInv'
<1>. SUFFICES ASSUME IInv, RunStep PROVE IInv'
  OBVIOUS
<1>1. CASE RunTick \/ RunRetransmit \/ RunCheckForClose
  BY <1>1, RetransmitKeeps
<1>2. CASE RunAcks
  BY <1>2, AckKeeps, GotoKeeps DEF RunAcks, RunExit
<1>3. CASE RunGateShut \/ RunGateOpen
  BY <1>3, TakeKeeps, GotoKeeps DEF RunGateShut, RunGateOpen, RunExit
<1>4. CASE RunSelectAck \/ RunSelectBuffered
  BY <1>4, AckKeeps, TakeKeeps DEF RunSelectAck, RunSelectBuffered, Selecting
<1>5. CASE RunTicker \/ RunInspect \/ RunSelectClosed
  BY <1>5, GotoKeeps DEF RunTicker, RunInspect, RunSelectClosed, RunExit, Selecting
<1>6. QED
  BY <1>1, <1>2, <1>3, <1>4, <1>5 DEF RunStep

\* The sender lowers the counter of a payload it sends, which is in the buffer,
\* and leaves that of an acked one.
LEMMA SenderKeeps ==
    ASSUME IInv, NEW s \in Seqs,
           RetransmitSkipped(s) \/ RetransmitSent(s) \/ RetransmitFailed(s)
    PROVE  IInv'
<1>1. /\ s \in retransmitter /\ retransmitter' = retransmitter \ {s}
      /\ UNCHANGED <<rxSequence, writer, buffer, acked, rtxList, runPc>>
      /\ \/ retxQueued[s] > 1 /\ UNCHANGED retxQueued
         \/ ~(retxQueued[s] > 1) /\ retxQueued' = [retxQueued EXCEPT ![s] = @ - 1]
  BY DEF RetransmitSkipped, RetransmitSent, RetransmitFailed, Dequeue, isAcked, runVars, histVars
<1>2. NumbersFresh'
  BY <1>1 DEF IInv, NumbersFresh, Waiting
<1>3. Counted'
  BY <1>1 DEF IInv, Counted
<1>4. ListFresh'
  BY <1>1 DEF IInv, ListFresh, Counted, NumbersFresh
<1>5. QED
  BY <1>2, <1>3, <1>4 DEF IInv

LEMMA NextKeeps == IInv /\ [Next]_vars => IInv'
<1>. SUFFICES ASSUME IInv, [Next]_vars PROVE IInv'
  OBVIOUS
<1>1. CASE PeerAck \/ CloseWhenEmpty \/ Close \/ UNCHANGED vars
  <2>1. UNCHANGED <<rxSequence, writer, buffer, acked, retxQueued, retransmitter, rtxList, runPc>>
    BY <1>1 DEF PeerAck, ReceiveAcknowledgement, CloseWhenEmpty, Close, vars, txpVars, runVars,
                histVars
  <2>2. QED
    BY <2>1, QuietKeeps DEF IInv, NumbersFresh
<1>2. QED
  BY <1>1, WriterKeeps, RunKeeps, SenderKeeps DEF Next, RetransmitterStep

\* A payload that is not yet acked can always be retransmitted: it counts as
\* queued only while the retransmitter has it, however acks, retransmissions and
\* failed sends overtake each other (markQueued, markAcked, dequeued in
\* link_send_buffer.go and retransmitter.go).
THEOREM StrandsNothing == Spec => []NeverStranded
<1>1. IInv => NeverStranded
  BY DEF IInv, Counted, NumbersFresh, NeverStranded, isRetransmittable
<1>2. QED
  BY <1>1, InitHolds, NextKeeps, PTL DEF Spec
=============================================================================
