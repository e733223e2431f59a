---------------------- MODULE LinkReceiveBufferProofs ----------------------
(* Proofs about LinkReceiveBuffer for every queue size, buffer size, payload *)
(* length and number of payloads.                                            *)
EXTENDS LinkReceiveBuffer, TLAPS

\* Everything still in the tree comes after what was moved to txQueue.
TreeAhead == \A k \in tree : k > sequence

\* While tx looks for the next payload it holds none.
HandEmpty == txPc \in {"poll", "lock", "select", "drain"} => current = <<>>

IInv ==
    /\ TypeOK /\ HandEmpty /\ InOrder /\ TreeAhead /\ NoLostWakeup
    /\ AcceptedIsRetained

\* A uint32 stays a uint32.
LEMMA WordRange ==
    ASSUME NEW n \in Int
    PROVE  n % Word \in 0..(Word - 1)
BY WordAssumption

\* The element of a one-element sequence.
LEMMA OnlyElement ==
    ASSUME NEW S, NEW q \in Seq(S), Len(q) = 1
    PROVE  q[1] \in S
OBVIOUS

LEMMA InitIInv == Init => IInv
<1>. SUFFICES ASSUME Init PROVE IInv
  OBVIOUS
<1>. USE DEF Init
<1>1. Len(txQueue) = 0 /\ Len(current) = 0 /\ Len(consumed) = 0
  OBVIOUS
<1>2. TypeOK
  <2>1. size \in 0..(Word - 1)
    BY WordAssumption
  <2>2. maxSequence \in Seqs /\ sequence \in -1..MaxSeq
    BY MaxSeqAssumption DEF Seqs
  <2>3. <<>> \in Seq(Seqs)
    OBVIOUS
  <2>4. /\ txPc \in TxPcs /\ ~(txPc \in {"send", "clear"})
        /\ tree \in SUBSET Seqs /\ accepted \in SUBSET Seqs /\ closeNotify \in BOOLEAN
    BY DEF TxPcs
  <2>5. 0 <= TxQueueSize
    BY TxQueueAssumption
  <2>. QED
    BY <1>1, <2>1, <2>2, <2>3, <2>4, <2>5 DEF TypeOK
<1>3. InOrder
  BY <1>1 DEF InOrder, Pending
<1>4. HandEmpty /\ TreeAhead /\ NoLostWakeup /\ AcceptedIsRetained
  BY DEF HandEmpty, TreeAhead, NoLostWakeup, AcceptedIsRetained
<1>. QED
  BY <1>2, <1>3, <1>4 DEF IInv

\* What queueNext does to tree, txQueue and sequence, when called with a tree
\* whose payloads all lie beyond sequence.
LEMMA QueueNextFacts ==
    ASSUME TypeOK, InOrder, NEW t \in SUBSET Seqs, \A k \in t : k > sequence,
           QueueNext(t)
    PROVE  /\ tree' \in SUBSET Seqs
           /\ sequence' \in -1..MaxSeq
           /\ txQueue' \in Seq(Seqs) /\ Len(txQueue') <= TxQueueSize
           /\ sequence' >= sequence
           /\ \A k \in tree' : k > sequence'
           /\ tree' \cup 0..sequence' = t \cup 0..sequence
           /\ Len(txQueue') - Len(txQueue) = sequence' - sequence
           /\ \A i \in 1..Len(txQueue') : i <= Len(txQueue) => txQueue'[i] = txQueue[i]
           /\ \A i \in 1..Len(txQueue') : i > Len(txQueue) => txQueue'[i] = sequence'
           /\ sequence' \in {sequence, sequence + 1}
           /\ txQueue' = <<>> => sequence' + 1 \notin tree'
<1>1. CASE CanQueue(t)
  <2>1. /\ tree' = t \ {sequence + 1}
        /\ txQueue' = Append(txQueue, sequence + 1)
        /\ sequence' = sequence + 1
    BY <1>1 DEF QueueNext
  <2>2. sequence + 1 \in t /\ Len(txQueue) < TxQueueSize
    BY <1>1 DEF CanQueue, Leftmost
  <2>3. sequence + 1 \in Seqs /\ sequence \in Int /\ txQueue \in Seq(Seqs)
    BY <2>2, MaxSeqAssumption DEF TypeOK
  <2>4. /\ Append(txQueue, sequence + 1) \in Seq(Seqs)
        /\ Len(Append(txQueue, sequence + 1)) = Len(txQueue) + 1
        /\ \A i \in 1..Len(txQueue) : Append(txQueue, sequence + 1)[i] = txQueue[i]
        /\ Append(txQueue, sequence + 1)[Len(txQueue) + 1] = sequence + 1
        /\ Len(txQueue) \in Nat
    BY <2>3
  <2>5. \A k \in t : k \in Int /\ k >= sequence + 1
    BY MaxSeqAssumption, <2>3 DEF Seqs
  <2>6. sequence + 1 \in -1..MaxSeq /\ sequence + 1 \in 0..(sequence + 1)
    BY <2>3, MaxSeqAssumption DEF Seqs
  <2>7. \A k \in t \ {sequence + 1} : k > sequence + 1
    BY <2>3, <2>5
  <2>8. (t \ {sequence + 1}) \cup 0..(sequence + 1) = t \cup 0..sequence
    <3>1. 0..(sequence + 1) = 0..sequence \cup {sequence + 1}
      BY <2>3, MaxSeqAssumption DEF TypeOK
    <3>. QED
      BY <2>2, <3>1
  <2>9. \A i \in 1..(Len(txQueue) + 1) : i <= Len(txQueue) \/ i = Len(txQueue) + 1
    BY <2>4
  <2>10. /\ \A i \in 1..Len(txQueue') : i <= Len(txQueue) => txQueue'[i] = txQueue[i]
         /\ \A i \in 1..Len(txQueue') : i > Len(txQueue) => txQueue'[i] = sequence'
    BY <2>1, <2>4, <2>9
  <2>11. txQueue' # <<>>
    BY <2>1, <2>4
  <2>12. Len(txQueue') <= TxQueueSize
    BY <2>1, <2>2, <2>4, TxQueueAssumption
  <2>. QED
    BY <2>1, <2>3, <2>4, <2>6, <2>7, <2>8, <2>10, <2>11, <2>12
<1>2. CASE ~CanQueue(t)
  <2>1. tree' = t /\ txQueue' = txQueue /\ sequence' = sequence
    BY <1>2 DEF QueueNext
  <2>2. txQueue = <<>> => sequence + 1 \notin t
    <3>1. \A k \in t : sequence + 1 <= k
      BY MaxSeqAssumption DEF TypeOK, Seqs
    <3>. QED
      BY <1>2, <3>1, TxQueueAssumption DEF CanQueue, Leftmost
  <2>3. Len(txQueue) \in Nat
    BY DEF TypeOK
  <2>. QED
    BY <2>1, <2>2, <2>3 DEF TypeOK
<1>. QED
  BY <1>1, <1>2

\* queueNext keeps the payloads from the client to txQueue consecutive.
LEMMA QueueNextInOrder ==
    ASSUME TypeOK, InOrder, txQueue' \in Seq(Seqs), sequence' \in -1..MaxSeq,
           Pending' = Pending, consumed' = consumed, current' = current,
           Len(txQueue') - Len(txQueue) = sequence' - sequence,
           sequence' \in {sequence, sequence + 1},
           \A i \in 1..Len(txQueue') : i <= Len(txQueue) => txQueue'[i] = txQueue[i],
           \A i \in 1..Len(txQueue') : i > Len(txQueue) => txQueue'[i] = sequence'
    PROVE  InOrder'
<1>1. /\ Pending \in Nat /\ Len(consumed) \in Nat /\ Len(txQueue) \in Nat
      /\ Len(txQueue') \in Nat /\ sequence \in Int /\ sequence' \in Int
  BY MaxSeqAssumption DEF Pending, TypeOK
<1>2. sequence' + 1 = Len(consumed) + Pending + Len(txQueue')
  <2>1. sequence + 1 = Len(consumed) + Pending + Len(txQueue)
    BY DEF InOrder
  <2>2. CASE sequence' = sequence
    <3>1. Len(txQueue') = Len(txQueue)
      BY <1>1, <2>2
    <3>. QED
      BY <2>1, <2>2, <3>1
  <2>3. CASE sequence' = sequence + 1
    <3>1. Len(txQueue') = Len(txQueue) + 1
      BY <1>1, <2>3
    <3>. QED
      BY <1>1, <2>1, <2>3, <3>1
  <2>. QED
    BY <2>2, <2>3
<1>3. ASSUME NEW i \in 1..Len(txQueue')
      PROVE  txQueue'[i] = Len(consumed) + Pending + i - 1
  <2>1. CASE i <= Len(txQueue)
    <3>1. i \in 1..Len(txQueue) /\ txQueue'[i] = txQueue[i]
      BY <2>1, <1>1
    <3>. QED
      BY <3>1 DEF InOrder
  <2>2. CASE i > Len(txQueue)
    <3>1. Len(txQueue') <= Len(txQueue) + 1
      BY <1>1
    <3>2. i = Len(txQueue')
      BY <2>2, <1>1, <3>1
    <3>3. txQueue'[i] = sequence'
      BY <2>2
    <3>. QED
      BY <3>2, <3>3, <1>1, <1>2
  <2>. QED
    BY <2>1, <2>2, <1>1
<1>. QED
  BY <1>1, <1>2, <1>3 DEF InOrder

\* A payload arriving from the fabric.
LEMMA ReceiveIInv ==
    ASSUME IInv, NEW s \in Seqs, ReceiveUnordered(s)
    PROVE  IInv'
<1>. USE DEF IInv
<1>0. /\ txPc' = txPc /\ current' = current /\ consumed' = consumed
      /\ closeNotify' = closeNotify
  BY DEF ReceiveUnordered, txVars
<1>1. CASE ReceiveDuplicate(s)
  <2>1. /\ accepted' = accepted \cup {s} /\ s <= sequence
        /\ UNCHANGED <<tree, sequence, maxSequence, size, txQueue>>
    BY <1>1 DEF ReceiveDuplicate, Duplicate, bufVars
  <2>2. s \in 0..sequence
    BY <2>1, MaxSeqAssumption DEF Seqs, TypeOK
  <2>3. TypeOK'
    BY <1>0, <2>1 DEF TypeOK
  <2>4. InOrder' /\ HandEmpty' /\ TreeAhead' /\ NoLostWakeup'
    BY <1>0, <2>1 DEF InOrder, Pending, HandEmpty, TreeAhead, NoLostWakeup
  <2>5. AcceptedIsRetained'
    BY <2>1, <2>2 DEF AcceptedIsRetained
  <2>. QED
    BY <2>3, <2>4, <2>5
<1>2. CASE ReceiveDropped(s)
  <2>1. UNCHANGED <<tree, sequence, maxSequence, size, txQueue, accepted>>
    BY <1>2 DEF ReceiveDropped, bufVars
  <2>. QED
    BY <1>0, <2>1 DEF TypeOK, InOrder, Pending, HandEmpty, TreeAhead, NoLostWakeup,
                      AcceptedIsRetained
<1>3. CASE ReceiveBuffered(s)
  <2>1. ~(s <= sequence) /\ Put(s) /\ QueueNext(tree \cup {s}) /\ accepted' = accepted \cup {s}
    BY <1>3 DEF ReceiveBuffered, Duplicate
  <2>2. tree \cup {s} \in SUBSET Seqs /\ \A k \in tree \cup {s} : k > sequence
    BY <2>1, MaxSeqAssumption DEF TypeOK, TreeAhead, Seqs
  <2>3. /\ tree' \in SUBSET Seqs
        /\ sequence' \in -1..MaxSeq
        /\ txQueue' \in Seq(Seqs) /\ Len(txQueue') <= TxQueueSize
        /\ sequence' >= sequence
        /\ \A k \in tree' : k > sequence'
        /\ tree' \cup 0..sequence' = tree \cup {s} \cup 0..sequence
        /\ Len(txQueue') - Len(txQueue) = sequence' - sequence
        /\ \A i \in 1..Len(txQueue') : i <= Len(txQueue) => txQueue'[i] = txQueue[i]
        /\ \A i \in 1..Len(txQueue') : i > Len(txQueue) => txQueue'[i] = sequence'
        /\ sequence' \in {sequence, sequence + 1}
        /\ txQueue' = <<>> => sequence' + 1 \notin tree'
    BY <2>1, <2>2, QueueNextFacts
  <2>4. size' \in 0..(Word - 1) /\ maxSequence' \in Seqs
    <3>1. size + DataLen[s] \in Int
      BY WordAssumption, DataLenAssumption DEF TypeOK
    <3>. QED
      BY <2>1, <3>1, WordRange DEF Put, TypeOK
  <2>5. TypeOK'
    BY <1>0, <2>1, <2>3, <2>4 DEF TypeOK
  <2>6. InOrder'
    <3>1. Pending' = Pending
      BY <1>0 DEF Pending
    <3>. QED
      BY <1>0, <2>3, <3>1, QueueNextInOrder
  <2>7. AcceptedIsRetained'
    BY <2>1, <2>3 DEF AcceptedIsRetained
  <2>8. HandEmpty' /\ TreeAhead' /\ NoLostWakeup'
    BY <1>0, <2>3 DEF HandEmpty, TreeAhead, NoLostWakeup
  <2>. QED
    BY <2>5, <2>6, <2>7, <2>8
<1>. QED
  BY <1>1, <1>2, <1>3 DEF ReceiveUnordered

\* NextPayload takes the head of txQueue.
LEMMA TakeIInv ==
    ASSUME IInv, txPc \in {"poll", "select", "drain"}, Take
    PROVE  IInv'
<1>. USE DEF IInv
<1>1. /\ txQueue # <<>> /\ current' = <<Head(txQueue)>> /\ txQueue' = Tail(txQueue)
      /\ txPc' = "send"
      /\ UNCHANGED <<tree, sequence, maxSequence, size, consumed, closeNotify, accepted>>
  BY DEF Take
<1>2. /\ Len(txQueue) \in Nat \ {0} /\ Head(txQueue) = txQueue[1] /\ txQueue[1] \in Seqs
      /\ Tail(txQueue) \in Seq(Seqs) /\ Len(Tail(txQueue)) = Len(txQueue) - 1
      /\ \A i \in 1..(Len(txQueue) - 1) : Tail(txQueue)[i] = txQueue[i + 1]
  BY <1>1 DEF TypeOK
<1>3. Pending = 0 /\ Len(consumed) \in Nat
  BY DEF HandEmpty, Pending, TypeOK
<1>4. Len(current') = 1 /\ current' \in Seq(Seqs) /\ current'[1] = txQueue[1] /\ Pending' = 1
  BY <1>1, <1>2 DEF Pending
<1>5. TypeOK'
  BY <1>1, <1>2, <1>4, TxQueueAssumption DEF TypeOK, TxPcs
<1>6. InOrder'
  <2>1. current'[1] = Len(consumed')
    BY <1>1, <1>2, <1>3, <1>4 DEF InOrder
  <2>2. ASSUME NEW i \in 1..Len(txQueue')
        PROVE  txQueue'[i] = Len(consumed') + Pending' + i - 1
    <3>1. i \in 1..(Len(txQueue) - 1) /\ i + 1 \in 1..Len(txQueue)
      BY <1>1, <1>2
    <3>2. txQueue'[i] = txQueue[i + 1]
      BY <1>1, <1>2, <3>1
    <3>3. txQueue[i + 1] = Len(consumed) + Pending + (i + 1) - 1
      BY <3>1 DEF InOrder
    <3>. QED
      BY <1>1, <1>3, <1>4, <3>1, <3>2, <3>3
  <2>3. sequence' + 1 = Len(consumed') + Pending' + Len(txQueue')
    BY <1>1, <1>2, <1>3, <1>4 DEF InOrder
  <2>. QED
    BY <1>1, <2>1, <2>2, <2>3 DEF InOrder
<1>7. HandEmpty' /\ TreeAhead' /\ NoLostWakeup' /\ AcceptedIsRetained'
  BY <1>1 DEF HandEmpty, TreeAhead, NoLostWakeup, AcceptedIsRetained
<1>. QED
  BY <1>5, <1>6, <1>7

\* Steps of tx that only move its program counter, or close the client side.
LEMMA TxGotoIInv ==
    ASSUME IInv, NEW pc \in {"lock", "drain", "exited"}, TxGoto(pc),
           txPc \in {"poll", "select", "drain"},
           pc = "drain" => txPc = "select"
    PROVE  IInv'
<1>. USE DEF IInv
<1>1. /\ txPc' = pc
      /\ UNCHANGED <<tree, sequence, maxSequence, size, txQueue, current, consumed,
                     closeNotify, accepted>>
  BY DEF TxGoto, bufVars
<1>2. Pending' = Pending
  BY <1>1 DEF Pending
<1>3. TypeOK'
  BY <1>1 DEF TypeOK, TxPcs
<1>4. InOrder'
  BY <1>1, <1>2 DEF InOrder
<1>. QED
  BY <1>1, <1>3, <1>4 DEF HandEmpty, TreeAhead, NoLostWakeup, AcceptedIsRetained

LEMMA TxExitIInv ==
    ASSUME IInv, TxExit, txPc = "send"
    PROVE  IInv'
<1>. USE DEF IInv
<1>1. /\ txPc' = "exited" /\ closeNotify' = TRUE
      /\ UNCHANGED <<tree, sequence, maxSequence, size, txQueue, current, consumed, accepted>>
  BY DEF TxExit, bufVars
<1>2. Pending' = Pending
  BY <1>1 DEF Pending
<1>3. TypeOK'
  BY <1>1 DEF TypeOK, TxPcs
<1>4. InOrder'
  BY <1>1, <1>2 DEF InOrder
<1>. QED
  BY <1>1, <1>3, <1>4 DEF HandEmpty, TreeAhead, NoLostWakeup, AcceptedIsRetained

\* sendPayload hands the payload to the client.
LEMMA ConsumeIInv ==
    ASSUME IInv, txPc = "send", txPc' = "clear",
           consumed' = Append(consumed, current[1]),
           UNCHANGED <<bufVars, current, closeNotify, accepted>>
    PROVE  IInv'
<1>. USE DEF IInv
<1>1. UNCHANGED <<tree, sequence, maxSequence, size, txQueue, current, closeNotify, accepted>>
  BY DEF bufVars
<1>2. /\ Len(current) = 1 /\ current[1] \in Seqs /\ Pending = 1 /\ Pending' = 0
      /\ Len(consumed) \in Nat
  <2>1. Len(current) = 1 /\ current \in Seq(Seqs) /\ consumed \in Seq(Seqs)
    BY DEF TypeOK
  <2>2. current[1] \in Seqs
    BY <2>1, OnlyElement
  <2>. QED
    BY <2>1, <2>2 DEF Pending
<1>3. /\ consumed' \in Seq(Seqs) /\ Len(consumed') = Len(consumed) + 1
      /\ \A i \in 1..Len(consumed) : consumed'[i] = consumed[i]
      /\ consumed'[Len(consumed) + 1] = current[1]
  BY <1>2 DEF TypeOK
<1>4. TypeOK'
  BY <1>1, <1>2, <1>3 DEF TypeOK, TxPcs
<1>5. InOrder'
  <2>1. ASSUME NEW i \in 1..Len(consumed') PROVE consumed'[i] = i - 1
    <3>1. i \in 1..Len(consumed) \/ i = Len(consumed) + 1
      BY <1>2, <1>3
    <3>. QED
      BY <1>2, <1>3, <3>1 DEF InOrder
  <2>2. \A i \in 1..Len(txQueue') : txQueue'[i] = Len(consumed') + Pending' + i - 1
    BY <1>1, <1>2, <1>3 DEF InOrder
  <2>3. sequence' + 1 = Len(consumed') + Pending' + Len(txQueue')
    BY <1>1, <1>2, <1>3 DEF InOrder
  <2>. QED
    BY <1>2, <2>1, <2>2, <2>3 DEF InOrder
<1>. QED
  BY <1>1, <1>4, <1>5 DEF HandEmpty, TreeAhead, NoLostWakeup, AcceptedIsRetained

\* NextPayload calls queueNext under the lock.
LEMMA LockedIInv ==
    ASSUME IInv, NextPayloadLocked
    PROVE  IInv'
<1>. USE DEF IInv
<1>1. /\ txPc = "lock" /\ txPc' = "select" /\ QueueNext(tree)
      /\ UNCHANGED <<maxSequence, size, current, consumed, closeNotify, accepted>>
  BY DEF NextPayloadLocked
<1>2. tree \in SUBSET Seqs /\ \A k \in tree : k > sequence
  BY DEF TypeOK, TreeAhead
<1>3. /\ tree' \in SUBSET Seqs
      /\ sequence' \in -1..MaxSeq
      /\ txQueue' \in Seq(Seqs) /\ Len(txQueue') <= TxQueueSize
      /\ sequence' >= sequence
      /\ \A k \in tree' : k > sequence'
      /\ tree' \cup 0..sequence' = tree \cup 0..sequence
      /\ Len(txQueue') - Len(txQueue) = sequence' - sequence
      /\ \A i \in 1..Len(txQueue') : i <= Len(txQueue) => txQueue'[i] = txQueue[i]
      /\ \A i \in 1..Len(txQueue') : i > Len(txQueue) => txQueue'[i] = sequence'
      /\ sequence' \in {sequence, sequence + 1}
      /\ txQueue' = <<>> => sequence' + 1 \notin tree'
  BY <1>1, <1>2, QueueNextFacts
<1>4. TypeOK'
  BY <1>1, <1>3 DEF TypeOK, TxPcs
<1>5. InOrder'
  <2>1. Pending' = Pending
    BY <1>1 DEF Pending
  <2>. QED
    BY <1>1, <1>3, <2>1, QueueNextInOrder
<1>6. AcceptedIsRetained'
  BY <1>1, <1>3 DEF AcceptedIsRetained
<1>. QED
  BY <1>1, <1>3, <1>4, <1>5, <1>6 DEF HandEmpty, TreeAhead, NoLostWakeup

\* tx releases the bytes of the payload it has handed on.
LEMMA ClearIInv ==
    ASSUME IInv, ClearPayloadFromSendBuffer
    PROVE  IInv'
<1>. USE DEF IInv
<1>1. /\ txPc = "clear" /\ txPc' = "poll" /\ current' = <<>>
      /\ size' = (size - DataLen[current[1]]) % Word
      /\ UNCHANGED <<tree, sequence, maxSequence, txQueue, consumed, closeNotify, accepted>>
  BY DEF ClearPayloadFromSendBuffer
<1>2. size' \in 0..(Word - 1)
  <2>1. current \in Seq(Seqs) /\ Len(current) = 1
    BY <1>1 DEF TypeOK
  <2>2. current[1] \in Seqs
    BY <2>1, OnlyElement
  <2>3. DataLen[current[1]] \in Nat /\ size \in Int
    BY <2>2, DataLenAssumption, WordAssumption DEF TypeOK
  <2>4. size - DataLen[current[1]] \in Int
    BY <2>3
  <2>. QED
    BY <1>1, <2>4, WordRange
<1>3. Pending = 0 /\ Pending' = 0 /\ Len(current') = 0 /\ current' \in Seq(Seqs)
  BY <1>1 DEF Pending
<1>4. TypeOK'
  BY <1>1, <1>2, <1>3 DEF TypeOK, TxPcs
<1>5. InOrder'
  BY <1>1, <1>3 DEF InOrder
<1>. QED
  BY <1>1, <1>4, <1>5 DEF HandEmpty, TreeAhead, NoLostWakeup, AcceptedIsRetained

LEMMA NextIInv == IInv /\ [Next]_vars => IInv'
<1>. SUFFICES ASSUME IInv, [Next]_vars PROVE IInv'
  OBVIOUS
<1>1. ASSUME NEW s \in Seqs, ReceiveUnordered(s) PROVE IInv'
  BY <1>1, ReceiveIInv
<1>2. CASE CloseXgToClient
  BY <1>2 DEF CloseXgToClient, bufVars, txVars, IInv, TypeOK, InOrder, Pending,
              HandEmpty, TreeAhead, NoLostWakeup, AcceptedIsRetained
<1>3. CASE NextPayloadPoll
  BY <1>3, TakeIInv, TxGotoIInv DEF NextPayloadPoll
<1>4. CASE NextPayloadLocked
  BY <1>4, LockedIInv
<1>5. CASE NextPayloadSelect
  BY <1>5, TakeIInv, TxGotoIInv DEF NextPayloadSelect
<1>6. CASE NextPayloadDrain
  BY <1>6, TakeIInv, TxGotoIInv DEF NextPayloadDrain
<1>7. CASE SendPayload
  BY <1>7, ConsumeIInv, TxExitIInv DEF SendPayload
<1>8. CASE WritePayloadFails
  BY <1>8, TxExitIInv DEF WritePayloadFails
<1>9. CASE ClearPayloadFromSendBuffer
  BY <1>9, ClearIInv
<1>10. CASE UNCHANGED vars
  BY <1>10 DEF vars, bufVars, txVars, IInv, TypeOK, InOrder, Pending,
               HandEmpty, TreeAhead, NoLostWakeup, AcceptedIsRetained
<1>. QED
  BY <1>1, <1>2, <1>3, <1>4, <1>5, <1>6, <1>7, <1>8, <1>9, <1>10 DEF Next, TxStep

LEMMA Invariance == Spec => []IInv
BY InitIInv, NextIInv, PTL DEF Spec

\* The state of the buffer and of tx stays well typed: in particular txQueue
\* never exceeds its capacity and the uint32 size never leaves its range.
THEOREM TypeCorrect == Spec => []TypeOK
<1>1. IInv => TypeOK
  BY DEF IInv
<1>. QED
  BY <1>1, Invariance, PTL

\* In-order, gapless, exactly-once delivery to the client for any number of
\* payloads, any arrival order and any queue capacity.
THEOREM DeliversInOrder == Spec => []InOrder
<1>1. IInv => InOrder
  BY DEF IInv
<1>. QED
  BY <1>1, Invariance, PTL

\* tx never sleeps on an empty txQueue while the tree holds the next payload.
THEOREM NeverLosesWakeup == Spec => []NoLostWakeup
<1>1. IInv => NoLostWakeup
  BY DEF IInv
<1>. QED
  BY <1>1, Invariance, PTL

\* An acknowledged payload is never lost by the receive buffer.
THEOREM RetainsAccepted == Spec => []AcceptedIsRetained
<1>1. IInv => AcceptedIsRetained
  BY DEF IInv
<1>. QED
  BY <1>1, Invariance, PTL

\* NextPayload answers nil only when every contiguous payload received so far
\* has been consumed.
THEOREM DrainsBeforeNil == Spec => DrainedBeforeNil
<1>1. IInv /\ [Next]_vars =>
        [txPc = "drain" /\ txPc' = "exited" =>
            sequence + 1 \notin tree /\ Len(consumed) = sequence + 1]_vars
  <2>. SUFFICES ASSUME IInv, Next, txPc = "drain", txPc' = "exited"
                PROVE  sequence + 1 \notin tree /\ Len(consumed) = sequence + 1
    OBVIOUS
  <2>1. txQueue = <<>>
    BY DEF Next, TxStep, ReceiveUnordered, txVars, CloseXgToClient, NextPayloadPoll,
           NextPayloadLocked, NextPayloadSelect, NextPayloadDrain, Take, TxGoto,
           SendPayload, WritePayloadFails, ClearPayloadFromSendBuffer
  <2>2. Len(txQueue) = 0 /\ Pending = 0 /\ Len(consumed) \in Nat
    BY <2>1 DEF IInv, HandEmpty, Pending, TypeOK
  <2>. QED
    BY <2>1, <2>2 DEF IInv, InOrder, NoLostWakeup
<1>. QED
  BY <1>1, Invariance, PTL DEF Spec, DrainedBeforeNil

\* The receive buffer and tx implement the abstract ordered stream: each step
\* offers a payload, consumes the next one, stops, or changes nothing abstract.
THEOREM Refinement == Spec => ImplementsOrderedStream
<1>1. Init => Stream!Init
  BY DEF Init, Stream!Init
<1>2. IInv /\ [Next]_vars => [Stream!Next]_<<accepted, consumed, txPc # "exited">>
  <2>. SUFFICES ASSUME IInv, [Next]_vars
                PROVE  Stream!Next \/ UNCHANGED <<accepted, consumed, txPc # "exited">>
    OBVIOUS
  <2>. DEFINE Same == accepted' = accepted /\ consumed' = consumed
  <2>1. ASSUME NEW s \in Seqs, ReceiveUnordered(s)
        PROVE  Stream!Next \/ UNCHANGED <<accepted, consumed, txPc # "exited">>
    <3>1. txPc' = txPc /\ consumed' = consumed
      BY <2>1 DEF ReceiveUnordered, txVars
    <3>2. accepted' = accepted \/ accepted' = accepted \cup {s}
      BY <2>1 DEF ReceiveUnordered, ReceiveDuplicate, ReceiveDropped, ReceiveBuffered
    <3>. QED
      BY <3>1, <3>2 DEF Stream!Next, Stream!Offer
  <2>2. CASE Same /\ txPc # "exited" /\ txPc' = "exited"
    BY <2>2 DEF Stream!Next, Stream!Stop
  <2>3. CASE Same /\ txPc' # "exited" /\ txPc # "exited"
    BY <2>3
  <2>4. CASE Same /\ txPc' = txPc
    BY <2>4
  <2>5. CASE /\ txPc = "send" /\ txPc' = "clear" /\ accepted' = accepted
             /\ consumed' = Append(consumed, current[1])
    <3>1. current[1] = Len(consumed)
      BY <2>5 DEF IInv, TypeOK, InOrder, Pending
    <3>2. Len(consumed) \in accepted
      <4>0. Pending = 1 /\ Len(consumed) \in Nat /\ Len(txQueue) \in Nat
        BY <2>5 DEF IInv, TypeOK, Pending
      <4>1. Len(consumed) \in 0..sequence
        BY <4>0 DEF IInv, TypeOK, InOrder
      <4>. QED
        BY <4>1 DEF IInv, AcceptedIsRetained
    <3>. QED
      BY <2>5, <3>1, <3>2 DEF Stream!Next, Stream!Consume
  <2>6. CASE CloseXgToClient \/ UNCHANGED vars
    BY <2>4, <2>6 DEF CloseXgToClient, vars, txVars
  <2>7. CASE NextPayloadPoll \/ NextPayloadLocked \/ NextPayloadSelect \/ NextPayloadDrain
    BY <2>2, <2>3, <2>7 DEF NextPayloadPoll, NextPayloadLocked, NextPayloadSelect,
                            NextPayloadDrain, Take, TxGoto
  <2>8. CASE SendPayload \/ WritePayloadFails \/ ClearPayloadFromSendBuffer
    BY <2>2, <2>3, <2>5, <2>8 DEF SendPayload, WritePayloadFails, TxExit,
                                  ClearPayloadFromSendBuffer
  <2>. QED
    BY <2>1, <2>6, <2>7, <2>8 DEF Next, TxStep
<1>. QED
  BY <1>1, <1>2, Invariance, PTL DEF Spec, ImplementsOrderedStream, Stream!Spec
=============================================================================
