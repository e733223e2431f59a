------------------------- MODULE LinkReceiveBuffer -------------------------
(* The receive half of an xgress: LinkReceiveBuffer                          *)
(* (xgress/link_receive_buffer.go) and the Xgress.tx loop (xgress/xgress.go) *)
(* that drains it. Payloads arrive from the fabric in any order, any number  *)
(* of times, from the ingester goroutine; tx is the only consumer. A payload *)
(* is its sequence number; its length and flags are constants.               *)
EXTENDS Integers, Sequences, FiniteSetsExt, Functions

CONSTANTS
    MaxSeq,        \* bound: highest sequence number the peer uses (< 2^31)
    DataLen,       \* DataLen[s]: bytes of payload s
    Kind,          \* Kind[s]: what tx does with payload s
    TxQueueSize,   \* capacity of the txQueue channel
    RxBufferSize,  \* Options.RxBufferSize, the size at which payloads drop
    Word           \* bound: sizes are uint32, so arithmetic is modulo Word

Seqs == 0..MaxSeq

\* "start": CircuitStart flag, not written; "data": written to the client;
\* "part": a chunk that does not complete a payload, not written;
\* "end": CircuitEnd or EOF flag, tx stops.
Kinds == {"start", "data", "part", "end"}

ASSUME MaxSeqAssumption == MaxSeq \in Nat
ASSUME DataLenAssumption == DataLen \in [Seqs -> Nat]
ASSUME KindAssumption == Kind \in [Seqs -> Kinds]
ASSUME TxQueueAssumption == TxQueueSize \in Nat \ {0}
ASSUME RxBufferAssumption == RxBufferSize \in Nat
ASSUME WordAssumption == Word \in Nat \ {0}

VARIABLES
    tree,         \* sequence numbers held in the btree
    sequence,     \* last sequence number moved to txQueue
    maxSequence,  \* highest sequence number ever put in the tree
    size,         \* bytes held, a uint32
    txQueue,      \* the channel between queueNext and NextPayload
    closeNotify,  \* Xgress.closeNotify is closed
    txPc,         \* where the tx goroutine is
    current,      \* payload tx holds, as a sequence of at most one
    consumed,     \* history: payloads tx finished with, in order
    accepted      \* history: sequence numbers ReceiveUnordered returned true for

bufVars == <<tree, sequence, maxSequence, size, txQueue>>
txVars  == <<txPc, current, consumed>>
vars    == <<bufVars, txVars, closeNotify, accepted>>

TxPcs == {"poll", "lock", "select", "drain", "send", "clear", "exited"}

Init ==
    /\ tree = {} /\ sequence = -1 /\ maxSequence = 0 /\ size = 0
    /\ txQueue = <<>>
    /\ closeNotify = FALSE
    /\ txPc = "poll" /\ current = <<>> /\ consumed = <<>>
    /\ accepted = {}

-----------------------------------------------------------------------------
(* queueNext: moves the leftmost payload of tree t to txQueue when it is the *)
(* next in sequence and the channel has room.                                *)

Leftmost(t, s) == s \in t /\ \A k \in t : s <= k

CanQueue(t) == Leftmost(t, sequence + 1) /\ Len(txQueue) < TxQueueSize

\* Mutant: the leftmost payload is moved even when it is beyond a gap.
QueueNextSkipsGap(t) ==
    IF t # {} /\ Len(txQueue) < TxQueueSize
    THEN /\ tree' = t \ {Min(t)}
         /\ txQueue' = Append(txQueue, Min(t))
         /\ sequence' = Min(t)
    ELSE /\ tree' = t
         /\ UNCHANGED <<txQueue, sequence>>

QueueNext(t) ==
    \/ /\ CanQueue(t)
       /\ tree' = t \ {sequence + 1}
       /\ txQueue' = Append(txQueue, sequence + 1)
       /\ sequence' = sequence + 1
    \/ /\ ~CanQueue(t)
       /\ tree' = t
       /\ UNCHANGED <<txQueue, sequence>>

(* ReceiveUnordered, called from the ingester goroutine. It runs under the   *)
(* buffer's lock; TRUE results are acknowledged to the peer.                 *)

Duplicate(s) == s <= sequence

\* Mutant: a payload at or below maxSequence is dropped as well.
OverflowsBelowMax(s) == size > RxBufferSize

Overflows(s) == size > RxBufferSize /\ s > maxSequence

ReceiveDuplicate(s) ==
    /\ Duplicate(s)
    /\ accepted' = accepted \cup {s}
    /\ UNCHANGED bufVars

ReceiveDropped(s) ==
    /\ ~Duplicate(s)
    /\ Overflows(s)
    /\ UNCHANGED <<bufVars, accepted>>

Put(s) ==
    IF s \in tree
    THEN UNCHANGED <<size, maxSequence>>
    ELSE /\ size' = (size + DataLen[s]) % Word
         /\ maxSequence' = IF s > maxSequence THEN s ELSE maxSequence

ReceiveBuffered(s) ==
    /\ ~Duplicate(s)
    /\ ~Overflows(s)
    /\ Put(s)
    /\ QueueNext(tree \cup {s})
    /\ accepted' = accepted \cup {s}

ReceiveUnordered(s) ==
    /\ ReceiveDuplicate(s) \/ ReceiveDropped(s) \/ ReceiveBuffered(s)
    /\ UNCHANGED <<txVars, closeNotify>>

(* CloseXgToClient: Unrouted, PeerClosed, Close or a failed read.            *)
CloseXgToClient ==
    /\ ~closeNotify
    /\ closeNotify' = TRUE
    /\ UNCHANGED <<bufVars, txVars, accepted>>

-----------------------------------------------------------------------------
(* NextPayload and the tx loop. Each select and each locked section is a     *)
(* step of its own.                                                          *)

Take ==
    /\ txQueue # <<>>
    /\ current' = <<Head(txQueue)>>
    /\ txQueue' = Tail(txQueue)
    /\ txPc' = "send"
    /\ UNCHANGED <<tree, sequence, maxSequence, size, consumed, closeNotify, accepted>>

TxGoto(pc) ==
    /\ txPc' = pc
    /\ UNCHANGED <<bufVars, current, consumed, closeNotify, accepted>>

NextPayloadPoll ==
    /\ txPc = "poll"
    /\ Take \/ (txQueue = <<>> /\ TxGoto("lock"))

\* Mutant: NextPayload waits without moving what the tree holds.
NextPayloadSkipsQueueNext ==
    /\ txPc = "lock"
    /\ TxGoto("select")

NextPayloadLocked ==
    /\ txPc = "lock"
    /\ QueueNext(tree)
    /\ txPc' = "select"
    /\ UNCHANGED <<maxSequence, size, current, consumed, closeNotify, accepted>>

NextPayloadSelect ==
    /\ txPc = "select"
    /\ Take \/ (closeNotify /\ TxGoto("drain"))

\* Mutant: a closed xgress returns nil without looking at txQueue again.
NextPayloadDropsTail ==
    /\ txPc = "drain"
    /\ TxGoto("exited")

NextPayloadDrain ==
    /\ txPc = "drain"
    /\ Take \/ (txQueue = <<>> /\ TxGoto("exited"))

(* sendPayload for the payload in hand. A circuit end closes the client side *)
(* and leaves the payload's bytes counted; a write error closes the xgress.  *)
TxExit ==
    /\ closeNotify' = TRUE
    /\ txPc' = "exited"
    /\ UNCHANGED <<bufVars, current, consumed, accepted>>

\* Mutant: the payload is handed to the client and tx returns to the head of
\* the loop with it still in hand.
SendPayloadAgain ==
    /\ txPc = "send"
    /\ \/ /\ Kind[current[1]] # "end"
          /\ txPc' \in {"send", "clear"}
          /\ consumed' = Append(consumed, current[1])
          /\ Len(consumed) < MaxSeq + 2
          /\ UNCHANGED <<bufVars, current, closeNotify, accepted>>
       \/ Kind[current[1]] = "end" /\ TxExit

SendPayload ==
    /\ txPc = "send"
    /\ \/ /\ Kind[current[1]] # "end"
          /\ txPc' = "clear"
          /\ consumed' = Append(consumed, current[1])
          /\ UNCHANGED <<bufVars, current, closeNotify, accepted>>
       \/ Kind[current[1]] = "end" /\ TxExit

WritePayloadFails ==
    /\ txPc = "send"
    /\ Kind[current[1]] = "data"
    /\ TxExit

ClearPayloadFromSendBuffer ==
    /\ txPc = "clear"
    /\ size' = (size - DataLen[current[1]]) % Word
    /\ txPc' = "poll"
    /\ current' = <<>>
    /\ UNCHANGED <<tree, sequence, maxSequence, txQueue, consumed, closeNotify, accepted>>

TxStep ==
    \/ NextPayloadPoll \/ NextPayloadLocked \/ NextPayloadSelect
    \/ NextPayloadDrain \/ SendPayload \/ WritePayloadFails
    \/ ClearPayloadFromSendBuffer

Next ==
    \/ \E s \in Seqs : ReceiveUnordered(s)
    \/ CloseXgToClient
    \/ TxStep

Spec == Init /\ [][Next]_vars

-----------------------------------------------------------------------------
(* Properties.                                                               *)

\* The buffer's state has its type; txQueue keeps its capacity, size its width,
\* and tx holds a payload while it sends and clears it.
TypeOK ==
    /\ tree \in SUBSET Seqs
    /\ sequence \in -1..MaxSeq
    /\ maxSequence \in Seqs
    /\ size \in 0..(Word - 1)
    /\ txQueue \in Seq(Seqs) /\ Len(txQueue) <= TxQueueSize
    /\ closeNotify \in BOOLEAN
    /\ txPc \in TxPcs
    /\ current \in Seq(Seqs) /\ Len(current) <= 1
    /\ txPc \in {"send", "clear"} => Len(current) = 1
    /\ consumed \in Seq(Seqs)
    /\ accepted \in SUBSET Seqs

\* The payload tx has taken from txQueue and not yet handed on.
Pending == IF txPc = "clear" THEN 0 ELSE Len(current)

\* In-order, gapless, exactly-once delivery: the payloads consumed by tx, the
\* one it holds and those in txQueue are 0, 1, 2, ... up to sequence, however
\* ReceiveUnordered interleaves with NextPayload and whatever order, or how
\* often, payloads arrive.
InOrder ==
    /\ \A i \in 1..Len(consumed) : consumed[i] = i - 1
    /\ Pending = 1 => current[1] = Len(consumed)
    /\ \A i \in 1..Len(txQueue) : txQueue[i] = Len(consumed) + Pending + i - 1
    /\ sequence + 1 = Len(consumed) + Pending + Len(txQueue)

\* No lost wake-up: each call moves at most one payload to txQueue, yet tx
\* never blocks in NextPayload's select (nor leaves it for closeNotify) with an
\* empty txQueue while the tree already holds the next payload.
NoLostWakeup ==
    txPc \in {"select", "drain"} /\ txQueue = <<>> => sequence + 1 \notin tree

\* A payload whose receipt was acknowledged is never lost, and nothing else is
\* held: the acknowledged payloads are those in the tree and those put on their
\* way to the client.
AcceptedIsRetained == accepted = tree \cup 0..sequence

\* The drop rule cannot wedge the circuit: the payload tx needs next is only
\* ever dropped while tx still has bytes in hand to release.
DropNeverWedges ==
    Overflows(sequence + 1) => txQueue # <<>> \/ current # <<>>

\* "this still allows already queued data to flow to the client"
\* (Xgress.Unrouted): when NextPayload answers nil because the xgress closed,
\* every contiguous payload received so far has been consumed.
DrainedBeforeNil ==
    [][txPc = "drain" /\ txPc' = "exited" =>
           /\ sequence + 1 \notin tree
           /\ Len(consumed) = sequence + 1]_vars

\* The buffer and tx implement the ordered stream.
Stream == INSTANCE OrderedStream WITH available <- accepted, open <- txPc # "exited"
ImplementsOrderedStream == Stream!Spec
=============================================================================
