--------------------------- MODULE Retransmitter ---------------------------
(* xgress/retransmitter.go: the linked list of payloads to send again, its   *)
(* ingester and sender goroutines, and the retxQueued counter of a txPayload *)
(* (xgress/link_send_buffer.go), which the run goroutine of the payload's    *)
(* xgress, the ingester and the sender share without a lock.                 *)
EXTENDS Integers, Sequences, SequencesExt, FiniteSets

CONSTANTS
    Payloads,       \* payloads in send buffers
    Xgresses,       \* each has a run goroutine
    x,              \* x[p]: the xgress payload p belongs to
    IngestSize,     \* capacity of retransmitIngest (16)
    Nil

ASSUME IngestAssumption == IngestSize \in Nat \ {0}
ASSUME PayloadAssumption == Nil \notin Payloads /\ x \in [Payloads -> Xgresses]

VARIABLES
    retxQueued,         \* +1 while queued, +2 once acked
    posting,            \* posting[g]: payload run is sending to retransmitIngest
    list,               \* retxHead, retxTail, the payloads' prev and next, the size
    retransmitIngest, retransmitSend,
    next,               \* the ingester's payload for the sender
    retransmit,         \* the sender's payload
    closeNotify, ingesterDone, senderDone

vars == <<retxQueued, posting, list, retransmitIngest, retransmitSend, next,
          retransmit, closeNotify, ingesterDone, senderDone>>

Empty == [head |-> Nil, tail |-> Nil, size |-> 0,
          prev |-> [p \in Payloads |-> Nil], next |-> [p \in Payloads |-> Nil]]

Init ==
    /\ retxQueued = [p \in Payloads |-> 0]
    /\ posting = [g \in Xgresses |-> Nil]
    /\ list = Empty
    /\ retransmitIngest = <<>> /\ retransmitSend = <<>>
    /\ next = Nil /\ retransmit = Nil
    /\ closeNotify = FALSE /\ ingesterDone = FALSE /\ senderDone = FALSE

isAcked(p) == retxQueued[p] > 1

isRetransmittable(p) == retxQueued[p] = 0

-----------------------------------------------------------------------------
(* The list. The head is sent first; prev leads from the head to the tail.   *)

\* Clear the links of p.
Unlink(l, p) == [l EXCEPT !.prev[p] = Nil, !.next[p] = Nil]

popHead(l) ==
    IF l.head = Nil THEN l
    ELSE LET p == l.head IN
         IF l.prev[p] = Nil
         THEN Unlink([l EXCEPT !.head = Nil, !.tail = Nil, !.size = @ - 1], p)
         ELSE Unlink([l EXCEPT !.head = l.prev[p], !.next[l.prev[p]] = Nil, !.size = @ - 1], p)

\* Mutant: the payload goes to the front.
pushHead(l, p) ==
    IF l.prev[p] # Nil \/ l.next[p] # Nil \/ p = l.head THEN l
    ELSE IF l.head = Nil
    THEN [l EXCEPT !.head = p, !.tail = p, !.size = @ + 1]
    ELSE [l EXCEPT !.prev[p] = l.head, !.next[l.head] = p, !.head = p, !.size = @ + 1]

pushTail(l, p) ==
    IF l.prev[p] # Nil \/ l.next[p] # Nil \/ p = l.head THEN l
    ELSE IF l.head = Nil
    THEN [l EXCEPT !.head = p, !.tail = p, !.size = @ + 1]
    ELSE [l EXCEPT !.next[p] = l.tail, !.prev[l.tail] = p, !.tail = p, !.size = @ + 1]

delete(l, p) ==
    IF p = l.head THEN Unlink(popHead(l), p)
    ELSE IF p = l.tail
    THEN Unlink([l EXCEPT !.tail = l.next[p], !.prev[l.next[p]] = Nil, !.size = @ - 1], p)
    ELSE IF l.prev[p] # Nil
    THEN Unlink([l EXCEPT !.next[l.prev[p]] = l.next[p], !.prev[l.next[p]] = l.prev[p],
                          !.size = @ - 1], p)
    ELSE Unlink(l, p)

-----------------------------------------------------------------------------
(* The run goroutine of an xgress. queue blocks while retransmitIngest is    *)
(* full, closed or not.                                                      *)

Running(g) == posting[g] = Nil

\* LinkSendBuffer.retransmit, one payload: markQueued, queue.
markQueued(p) ==
    /\ Running(x[p])
    /\ isRetransmittable(p)
    /\ retxQueued' = [retxQueued EXCEPT ![p] = @ + 1]
    /\ posting' = [posting EXCEPT ![x[p]] = p]
    /\ UNCHANGED <<list, retransmitIngest, retransmitSend, next, retransmit,
                   closeNotify, ingesterDone, senderDone>>

\* LinkSendBuffer.receiveAcknowledgement: markAcked, and queue if it was queued.
markAcked(p) ==
    /\ Running(x[p])
    /\ ~isAcked(p)
    /\ retxQueued' = [retxQueued EXCEPT ![p] = @ + 2]
    /\ posting' = [posting EXCEPT ![x[p]] = IF retxQueued[p] > 0 THEN p ELSE Nil]
    /\ UNCHANGED <<list, retransmitIngest, retransmitSend, next, retransmit,
                   closeNotify, ingesterDone, senderDone>>

queue(g) ==
    /\ posting[g] # Nil
    /\ Len(retransmitIngest) < IngestSize
    /\ retransmitIngest' = Append(retransmitIngest, posting[g])
    /\ posting' = [posting EXCEPT ![g] = Nil]
    /\ UNCHANGED <<retxQueued, list, retransmitSend, next, retransmit,
                   closeNotify, ingesterDone, senderDone>>

(* The ingester: takes the head of the list when it holds nothing, then      *)
(* waits for a payload to file or for the sender.                            *)

acceptRetransmit(l, p) == IF isAcked(p) THEN delete(l, p) ELSE pushTail(l, p)

\* The ingester's local state when it reaches its select with list l and next n.
Select(l, n) ==
    /\ next' = IF n = Nil THEN l.head ELSE n
    /\ list' = IF n = Nil THEN popHead(l) ELSE l

IngesterAccepts ==
    /\ ~ingesterDone
    /\ retransmitIngest # <<>>
    /\ Select(acceptRetransmit(list, Head(retransmitIngest)), next)
    /\ retransmitIngest' = Tail(retransmitIngest)
    /\ UNCHANGED <<retxQueued, posting, retransmitSend, retransmit, closeNotify,
                   ingesterDone, senderDone>>

IngesterSends ==
    /\ ~ingesterDone
    /\ next # Nil
    /\ retransmitSend = <<>>
    /\ retransmitSend' = <<next>>
    /\ Select(list, Nil)
    /\ UNCHANGED <<retxQueued, posting, retransmitIngest, retransmit, closeNotify,
                   ingesterDone, senderDone>>

IngesterExits ==
    /\ closeNotify /\ ~ingesterDone
    /\ ingesterDone' = TRUE
    /\ UNCHANGED <<retxQueued, posting, list, retransmitIngest, retransmitSend, next,
                   retransmit, closeNotify, senderDone>>

(* The sender.                                                               *)

\* Mutant: the sender returns when it meets an acked payload.
SenderReturns ==
    /\ ~senderDone
    /\ retransmit = Nil
    /\ retransmitSend # <<>>
    /\ retransmitSend' = <<>>
    /\ retransmit' = IF isAcked(Head(retransmitSend)) THEN Nil ELSE Head(retransmitSend)
    /\ senderDone' = isAcked(Head(retransmitSend))
    /\ UNCHANGED <<retxQueued, posting, list, retransmitIngest, next, closeNotify,
                   ingesterDone>>

SenderTakes ==
    /\ ~senderDone
    /\ retransmit = Nil
    /\ retransmitSend # <<>>
    /\ retransmitSend' = <<>>
    /\ retransmit' = IF isAcked(Head(retransmitSend)) THEN Nil ELSE Head(retransmitSend)
    /\ UNCHANGED <<retxQueued, posting, list, retransmitIngest, next, closeNotify,
                   ingesterDone, senderDone>>

\* RetransmitPayload has returned, with or without an error.
dequeued ==
    /\ retransmit # Nil
    /\ retxQueued' = [retxQueued EXCEPT ![retransmit] = @ - 1]
    /\ retransmit' = Nil
    /\ UNCHANGED <<posting, list, retransmitIngest, retransmitSend, next, closeNotify,
                   ingesterDone, senderDone>>

SenderExits ==
    /\ closeNotify /\ ~senderDone /\ retransmit = Nil
    /\ senderDone' = TRUE
    /\ UNCHANGED <<retxQueued, posting, list, retransmitIngest, retransmitSend, next,
                   retransmit, closeNotify, ingesterDone>>

\* The context that owns the retransmitter closes.
Close ==
    /\ ~closeNotify
    /\ closeNotify' = TRUE
    /\ UNCHANGED <<retxQueued, posting, list, retransmitIngest, retransmitSend, next,
                   retransmit, ingesterDone, senderDone>>

Next ==
    \/ \E p \in Payloads : markQueued(p) \/ markAcked(p)
    \/ \E g \in Xgresses : queue(g)
    \/ IngesterAccepts \/ IngesterSends \/ IngesterExits
    \/ SenderTakes \/ dequeued \/ SenderExits
    \/ Close

Spec == Init /\ [][Next]_vars

(* Goroutines are scheduled and RetransmitPayload returns. A select takes a  *)
(* ready case at random, so one that is ready again and again is taken.      *)
Fairness ==
    /\ \A g \in Xgresses : SF_vars(queue(g))
    /\ WF_vars(IngesterAccepts) /\ SF_vars(IngesterSends)
    /\ WF_vars(SenderTakes) /\ WF_vars(dequeued)

FairSpec == Spec /\ Fairness

-----------------------------------------------------------------------------
(* Properties.                                                               *)

\* The list as a sequence, head first: the payloads met along prev.
Listed ==
    LET N == Cardinality(Payloads)
        at[i \in 1..N] == IF i = 1 THEN list.head
                          ELSE IF at[i - 1] = Nil THEN Nil ELSE list.prev[at[i - 1]]
    IN  SelectSeq([i \in 1..N |-> at[i]], LAMBDA p : p # Nil)

One(p) == IF p = Nil THEN <<>> ELSE <<p>>
Waiting == retransmitSend \o One(next) \o Listed \o retransmitIngest

\* The counter, the list and the two goroutines implement the retransmit queue,
\* however acknowledgements interleave with them.
Queue == INSTANCE RetransmitQueue WITH
           pending <- SelectSeq(Waiting, LAMBDA p : ~isAcked(p)), sending <- retransmit
ImplementsRetransmitQueue == Queue!Spec

\* A queued payload is sent again, and can be queued once more, or is acked,
\* unless the retransmitter closes.
EventuallyRetransmitted ==
    \A p \in Payloads : (retxQueued[p] = 1) ~> (retxQueued[p] # 1 \/ closeNotify)
=============================================================================
