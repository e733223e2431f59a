---------------------------- MODULE XgressClose ----------------------------
(* How a circuit ends: the close and half-close protocol of the two xgresses *)
(* of a circuit (xgress/xgress.go, the close path of                         *)
(* xgress/link_send_buffer.go) and of the edgeConns that use them            *)
(* (zt/edge/network/conn.go). Each direction is an ordered stream, as module *)
(* XgressFlow shows: payloads arrive in any order and are consumed in        *)
(* sequence. Timers may run out at any time after they are set.              *)
EXTENDS Integers, Sequences, FiniteSets

CONSTANTS Envs,      \* the environments considered
          MaxData    \* bound: writes of each client

E == {"initiator", "terminator"}

\* The sides whose client writes, may call CloseWrite, may call Close; those
\* whose channel to the router may close; and the payloads with data in flight
\* before the gate shuts.
Env == [writers : SUBSET E, halfClosers : SUBSET E, closers : SUBSET E,
        failing : SUBSET E, window : Nat]

ASSUME CloseAssumption == Envs \subseteq Env /\ MaxData \in Nat

Other(e) == IF e = "initiator" THEN "terminator" ELSE "initiator"

VARIABLES
    out,        \* out[e]: the payloads e numbered, in sequence: kind and state
    got,        \* got[e]: payloads of the other side its receive buffer took
    acked,      \* acked[e]: data of out[e] its send buffer knows arrived
    consumed,   \* consumed[e]: number of payloads its tx goroutine finished with
    xg,         \* xg[e]: the Xgress
    conn,       \* conn[e]: the edgeConn
    env,        \* the environment of this circuit, which never changes
    written,    \* history: data whose Write had returned when sentFIN was set
    aborted     \* history: e closed without waiting for its send buffer

streamVars == <<out, got, acked, consumed>>
historyVars == <<written, aborted>>
vars == <<streamVars, xg, conn, env, historyVars>>

Payload(kind, st) == [kind |-> kind, st |-> st]

NewXgress(started) ==
    [tx |-> "loop", started |-> started, closedTxer |-> FALSE, bufferClosed |-> FALSE,
     closeWhenEmpty |-> FALSE, closedFlag |-> FALSE, pending |-> {}]

\* closer is the payload that CloseRxTimeout waits to hand over, or 0.
NewConn ==
    [sentFIN |-> FALSE, closed |-> FALSE, stateClosed |-> FALSE, closer |-> 0, channel |-> "up"]

\* Start: the initiator has sent its circuit start; the terminator's send buffer
\* runs once it arrives.
Init ==
    /\ out = [e \in E |-> IF e = "initiator" THEN <<Payload("start", "sent")>> ELSE <<>>]
    /\ got = [e \in E |-> {}] /\ acked = [e \in E |-> {}] /\ consumed = [e \in E |-> 0]
    /\ xg = [e \in E |-> NewXgress(e = "initiator")]
    /\ conn = [e \in E |-> NewConn] /\ env \in Envs
    /\ written = [e \in E |-> {}] /\ aborted = [e \in E |-> FALSE]

\* Numbers a payload; a payload sent over a closed channel is lost.
Sends(e, kind, st) == out' = [out EXCEPT ![e] = Append(@, Payload(kind, st))]

Wire(e) == IF conn[e].channel = "up" THEN "sent" ELSE "lost"

-----------------------------------------------------------------------------
(* CloseXgToClient and LinkSendBuffer.Close each set a flag and then look at *)
(* the other's; Close sets closedFlag first, sends the end of circuit past   *)
(* the send buffer, and then sets both flags. xg.pending holds the second    *)
(* halves still to come, whichever goroutines run them.                      *)

\* CloseXgToClient, first half.
CloseTxer(x) == [x EXCEPT !.closedTxer = TRUE, !.pending = @ \cup {"txer"}]

\* LinkSendBuffer.Close, first half.
CloseBuffer(x) == [x EXCEPT !.bufferClosed = TRUE, !.pending = @ \cup {"buffer"}]

\* Close, first half, for e whose xgress is to be x otherwise.
Close(e, x) ==
    IF x.closedFlag
    THEN xg' = [xg EXCEPT ![e] = x] /\ UNCHANGED out
    ELSE /\ xg' = [xg EXCEPT ![e] = [x EXCEPT !.closedFlag = TRUE, !.pending = @ \cup {"close"}]]
         /\ Sends(e, "end", Wire(e))

\* Close, second half; tx goes on if it was the caller.
CloseRest(e) ==
    /\ "close" \in xg[e].pending
    /\ xg' = [xg EXCEPT ![e].closedTxer = TRUE, ![e].bufferClosed = TRUE,
                        ![e].pending = @ \ {"close"},
                        ![e].tx = IF @ = "closing" THEN "done" ELSE @]
    /\ UNCHANGED <<env, streamVars, conn, historyVars>>

\* CloseXgToClient, second half.
CloseIfBufferClosed(e) ==
    LET x == [xg[e] EXCEPT !.pending = @ \ {"txer"}] IN
    /\ "txer" \in xg[e].pending
    /\ IF x.bufferClosed THEN Close(e, x) ELSE xg' = [xg EXCEPT ![e] = x] /\ UNCHANGED out
    /\ UNCHANGED <<env, got, acked, consumed, conn, historyVars>>

\* LinkSendBuffer.Close, second half.
closeIfRxAndTxDone(e) ==
    LET x == [xg[e] EXCEPT !.pending = @ \ {"buffer"}] IN
    /\ "buffer" \in xg[e].pending
    /\ IF x.closedTxer THEN Close(e, x) ELSE xg' = [xg EXCEPT ![e] = x] /\ UNCHANGED out
    /\ UNCHANGED <<env, got, acked, consumed, conn, historyVars>>

-----------------------------------------------------------------------------
(* The client, through its edgeConn, and the conn's messages.                *)

Data(e) == {i \in DOMAIN out[e] : out[e][i].kind = "data"}

\* A number is taken; Send or SendFails ends the call.
Write(e) ==
    /\ e \in env.writers /\ ~conn[e].sentFIN /\ ~xg[e].closedFlag
    /\ Cardinality(Data(e)) < MaxData
    /\ \A i \in Data(e) : out[e][i].st # "allocated"
    /\ Sends(e, "data", "allocated")
    /\ UNCHANGED <<env, got, acked, consumed, xg, conn, historyVars>>

\* sentFIN: what was written by now counts as written.
Finishes(e) ==
    written' = IF conn[e].sentFIN THEN written
               ELSE [written EXCEPT ![e] = {i \in Data(e) : out[e][i].st = "sent"}]

\* CloseRxTimeout, for e whose xgress and conn are to be x and c otherwise:
\* sendEOF takes a number and waits until the send buffer takes the payload.
CloseRxTimeout(e, x, c) ==
    IF x.bufferClosed
    THEN /\ xg' = [xg EXCEPT ![e] = [x EXCEPT !.closeWhenEmpty = TRUE]]
         /\ conn' = [conn EXCEPT ![e] = c]
         /\ UNCHANGED out
    ELSE /\ xg' = [xg EXCEPT ![e] = x]
         /\ conn' = [conn EXCEPT ![e] = [c EXCEPT !.closer = Len(out[e]) + 1]]
         /\ Sends(e, "eof", "allocated")

\* CloseRxTimeout goes on when the EOF is sent or refused.
CloseWhenEmpty(e) ==
    /\ conn[e].closer # 0
    /\ out[e][conn[e].closer].st # "allocated"
    /\ conn' = [conn EXCEPT ![e].closer = 0]
    /\ xg' = [xg EXCEPT ![e].closeWhenEmpty = TRUE]
    /\ UNCHANGED <<env, streamVars, historyVars>>

CloseWrite(e) ==
    /\ e \in env.halfClosers /\ ~conn[e].sentFIN /\ conn[e].closer = 0
    /\ CloseRxTimeout(e, xg[e], [conn[e] EXCEPT !.sentFIN = TRUE])
    /\ Finishes(e)
    /\ UNCHANGED <<env, got, acked, consumed, aborted>>

\* edgeConn.close: pending writes are cancelled, then Xgress.PeerClosed.
ConnClose(e, channel) ==
    /\ conn[e].closer = 0
    /\ CloseRxTimeout(e, CloseTxer(xg[e]),
                      [conn[e] EXCEPT !.sentFIN = TRUE, !.closed = TRUE, !.channel = channel])
    /\ Finishes(e)
    /\ UNCHANGED <<env, got, acked, consumed, aborted>>

PeerClosed(e) == e \in env.closers /\ ~conn[e].closed /\ ConnClose(e, conn[e].channel)

\* The channel to the router closes; HandleMuxClose closes the conn.
HandleMuxClose(e) ==
    /\ e \in env.failing /\ conn[e].channel = "up"
    /\ IF conn[e].closed
       THEN conn' = [conn EXCEPT ![e].channel = "closing"]
            /\ UNCHANGED <<env, streamVars, xg, historyVars>>
       ELSE ConnClose(e, "closing")

\* HandleMuxClose, after conn.close has returned.
MuxCloseXgress(e) ==
    /\ conn[e].channel = "closing" /\ conn[e].closer = 0
    /\ Close(e, xg[e])
    /\ conn' = [conn EXCEPT ![e].channel = "down"]
    /\ aborted' = [aborted EXCEPT ![e] = TRUE]
    /\ UNCHANGED <<env, got, acked, consumed, written>>

Gone(e) == xg[e].closedFlag \/ conn[e].channel # "up"

\* Mutant: the message is taken only by an xgress that still sends.
StateClosedIfSending(e) ==
    /\ Gone(Other(e)) /\ conn[e].channel = "up"
    /\ ~conn[e].closed /\ ~conn[e].stateClosed /\ ~xg[e].bufferClosed
    /\ xg' = [xg EXCEPT ![e] = CloseBuffer(@)]
    /\ conn' = [conn EXCEPT ![e].sentFIN = TRUE, ![e].stateClosed = TRUE]
    /\ Finishes(e)
    /\ UNCHANGED <<env, streamVars, aborted>>

\* AcceptMessage: a state closed message of the router, which ends a circuit that
\* has lost its other side. A closed conn ignores it.
StateClosed(e) ==
    /\ Gone(Other(e)) /\ conn[e].channel = "up"
    /\ ~conn[e].closed /\ ~conn[e].stateClosed
    /\ xg' = [xg EXCEPT ![e] = CloseBuffer(@)]
    /\ conn' = [conn EXCEPT ![e].sentFIN = TRUE, ![e].stateClosed = TRUE]
    /\ Finishes(e)
    /\ UNCHANGED <<env, streamVars, aborted>>

\* Read comes to that message in the readQ and closes the conn.
ReadStateClosed(e) ==
    conn[e].stateClosed /\ ~conn[e].closed /\ ConnClose(e, conn[e].channel)

-----------------------------------------------------------------------------
(* The send buffer and the fabric.                                           *)

\* Payloads in e's send buffer; an end of circuit does not go through it. Only
\* the delay of the acks for data matters, to the window.
Unacked(e, i) ==
    CASE out[e][i].kind = "data" -> i \notin acked[e]
      [] out[e][i].kind = "end" -> FALSE
      [] OTHER -> i \notin got[Other(e)]

Buffered(e) == {i \in DOMAIN out[e] : out[e][i].st \in {"sent", "lost"} /\ Unacked(e, i)}

\* isBlocked, and the conditions run adds to it.
Gated(e) == Cardinality(Buffered(e) \cap Data(e)) > env.window /\ ~xg[e].closeWhenEmpty

State(e, i, st) == out' = [out EXCEPT ![e][i].st = st]

\* run goes on until it notices that the buffer is closed, and may take a payload
\* first; but it retransmits no more.
Running(e) == xg[e].started /\ ~xg[e].bufferClosed

\* run takes the payload and the caller forwards it.
Send(e, i) ==
    /\ out[e][i].st = "allocated"
    /\ xg[e].started /\ ~Gated(e)
    /\ State(e, i, Wire(e))
    /\ UNCHANGED <<env, got, acked, consumed, xg, conn, historyVars>>

\* The buffer is closed or the write cancelled; the number stays unused.
SendFails(e, i) ==
    /\ out[e][i].st = "allocated"
    /\ xg[e].bufferClosed \/ (conn[e].closed /\ i \in Data(e))
    /\ State(e, i, "hole")
    /\ UNCHANGED <<env, got, acked, consumed, xg, conn, historyVars>>

\* A WriteFailed closes the send buffer as it arrives.
SendPayload(x, kind) == IF kind = "wfail" THEN CloseBuffer(x) ELSE x

\* The ingester: the start payload starts the send buffer.
acceptPayload(x, kind) == IF kind = "start" THEN [x EXCEPT !.started = TRUE] ELSE x

\* Payload i of the other side arrives at e.
HandleXgPayload(e, i) ==
    LET p == out[Other(e)][i] IN
    /\ p.st = "sent" /\ i \notin got[e]
    /\ ~xg[e].closedFlag /\ conn[e].channel = "up"
    /\ got' = [got EXCEPT ![e] = @ \cup {i}]
    /\ xg' = [xg EXCEPT ![e] = acceptPayload(SendPayload(@, p.kind), p.kind)]
    /\ UNCHANGED <<env, out, acked, consumed, conn, historyVars>>

HandleXgAcknowledgement(e, i) ==
    /\ Running(e) /\ conn[e].channel = "up"
    /\ i \in (Data(e) \ acked[e]) \cap got[Other(e)]
    /\ acked' = [acked EXCEPT ![e] = @ \cup {i}]
    /\ UNCHANGED <<env, out, got, consumed, xg, conn, historyVars>>

\* RetransmitPayload finds the channel closed.
RetransmitFails(e) ==
    /\ Running(e) /\ conn[e].channel # "up" /\ Buffered(e) # {}
    /\ ~xg[e].closedFlag
    /\ Close(e, xg[e])
    /\ aborted' = [aborted EXCEPT ![e] = TRUE]
    /\ UNCHANGED <<env, got, acked, consumed, conn, written>>

Closing(e) == Running(e) /\ xg[e].closeWhenEmpty

\* Mutant: checkForClose does not look at what is unacknowledged.
checkForCloseUnacked(e) ==
    /\ Closing(e)
    /\ xg' = [xg EXCEPT ![e] = CloseBuffer(@)]
    /\ UNCHANGED <<env, streamVars, conn, historyVars>>

\* checkForClose, five seconds on: nothing but an EOF is unacknowledged.
checkForClose(e) ==
    /\ Closing(e)
    /\ \/ Buffered(e) = {}
       \/ \E i \in Buffered(e) : Buffered(e) = {i} /\ out[e][i].kind = "eof"
    /\ xg' = [xg EXCEPT ![e] = CloseBuffer(@)]
    /\ UNCHANGED <<env, streamVars, conn, historyVars>>

\* checkForClose, when MaxCloseWait has passed.
MaxCloseWait(e) ==
    /\ Closing(e)
    /\ xg' = [xg EXCEPT ![e] = CloseBuffer(@)]
    /\ aborted' = [aborted EXCEPT ![e] = TRUE]
    /\ UNCHANGED <<env, streamVars, conn, written>>

\* CircuitStartTimeout runs out.
terminateIfNotStarted(e) ==
    /\ ~xg[e].started /\ ~xg[e].closedFlag
    /\ Close(e, xg[e])
    /\ aborted' = [aborted EXCEPT ![e] = TRUE]
    /\ UNCHANGED <<env, got, acked, consumed, conn, written>>

-----------------------------------------------------------------------------
(* The tx goroutine.                                                         *)

Coming(e) == consumed[e] + 1

\* The deferred function of tx: sendWriteFailed, if no end was received.
sendWriteFailed(e) ==
    IF xg[e].bufferClosed THEN UNCHANGED out ELSE Sends(e, "wfail", "allocated")

TxConsumes(e) ==
    /\ xg[e].tx = "loop" /\ Coming(e) \in got[e]
    /\ consumed' = [consumed EXCEPT ![e] = @ + 1]
    /\ xg' = IF out[Other(e)][Coming(e)].kind \in {"eof", "end"}
             THEN [xg EXCEPT ![e] = [CloseTxer(@) EXCEPT !.tx = "done"]]
             ELSE xg
    /\ UNCHANGED <<env, out, got, acked, conn, historyVars>>

\* WritePayload fails: the conn is closed and its readQ takes nothing more.
TxWriteFails(e) ==
    /\ xg[e].tx = "loop" /\ Coming(e) \in got[e]
    /\ out[Other(e)][Coming(e)].kind \in {"data", "wfail"}
    /\ conn[e].closed
    /\ IF xg[e].closedFlag
       THEN xg' = [xg EXCEPT ![e].tx = "done"] /\ sendWriteFailed(e)
       ELSE Close(e, [xg[e] EXCEPT !.tx = "closing"])
    /\ aborted' = [aborted EXCEPT ![e] = TRUE]
    /\ UNCHANGED <<env, got, acked, consumed, conn, written>>

\* NextPayload returns nil.
TxNil(e) ==
    /\ xg[e].tx = "loop" /\ Coming(e) \notin got[e]
    /\ xg[e].closedTxer
    /\ xg' = [xg EXCEPT ![e].tx = "done"]
    /\ sendWriteFailed(e)
    /\ UNCHANGED <<env, got, acked, consumed, conn, historyVars>>

TxStep(e) == TxConsumes(e) \/ TxWriteFails(e) \/ TxNil(e)

Next ==
    \E e \in E :
        \/ Write(e) \/ CloseWrite(e) \/ PeerClosed(e) \/ HandleMuxClose(e) \/ StateClosed(e)
        \/ ReadStateClosed(e)
        \/ CloseRest(e) \/ CloseIfBufferClosed(e) \/ closeIfRxAndTxDone(e)
        \/ CloseWhenEmpty(e) \/ MuxCloseXgress(e) \/ TxStep(e)
        \/ RetransmitFails(e) \/ checkForClose(e) \/ MaxCloseWait(e)
        \/ terminateIfNotStarted(e)
        \/ \E i \in DOMAIN out[e] : Send(e, i) \/ SendFails(e, i) \/ HandleXgAcknowledgement(e, i)
        \/ \E i \in DOMAIN out[Other(e)] : HandleXgPayload(e, i)

Spec == Init /\ [][Next]_vars

(* Goroutines run, timers fire, clients read, what is in a send buffer is    *)
(* retransmitted until it arrives, and the router reports a circuit that has *)
(* lost a side. Nobody has to write or to close. No step repeats, so it is   *)
(* enough that each side takes some step while it has one to take.           *)
Retransmitted(e, i) ==
    /\ Running(Other(e)) /\ out[Other(e)][i].kind # "end"
    /\ HandleXgPayload(e, i)

GoesOn(e) ==
    \/ CloseRest(e) \/ CloseIfBufferClosed(e) \/ closeIfRxAndTxDone(e) \/ CloseWhenEmpty(e)
    \/ MuxCloseXgress(e) \/ StateClosed(e) \/ ReadStateClosed(e) \/ TxStep(e)
    \/ checkForClose(e) \/ MaxCloseWait(e) \/ terminateIfNotStarted(e) \/ RetransmitFails(e)
    \/ \E i \in DOMAIN out[e] : Send(e, i) \/ SendFails(e, i) \/ HandleXgAcknowledgement(e, i)
    \/ \E i \in DOMAIN out[Other(e)] : Retransmitted(e, i)

Fairness == \A e \in E : WF_vars(GoesOn(e))

FairSpec == Spec /\ Fairness

-----------------------------------------------------------------------------
(* Properties.                                                               *)

\* Nothing written is dropped by a clean end of the circuit: once the send
\* buffer has closed, all that the client wrote before it closed the conn for
\* writing has arrived, unless the other client closed too, a channel closed, or
\* an end was forced (MaxCloseWait, the start timeout, or data that arrived for
\* the closed conn).
CleanCloseDelivers ==
    \A e \in E :
        \/ ~xg[e].bufferClosed \/ conn[Other(e)].closed
        \/ aborted[e] \/ aborted[Other(e)]
        \/ written[e] \subseteq got[Other(e)]

\* When a conn is closed, the tx goroutine of the other side comes to an end, so
\* that a reader there sees the end of the stream, even if the EOF is lost or a
\* cancelled write has left a hole before it; and the conn is rid of its own
\* xgress, also when its channel has closed. The exception is another side that
\* went away with the window shut, which leaves the EOF waiting for
\* acknowledgements for ever.
HeldUp(e) == conn[e].channel = "up" /\ Gone(Other(e)) /\ Gated(e)
CloseEndsBothSides ==
    \A e \in E : conn[e].closed ~> /\ xg[Other(e)].tx = "done"
                                   /\ xg[e].closedFlag \/ HeldUp(e)

=============================================================================
